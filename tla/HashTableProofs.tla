--------------------------- MODULE HashTableProofs ---------------------------
(***************************************************************************)
(* The hash tables: TableSpec implies TableSound and TableIsMap, for all   *)
(* keys, equivalences and hash functions that agree with them.             *)
(***************************************************************************)
EXTENDS HashTable, ListLemmas, FiniteSetTheorems, TLAPS

\* Same and get_bucket, of the equivalence e and the hash function h.
SameBy(e, a, b) == IF e = "eq" THEN a = b ELSE Class(a) = Class(b)
Bucket(h, len, k) ==
  IF h = "builtin" THEN HashOf(k) % len
  ELSE IF HashOf(k) = Raises \/ HashOf(k) \notin 0..(len - 1) THEN 0 ELSE HashOf(k)

Vals == {1, 2, NotFound}
Vecs == UNION {[len : {n}, at : [0..(n - 1) -> Nat]] : n \in Nat \ {0}}

Cells == [key : Keys, val : Vals]
Pairs == [car : Nat, cdr : Nat]

\* The pairs ps, whose lists end.
Chained(ps) == /\ ps \in Seq(Pairs)
               /\ \A p \in 1..Len(ps) : ps[p].cdr < p

\* The vector v has lists of ps in its buckets.
Held(ps, v) == v \in Vecs /\ \A i \in 0..(v.len - 1) : v.at[i] <= Len(ps)

\* The keys of the pairs.
Keyed(cs, ps) == [p \in 1..Len(ps) |-> cs[ps[p].car].key]

\* The pairs of v in the buckets below i, and in all of them; their cells.
Below(ps, v, i) == {p \in 1..Len(ps) : \E j \in 0..(v.len - 1) : j < i /\ p \in ListFrom(ps, v.at[j])}
Members(ps, v) == {p \in 1..Len(ps) : \E j \in 0..(v.len - 1) : p \in ListFrom(ps, v.at[j])}
CellsOf(ps, S) == {ps[p].car : p \in S}

Placed(h, key, ps, v, n) ==
  \A j \in 0..(v.len - 1) : j < n => \A p \in ListFrom(ps, v.at[j]) : Bucket(h, v.len, key[p]) = j
Once(e, key, S) == \A p, q \in S : SameBy(e, key[p], key[q]) => p = q

StoreOK(cs, ps, vs) ==
  /\ cs \in Seq(Cells) /\ Chained(ps)
  /\ \A p \in 1..Len(ps) : ps[p].car \in 1..Len(cs)
  /\ vs \in Seq(Vecs) /\ vs # <<>> /\ \A n \in 1..Len(vs) : Held(ps, vs[n])

PlacedOK(e, h, key, ps, v, n) ==
  /\ Placed(h, key, ps, v, v.len)
  /\ Once(e, key, Members(ps, v))
  /\ n = Cardinality(CellsOf(ps, Members(ps, v)))

\* The pairs that a growth has copied when it is at the pair ls of bucket i.
Copied(ps, v, i, ls) ==
  {p \in 1..Len(ps) : \E j \in 0..(v.len - 1) :
     /\ p \in ListFrom(ps, v.at[j])
     /\ j < i \/ (j = i /\ p \notin ListFrom(ps, ls))}

\* The growth g of a table with the vector v: the new vector has the cells of
\* the pairs that are copied, and the new key is in neither.
GrowOK(e, h, key, ps, v, g) ==
  /\ g \in [on : {TRUE}, vec : Vecs, i : -1..(v.len - 1), ls : 0..Len(ps), key : Keys, val : {1, NotFound}]
  /\ Held(ps, g.vec)
  /\ Placed(h, key, ps, g.vec, g.vec.len)
  /\ Once(e, key, Members(ps, g.vec))
  /\ \A p \in Members(ps, v) : ~SameBy(e, key[p], g.key)
  /\ g.ls # 0 => g.i >= 0 /\ ListFrom(ps, g.ls) \subseteq ListFrom(ps, v.at[g.i])
  /\ CellsOf(ps, Members(ps, g.vec)) = CellsOf(ps, Copied(ps, v, g.i, g.ls))

\* What a walk that is on its way to the pairs C of bucket i, and those below,
\* knows of the keys: R is all of these pairs.
WalkOK(e, h, key, C, R, seen, kpt, len, i) ==
  /\ Once(e, key, R)
  /\ \A p \in R : \A n \in 1..Len(seen) : ~SameBy(e, key[p], seen[n])
  /\ \A k \in kpt : \/ \E n \in 1..Len(seen) : SameBy(e, seen[n], k)
                    \/ \E p \in R : SameBy(e, key[p], k)
  /\ \A p \in C : Bucket(h, len, key[p]) = i
  /\ \A n \in 1..Len(seen) : Bucket(h, len, seen[n]) >= i

Ahead(ps, w) == ListFrom(ps, IF w.inside THEN ps[w.ls].cdr ELSE w.ls)

Walking(e, h, key, ps, v, w, kpt) ==
  /\ w.i <= v.len /\ (w.inside => w.ls # 0)
  /\ Placed(h, key, ps, v, w.i)
  /\ WalkOK(e, h, key, Ahead(ps, w), Ahead(ps, w) \cup Below(ps, v, w.i), w.seen, kpt, v.len, w.i)

WalkInv(e, h, key, ps, vs, w, kpt) ==
  /\ w \in [on : BOOLEAN, vec : 0..Len(vs), i : Nat, ls : 0..Len(ps), inside : BOOLEAN, seen : Seq(Keys)]
  /\ kpt \subseteq Keys
  /\ \A i, j \in 1..Len(w.seen) : SameBy(e, w.seen[i], w.seen[j]) => i = j
  /\ ~w.on /\ w.vec # 0 => \A k \in kpt : \E n \in 1..Len(w.seen) : SameBy(e, w.seen[n], k)
  /\ w.on => w.vec # 0 /\ Walking(e, h, key, ps, vs[w.vec], w, kpt)

TableInv ==
  /\ eq_fn \in {"eq", "equal"} /\ hash_fn \in {"builtin", "user"}
  /\ StoreOK(cells, pairs, vectors) /\ update \in 0..Len(cells)
  /\ PlacedOK(eq_fn, hash_fn, Keyed(cells, pairs), pairs, buckets, size)
  /\ grow = NoGrowth \/ GrowOK(eq_fn, hash_fn, Keyed(cells, pairs), pairs, buckets, grow)
  /\ WalkInv(eq_fn, hash_fn, Keyed(cells, pairs), pairs, vectors, walk, kept)

-----------------------------------------------------------------------------
(* Lists.                                                                  *)

\* A pair of a chained store refers to an older pair, or to none.
LEMMA ChainedPairs ==
  ASSUME NEW ps, Chained(ps)
  PROVE  /\ Len(ps) \in Nat
         /\ \A p \in 1..Len(ps) : ps[p] \in Pairs /\ ps[p].car \in Nat
                                  /\ ps[p].cdr \in 0..(p - 1) /\ ps[p].cdr \in 0..Len(ps)
<1>1. ps \in Seq(Pairs) /\ \A p \in 1..Len(ps) : ps[p].cdr < p
  BY DEF Chained
<1>2. Len(ps) \in Nat /\ \A p \in 1..Len(ps) : ps[p] \in Pairs
  BY <1>1
<1>3. QED
  BY <1>1, <1>2 DEF Pairs

\* The recursive function in ListFrom is one: cdrs go down.
LEMMA ListFunction ==
  ASSUME NEW ps, Chained(ps)
  PROVE  \E g : g = [p \in 0..Len(ps) |-> IF p = 0 THEN {} ELSE {p} \cup g[ps[p].cdr]]
<1>1. Len(ps) \in Nat /\ \A p \in 1..Len(ps) : ps[p].cdr \in 0..(p - 1)
  BY ChainedPairs
<1>. DEFINE S == {n \in 0..Len(ps) : \E g : g = [p \in 0..n |-> IF p = 0 THEN {} ELSE {p} \cup g[ps[p].cdr]]}
<1>2. ASSUME NEW n \in 0..Len(ps), \A m \in 0..(n - 1) : m \in S
      PROVE  n \in S
  <2>1. CASE n = 0
    <3>1. PICK g : g = [p \in 0..0 |-> {}]
      OBVIOUS
    <3>2. g = [p \in 0..0 |-> IF p = 0 THEN {} ELSE {p} \cup g[ps[p].cdr]]
      BY <3>1
    <3>3. QED
      BY <1>1, <2>1, <3>2
  <2>2. CASE n # 0
    <3>1. n - 1 \in S /\ ps[n].cdr \in 0..(n - 1)
      <4>1. n - 1 \in 0..(n - 1) /\ n \in 1..Len(ps)
        BY <1>1, <2>2
      <4>. HIDE DEF S
      <4>2. QED
        BY <1>1, <1>2, <4>1
    <3>2. PICK g : g = [p \in 0..(n - 1) |-> IF p = 0 THEN {} ELSE {p} \cup g[ps[p].cdr]]
      BY <3>1
    <3>3. PICK f : f = [p \in 0..n |-> IF p = n THEN {n} \cup g[ps[n].cdr] ELSE g[p]]
      OBVIOUS
    <3>4. \A p \in 0..(n - 1) : f[p] = g[p]
      BY <3>3
    <3>5. ASSUME NEW p \in 0..n
          PROVE  f[p] = IF p = 0 THEN {} ELSE {p} \cup f[ps[p].cdr]
      <4>1. CASE p = n
        BY <2>2, <3>1, <3>3, <3>4, <4>1
      <4>2. CASE p # n /\ p # 0
        <5>1. p \in 0..(n - 1) /\ ps[p].cdr \in 0..(n - 1)
          BY <1>1, <4>2
        <5>2. g[p] = {p} \cup g[ps[p].cdr]
          BY <3>2, <4>2, <5>1
        <5>3. QED
          BY <3>4, <4>2, <5>1, <5>2
      <4>3. CASE p = 0
        <5>1. 0 \in 0..(n - 1)
          BY <2>2
        <5>2. g[0] = {}
          BY <3>2, <5>1
        <5>3. QED
          BY <3>4, <4>3, <5>1, <5>2
      <4>4. QED
        BY <4>1, <4>2, <4>3
    <3>6. f = [p \in 0..n |-> IF p = 0 THEN {} ELSE {p} \cup f[ps[p].cdr]]
      BY <3>3, <3>5
    <3>7. QED
      BY <3>6
  <2>3. QED
    BY <2>1, <2>2
<1>. HIDE DEF S
<1>3. \A n \in 0..Len(ps) : n \in S
  BY <1>1, <1>2, UpTo
<1>4. Len(ps) \in S
  BY <1>1, <1>3
<1>5. QED
  BY <1>4 DEF S

\* A list is its first pair and the list behind it.
LEMMA ListUnfold ==
  ASSUME NEW ps, Chained(ps)
  PROVE  /\ ListFrom(ps, 0) = {}
         /\ \A x \in 1..Len(ps) : ListFrom(ps, x) = {x} \cup ListFrom(ps, ps[x].cdr)
<1>1. Len(ps) \in Nat /\ \A p \in 1..Len(ps) : ps[p].cdr \in 0..Len(ps)
  BY ChainedPairs
<1>. DEFINE F(g) == g = [p \in 0..Len(ps) |-> IF p = 0 THEN {} ELSE {p} \cup g[ps[p].cdr]]
<1>2. PICK g : g = CHOOSE f : F(f)
  OBVIOUS
<1>3. F(g)
  <2>1. \E f : F(f)
    BY ListFunction
  <2>2. QED
    BY <1>2, <2>1, Zenon
<1>4. \A x : ListFrom(ps, x) = g[x]
  BY <1>2 DEF ListFrom
<1>5. g[0] = {} /\ \A x \in 1..Len(ps) : g[x] = {x} \cup g[ps[x].cdr]
  BY <1>1, <1>3
<1>6. QED
  BY <1>4, <1>5

\* A list has no pair younger than its first one.
LEMMA ListBound ==
  ASSUME NEW ps, Chained(ps)
  PROVE  \A x \in 0..Len(ps) : ListFrom(ps, x) \subseteq 1..x
<1>1. Len(ps) \in Nat /\ \A p \in 1..Len(ps) : ps[p].cdr \in 0..(p - 1)
  BY ChainedPairs
<1>. DEFINE S == {x \in 0..Len(ps) : ListFrom(ps, x) \subseteq 1..x}
<1>2. ASSUME NEW n \in 0..Len(ps), \A m \in 0..(n - 1) : m \in S
      PROVE  n \in S
  <2>1. CASE n = 0
    BY <2>1, ListUnfold
  <2>2. CASE n # 0
    <3>1. ps[n].cdr \in 0..(n - 1) /\ ListFrom(ps, n) = {n} \cup ListFrom(ps, ps[n].cdr)
      BY <1>1, <2>2, ListUnfold
    <3>2. ListFrom(ps, ps[n].cdr) \subseteq 1..(ps[n].cdr)
      BY <1>2, <3>1
    <3>3. QED
      BY <3>1, <3>2, <2>2
  <2>3. QED
    BY <2>1, <2>2
<1>. HIDE DEF S
<1>3. \A n \in 0..Len(ps) : n \in S
  BY <1>1, <1>2, UpTo
<1>4. QED
  BY <1>3 DEF S

\* Lists of pairs that have the same cdrs.
LEMMA ListAgree ==
  ASSUME NEW ps, NEW qs, Chained(ps), Chained(qs), NEW N \in Nat, N <= Len(ps), N <= Len(qs),
         \A p \in 1..N : qs[p].cdr = ps[p].cdr
  PROVE  \A x \in 0..N : ListFrom(qs, x) = ListFrom(ps, x)
<1>1. /\ Len(ps) \in Nat /\ \A p \in 1..Len(ps) : ps[p].cdr \in 0..(p - 1)
      /\ Len(qs) \in Nat /\ \A p \in 1..Len(qs) : qs[p].cdr \in 0..(p - 1)
  BY ChainedPairs
<1>. DEFINE S == {x \in 0..N : ListFrom(qs, x) = ListFrom(ps, x)}
<1>2. ASSUME NEW n \in 0..N, \A m \in 0..(n - 1) : m \in S
      PROVE  n \in S
  <2>1. CASE n = 0
    BY <2>1, ListUnfold
  <2>2. CASE n # 0
    <3>1. n \in 1..N /\ n \in 1..Len(ps) /\ n \in 1..Len(qs)
      BY <1>1, <2>2
    <3>2. ps[n].cdr \in 0..(n - 1) /\ qs[n].cdr = ps[n].cdr
      BY <1>1, <3>1
    <3>3. ListFrom(ps, n) = {n} \cup ListFrom(ps, ps[n].cdr)
      BY <3>1, ListUnfold
    <3>4. ListFrom(qs, n) = {n} \cup ListFrom(qs, qs[n].cdr)
      BY <3>1, ListUnfold
    <3>5. ListFrom(qs, ps[n].cdr) = ListFrom(ps, ps[n].cdr)
      BY <1>2, <3>2
    <3>6. QED
      BY <3>2, <3>3, <3>4, <3>5
  <2>3. QED
    BY <2>1, <2>2
<1>. HIDE DEF S
<1>3. \A n \in 0..N : n \in S
  BY <1>2, UpTo
<1>4. QED
  BY <1>3 DEF S

\* One more pair.
LEMMA ListPush ==
  ASSUME NEW ps, Chained(ps), NEW r \in Pairs, r.cdr <= Len(ps)
  PROVE  LET qs == Append(ps, r)
             n == Len(ps) + 1
         IN  /\ Chained(qs) /\ Len(qs) = n /\ qs[n] = r /\ \A p \in 1..Len(ps) : qs[p] = ps[p]
             /\ \A x \in 0..Len(ps) : ListFrom(qs, x) = ListFrom(ps, x)
             /\ ListFrom(qs, n) = {n} \cup ListFrom(ps, r.cdr)
<1>1. /\ ps \in Seq(Pairs) /\ Len(ps) \in Nat /\ \A p \in 1..Len(ps) : ps[p].cdr < p
  BY ChainedPairs DEF Chained
<1>2. PICK qs, n : qs = Append(ps, r) /\ n = Len(ps) + 1
  OBVIOUS
<1>3. qs \in Seq(Pairs) /\ Len(qs) = n /\ qs[n] = r /\ \A p \in 1..Len(ps) : qs[p] = ps[p]
  BY <1>1, <1>2
<1>4. r.cdr \in 0..Len(ps)
  BY <1>1 DEF Pairs
<1>5. Chained(qs)
  <2>1. ASSUME NEW p \in 1..Len(qs) PROVE qs[p].cdr < p
    <3>1. p = n \/ p \in 1..Len(ps)
      BY <1>1, <1>2, <1>3
    <3>2. QED
      BY <1>1, <1>2, <1>3, <1>4, <3>1
  <2>2. QED
    BY <1>3, <2>1 DEF Chained
<1>6. \A x \in 0..Len(ps) : ListFrom(qs, x) = ListFrom(ps, x)
  <2>1. Len(ps) <= Len(ps) /\ Len(ps) <= Len(qs) /\ \A p \in 1..Len(ps) : qs[p].cdr = ps[p].cdr
    BY <1>1, <1>2, <1>3
  <2>2. QED
    BY <1>1, <1>5, <2>1, ListAgree
<1>7. ListFrom(qs, n) = {n} \cup ListFrom(ps, r.cdr)
  <2>1. n \in 1..Len(qs)
    BY <1>1, <1>2, <1>3
  <2>2. ListFrom(qs, n) = {n} \cup ListFrom(qs, r.cdr)
    BY <1>3, <1>5, <2>1, ListUnfold
  <2>3. QED
    BY <1>4, <1>6, <2>2
<1>8. QED
  BY <1>2, <1>3, <1>5, <1>6, <1>7

\* A pair of a list is its first or the cdr of another.
LEMMA ListBefore ==
  ASSUME NEW ps, Chained(ps)
  PROVE  \A x \in 0..Len(ps) : \A p \in ListFrom(ps, x) :
           p # x => \E q \in ListFrom(ps, x) : ps[q].cdr = p
<1>1. Len(ps) \in Nat /\ \A p \in 1..Len(ps) : ps[p].cdr \in 0..(p - 1)
  BY ChainedPairs
<1>. DEFINE S == {x \in 0..Len(ps) : \A p \in ListFrom(ps, x) :
                    p # x => \E q \in ListFrom(ps, x) : ps[q].cdr = p}
<1>2. ASSUME NEW n \in 0..Len(ps), \A m \in 0..(n - 1) : m \in S
      PROVE  n \in S
  <2>1. CASE n = 0
    BY <2>1, ListUnfold
  <2>2. CASE n # 0
    <3>1. n \in 1..Len(ps) /\ ps[n].cdr \in 0..(n - 1)
      BY <1>1, <2>2
    <3>2. ListFrom(ps, n) = {n} \cup ListFrom(ps, ps[n].cdr)
      BY <3>1, ListUnfold
    <3>3. ps[n].cdr \in S
      BY <1>2, <3>1
    <3>4. ASSUME NEW p \in ListFrom(ps, n), p # n
          PROVE  \E q \in ListFrom(ps, n) : ps[q].cdr = p
      <4>1. CASE p = ps[n].cdr
        BY <3>2, <4>1
      <4>2. CASE p # ps[n].cdr
        BY <3>2, <3>3, <3>4, <4>2
      <4>3. QED
        BY <4>1, <4>2
    <3>5. QED
      BY <3>4
  <2>3. QED
    BY <2>1, <2>2
<1>. HIDE DEF S
<1>3. \A n \in 0..Len(ps) : n \in S
  BY <1>1, <1>2, UpTo
<1>4. QED
  BY <1>3 DEF S

\* The pair p, which is the cdr of q, is taken out of the lists that q is in.
LEMMA ListUnlink ==
  ASSUME NEW ps, NEW qs, Chained(ps), Chained(qs), Len(qs) = Len(ps),
         NEW q \in 1..Len(ps), NEW p \in 1..Len(ps), ps[q].cdr = p, qs[q].cdr = ps[p].cdr,
         \A x \in 1..Len(ps) : x # q => qs[x].cdr = ps[x].cdr
  PROVE  \A x \in 0..Len(ps) :
           ListFrom(qs, x) = IF q \in ListFrom(ps, x) THEN ListFrom(ps, x) \ {p} ELSE ListFrom(ps, x)
<1>1. /\ Len(ps) \in Nat /\ \A x \in 1..Len(ps) : ps[x].cdr \in 0..(x - 1)
      /\ p < q /\ ps[p].cdr \in 0..(p - 1)
  BY ChainedPairs
<1>. DEFINE P(x) == ListFrom(qs, x) = IF q \in ListFrom(ps, x) THEN ListFrom(ps, x) \ {p} ELSE ListFrom(ps, x)
            S == {x \in 0..Len(ps) : P(x)}
<1>2. \A x \in 0..Len(ps) : ListFrom(ps, x) \subseteq 1..x
  BY ListBound
<1>3. ASSUME NEW n \in 0..Len(ps), \A m \in 0..(n - 1) : m \in S
      PROVE  n \in S
  <2>1. CASE n = 0
    BY <2>1, ListUnfold
  <2>2. CASE n # 0
    <3>1. n \in 1..Len(ps) /\ ps[n].cdr \in 0..(n - 1) /\ ps[n].cdr \in 0..Len(ps)
      BY <1>1, <2>2
    <3>2. ListFrom(ps, n) = {n} \cup ListFrom(ps, ps[n].cdr)
      BY <3>1, ListUnfold
    <3>3. ListFrom(qs, n) = {n} \cup ListFrom(qs, qs[n].cdr)
      BY <3>1, ListUnfold
    <3>4. CASE n = q
      <4>1. ListFrom(ps, p) = {p} \cup ListFrom(ps, ps[p].cdr)
        BY ListUnfold
      <4>2. ps[p].cdr \in 0..(n - 1) /\ ps[p].cdr \in 0..Len(ps)
        BY <1>1, <3>4
      <4>3. P(ps[p].cdr)
        BY <1>3, <4>2
      <4>4. q \notin ListFrom(ps, ps[p].cdr) /\ p \notin ListFrom(ps, ps[p].cdr)
        <5>1. ListFrom(ps, ps[p].cdr) \subseteq 1..(ps[p].cdr)
          BY <1>2, <4>2
        <5>2. QED
          BY <1>1, <5>1
      <4>5. ListFrom(qs, n) = {q} \cup ListFrom(ps, ps[p].cdr)
        BY <3>3, <3>4, <4>3, <4>4
      <4>6. ListFrom(ps, n) = {q, p} \cup ListFrom(ps, ps[p].cdr)
        BY <3>2, <3>4, <4>1
      <4>7. P(n)
        BY <1>1, <4>4, <4>5, <4>6
      <4>8. QED
        BY <4>7
    <3>5. CASE n # q
      <4>1. qs[n].cdr = ps[n].cdr
        BY <3>1, <3>5
      <4>2. P(ps[n].cdr)
        BY <1>3, <3>1
      <4>3. ListFrom(ps, ps[n].cdr) \subseteq 1..(ps[n].cdr)
        BY <1>2, <3>1
      <4>4. q \in ListFrom(ps, ps[n].cdr) => n # p
        BY <1>1, <3>1, <4>3
      <4>5. P(n)
        BY <3>2, <3>3, <3>5, <4>1, <4>2, <4>4
      <4>6. QED
        BY <4>5
    <3>6. QED
      BY <3>4, <3>5
  <2>3. QED
    BY <2>1, <2>2
<1>. HIDE DEF S
<1>4. \A n \in 0..Len(ps) : n \in S
  BY <1>1, <1>3, UpTo
<1>5. QED
  BY <1>4 DEF S

\* The recursive function in scan_bucket.
LEMMA ScanFunction ==
  ASSUME NEW ps, Chained(ps), NEW H
  PROVE  \E g : g = [p \in 0..Len(ps) |-> IF p = 0 THEN 0 ELSE IF p \in H THEN p ELSE g[ps[p].cdr]]
<1>1. Len(ps) \in Nat /\ \A p \in 1..Len(ps) : ps[p].cdr \in 0..(p - 1)
  BY ChainedPairs
<1>. DEFINE S == {n \in 0..Len(ps) :
                    \E g : g = [p \in 0..n |-> IF p = 0 THEN 0 ELSE IF p \in H THEN p ELSE g[ps[p].cdr]]}
<1>2. ASSUME NEW n \in 0..Len(ps), \A m \in 0..(n - 1) : m \in S
      PROVE  n \in S
  <2>1. CASE n = 0
    <3>1. PICK g : g = [p \in 0..0 |-> 0]
      OBVIOUS
    <3>2. g = [p \in 0..0 |-> IF p = 0 THEN 0 ELSE IF p \in H THEN p ELSE g[ps[p].cdr]]
      BY <3>1
    <3>3. QED
      BY <1>1, <2>1, <3>2
  <2>2. CASE n # 0
    <3>1. n - 1 \in S /\ ps[n].cdr \in 0..(n - 1)
      <4>1. n - 1 \in 0..(n - 1) /\ n \in 1..Len(ps)
        BY <1>1, <2>2
      <4>. HIDE DEF S
      <4>2. QED
        BY <1>1, <1>2, <4>1
    <3>2. PICK g : g = [p \in 0..(n - 1) |-> IF p = 0 THEN 0 ELSE IF p \in H THEN p ELSE g[ps[p].cdr]]
      BY <3>1
    <3>3. PICK f : f = [p \in 0..n |-> IF p = n THEN (IF n \in H THEN n ELSE g[ps[n].cdr]) ELSE g[p]]
      OBVIOUS
    <3>4. \A p \in 0..(n - 1) : f[p] = g[p]
      BY <3>3
    <3>5. ASSUME NEW p \in 0..n
          PROVE  f[p] = IF p = 0 THEN 0 ELSE IF p \in H THEN p ELSE f[ps[p].cdr]
      <4>1. CASE p = n
        BY <2>2, <3>1, <3>3, <3>4, <4>1
      <4>2. CASE p # n /\ p # 0
        <5>1. p \in 0..(n - 1) /\ ps[p].cdr \in 0..(n - 1)
          BY <1>1, <4>2
        <5>2. g[p] = IF p \in H THEN p ELSE g[ps[p].cdr]
          BY <3>2, <4>2, <5>1
        <5>3. QED
          BY <3>4, <4>2, <5>1, <5>2
      <4>3. CASE p = 0
        <5>1. 0 \in 0..(n - 1)
          BY <2>2
        <5>2. g[0] = 0
          BY <3>2, <5>1
        <5>3. QED
          BY <3>4, <4>3, <5>1, <5>2
      <4>4. QED
        BY <4>1, <4>2, <4>3
    <3>6. f = [p \in 0..n |-> IF p = 0 THEN 0 ELSE IF p \in H THEN p ELSE f[ps[p].cdr]]
      BY <3>3, <3>5
    <3>7. QED
      BY <3>6
  <2>3. QED
    BY <2>1, <2>2
<1>. HIDE DEF S
<1>3. \A n \in 0..Len(ps) : n \in S
  BY <1>1, <1>2, UpTo
<1>4. Len(ps) \in S
  BY <1>1, <1>3
<1>5. QED
  BY <1>4 DEF S

\* scan_bucket finds a pair with the key if there is one.
LEMMA ScanFinds ==
  ASSUME Chained(pairs), NEW k
  PROVE  \A x \in 0..Len(pairs) :
           \/ scan_bucket(x, k) = 0 /\ \A p \in ListFrom(pairs, x) : ~Same(KeyOf(p), k)
           \/ scan_bucket(x, k) \in ListFrom(pairs, x) /\ Same(KeyOf(scan_bucket(x, k)), k)
<1>1. Len(pairs) \in Nat /\ \A p \in 1..Len(pairs) : pairs[p].cdr \in 0..(p - 1)
  BY ChainedPairs
<1>. DEFINE H == {p \in 1..Len(pairs) : Same(KeyOf(p), k)}
            F(g) == g = [p \in 0..Len(pairs) |-> IF p = 0 THEN 0 ELSE IF Same(KeyOf(p), k) THEN p ELSE g[pairs[p].cdr]]
<1>2. PICK g : g = CHOOSE f : F(f)
  OBVIOUS
<1>3. F(g)
  <2>1. \A p \in 0..Len(pairs) : p # 0 => (p \in H <=> Same(KeyOf(p), k))
    BY <1>1
  <2>. HIDE DEF H
  <2>2. PICK f : f = [p \in 0..Len(pairs) |-> IF p = 0 THEN 0 ELSE IF p \in H THEN p ELSE f[pairs[p].cdr]]
    BY ScanFunction
  <2>3. F(f)
    BY <2>1, <2>2
  <2>4. QED
    BY <1>2, <2>3, Zenon
<1>4. \A x : scan_bucket(x, k) = g[x]
  BY <1>2, Zenon DEF scan_bucket
<1>5. g[0] = 0 /\ \A x \in 1..Len(pairs) : g[x] = IF Same(KeyOf(x), k) THEN x ELSE g[pairs[x].cdr]
  BY <1>1, <1>3
<1>. HIDE DEF F, H
<1>. DEFINE P(x) == \/ g[x] = 0 /\ \A p \in ListFrom(pairs, x) : ~Same(KeyOf(p), k)
                    \/ g[x] \in ListFrom(pairs, x) /\ Same(KeyOf(g[x]), k)
            S == {x \in 0..Len(pairs) : P(x)}
<1>6. ASSUME NEW n \in 0..Len(pairs), \A m \in 0..(n - 1) : m \in S
      PROVE  n \in S
  <2>1. CASE n = 0
    BY <1>5, <2>1, ListUnfold
  <2>2. CASE n # 0
    <3>1. n \in 1..Len(pairs) /\ pairs[n].cdr \in 0..(n - 1)
      BY <1>1, <2>2
    <3>2. ListFrom(pairs, n) = {n} \cup ListFrom(pairs, pairs[n].cdr)
      BY <3>1, ListUnfold
    <3>3. P(pairs[n].cdr)
      BY <1>6, <3>1
    <3>4. P(n)
      BY <1>5, <3>1, <3>2, <3>3
    <3>5. QED
      BY <3>4
  <2>3. QED
    BY <2>1, <2>2
<1>. HIDE DEF S
<1>7. \A n \in 0..Len(pairs) : n \in S
  BY <1>1, <1>6, UpTo
<1>8. QED
  BY <1>4, <1>7 DEF S

-----------------------------------------------------------------------------
(* Keys, buckets and vectors.                                              *)

\* eq? and equal? are equivalences.
LEMMA Equivalence ==
  ASSUME NEW e
  PROVE  /\ \A a : SameBy(e, a, a)
         /\ \A a, b : SameBy(e, a, b) => SameBy(e, b, a)
         /\ \A a, b, c : SameBy(e, a, b) /\ SameBy(e, b, c) => SameBy(e, a, c)
BY DEF SameBy

\* Every key has a bucket, also when its hash function raises or answers too much.
LEMMA BucketRange ==
  ASSUME NEW h, NEW len \in Nat \ {0}, NEW k \in Keys
  PROVE  Bucket(h, len, k) \in 0..(len - 1)
<1>1. HashOf(k) \in Int
  BY HashAssumption
<1>2. QED
  BY <1>1 DEF Bucket

\* Keys that the table takes for one have one bucket.
LEMMA SameBucket ==
  ASSUME NEW e, NEW h, NEW len, NEW a \in Keys, NEW b \in Keys, SameBy(e, a, b)
  PROVE  Bucket(h, len, a) = Bucket(h, len, b)
<1>1. HashOf(a) = HashOf(b)
  BY HashAssumption DEF SameBy
<1>2. QED
  BY <1>1 DEF Bucket

\* The comparison and the bucket of the model are those of the table's procedures.
LEMMA SameIs ==
  /\ \A a, b : Same(a, b) <=> SameBy(eq_fn, a, b)
  /\ \A len, k : get_bucket(len, k) = Bucket(hash_fn, len, k)
BY DEF Same, SameBy, get_bucket, Bucket

\* The fields of a bucket vector.
LEMMA VectorType ==
  ASSUME NEW v \in Vecs
  PROVE  v.len \in Nat \ {0} /\ v.at \in [0..(v.len - 1) -> Nat]
BY DEF Vecs

\* vector-set! changes one bucket.
LEMMA VectorSet ==
  ASSUME NEW v \in Vecs, NEW i \in 0..(v.len - 1), NEW x \in Nat
  PROVE  /\ vector_set(v, i, x) \in Vecs /\ vector_set(v, i, x).len = v.len
         /\ \A j \in 0..(v.len - 1) : vector_set(v, i, x).at[j] = IF j = i THEN x ELSE v.at[j]
<1>1. PICK n \in Nat \ {0} : v \in [len : {n}, at : [0..(n - 1) -> Nat]]
  BY DEF Vecs
<1>2. vector_set(v, i, x) = [len |-> n, at |-> [v.at EXCEPT ![i] = x]]
  <2>1. PICK a \in [0..(n - 1) -> Nat] : v = [len |-> n, at |-> a]
    BY <1>1
  <2>2. v.at = a
    BY <2>1
  <2>3. [v EXCEPT !.at = [@ EXCEPT ![i] = x]] = [len |-> n, at |-> [v.at EXCEPT ![i] = x]]
    BY <2>1, <2>2, SMTT(30)
  <2>4. QED
    BY <2>3, Zenon DEF vector_set
<1>3. PICK f : f = [v.at EXCEPT ![i] = x]
  OBVIOUS
<1>4. f \in [0..(n - 1) -> Nat] /\ \A j \in 0..(n - 1) : f[j] = IF j = i THEN x ELSE v.at[j]
  BY <1>1, <1>3
<1>5. vector_set(v, i, x) \in [len : {n}, at : [0..(n - 1) -> Nat]]
  BY <1>2, <1>3, <1>4
<1>6. vector_set(v, i, x) \in Vecs
  BY <1>5 DEF Vecs
<1>7. QED
  BY <1>1, <1>2, <1>3, <1>4, <1>6

\* The members of a vector are in its lists.
LEMMA MembersIn ==
  ASSUME NEW ps, Chained(ps), NEW v, Held(ps, v)
  PROVE  /\ \A j \in 0..(v.len - 1) : v.at[j] \in 0..Len(ps) /\ ListFrom(ps, v.at[j]) \subseteq 1..Len(ps)
         /\ \A j \in 0..(v.len - 1) : ListFrom(ps, v.at[j]) \subseteq Members(ps, v)
         /\ \A p \in Members(ps, v) : \E j \in 0..(v.len - 1) : p \in ListFrom(ps, v.at[j])
         /\ Members(ps, v) \subseteq 1..Len(ps)
<1>1. Len(ps) \in Nat
  BY ChainedPairs
<1>2. v.len \in Nat \ {0} /\ v.at \in [0..(v.len - 1) -> Nat] /\ \A j \in 0..(v.len - 1) : v.at[j] <= Len(ps)
  BY VectorType DEF Held
<1>3. \A j \in 0..(v.len - 1) : v.at[j] \in 0..Len(ps)
  BY <1>1, <1>2
<1>4. ASSUME NEW j \in 0..(v.len - 1) PROVE ListFrom(ps, v.at[j]) \subseteq 1..Len(ps)
  <2>1. PICK x \in 0..Len(ps) : x = v.at[j]
    BY <1>3
  <2>2. ListFrom(ps, x) \subseteq 1..x
    BY ListBound
  <2>3. QED
    BY <1>1, <2>1, <2>2
<1>5. QED
  BY <1>3, <1>4 DEF Members

-----------------------------------------------------------------------------
(* One more pair: what it leaves alone, and the vector that it is pushed   *)
(* on.                                                                     *)

\* The lists of v are the same with the pairs qs as with ps.
Intact(ps, qs, v) ==
  /\ Held(qs, v)
  /\ \A j \in 0..(v.len - 1) : ListFrom(qs, v.at[j]) = ListFrom(ps, v.at[j])
  /\ Members(qs, v) = Members(ps, v)
  /\ \A m : Below(qs, v, m) = Below(ps, v, m)

\* The pair n of qs, with the cell c, is pushed on bucket i of v, which is now w.
PushedOn(ps, qs, v, w, i, n, c) ==
  /\ Held(qs, w) /\ w.len = v.len
  /\ \A j \in 0..(v.len - 1) :
       ListFrom(qs, w.at[j]) = IF j = i THEN {n} \cup ListFrom(ps, v.at[j]) ELSE ListFrom(ps, v.at[j])
  /\ Members(qs, w) = Members(ps, v) \cup {n}
  /\ \A m : Below(qs, w, m) = IF i < m THEN Below(ps, v, m) \cup {n} ELSE Below(ps, v, m)
  /\ CellsOf(qs, Members(qs, w)) = CellsOf(ps, Members(ps, v)) \cup {c}

\* A new pair changes no list of a vector that does not get it.
LEMMA PushElsewhere ==
  ASSUME NEW ps, Chained(ps), NEW r \in Pairs, r.cdr <= Len(ps), NEW v, Held(ps, v)
  PROVE  Intact(ps, Append(ps, r), v)
<1>. DEFINE qs == Append(ps, r)
<1>1. /\ Len(ps) \in Nat /\ Len(qs) = Len(ps) + 1
      /\ \A x \in 0..Len(ps) : ListFrom(qs, x) = ListFrom(ps, x)
  BY ChainedPairs, ListPush
<1>. HIDE DEF qs
<1>2. \A j \in 0..(v.len - 1) : v.at[j] \in 0..Len(ps) /\ ListFrom(ps, v.at[j]) \subseteq 1..Len(ps)
  BY MembersIn
<1>3. \A j \in 0..(v.len - 1) : ListFrom(qs, v.at[j]) = ListFrom(ps, v.at[j])
  BY <1>1, <1>2
<1>4. Held(qs, v)
  <2>1. v \in Vecs
    BY DEF Held
  <2>2. \A j \in 0..(v.len - 1) : v.at[j] <= Len(qs)
    BY <1>1, <1>2
  <2>3. QED
    BY <2>1, <2>2 DEF Held
<1>5. 1..Len(ps) \subseteq 1..Len(qs)
  BY <1>1
<1>6. Members(qs, v) = Members(ps, v)
  BY <1>2, <1>3, <1>5 DEF Members
<1>7. ASSUME NEW m PROVE Below(qs, v, m) = Below(ps, v, m)
  BY <1>2, <1>3, <1>5 DEF Below
<1>8. QED
  BY <1>3, <1>4, <1>6, <1>7 DEF Intact, qs

\* Pairs with the same cars have the same cells.
LEMMA CellsSame ==
  ASSUME NEW ps, NEW qs, NEW S, \A p \in S : qs[p].car = ps[p].car
  PROVE  CellsOf(qs, S) = CellsOf(ps, S)
BY DEF CellsOf

\* What sexp_push does to the lists of the vector that gets the new pair.
LEMMA PushOn ==
  ASSUME NEW ps, Chained(ps), NEW v, Held(ps, v), NEW i \in 0..(v.len - 1), NEW c \in Nat
  PROVE  LET n == Len(ps) + 1
         IN  /\ Pushed(v, i, c) \in Pairs /\ Pushed(v, i, c).cdr <= Len(ps) /\ Pushed(v, i, c).car = c
             /\ PushedOn(ps, Append(ps, Pushed(v, i, c)), v, vector_set(v, i, n), i, n, c)
<1>. PICK qs, n, w : qs = Append(ps, Pushed(v, i, c)) /\ n = Len(ps) + 1 /\ w = vector_set(v, i, n)
  OBVIOUS
<1>. DEFINE r == Pushed(v, i, c)
<1>1. \A j \in 0..(v.len - 1) : v.at[j] \in 0..Len(ps) /\ ListFrom(ps, v.at[j]) \subseteq 1..Len(ps)
  BY MembersIn
<1>2. r \in Pairs /\ r.car = c /\ r.cdr = v.at[i] /\ r.cdr <= Len(ps)
  <2>1. v.at[i] \in 0..Len(ps)
    BY <1>1
  <2>2. r.car = c /\ r.cdr = v.at[i] /\ r \in Pairs
    BY <2>1 DEF Pushed, Pairs
  <2>3. QED
    BY <2>1, <2>2
<1>. HIDE DEF r
<1>3. /\ Len(ps) \in Nat /\ Len(qs) = n /\ qs[n] = r /\ (\A p \in 1..Len(ps) : qs[p] = ps[p])
      /\ \A x \in 0..Len(ps) : ListFrom(qs, x) = ListFrom(ps, x)
      /\ ListFrom(qs, n) = {n} \cup ListFrom(ps, v.at[i])
  BY <1>2, ChainedPairs, ListPush DEF r
<1>4. /\ v \in Vecs /\ w \in Vecs /\ w.len = v.len
      /\ \A j \in 0..(v.len - 1) : w.at[j] = IF j = i THEN n ELSE v.at[j]
  <2>1. v \in Vecs
    BY DEF Held
  <2>2. n \in Nat
    BY <1>3
  <2>3. QED
    BY <2>1, <2>2, VectorSet
<1>5. Held(qs, w)
  <2>1. \A j \in 0..(v.len - 1) : w.at[j] <= Len(qs)
    BY <1>1, <1>3, <1>4
  <2>2. QED
    BY <1>4, <2>1 DEF Held
<1>6. \A j \in 0..(v.len - 1) :
        ListFrom(qs, w.at[j]) = IF j = i THEN {n} \cup ListFrom(ps, v.at[j]) ELSE ListFrom(ps, v.at[j])
  BY <1>1, <1>3, <1>4
<1>7. 1..Len(qs) = (1..Len(ps)) \cup {n}
  BY <1>3
<1>8. Members(qs, w) = Members(ps, v) \cup {n}
  BY <1>1, <1>4, <1>6, <1>7 DEF Members
<1>9. ASSUME NEW m
      PROVE  Below(qs, w, m) = IF i < m THEN Below(ps, v, m) \cup {n} ELSE Below(ps, v, m)
  BY <1>1, <1>4, <1>6, <1>7, ZenonT(60) DEF Below
<1>10. CellsOf(qs, Members(qs, w)) = CellsOf(ps, Members(ps, v)) \cup {c}
  <2>1. Members(ps, v) \subseteq 1..Len(ps)
    BY MembersIn
  <2>2. \A p \in Members(ps, v) : qs[p].car = ps[p].car
    BY <1>3, <2>1
  <2>3. qs[n].car = c
    BY <1>2, <1>3
  <2>4. CellsOf(qs, Members(ps, v) \cup {n}) = CellsOf(qs, Members(ps, v)) \cup {qs[n].car}
    BY DEF CellsOf
  <2>5. CellsOf(qs, Members(ps, v)) = CellsOf(ps, Members(ps, v))
    BY <2>2, CellsSame
  <2>6. QED
    BY <1>8, <2>3, <2>4, <2>5
<1>11. QED
  <2>1. PushedOn(ps, qs, v, w, i, n, c)
    BY <1>4, <1>5, <1>6, <1>8, <1>9, <1>10 DEF PushedOn
  <2>2. QED
    BY <1>2, <2>1 DEF r

\* The keys of the pairs qs, of which the first are those of ps.
Extends(key2, key, ps) == \A p \in 1..Len(ps) : key2[p] = key[p]

\* A new pair leaves the keys of other vectors in their buckets.
LEMMA PlacedElsewhere ==
  ASSUME NEW ps, Chained(ps), NEW v, Held(ps, v), NEW qs, Intact(ps, qs, v),
         NEW key, NEW key2, Extends(key2, key, ps), NEW h, NEW m, Placed(h, key, ps, v, m)
  PROVE  Placed(h, key2, qs, v, m)
<1>1. \A j \in 0..(v.len - 1) : ListFrom(qs, v.at[j]) = ListFrom(ps, v.at[j])
  BY DEF Intact
<1>2. \A j \in 0..(v.len - 1) : ListFrom(ps, v.at[j]) \subseteq 1..Len(ps)
  BY MembersIn
<1>3. QED
  BY <1>1, <1>2 DEF Placed, Extends

\* A new pair that is pushed on the bucket of its key is in its place.
LEMMA PlacedOn ==
  ASSUME NEW ps, Chained(ps), NEW v, Held(ps, v), NEW qs, NEW w, NEW i, NEW n, NEW c,
         PushedOn(ps, qs, v, w, i, n, c),
         NEW key, NEW key2, Extends(key2, key, ps), NEW h, Bucket(h, v.len, key2[n]) = i,
         NEW m, Placed(h, key, ps, v, m)
  PROVE  Placed(h, key2, qs, w, m)
<1>1. /\ w.len = v.len
      /\ \A j \in 0..(v.len - 1) :
           ListFrom(qs, w.at[j]) = IF j = i THEN {n} \cup ListFrom(ps, v.at[j]) ELSE ListFrom(ps, v.at[j])
  BY DEF PushedOn
<1>2. \A j \in 0..(v.len - 1) : ListFrom(ps, v.at[j]) \subseteq 1..Len(ps)
  BY MembersIn
<1>3. SUFFICES ASSUME NEW j \in 0..(v.len - 1), j < m, NEW p \in ListFrom(qs, w.at[j])
               PROVE  Bucket(h, v.len, key2[p]) = j
  BY <1>1 DEF Placed
<1>4. CASE p \in ListFrom(ps, v.at[j])
  <2>1. key2[p] = key[p]
    BY <1>2, <1>4 DEF Extends
  <2>2. Bucket(h, v.len, key[p]) = j
    BY <1>3, <1>4 DEF Placed
  <2>3. QED
    BY <2>1, <2>2
<1>5. CASE p \notin ListFrom(ps, v.at[j])
  BY <1>1, <1>3, <1>5
<1>6. QED
  BY <1>4, <1>5

\* A key that was not there is there once.
LEMMA OnceMore ==
  ASSUME NEW e, NEW key, NEW key2, NEW S, Once(e, key, S), \A p \in S : key2[p] = key[p],
         NEW n, \A p \in S : ~SameBy(e, key[p], key2[n])
  PROVE  Once(e, key2, S \cup {n})
<1>1. \A p \in S : ~SameBy(e, key2[n], key[p])
  BY Equivalence
<1>2. QED
  BY <1>1 DEF Once

-----------------------------------------------------------------------------
(* A walk while the table changes.                                         *)

\* Pairs may be taken out if their keys are no longer kept.
LEMMA WalkLess ==
  ASSUME NEW e, NEW h, NEW key, NEW C, NEW R, NEW seen, NEW kpt, NEW len, NEW i,
         WalkOK(e, h, key, C, R, seen, kpt, len, i),
         NEW key2, NEW C2, NEW R2, NEW kpt2, C2 \subseteq C, C2 \subseteq R2, R2 \subseteq R,
         kpt2 \subseteq kpt, \A p \in R2 : key2[p] = key[p],
         \A k \in kpt2 : \A p \in R : SameBy(e, key[p], k) => p \in R2
  PROVE  WalkOK(e, h, key2, C2, R2, seen, kpt2, len, i)
<1>1. /\ Once(e, key, R)
      /\ \A p \in R : \A n \in 1..Len(seen) : ~SameBy(e, key[p], seen[n])
      /\ \A k \in kpt : \/ \E n \in 1..Len(seen) : SameBy(e, seen[n], k)
                        \/ \E p \in R : SameBy(e, key[p], k)
      /\ \A p \in C : Bucket(h, len, key[p]) = i
      /\ \A n \in 1..Len(seen) : Bucket(h, len, seen[n]) >= i
  BY DEF WalkOK
<1>2. Once(e, key2, R2)
  BY <1>1 DEF Once
<1>3. \A p \in R2 : \A n \in 1..Len(seen) : ~SameBy(e, key2[p], seen[n])
  BY <1>1
<1>4. ASSUME NEW k \in kpt2
      PROVE  \/ \E n \in 1..Len(seen) : SameBy(e, seen[n], k)
             \/ \E p \in R2 : SameBy(e, key2[p], k)
  <2>1. CASE \E n \in 1..Len(seen) : SameBy(e, seen[n], k)
    BY <2>1
  <2>2. CASE \E p \in R : SameBy(e, key[p], k)
    <3>1. PICK p \in R : SameBy(e, key[p], k)
      BY <2>2
    <3>2. p \in R2 /\ key2[p] = key[p]
      BY <3>1
    <3>3. QED
      BY <3>1, <3>2
  <2>3. QED
    BY <1>1, <2>1, <2>2
<1>5. \A p \in C2 : Bucket(h, len, key2[p]) = i
  BY <1>1
<1>6. QED
  BY <1>1, <1>2, <1>3, <1>4, <1>5 DEF WalkOK

\* A new key may come into a bucket that the walk has not reached.
LEMMA WalkMore ==
  ASSUME NEW e, NEW h, NEW key, NEW C, NEW R, NEW seen, NEW kpt, NEW len, NEW i \in Int,
         WalkOK(e, h, key, C, R, seen, kpt, len, i), seen \in Seq(Keys), C \subseteq R,
         NEW key2, \A p \in R : key2[p] = key[p], NEW n, key2[n] \in Keys,
         Bucket(h, len, key2[n]) \in Int, Bucket(h, len, key2[n]) < i,
         \A p \in R : ~SameBy(e, key[p], key2[n])
  PROVE  WalkOK(e, h, key2, C, R \cup {n}, seen, kpt, len, i)
<1>1. /\ Once(e, key, R)
      /\ \A p \in R : \A m \in 1..Len(seen) : ~SameBy(e, key[p], seen[m])
      /\ \A k \in kpt : \/ \E m \in 1..Len(seen) : SameBy(e, seen[m], k)
                        \/ \E p \in R : SameBy(e, key[p], k)
      /\ \A p \in C : Bucket(h, len, key[p]) = i
      /\ \A m \in 1..Len(seen) : Bucket(h, len, seen[m]) >= i
  BY DEF WalkOK
<1>2. Once(e, key2, R \cup {n})
  BY <1>1, OnceMore
<1>3. \A m \in 1..Len(seen) : ~SameBy(e, key2[n], seen[m])
  <2>1. SUFFICES ASSUME NEW m \in 1..Len(seen), SameBy(e, key2[n], seen[m]) PROVE FALSE
    OBVIOUS
  <2>2. seen[m] \in Keys
    OBVIOUS
  <2>3. Bucket(h, len, key2[n]) = Bucket(h, len, seen[m])
    BY <2>1, <2>2, SameBucket
  <2>4. QED
    BY <1>1, <2>3
<1>4. \A p \in R \cup {n} : \A m \in 1..Len(seen) : ~SameBy(e, key2[p], seen[m])
  BY <1>1, <1>3
<1>5. \A k \in kpt : \/ \E m \in 1..Len(seen) : SameBy(e, seen[m], k)
                     \/ \E p \in R \cup {n} : SameBy(e, key2[p], k)
  BY <1>1
<1>6. \A p \in C : Bucket(h, len, key2[p]) = i
  BY <1>1
<1>7. QED
  BY <1>1, <1>2, <1>4, <1>5, <1>6 DEF WalkOK

\* The walk w has pairs of ps before it.
LEMMA AheadIn ==
  ASSUME NEW ps, Chained(ps), NEW w, w.ls \in 0..Len(ps), w.inside => w.ls # 0
  PROVE  /\ (IF w.inside THEN ps[w.ls].cdr ELSE w.ls) \in 0..Len(ps)
         /\ Ahead(ps, w) \subseteq 1..Len(ps)
<1>1. Len(ps) \in Nat /\ \A p \in 1..Len(ps) : ps[p].cdr \in 0..Len(ps)
  BY ChainedPairs
<1>2. PICK x : x = IF w.inside THEN ps[w.ls].cdr ELSE w.ls
  OBVIOUS
<1>3. x \in 0..Len(ps)
  <2>1. CASE w.inside
    <3>1. w.ls \in 1..Len(ps)
      BY <1>1, <2>1
    <3>2. QED
      BY <1>1, <1>2, <2>1, <3>1
  <2>2. CASE ~w.inside
    BY <1>2, <2>2
  <2>3. QED
    BY <2>1, <2>2
<1>4. ListFrom(ps, x) \subseteq 1..x
  BY <1>3, ListBound
<1>5. Ahead(ps, w) = ListFrom(ps, x)
  BY <1>2 DEF Ahead
<1>6. QED
  BY <1>1, <1>2, <1>3, <1>4, <1>5

\* A new pair is not ahead of a walk in the list it is in.
LEMMA AheadPush ==
  ASSUME NEW ps, Chained(ps), NEW r \in Pairs, r.cdr <= Len(ps),
         NEW w, w.ls \in 0..Len(ps), w.inside => w.ls # 0
  PROVE  Ahead(Append(ps, r), w) = Ahead(ps, w)
<1>1. PICK qs : qs = Append(ps, r)
  OBVIOUS
<1>2. /\ Len(ps) \in Nat /\ \A p \in 1..Len(ps) : qs[p] = ps[p]
      /\ \A x \in 0..Len(ps) : ListFrom(qs, x) = ListFrom(ps, x)
  <2>1. Len(ps) \in Nat
    BY ChainedPairs
  <2>2. \A p \in 1..Len(ps) : Append(ps, r)[p] = ps[p]
    BY ListPush
  <2>3. \A x \in 0..Len(ps) : ListFrom(Append(ps, r), x) = ListFrom(ps, x)
    BY ListPush
  <2>4. QED
    BY <1>1, <2>1, <2>2, <2>3
<1>3. PICK x \in 0..Len(ps) : x = IF w.inside THEN ps[w.ls].cdr ELSE w.ls
  BY AheadIn
<1>4. x = IF w.inside THEN qs[w.ls].cdr ELSE w.ls
  <2>1. w.inside => w.ls \in 1..Len(ps)
    BY <1>2
  <2>2. QED
    BY <1>2, <1>3, <2>1
<1>5. Ahead(ps, w) = ListFrom(ps, x) /\ Ahead(qs, w) = ListFrom(qs, x)
  BY <1>3, <1>4 DEF Ahead
<1>6. QED
  BY <1>1, <1>2, <1>3, <1>5

\* A walk over a vector whose lists are as before knows what it knew.
LEMMA WalkingSame ==
  ASSUME NEW e, NEW h, NEW key, NEW ps, Chained(ps), NEW v, Held(ps, v), NEW w, NEW kpt,
         w.ls \in 0..Len(ps), Walking(e, h, key, ps, v, w, kpt),
         NEW qs, Intact(ps, qs, v), Ahead(qs, w) = Ahead(ps, w), NEW key2, Extends(key2, key, ps)
  PROVE  Walking(e, h, key2, qs, v, w, kpt)
<1>1. /\ w.i <= v.len /\ (w.inside => w.ls # 0) /\ Placed(h, key, ps, v, w.i)
      /\ WalkOK(e, h, key, Ahead(ps, w), Ahead(ps, w) \cup Below(ps, v, w.i), w.seen, kpt, v.len, w.i)
  BY DEF Walking
<1>2. Placed(h, key2, qs, v, w.i)
  BY <1>1, PlacedElsewhere
<1>3. PICK C, R : C = Ahead(ps, w) /\ R = Ahead(ps, w) \cup Below(ps, v, w.i)
  OBVIOUS
<1>4. R \subseteq 1..Len(ps)
  BY <1>1, <1>3, AheadIn DEF Below
<1>5. \A p \in R : key2[p] = key[p]
  BY <1>4 DEF Extends
<1>6. WalkOK(e, h, key2, C, R, w.seen, kpt, v.len, w.i)
  <2>1. WalkOK(e, h, key, C, R, w.seen, kpt, v.len, w.i)
    BY <1>1, <1>3
  <2>2. C \subseteq R /\ C \subseteq C /\ R \subseteq R /\ kpt \subseteq kpt
    BY <1>3
  <2>3. \A k \in kpt : \A p \in R : SameBy(e, key[p], k) => p \in R
    OBVIOUS
  <2>4. QED
    BY <1>5, <2>1, <2>2, <2>3, WalkLess
<1>7. Ahead(qs, w) = C /\ Ahead(qs, w) \cup Below(qs, v, w.i) = R
  BY <1>3 DEF Intact
<1>8. QED
  BY <1>1, <1>2, <1>6, <1>7 DEF Walking

\* A walk over the vector that gets a pair may have one more to meet, with a key
\* it has not met.
LEMMA WalkingPush ==
  ASSUME NEW e, NEW h, NEW key, NEW ps, Chained(ps), NEW v, Held(ps, v), NEW w, NEW kpt,
         w.ls \in 0..Len(ps), w.i \in Nat, w.seen \in Seq(Keys), Walking(e, h, key, ps, v, w, kpt),
         Placed(h, key, ps, v, v.len), \A p \in 1..Len(ps) : key[p] \in Keys,
         NEW qs, NEW x, NEW n, NEW c, NEW i \in 0..(v.len - 1), PushedOn(ps, qs, v, x, i, n, c),
         Ahead(qs, w) = Ahead(ps, w),
         NEW key2, Extends(key2, key, ps), key2[n] \in Keys, Bucket(h, v.len, key2[n]) = i,
         \A p \in Members(ps, v) : ~SameBy(e, key[p], key2[n])
  PROVE  Walking(e, h, key2, qs, x, w, kpt)
<1>1. /\ w.i <= v.len /\ (w.inside => w.ls # 0) /\ Placed(h, key, ps, v, w.i)
      /\ WalkOK(e, h, key, Ahead(ps, w), Ahead(ps, w) \cup Below(ps, v, w.i), w.seen, kpt, v.len, w.i)
  BY DEF Walking
<1>2. Placed(h, key2, qs, x, w.i)
  BY <1>1, PlacedOn
<1>3. PICK C, R : C = Ahead(ps, w) /\ R = Ahead(ps, w) \cup Below(ps, v, w.i)
  OBVIOUS
<1>4. R \subseteq 1..Len(ps) /\ C \subseteq R
  BY <1>1, <1>3, AheadIn DEF Below
<1>5. \A p \in R : key2[p] = key[p]
  BY <1>4 DEF Extends
<1>6. WalkOK(e, h, key, C, R, w.seen, kpt, v.len, w.i)
  BY <1>1, <1>3
<1>7. /\ x.len = v.len
      /\ Below(qs, x, w.i) = IF i < w.i THEN Below(ps, v, w.i) \cup {n} ELSE Below(ps, v, w.i)
  BY DEF PushedOn
<1>8. CASE i < w.i
  <2>1. ASSUME NEW p \in R, SameBy(e, key[p], key2[n]) PROVE FALSE
    <3>1. key[p] \in Keys
      BY <1>4
    <3>2. Bucket(h, v.len, key[p]) = i
      BY <2>1, <3>1, SameBucket
    <3>3. p \notin C
      BY <1>6, <1>8, <3>2 DEF WalkOK
    <3>4. p \in Below(ps, v, w.i)
      BY <1>3, <3>3
    <3>5. p \in Members(ps, v)
      BY <3>4 DEF Below, Members
    <3>6. QED
      BY <2>1, <3>5
  <2>2. w.i \in Int /\ Bucket(h, v.len, key2[n]) \in Int /\ Bucket(h, v.len, key2[n]) < w.i
    BY <1>8
  <2>3. WalkOK(e, h, key2, C, R \cup {n}, w.seen, kpt, v.len, w.i)
    BY <1>4, <1>5, <1>6, <2>1, <2>2, WalkMore
  <2>4. Ahead(qs, w) \cup Below(qs, x, w.i) = R \cup {n} /\ Ahead(qs, w) = C
    BY <1>3, <1>7, <1>8
  <2>5. QED
    BY <1>1, <1>2, <1>7, <2>3, <2>4 DEF Walking
<1>9. CASE ~(i < w.i)
  <2>1. WalkOK(e, h, key2, C, R, w.seen, kpt, v.len, w.i)
    <3>1. C \subseteq C /\ R \subseteq R /\ kpt \subseteq kpt
      OBVIOUS
    <3>2. \A k \in kpt : \A p \in R : SameBy(e, key[p], k) => p \in R
      OBVIOUS
    <3>3. QED
      BY <1>4, <1>5, <1>6, <3>1, <3>2, WalkLess
  <2>2. Ahead(qs, w) = C /\ Ahead(qs, w) \cup Below(qs, x, w.i) = R
    BY <1>3, <1>7, <1>9
  <2>3. QED
    BY <1>1, <1>2, <1>7, <2>1, <2>2 DEF Walking
<1>10. QED
  BY <1>8, <1>9

-----------------------------------------------------------------------------
(* The table.                                                              *)

\* The types of cells, pairs and vectors, and of the keys of pairs.
LEMMA StoreFacts ==
  ASSUME NEW cs, NEW ps, NEW vs, StoreOK(cs, ps, vs)
  PROVE  /\ Len(cs) \in Nat /\ Len(ps) \in Nat /\ Len(vs) \in Nat \ {0} /\ Chained(ps)
         /\ \A c \in 1..Len(cs) : cs[c] \in Cells
         /\ \A p \in 1..Len(ps) : ps[p].car \in 1..Len(cs) /\ Keyed(cs, ps)[p] = cs[ps[p].car].key
                                  /\ Keyed(cs, ps)[p] \in Keys
         /\ \A n \in 1..Len(vs) : Held(ps, vs[n])
         /\ Held(ps, vs[Len(vs)])
<1>1. /\ cs \in Seq(Cells) /\ Chained(ps)
      /\ \A p \in 1..Len(ps) : ps[p].car \in 1..Len(cs)
      /\ vs \in Seq(Vecs) /\ vs # <<>> /\ \A n \in 1..Len(vs) : Held(ps, vs[n])
  BY DEF StoreOK
<1>2. Len(cs) \in Nat /\ (\A c \in 1..Len(cs) : cs[c] \in Cells) /\ Len(vs) \in Nat \ {0}
  <2>1. Len(cs) \in Nat /\ \A c \in 1..Len(cs) : cs[c] \in Cells
    BY <1>1
  <2>2. Len(vs) \in Nat \ {0}
    BY <1>1
  <2>3. QED
    BY <2>1, <2>2
<1>3. Len(ps) \in Nat
  BY <1>1, ChainedPairs
<1>4. \A p \in 1..Len(ps) : Keyed(cs, ps)[p] = cs[ps[p].car].key /\ Keyed(cs, ps)[p] \in Keys
  BY <1>1, <1>2 DEF Keyed, Cells
<1>5. Len(vs) \in 1..Len(vs)
  BY <1>2
<1>6. QED
  BY <1>1, <1>2, <1>3, <1>4, <1>5

\* hash-table-cell finds the cell of the key if there is one.
LEMMA CellAtIs ==
  ASSUME StoreOK(cells, pairs, vectors),
         PlacedOK(eq_fn, hash_fn, Keyed(cells, pairs), pairs, buckets, size), NEW k \in Keys
  PROVE  \/ /\ CellAt(k) = 0
            /\ \A p \in Members(pairs, buckets) : ~SameBy(eq_fn, Keyed(cells, pairs)[p], k)
         \/ /\ CellAt(k) \in ListFrom(pairs, buckets.at[get_bucket(buckets.len, k)])
            /\ CellAt(k) \in Members(pairs, buckets) /\ CellAt(k) \in 1..Len(pairs) /\ CellAt(k) # 0
            /\ SameBy(eq_fn, Keyed(cells, pairs)[CellAt(k)], k)
<1>1. Chained(pairs) /\ Held(pairs, buckets)
  BY StoreFacts DEF buckets
<1>2. PICK j : j = get_bucket(buckets.len, k)
  OBVIOUS
<1>3. j \in 0..(buckets.len - 1) /\ j = Bucket(hash_fn, buckets.len, k)
  <2>1. buckets.len \in Nat \ {0}
    BY <1>1, VectorType DEF Held
  <2>2. QED
    BY <1>2, <2>1, SameIs, BucketRange
<1>4. PICK x : x = buckets.at[j]
  OBVIOUS
<1>5. /\ x \in 0..Len(pairs) /\ ListFrom(pairs, x) \subseteq 1..Len(pairs)
      /\ ListFrom(pairs, x) \subseteq Members(pairs, buckets)
  BY <1>1, <1>3, <1>4, MembersIn
<1>6. PICK c : c = scan_bucket(x, k)
  OBVIOUS
<1>7. CellAt(k) = c
  BY <1>2, <1>4, <1>6 DEF CellAt
<1>8. \/ c = 0 /\ \A p \in ListFrom(pairs, x) : ~Same(KeyOf(p), k)
      \/ c \in ListFrom(pairs, x) /\ Same(KeyOf(c), k)
  BY <1>1, <1>5, <1>6, ScanFinds
<1>9. \A p \in 1..Len(pairs) : KeyOf(p) = Keyed(cells, pairs)[p] /\ KeyOf(p) \in Keys
  BY StoreFacts DEF KeyOf
<1>10. CASE c \in ListFrom(pairs, x) /\ Same(KeyOf(c), k)
  <2>1. c \in 1..Len(pairs)
    BY <1>5, <1>10
  <2>2. SameBy(eq_fn, Keyed(cells, pairs)[c], k)
    BY <1>9, <1>10, <2>1, SameIs
  <2>3. c # 0
    BY <2>1
  <2>4. QED
    BY <1>2, <1>4, <1>5, <1>7, <1>10, <2>1, <2>2, <2>3
<1>11. CASE c = 0 /\ \A p \in ListFrom(pairs, x) : ~Same(KeyOf(p), k)
  <2>1. ASSUME NEW p \in Members(pairs, buckets), SameBy(eq_fn, Keyed(cells, pairs)[p], k) PROVE FALSE
    <3>1. PICK m \in 0..(buckets.len - 1) : p \in ListFrom(pairs, buckets.at[m])
      BY <1>1, MembersIn
    <3>2. p \in 1..Len(pairs)
      BY <1>1, MembersIn
    <3>3. m < buckets.len
      BY <1>1, <3>1, VectorType DEF Held
    <3>4. Bucket(hash_fn, buckets.len, Keyed(cells, pairs)[p]) = m
      BY <3>1, <3>3 DEF PlacedOK, Placed
    <3>5. Bucket(hash_fn, buckets.len, Keyed(cells, pairs)[p]) = j
      BY <1>3, <1>9, <2>1, <3>2, SameBucket
    <3>6. ~Same(KeyOf(p), k)
      BY <1>4, <1>11, <3>1, <3>4, <3>5
    <3>7. QED
      BY <1>9, <2>1, <3>2, <3>6, SameIs
  <2>2. QED
    BY <1>7, <1>11, <2>1
<1>12. QED
  BY <1>8, <1>10, <1>11

\* The cells cs2, of which the first are cs, and the pairs qs, which has one
\* pair more, with the cell c and the key k, in bucket i of v, which is now w.
PushOK(cs, ps, cs2, qs, v, w, i, k, c) ==
  /\ i \in 0..(v.len - 1) /\ k \in Keys /\ Held(ps, v)
  /\ Chained(qs) /\ Len(qs) = Len(ps) + 1 /\ (\A p \in 1..Len(ps) : qs[p] = ps[p])
  /\ qs[Len(ps) + 1].car = c
  /\ \A p \in 1..Len(qs) : qs[p].car \in 1..Len(cs2)
  /\ PushedOn(ps, qs, v, w, i, Len(ps) + 1, c)
  /\ Extends(Keyed(cs2, qs), Keyed(cs, ps), ps) /\ Keyed(cs2, qs)[Len(ps) + 1] = k
  /\ \A u : Held(ps, u) => Intact(ps, qs, u)
  /\ \A y : y.ls \in 0..Len(ps) /\ (y.inside => y.ls # 0) => Ahead(qs, y) = Ahead(ps, y)

\* What a pair for a cell, pushed on the bucket of its key, does to the store and
\* to the vector.
LEMMA PushCell ==
  ASSUME NEW cs, NEW ps, NEW vs, StoreOK(cs, ps, vs),
         NEW cs2 \in Seq(Cells), Len(cs) <= Len(cs2),
         \A c \in 1..Len(cs) : cs2[c].key = cs[c].key,
         NEW v, Held(ps, v), NEW c \in 1..Len(cs2), NEW h
  PROVE  LET i == Bucket(h, v.len, cs2[c].key)
         IN  PushOK(cs, ps, cs2, Append(ps, Pushed(v, i, c)), v, vector_set(v, i, Len(ps) + 1),
                    i, cs2[c].key, c)
<1>1. PICK k, i, n : k = cs2[c].key /\ i = Bucket(h, v.len, k) /\ n = Len(ps) + 1
  OBVIOUS
<1>2. PICK r, qs, w : r = Pushed(v, i, c) /\ qs = Append(ps, r) /\ w = vector_set(v, i, n)
  OBVIOUS
<1>3. /\ Len(cs) \in Nat /\ Len(ps) \in Nat /\ Chained(ps)
      /\ \A p \in 1..Len(ps) : ps[p].car \in 1..Len(cs) /\ Keyed(cs, ps)[p] = cs[ps[p].car].key
  BY StoreFacts
<1>4. k \in Keys
  <2>1. cs2[c] \in Cells
    OBVIOUS
  <2>2. QED
    BY <1>1, <2>1 DEF Cells
<1>5. i \in 0..(v.len - 1)
  <2>1. v.len \in Nat \ {0}
    BY VectorType DEF Held
  <2>2. QED
    BY <1>1, <1>4, <2>1, BucketRange
<1>6. Len(cs2) \in Nat /\ c \in Nat
  OBVIOUS
<1>7. /\ r \in Pairs /\ r.cdr <= Len(ps) /\ r.car = c
      /\ PushedOn(ps, qs, v, w, i, n, c)
  BY <1>1, <1>2, <1>3, <1>5, <1>6, PushOn
<1>8. Chained(qs) /\ Len(qs) = n /\ qs[n] = r /\ \A p \in 1..Len(ps) : qs[p] = ps[p]
  BY <1>1, <1>2, <1>3, <1>7, ListPush
<1>9. \A p \in 1..Len(qs) : p = n \/ p \in 1..Len(ps)
  BY <1>1, <1>3, <1>8
<1>10. \A p \in 1..Len(qs) : qs[p].car \in 1..Len(cs2)
  BY <1>3, <1>6, <1>7, <1>8, <1>9
<1>11. \A p \in 1..Len(qs) : Keyed(cs2, qs)[p] = cs2[qs[p].car].key
  BY DEF Keyed
<1>12. Extends(Keyed(cs2, qs), Keyed(cs, ps), ps)
  <2>1. ASSUME NEW p \in 1..Len(ps) PROVE Keyed(cs2, qs)[p] = Keyed(cs, ps)[p]
    <3>1. p \in 1..Len(qs) /\ qs[p] = ps[p]
      BY <1>1, <1>3, <1>8
    <3>2. cs2[ps[p].car].key = cs[ps[p].car].key
      BY <1>3
    <3>3. QED
      BY <1>3, <1>11, <3>1, <3>2
  <2>2. QED
    BY <2>1 DEF Extends
<1>13. Keyed(cs2, qs)[n] = k
  <2>1. n \in 1..Len(qs)
    BY <1>1, <1>3, <1>8
  <2>2. QED
    BY <1>1, <1>7, <1>8, <1>11, <2>1
<1>14. ASSUME NEW u, Held(ps, u) PROVE Intact(ps, qs, u)
  BY <1>2, <1>3, <1>7, <1>14, PushElsewhere
<1>15. ASSUME NEW y, y.ls \in 0..Len(ps), y.inside => y.ls # 0 PROVE Ahead(qs, y) = Ahead(ps, y)
  BY <1>2, <1>3, <1>7, <1>15, AheadPush
<1>16. PushOK(cs, ps, cs2, qs, v, w, i, k, c)
  BY <1>1, <1>4, <1>5, <1>7, <1>8, <1>10, <1>12, <1>13, <1>14, <1>15 DEF PushOK
<1>17. QED
  BY <1>1, <1>2, <1>16

\* A walk that did not move keeps its invariant if what is ahead of it does.
LEMMA WalkStays ==
  ASSUME NEW e, NEW h, NEW key, NEW ps, NEW vs, NEW w, NEW kpt, WalkInv(e, h, key, ps, vs, w, kpt),
         NEW key2, NEW qs, NEW vs2, Len(ps) \in Nat, Len(qs) \in Nat, Len(ps) <= Len(qs),
         Len(vs) \in Nat, Len(vs2) \in Nat, Len(vs) <= Len(vs2), NEW kpt2, kpt2 \subseteq kpt,
         w.on => Walking(e, h, key2, qs, vs2[w.vec], w, kpt2)
  PROVE  WalkInv(e, h, key2, qs, vs2, w, kpt2)
<1>1. /\ w \in [on : BOOLEAN, vec : 0..Len(vs), i : Nat, ls : 0..Len(ps), inside : BOOLEAN, seen : Seq(Keys)]
      /\ kpt \subseteq Keys
      /\ \A i, j \in 1..Len(w.seen) : SameBy(e, w.seen[i], w.seen[j]) => i = j
      /\ ~w.on /\ w.vec # 0 => \A k \in kpt : \E n \in 1..Len(w.seen) : SameBy(e, w.seen[n], k)
      /\ w.on => w.vec # 0
  BY DEF WalkInv
<1>2. w \in [on : BOOLEAN, vec : 0..Len(vs2), i : Nat, ls : 0..Len(qs), inside : BOOLEAN, seen : Seq(Keys)]
  <2>1. 0..Len(vs) \subseteq 0..Len(vs2) /\ 0..Len(ps) \subseteq 0..Len(qs)
    OBVIOUS
  <2>2. QED
    BY <1>1, <2>1
<1>3. QED
  BY <1>1, <1>2 DEF WalkInv

\* The types of the fields of a walk.
LEMMA WalkType ==
  ASSUME NEW e, NEW h, NEW key, NEW ps, NEW vs, NEW w, NEW kpt, WalkInv(e, h, key, ps, vs, w, kpt)
  PROVE  /\ w.on \in BOOLEAN /\ w.inside \in BOOLEAN /\ w.vec \in 0..Len(vs) /\ w.i \in Nat
         /\ w.ls \in 0..Len(ps) /\ w.seen \in Seq(Keys) /\ kpt \subseteq Keys
         /\ \A i, j \in 1..Len(w.seen) : SameBy(e, w.seen[i], w.seen[j]) => i = j
         /\ w.on => /\ w.vec # 0 /\ Walking(e, h, key, ps, vs[w.vec], w, kpt)
                    /\ w.inside => w.ls # 0
BY DEF WalkInv, Walking

\* A pair is pushed on a vector that the walk does not go along.
LEMMA WalkElsewhere ==
  ASSUME NEW cs, NEW ps, NEW vs, StoreOK(cs, ps, vs),
         NEW e, NEW h, NEW w, NEW kpt, WalkInv(e, h, Keyed(cs, ps), ps, vs, w, kpt),
         NEW cs2, NEW qs, NEW v, NEW x, NEW i, NEW k, NEW c, PushOK(cs, ps, cs2, qs, v, x, i, k, c),
         NEW vs2, Len(vs2) \in Nat, Len(vs) <= Len(vs2), w.on => vs2[w.vec] = vs[w.vec]
  PROVE  WalkInv(e, h, Keyed(cs2, qs), qs, vs2, w, kpt)
<1>1. /\ Len(ps) \in Nat /\ Len(vs) \in Nat /\ Chained(ps)
      /\ \A n \in 1..Len(vs) : Held(ps, vs[n])
  BY StoreFacts
<1>2. /\ Len(qs) = Len(ps) + 1 /\ Extends(Keyed(cs2, qs), Keyed(cs, ps), ps)
      /\ \A u : Held(ps, u) => Intact(ps, qs, u)
      /\ \A y : y.ls \in 0..Len(ps) /\ (y.inside => y.ls # 0) => Ahead(qs, y) = Ahead(ps, y)
  BY DEF PushOK
<1>3. ASSUME w.on PROVE Walking(e, h, Keyed(cs2, qs), qs, vs2[w.vec], w, kpt)
  <2>1. /\ w.vec \in 0..Len(vs) /\ w.vec # 0 /\ w.ls \in 0..Len(ps) /\ (w.inside => w.ls # 0)
        /\ Walking(e, h, Keyed(cs, ps), ps, vs[w.vec], w, kpt)
    BY <1>3, WalkType
  <2>2. w.vec \in 1..Len(vs)
    BY <1>1, <2>1
  <2>3. Held(ps, vs[w.vec]) /\ Intact(ps, qs, vs[w.vec]) /\ Ahead(qs, w) = Ahead(ps, w)
    BY <1>1, <1>2, <2>1, <2>2
  <2>4. Walking(e, h, Keyed(cs2, qs), qs, vs[w.vec], w, kpt)
    BY <1>1, <1>2, <2>1, <2>3, WalkingSame
  <2>5. QED
    BY <1>3, <2>4
<1>4. Len(qs) \in Nat /\ Len(ps) <= Len(qs) /\ kpt \subseteq kpt
  BY <1>1, <1>2
<1>5. QED
  BY <1>1, <1>3, <1>4, WalkStays

\* A pair for a new key is pushed on the table's vector, which may be the walk's.
LEMMA WalkAdded ==
  ASSUME NEW cs, NEW ps, NEW vs, StoreOK(cs, ps, vs),
         NEW e, NEW h, NEW w, NEW kpt, WalkInv(e, h, Keyed(cs, ps), ps, vs, w, kpt),
         NEW n, PlacedOK(e, h, Keyed(cs, ps), ps, vs[Len(vs)], n),
         NEW cs2, NEW qs, NEW x, NEW i, NEW k, NEW c,
         PushOK(cs, ps, cs2, qs, vs[Len(vs)], x, i, k, c), i = Bucket(h, vs[Len(vs)].len, k),
         \A p \in Members(ps, vs[Len(vs)]) : ~SameBy(e, Keyed(cs, ps)[p], k)
  PROVE  WalkInv(e, h, Keyed(cs2, qs), qs, [vs EXCEPT ![Len(vs)] = x], w, kpt)
<1>1. /\ Len(ps) \in Nat /\ Len(vs) \in Nat \ {0} /\ Chained(ps) /\ Held(ps, vs[Len(vs)])
      /\ \A p \in 1..Len(ps) : Keyed(cs, ps)[p] \in Keys
  BY StoreFacts
<1>2. vs \in Seq(Vecs)
  BY DEF StoreOK
<1>3. PICK m, v, vs2 : m = Len(vs) /\ v = vs[m] /\ vs2 = [vs EXCEPT ![m] = x]
  OBVIOUS
<1>4. m \in 1..Len(vs) /\ Len(vs2) = Len(vs) /\ vs2[m] = x /\ \A j \in 1..Len(vs) : j # m => vs2[j] = vs[j]
  BY <1>1, <1>2, <1>3
<1>5. PushOK(cs, ps, cs2, qs, v, x, i, k, c) /\ i = Bucket(h, v.len, k)
  BY <1>3
<1>6. /\ Len(qs) = Len(ps) + 1 /\ Extends(Keyed(cs2, qs), Keyed(cs, ps), ps)
      /\ i \in 0..(v.len - 1) /\ PushedOn(ps, qs, v, x, i, Len(ps) + 1, c)
      /\ Keyed(cs2, qs)[Len(ps) + 1] = k /\ k \in Keys
      /\ \A y : y.ls \in 0..Len(ps) /\ (y.inside => y.ls # 0) => Ahead(qs, y) = Ahead(ps, y)
  BY <1>5 DEF PushOK
<1>7. CASE w.on /\ w.vec = m
  <2>1. /\ w.ls \in 0..Len(ps) /\ (w.inside => w.ls # 0) /\ w.i \in Nat /\ w.seen \in Seq(Keys)
        /\ Walking(e, h, Keyed(cs, ps), ps, v, w, kpt)
    BY <1>3, <1>7, WalkType
  <2>2. Ahead(qs, w) = Ahead(ps, w)
    BY <1>6, <2>1
  <2>3. Placed(h, Keyed(cs, ps), ps, v, v.len) /\ Held(ps, v)
    BY <1>1, <1>3 DEF PlacedOK
  <2>4. \A p \in Members(ps, v) : ~SameBy(e, Keyed(cs, ps)[p], Keyed(cs2, qs)[Len(ps) + 1])
    BY <1>3, <1>6
  <2>5. Walking(e, h, Keyed(cs2, qs), qs, x, w, kpt)
    BY <1>1, <1>5, <1>6, <2>1, <2>2, <2>3, <2>4, WalkingPush
  <2>6. Len(qs) \in Nat /\ Len(ps) <= Len(qs) /\ kpt \subseteq kpt /\ Len(vs) <= Len(vs2)
    BY <1>1, <1>4, <1>6
  <2>7. WalkInv(e, h, Keyed(cs2, qs), qs, vs2, w, kpt)
    BY <1>1, <1>4, <1>7, <2>5, <2>6, WalkStays
  <2>8. QED
    BY <1>3, <2>7
<1>8. CASE ~(w.on /\ w.vec = m)
  <2>1. w.on => vs2[w.vec] = vs[w.vec]
    <3>1. SUFFICES ASSUME w.on PROVE vs2[w.vec] = vs[w.vec]
      OBVIOUS
    <3>2. w.vec \in 0..Len(vs) /\ w.vec # 0
      BY <3>1, WalkType
    <3>3. w.vec \in 1..Len(vs) /\ w.vec # m
      BY <1>1, <1>8, <3>1, <3>2
    <3>4. QED
      BY <1>4, <3>3
  <2>2. Len(vs2) \in Nat /\ Len(vs) <= Len(vs2)
    BY <1>1, <1>4
  <2>3. WalkInv(e, h, Keyed(cs2, qs), qs, vs2, w, kpt)
    BY <1>5, <2>1, <2>2, WalkElsewhere
  <2>4. QED
    BY <1>3, <2>3
<1>9. QED
  BY <1>7, <1>8

\* The new cell is counted.
LEMMA PlacedAdded ==
  ASSUME NEW cs, NEW ps, NEW vs, StoreOK(cs, ps, vs), NEW e, NEW h, NEW v,
         NEW n, PlacedOK(e, h, Keyed(cs, ps), ps, v, n),
         NEW cs2, NEW qs, NEW x, NEW i, NEW k,
         PushOK(cs, ps, cs2, qs, v, x, i, k, Len(cs) + 1), i = Bucket(h, v.len, k),
         \A p \in Members(ps, v) : ~SameBy(e, Keyed(cs, ps)[p], k)
  PROVE  PlacedOK(e, h, Keyed(cs2, qs), qs, x, n + 1)
<1>1. /\ Len(ps) \in Nat /\ Len(cs) \in Nat /\ Chained(ps)
      /\ \A p \in 1..Len(ps) : ps[p].car \in 1..Len(cs)
  BY StoreFacts
<1>2. /\ Placed(h, Keyed(cs, ps), ps, v, v.len) /\ Once(e, Keyed(cs, ps), Members(ps, v))
      /\ n = Cardinality(CellsOf(ps, Members(ps, v)))
  BY DEF PlacedOK
<1>3. /\ Extends(Keyed(cs2, qs), Keyed(cs, ps), ps) /\ Held(ps, v)
      /\ PushedOn(ps, qs, v, x, i, Len(ps) + 1, Len(cs) + 1)
      /\ Keyed(cs2, qs)[Len(ps) + 1] = k
  BY DEF PushOK
<1>4. /\ x.len = v.len /\ Members(qs, x) = Members(ps, v) \cup {Len(ps) + 1}
      /\ CellsOf(qs, Members(qs, x)) = CellsOf(ps, Members(ps, v)) \cup {Len(cs) + 1}
  BY <1>3 DEF PushedOn
<1>5. Placed(h, Keyed(cs2, qs), qs, x, x.len)
  BY <1>1, <1>2, <1>3, <1>4, PlacedOn
<1>6. Members(ps, v) \subseteq 1..Len(ps)
  BY <1>1, <1>3, MembersIn
<1>7. Once(e, Keyed(cs2, qs), Members(qs, x))
  <2>1. \A p \in Members(ps, v) : Keyed(cs2, qs)[p] = Keyed(cs, ps)[p]
    BY <1>3, <1>6 DEF Extends
  <2>2. \A p \in Members(ps, v) : ~SameBy(e, Keyed(cs, ps)[p], Keyed(cs2, qs)[Len(ps) + 1])
    BY <1>3
  <2>3. Once(e, Keyed(cs2, qs), Members(ps, v) \cup {Len(ps) + 1})
    BY <1>2, <2>1, <2>2, OnceMore
  <2>4. QED
    BY <1>4, <2>3
<1>8. n + 1 = Cardinality(CellsOf(qs, Members(qs, x)))
  <2>1. PICK C : C = CellsOf(ps, Members(ps, v))
    OBVIOUS
  <2>2. C \subseteq 1..Len(cs)
    BY <1>1, <1>6, <2>1 DEF CellsOf
  <2>3. IsFiniteSet(C)
    <3>1. IsFiniteSet(1..Len(cs))
      BY <1>1, FS_Interval
    <3>2. QED
      BY <2>2, <3>1, FS_Subset
  <2>4. Len(cs) + 1 \notin C
    BY <1>1, <2>2
  <2>5. Cardinality(C \cup {Len(cs) + 1}) = Cardinality(C) + 1
    BY <2>3, <2>4, FS_AddElement
  <2>6. QED
    BY <1>2, <1>4, <2>1, <2>5
<1>9. QED
  BY <1>5, <1>7, <1>8 DEF PlacedOK

\* What AddCell leaves, with the vector v to put the cell in.
LEMMA AddCellInv ==
  ASSUME TableInv, NEW v, Held(pairs, v), NEW k \in Keys, NEW val \in Vals,
         PlacedOK(eq_fn, hash_fn, Keyed(cells, pairs), pairs, v, size),
         \A p \in Members(pairs, v) : ~SameBy(eq_fn, Keyed(cells, pairs)[p], k),
         grow.on \/ v = buckets, AddCell(v, k, val),
         eq_fn' = eq_fn, hash_fn' = hash_fn, walk' = walk, kept' = kept
  PROVE  /\ StoreOK(cells', pairs', vectors') /\ Len(cells') = Len(cells) + 1
         /\ PlacedOK(eq_fn', hash_fn', Keyed(cells', pairs'), pairs', buckets', size')
         /\ grow' = NoGrowth
         /\ WalkInv(eq_fn', hash_fn', Keyed(cells', pairs'), pairs', vectors', walk', kept')
         /\ CellsOf(pairs', Members(pairs', buckets')) = CellsOf(pairs, Members(pairs, v)) \cup {Len(cells) + 1}
<1>1. /\ StoreOK(cells, pairs, vectors)
      /\ PlacedOK(eq_fn, hash_fn, Keyed(cells, pairs), pairs, buckets, size)
      /\ WalkInv(eq_fn, hash_fn, Keyed(cells, pairs), pairs, vectors, walk, kept)
  BY DEF TableInv
<1>2. PICK cs, ps, vs, cs2, qs, vs2 :
        cs = cells /\ ps = pairs /\ vs = vectors /\ cs2 = cells' /\ qs = pairs' /\ vs2 = vectors'
  OBVIOUS
<1>3. PICK i, x, r : /\ i = Bucket(hash_fn, v.len, k) /\ x = vector_set(v, i, Len(ps) + 1)
                     /\ r = [key |-> k, val |-> val]
  OBVIOUS
<1>4. /\ cs2 = Append(cs, r) /\ qs = Append(ps, Pushed(v, i, Len(cs) + 1))
      /\ size' = size + 1 /\ grow' = NoGrowth
      /\ vs2 = IF grow.on THEN Append(vs, x) ELSE [vs EXCEPT ![Len(vs)] = x]
  BY <1>2, <1>3, SameIs DEF AddCell, vector_push
<1>5. /\ cs \in Seq(Cells) /\ Len(cs) \in Nat /\ Len(ps) \in Nat /\ vs \in Seq(Vecs) /\ Len(vs) \in Nat \ {0}
      /\ \A n \in 1..Len(vs) : Held(ps, vs[n])
  BY <1>1, <1>2, StoreFacts DEF StoreOK
<1>6. r \in Cells /\ r.key = k
  BY <1>3 DEF Cells
<1>7. /\ cs2 \in Seq(Cells) /\ Len(cs2) = Len(cs) + 1 /\ cs2[Len(cs) + 1] = r
      /\ \A c \in 1..Len(cs) : cs2[c].key = cs[c].key
  BY <1>4, <1>5, <1>6
<1>8. PushOK(cs, ps, cs2, qs, v, x, i, k, Len(cs) + 1)
  <2>1. Len(cs) <= Len(cs2) /\ Len(cs) + 1 \in 1..Len(cs2) /\ cs2[Len(cs) + 1].key = k
    BY <1>5, <1>6, <1>7
  <2>2. PICK c : c = Len(cs) + 1
    OBVIOUS
  <2>3. PushOK(cs, ps, cs2, Append(ps, Pushed(v, Bucket(hash_fn, v.len, cs2[c].key), c)), v,
               vector_set(v, Bucket(hash_fn, v.len, cs2[c].key), Len(ps) + 1),
               Bucket(hash_fn, v.len, cs2[c].key), cs2[c].key, c)
    BY <1>1, <1>2, <1>7, <2>1, <2>2, PushCell
  <2>4. QED
    BY <1>3, <1>4, <2>1, <2>2, <2>3
<1>9. PlacedOK(eq_fn, hash_fn, Keyed(cs2, qs), qs, x, size + 1)
  BY <1>1, <1>2, <1>3, <1>8, PlacedAdded
<1>10. /\ Chained(qs) /\ (\A p \in 1..Len(qs) : qs[p].car \in 1..Len(cs2)) /\ Held(qs, x)
       /\ \A u : Held(ps, u) => Held(qs, u)
  BY <1>8 DEF PushOK, PushedOn, Intact
<1>11. CellsOf(qs, Members(qs, x)) = CellsOf(ps, Members(ps, v)) \cup {Len(cs) + 1}
  BY <1>8 DEF PushOK, PushedOn
<1>12. x \in Vecs
  BY <1>10 DEF Held
<1>13. CASE grow.on
  <2>1. vs2 = Append(vs, x)
    BY <1>4, <1>13
  <2>2. /\ vs2 \in Seq(Vecs) /\ Len(vs2) = Len(vs) + 1 /\ vs2[Len(vs2)] = x
        /\ \A n \in 1..Len(vs) : vs2[n] = vs[n]
    BY <1>5, <1>12, <2>1
  <2>3. \A n \in 1..Len(vs2) : Held(qs, vs2[n])
    <3>1. \A n \in 1..Len(vs2) : n = Len(vs2) \/ n \in 1..Len(vs)
      BY <1>5, <2>2
    <3>2. QED
      BY <1>5, <1>10, <2>2, <3>1
  <2>4. StoreOK(cs2, qs, vs2)
    <3>1. vs2 # <<>>
      BY <1>5, <2>2
    <3>2. QED
      BY <1>7, <1>10, <2>2, <2>3, <3>1 DEF StoreOK
  <2>5. WalkInv(eq_fn, hash_fn, Keyed(cs2, qs), qs, vs2, walk, kept)
    <3>1. walk.on => vs2[walk.vec] = vs[walk.vec]
      <4>1. walk.on => walk.vec \in 1..Len(vs)
        <5>1. walk.vec \in 0..Len(vs) /\ (walk.on => walk.vec # 0)
          BY <1>1, <1>2, WalkType
        <5>2. QED
          BY <1>5, <5>1
      <4>2. QED
        BY <2>2, <4>1
    <3>2. Len(vs2) \in Nat /\ Len(vs) <= Len(vs2)
      BY <1>5, <2>2
    <3>3. QED
      BY <1>1, <1>2, <1>8, <3>1, <3>2, WalkElsewhere
  <2>6. QED
    BY <1>2, <1>4, <1>7, <1>9, <1>11, <2>2, <2>4, <2>5 DEF buckets
<1>14. CASE ~grow.on
  <2>1. vs2 = [vs EXCEPT ![Len(vs)] = x] /\ v = vs[Len(vs)]
    BY <1>2, <1>4, <1>14 DEF buckets
  <2>2. /\ vs2 \in Seq(Vecs) /\ Len(vs2) = Len(vs) /\ vs2[Len(vs2)] = x
        /\ \A n \in 1..Len(vs) : n # Len(vs2) => vs2[n] = vs[n]
    BY <1>5, <1>12, <2>1
  <2>3. \A n \in 1..Len(vs2) : Held(qs, vs2[n])
    BY <1>5, <1>10, <2>2
  <2>4. StoreOK(cs2, qs, vs2)
    <3>1. vs2 # <<>>
      BY <1>5, <2>2
    <3>2. QED
      BY <1>7, <1>10, <2>2, <2>3, <3>1 DEF StoreOK
  <2>5. WalkInv(eq_fn, hash_fn, Keyed(cs2, qs), qs, vs2, walk, kept)
    <3>1. WalkInv(eq_fn, hash_fn, Keyed(cs2, qs), qs, [vs EXCEPT ![Len(vs)] = x], walk, kept)
      BY <1>1, <1>2, <1>3, <1>8, <2>1, WalkAdded
    <3>2. QED
      BY <2>1, <3>1
  <2>6. QED
    BY <1>2, <1>4, <1>7, <1>9, <1>11, <2>2, <2>4, <2>5 DEF buckets
<1>15. QED
  BY <1>13, <1>14

\* Every part of TableInv but the type of update.
TableParts ==
  /\ eq_fn \in {"eq", "equal"} /\ hash_fn \in {"builtin", "user"}
  /\ StoreOK(cells, pairs, vectors)
  /\ PlacedOK(eq_fn, hash_fn, Keyed(cells, pairs), pairs, buckets, size)
  /\ grow = NoGrowth \/ GrowOK(eq_fn, hash_fn, Keyed(cells, pairs), pairs, buckets, grow)
  /\ WalkInv(eq_fn, hash_fn, Keyed(cells, pairs), pairs, vectors, walk, kept)

\* A growth begins with an empty vector.
LEMMA GrowBegins ==
  ASSUME TableInv, NEW k \in Keys, NEW val \in {1, NotFound},
         \A p \in Members(pairs, buckets) : ~SameBy(eq_fn, Keyed(cells, pairs)[p], k)
  PROVE  GrowOK(eq_fn, hash_fn, Keyed(cells, pairs), pairs, buckets,
                [on |-> TRUE, vec |-> make_vector(2 * buckets.len), i |-> -1, ls |-> 0, key |-> k, val |-> val])
<1>1. Chained(pairs) /\ Len(pairs) \in Nat /\ Held(pairs, buckets)
  BY StoreFacts DEF TableInv, buckets
<1>2. buckets.len \in Nat \ {0}
  BY <1>1, VectorType DEF Held
<1>3. PICK n, v : n = 2 * buckets.len /\ v = make_vector(n)
  OBVIOUS
<1>4. n \in Nat \ {0}
  BY <1>2, <1>3
<1>5. v.len = n /\ v.at \in [0..(n - 1) -> Nat] /\ \A j \in 0..(n - 1) : v.at[j] = 0
  BY <1>3, <1>4 DEF make_vector
<1>6. v \in Vecs
  <2>1. v \in [len : {n}, at : [0..(n - 1) -> Nat]]
    BY <1>3, <1>4 DEF make_vector
  <2>2. QED
    BY <1>4, <2>1 DEF Vecs
<1>7. Held(pairs, v)
  BY <1>1, <1>5, <1>6 DEF Held
<1>8. \A j \in 0..(v.len - 1) : ListFrom(pairs, v.at[j]) = {}
  BY <1>1, <1>5, ListUnfold
<1>9. Members(pairs, v) = {}
  BY <1>8 DEF Members
<1>10. Copied(pairs, buckets, -1, 0) = {}
  BY <1>2 DEF Copied
<1>11. /\ Placed(hash_fn, Keyed(cells, pairs), pairs, v, v.len)
       /\ Once(eq_fn, Keyed(cells, pairs), Members(pairs, v))
       /\ CellsOf(pairs, Members(pairs, v)) = CellsOf(pairs, Copied(pairs, buckets, -1, 0))
  BY <1>8, <1>9, <1>10 DEF Placed, Once
<1>12. PICK g : g = [on |-> TRUE, vec |-> v, i |-> -1, ls |-> 0, key |-> k, val |-> val]
  OBVIOUS
<1>13. g.on = TRUE /\ g.vec = v /\ g.i = -1 /\ g.ls = 0 /\ g.key = k /\ g.val = val
  BY <1>12
<1>14. -1 \in -1..(buckets.len - 1) /\ 0 \in 0..Len(pairs)
  BY <1>1, <1>2
<1>15. GrowOK(eq_fn, hash_fn, Keyed(cells, pairs), pairs, buckets, g)
  <2>1. g \in [on : {TRUE}, vec : Vecs, i : -1..(buckets.len - 1), ls : 0..Len(pairs), key : Keys,
               val : {1, NotFound}]
    BY <1>6, <1>12, <1>14
  <2>2. QED
    BY <1>7, <1>11, <1>13, <2>1 DEF GrowOK
<1>16. QED
  BY <1>3, <1>12, <1>15

\* A growth is under way, or its record is empty.
LEMMA GrowOff ==
  ASSUME TableInv
  PROVE  /\ grow.on \in BOOLEAN
         /\ ~grow.on => grow = NoGrowth
         /\ grow.on => GrowOK(eq_fn, hash_fn, Keyed(cells, pairs), pairs, buckets, grow)
<1>1. NoGrowth.on = FALSE
  BY DEF NoGrowth
<1>2. grow = NoGrowth \/ (grow.on = TRUE /\ GrowOK(eq_fn, hash_fn, Keyed(cells, pairs), pairs, buckets, grow))
  BY DEF TableInv, GrowOK
<1>3. QED
  BY <1>1, <1>2

\* hash-table-cell for a key that is not there, up to the beginning of a growth.
LEMMA CreateCellInv ==
  ASSUME TableInv, ~grow.on, NEW k \in Keys, NEW val \in {1, NotFound}, CellAt(k) = 0, CreateCell(k, val),
         eq_fn' = eq_fn, hash_fn' = hash_fn, walk' = walk, kept' = kept
  PROVE  /\ TableParts' /\ Len(cells) <= Len(cells')
         /\ ~grow'.on => Len(cells') = Len(cells) + 1
<1>1. /\ StoreOK(cells, pairs, vectors)
      /\ PlacedOK(eq_fn, hash_fn, Keyed(cells, pairs), pairs, buckets, size)
      /\ eq_fn \in {"eq", "equal"} /\ hash_fn \in {"builtin", "user"}
      /\ WalkInv(eq_fn, hash_fn, Keyed(cells, pairs), pairs, vectors, walk, kept)
  BY DEF TableInv
<1>2. \A p \in Members(pairs, buckets) : ~SameBy(eq_fn, Keyed(cells, pairs)[p], k)
  BY <1>1, CellAtIs
<1>3. Len(cells) \in Nat /\ Held(pairs, buckets)
  BY <1>1, StoreFacts DEF buckets
<1>4. CASE resize_check(size, buckets.len)
  <2>1. PICK g : g = [on |-> TRUE, vec |-> make_vector(2 * buckets.len), i |-> -1, ls |-> 0,
                      key |-> k, val |-> val]
    OBVIOUS
  <2>2. grow' = g /\ cells' = cells /\ pairs' = pairs /\ vectors' = vectors /\ size' = size
    BY <1>4, <2>1 DEF CreateCell
  <2>3. GrowOK(eq_fn, hash_fn, Keyed(cells, pairs), pairs, buckets, g)
    BY <1>2, <2>1, GrowBegins
  <2>4. g.on = TRUE
    BY <2>1
  <2>5. buckets' = buckets
    BY <2>2 DEF buckets
  <2>6. TableParts'
    BY <1>1, <2>2, <2>3, <2>5 DEF TableParts
  <2>7. QED
    BY <1>3, <2>2, <2>4, <2>6
<1>5. CASE ~resize_check(size, buckets.len)
  <2>1. AddCell(buckets, k, val)
    BY <1>5 DEF CreateCell
  <2>2. val \in Vals
    BY DEF Vals
  <2>3. /\ StoreOK(cells', pairs', vectors') /\ Len(cells') = Len(cells) + 1
        /\ PlacedOK(eq_fn', hash_fn', Keyed(cells', pairs'), pairs', buckets', size')
        /\ grow' = NoGrowth
        /\ WalkInv(eq_fn', hash_fn', Keyed(cells', pairs'), pairs', vectors', walk', kept')
    BY <1>1, <1>2, <1>3, <2>1, <2>2, AddCellInv
  <2>4. TableParts'
    BY <1>1, <2>3 DEF TableParts
  <2>5. QED
    BY <1>3, <2>3, <2>4
<1>6. QED
  BY <1>4, <1>5

\* Writing to a cell changes no key.
LEMMA SetValueInv ==
  ASSUME TableInv, NEW c \in 1..Len(cells), NEW val \in Vals, cells' = set_value(c, val),
         UNCHANGED <<eq_fn, hash_fn, pairs, vectors, size, grow, walk, kept>>
  PROVE  TableParts' /\ Len(cells') = Len(cells)
<1>1. /\ StoreOK(cells, pairs, vectors) /\ cells \in Seq(Cells) /\ Len(cells) \in Nat
      /\ \A p \in 1..Len(pairs) : pairs[p].car \in 1..Len(cells)
  BY StoreFacts DEF TableInv, StoreOK
<1>2. PICK r : r = [cells[c] EXCEPT !.val = val]
  OBVIOUS
<1>3. r \in Cells /\ r.key = cells[c].key
  <2>1. cells[c] \in Cells
    BY <1>1
  <2>2. QED
    BY <1>2, <2>1 DEF Cells
<1>4. cells' = [cells EXCEPT ![c] = r]
  BY <1>2 DEF set_value
<1>5. /\ cells' \in Seq(Cells) /\ Len(cells') = Len(cells)
      /\ \A d \in 1..Len(cells) : cells'[d].key = cells[d].key
  BY <1>1, <1>3, <1>4
<1>6. Keyed(cells', pairs) = Keyed(cells, pairs)
  BY <1>1, <1>5 DEF Keyed
<1>7. StoreOK(cells', pairs, vectors)
  BY <1>1, <1>5 DEF StoreOK
<1>8. buckets' = buckets
  BY DEF buckets
<1>9. QED
  BY <1>5, <1>6, <1>7, <1>8 DEF TableInv, TableParts

\* hash-table-set! keeps the invariant.
LEMMA SetInv ==
  ASSUME TableInv, NEW k \in Keys, Set(k)
  PROVE  TableInv'
<1>1. ~grow.on /\ eq_fn' = eq_fn /\ hash_fn' = hash_fn /\ walk' = walk /\ kept' = kept /\ update' = update
  BY DEF Set, Called
<1>2. /\ StoreOK(cells, pairs, vectors) /\ update \in 0..Len(cells)
      /\ PlacedOK(eq_fn, hash_fn, Keyed(cells, pairs), pairs, buckets, size)
  BY DEF TableInv
<1>3. Len(cells) \in Nat /\ \A p \in 1..Len(pairs) : pairs[p].car \in 1..Len(cells)
  BY <1>2, StoreFacts
<1>4. CASE CellAt(k) # 0
  <2>1. CellAt(k) \in 1..Len(pairs)
    BY <1>2, <1>4, CellAtIs
  <2>2. pairs[CellAt(k)].car \in 1..Len(cells) /\ 1 \in Vals
    BY <1>3, <2>1 DEF Vals
  <2>3. /\ cells' = set_value(pairs[CellAt(k)].car, 1)
        /\ UNCHANGED <<eq_fn, hash_fn, pairs, vectors, size, grow, walk, kept>>
    BY <1>4 DEF Set
  <2>4. TableParts' /\ Len(cells') = Len(cells)
    BY <2>2, <2>3, SetValueInv
  <2>5. QED
    BY <1>1, <1>2, <2>4 DEF TableInv, TableParts
<1>5. CASE CellAt(k) = 0
  <2>1. CreateCell(k, 1)
    BY <1>5 DEF Set
  <2>2. TableParts' /\ Len(cells) <= Len(cells')
    BY <1>1, <1>5, <2>1, CreateCellInv
  <2>3. Len(cells') \in Nat
    BY <2>2, StoreFacts DEF TableParts
  <2>4. update' \in 0..Len(cells')
    BY <1>1, <1>2, <1>3, <2>2, <2>3
  <2>5. QED
    BY <2>2, <2>4 DEF TableInv, TableParts
<1>6. QED
  BY <1>4, <1>5

\* The first part of hash-table-update! keeps the invariant.
LEMMA UpdateBeginInv ==
  ASSUME TableInv, NEW k \in Keys, UpdateBegin(k)
  PROVE  TableInv'
<1>1. ~grow.on /\ eq_fn' = eq_fn /\ hash_fn' = hash_fn /\ walk' = walk /\ kept' = kept
  BY DEF UpdateBegin, Called
<1>2. /\ StoreOK(cells, pairs, vectors) /\ update \in 0..Len(cells)
      /\ PlacedOK(eq_fn, hash_fn, Keyed(cells, pairs), pairs, buckets, size)
  BY DEF TableInv
<1>3. Len(cells) \in Nat /\ \A p \in 1..Len(pairs) : pairs[p].car \in 1..Len(cells)
  BY <1>2, StoreFacts
<1>4. CASE CellAt(k) # 0
  <2>1. CellAt(k) \in 1..Len(pairs)
    BY <1>2, <1>4, CellAtIs
  <2>2. /\ update' = pairs[CellAt(k)].car
        /\ UNCHANGED <<cells, pairs, vectors, size, grow>>
    BY <1>4 DEF UpdateBegin
  <2>3. update' \in 0..Len(cells)
    BY <1>3, <2>1, <2>2
  <2>4. buckets' = buckets
    BY <2>2 DEF buckets
  <2>5. QED
    BY <1>1, <2>2, <2>3, <2>4 DEF TableInv
<1>5. CASE CellAt(k) = 0
  <2>1. CreateCell(k, NotFound) /\ update' = IF grow'.on THEN 0 ELSE Len(cells) + 1
    BY <1>5 DEF UpdateBegin
  <2>2. TableParts' /\ Len(cells) <= Len(cells') /\ (~grow'.on => Len(cells') = Len(cells) + 1)
    BY <1>1, <1>5, <2>1, CreateCellInv
  <2>3. Len(cells') \in Nat
    BY <2>2, StoreFacts DEF TableParts
  <2>4. update' \in 0..Len(cells')
    BY <1>3, <2>1, <2>2, <2>3
  <2>5. QED
    BY <2>2, <2>4 DEF TableInv, TableParts
<1>6. QED
  BY <1>4, <1>5

\* The end of hash-table-update! keeps the invariant, whether or not the cell is
\* still in the table.
LEMMA UpdateEndInv ==
  ASSUME TableInv, UpdateEnd
  PROVE  TableInv'
<1>1. /\ cells' = set_value(update, 2) /\ update # 0 /\ update' = 0
      /\ UNCHANGED <<eq_fn, hash_fn, pairs, vectors, size, grow, walk, kept>>
  BY DEF UpdateEnd
<1>2. Len(cells) \in Nat /\ update \in 0..Len(cells) /\ 2 \in Vals
  BY StoreFacts DEF TableInv, Vals
<1>3. update \in 1..Len(cells)
  BY <1>1, <1>2
<1>4. TableParts' /\ Len(cells') = Len(cells)
  BY <1>1, <1>2, <1>3, SetValueInv
<1>5. update' \in 0..Len(cells')
  BY <1>1, <1>2, <1>4
<1>6. QED
  BY <1>4, <1>5 DEF TableInv, TableParts

\* An update whose procedure raises keeps the invariant.
LEMMA UpdateFailsInv ==
  ASSUME TableInv, UpdateFails
  PROVE  TableInv'
<1>1. update' = 0 /\ UNCHANGED <<eq_fn, hash_fn, cells, pairs, vectors, size, grow, walk, kept>>
  BY DEF UpdateFails
<1>2. update' \in 0..Len(cells)
  BY <1>1, StoreFacts DEF TableInv
<1>3. buckets' = buckets
  BY <1>1 DEF buckets
<1>4. QED
  BY <1>1, <1>2, <1>3 DEF TableInv

-----------------------------------------------------------------------------
(* A growth.                                                               *)

\* Pairs are only added, and not to v.
LEMMA PlacedStill ==
  ASSUME NEW ps, Chained(ps), NEW v, Held(ps, v), NEW qs, Intact(ps, qs, v),
         \A p \in 1..Len(ps) : qs[p] = ps[p],
         NEW key, NEW key2, Extends(key2, key, ps), NEW e, NEW h, NEW n, PlacedOK(e, h, key, ps, v, n)
  PROVE  PlacedOK(e, h, key2, qs, v, n) /\ CellsOf(qs, Members(qs, v)) = CellsOf(ps, Members(ps, v))
<1>1. /\ Placed(h, key, ps, v, v.len) /\ Once(e, key, Members(ps, v))
      /\ n = Cardinality(CellsOf(ps, Members(ps, v)))
  BY DEF PlacedOK
<1>2. Placed(h, key2, qs, v, v.len)
  BY <1>1, PlacedElsewhere
<1>3. Members(qs, v) = Members(ps, v)
  BY DEF Intact
<1>4. Members(ps, v) \subseteq 1..Len(ps)
  BY MembersIn
<1>5. Once(e, key2, Members(ps, v))
  BY <1>1, <1>4 DEF Once, Extends
<1>6. CellsOf(qs, Members(ps, v)) = CellsOf(ps, Members(ps, v))
  <2>1. \A p \in Members(ps, v) : qs[p].car = ps[p].car
    BY <1>4
  <2>2. QED
    BY <2>1, CellsSame
<1>7. QED
  BY <1>1, <1>2, <1>3, <1>5, <1>6 DEF PlacedOK

\* A growth that goes on to the next bucket keeps the invariant.
LEMMA NextBucketInv ==
  ASSUME TableInv, NextBucket
  PROVE  TableInv'
<1>. DEFINE S == {i \in 0..(buckets.len - 1) : i > grow.i /\ buckets.at[i] # 0}
<1>1. /\ grow.on /\ grow.ls = 0 /\ S # {}
      /\ UNCHANGED <<eq_fn, hash_fn, cells, pairs, vectors, size, update, walk, calls, kept>>
  BY DEF NextBucket
<1>2. PICK i : i = CHOOSE k \in S : \A j \in S : k <= j
  OBVIOUS
<1>3. grow' = [grow EXCEPT !.i = i, !.ls = buckets.at[i]]
  BY <1>2 DEF NextBucket
<1>4. i \in S /\ \A j \in S : i <= j
  <2>1. \E x \in S : \A j \in S : x <= j
    <3>1. S \subseteq Nat
      OBVIOUS
    <3>. HIDE DEF S
    <3>2. QED
      BY <1>1, <3>1, MinInSet
  <2>. HIDE DEF S
  <2>2. QED
    BY <1>2, <2>1
<1>5. Chained(pairs) /\ Len(pairs) \in Nat /\ Held(pairs, buckets)
  BY StoreFacts DEF TableInv, buckets
<1>6. GrowOK(eq_fn, hash_fn, Keyed(cells, pairs), pairs, buckets, grow)
  BY <1>1, GrowOff
<1>7. PICK g, x : g = grow' /\ x = buckets.at[i]
  OBVIOUS
<1>8. x \in 0..Len(pairs) /\ i \in 0..(buckets.len - 1) /\ buckets.len \in Nat
  BY <1>4, <1>5, <1>7, MembersIn, VectorType DEF Held
<1>9. grow \in [on : {TRUE}, vec : Vecs, i : -1..(buckets.len - 1), ls : 0..Len(pairs), key : Keys,
                val : {1, NotFound}]
  BY <1>6 DEF GrowOK
<1>10. /\ g \in [on : {TRUE}, vec : Vecs, i : -1..(buckets.len - 1), ls : 0..Len(pairs), key : Keys,
                 val : {1, NotFound}]
       /\ g.vec = grow.vec /\ g.i = i /\ g.ls = x /\ g.key = grow.key /\ g.val = grow.val
  <2>1. PICK B, L : B = -1..(buckets.len - 1) /\ L = 0..Len(pairs)
    OBVIOUS
  <2>2. i \in B /\ x \in L
    BY <1>8, <2>1
  <2>3. grow \in [on : {TRUE}, vec : Vecs, i : B, ls : L, key : Keys, val : {1, NotFound}]
    BY <1>9, <2>1
  <2>4. g = [grow EXCEPT !.i = i, !.ls = x]
    BY <1>3, <1>7
  <2>5. /\ g \in [on : {TRUE}, vec : Vecs, i : B, ls : L, key : Keys, val : {1, NotFound}]
        /\ g.vec = grow.vec /\ g.i = i /\ g.ls = x /\ g.key = grow.key /\ g.val = grow.val
    BY <2>2, <2>3, <2>4
  <2>6. QED
    BY <2>1, <2>5
<1>11. Copied(pairs, buckets, i, x) = Copied(pairs, buckets, grow.i, 0)
  <2>1. grow.i \in -1..(buckets.len - 1)
    BY <1>9
  <2>2. ListFrom(pairs, 0) = {}
    BY <1>5, ListUnfold
  <2>3. \A j \in 0..(buckets.len - 1) : grow.i < j /\ j < i => ListFrom(pairs, buckets.at[j]) = {}
    <3>1. SUFFICES ASSUME NEW j \in 0..(buckets.len - 1), grow.i < j, j < i
                   PROVE  ListFrom(pairs, buckets.at[j]) = {}
      OBVIOUS
    <3>2. j \notin S
      BY <1>4, <1>8, <3>1
    <3>3. buckets.at[j] = 0
      BY <2>1, <3>1, <3>2
    <3>4. QED
      BY <2>2, <3>3
  <2>4. grow.i < i
    BY <1>4, <2>1
  <2>5. ASSUME NEW p, NEW j \in 0..(buckets.len - 1), p \in ListFrom(pairs, buckets.at[j])
        PROVE  (j < i \/ (j = i /\ p \notin ListFrom(pairs, x))) <=>
               (j < grow.i \/ (j = grow.i /\ p \notin ListFrom(pairs, 0)))
    <3>1. j = i => p \in ListFrom(pairs, x)
      BY <1>7, <2>5
    <3>2. ~(grow.i < j /\ j < i)
      BY <2>3, <2>5
    <3>3. QED
      BY <1>8, <2>1, <2>2, <2>4, <3>1, <3>2
  <2>6. QED
    BY <2>5 DEF Copied
<1>12. GrowOK(eq_fn, hash_fn, Keyed(cells, pairs), pairs, buckets, g)
  <2>1. g.ls # 0 => g.i >= 0 /\ ListFrom(pairs, g.ls) \subseteq ListFrom(pairs, buckets.at[g.i])
    BY <1>7, <1>8, <1>10
  <2>2. QED
    BY <1>1, <1>6, <1>10, <1>11, <2>1 DEF GrowOK
<1>13. buckets' = buckets
  BY <1>1 DEF buckets
<1>14. QED
  BY <1>1, <1>7, <1>12, <1>13 DEF TableInv

\* The pair at which a growth is has not been copied, and no other with its key.
LEMMA NotCopied ==
  ASSUME NEW cs, NEW ps, NEW vs, StoreOK(cs, ps, vs), NEW e, NEW h, NEW v, Held(ps, v),
         NEW n, PlacedOK(e, h, Keyed(cs, ps), ps, v, n),
         NEW g, GrowOK(e, h, Keyed(cs, ps), ps, v, g), g.ls # 0
  PROVE  \A p \in Members(ps, g.vec) : ~SameBy(e, Keyed(cs, ps)[p], Keyed(cs, ps)[g.ls])
<1>1. /\ Chained(ps) /\ Len(ps) \in Nat
      /\ \A p \in 1..Len(ps) : Keyed(cs, ps)[p] = cs[ps[p].car].key
  BY StoreFacts
<1>2. /\ g.i \in -1..(v.len - 1) /\ g.ls \in 0..Len(ps) /\ Held(ps, g.vec)
      /\ g.i >= 0 /\ ListFrom(ps, g.ls) \subseteq ListFrom(ps, v.at[g.i])
      /\ CellsOf(ps, Members(ps, g.vec)) = CellsOf(ps, Copied(ps, v, g.i, g.ls))
  BY DEF GrowOK
<1>3. PICK x, i : x = g.ls /\ i = g.i
  OBVIOUS
<1>4. v.len \in Nat
  BY VectorType DEF Held
<1>5. x \in 1..Len(ps) /\ i \in 0..(v.len - 1)
  BY <1>1, <1>2, <1>3, <1>4
<1>6. x \in ListFrom(ps, x)
  BY <1>1, <1>5, ListUnfold
<1>7. x \in ListFrom(ps, v.at[i])
  BY <1>2, <1>3, <1>6
<1>8. SUFFICES ASSUME NEW p \in Members(ps, g.vec), SameBy(e, Keyed(cs, ps)[p], Keyed(cs, ps)[x])
               PROVE  FALSE
  BY <1>3
<1>9. PICK q \in Copied(ps, v, g.i, g.ls) : ps[q].car = ps[p].car
  BY <1>2 DEF CellsOf
<1>10. p \in 1..Len(ps) /\ q \in 1..Len(ps)
  BY <1>1, <1>2, MembersIn DEF Copied
<1>11. Keyed(cs, ps)[q] = Keyed(cs, ps)[p]
  BY <1>1, <1>9, <1>10
<1>12. PICK j \in 0..(v.len - 1) : /\ q \in ListFrom(ps, v.at[j])
                                   /\ j < i \/ (j = i /\ q \notin ListFrom(ps, x))
  BY <1>3 DEF Copied
<1>13. q = x
  <2>1. q \in Members(ps, v) /\ x \in Members(ps, v)
    BY <1>1, <1>5, <1>7, <1>12, MembersIn
  <2>2. QED
    BY <1>8, <1>11, <2>1 DEF PlacedOK, Once
<1>14. Bucket(h, v.len, Keyed(cs, ps)[x]) = i /\ Bucket(h, v.len, Keyed(cs, ps)[x]) = j
  <2>1. i < v.len /\ j < v.len
    BY <1>4, <1>5, <1>12
  <2>2. QED
    BY <1>5, <1>7, <1>12, <1>13, <2>1 DEF PlacedOK, Placed
<1>15. QED
  BY <1>5, <1>6, <1>12, <1>13, <1>14

\* One more pair is copied.
LEMMA CopiedMore ==
  ASSUME NEW ps, Chained(ps), NEW v, Held(ps, v), NEW qs, Intact(ps, qs, v), NEW i \in 0..(v.len - 1),
         NEW x \in 1..Len(ps), ListFrom(ps, x) \subseteq ListFrom(ps, v.at[i]), Len(ps) <= Len(qs), Len(qs) \in Nat,
         ListFrom(qs, ps[x].cdr) = ListFrom(ps, ps[x].cdr)
  PROVE  Copied(qs, v, i, ps[x].cdr) = Copied(ps, v, i, x) \cup {x}
<1>1. Len(ps) \in Nat /\ ps[x].cdr \in 0..(x - 1) /\ ps[x].cdr \in 0..Len(ps)
  BY ChainedPairs
<1>2. PICK y : y = ps[x].cdr
  OBVIOUS
<1>3. ListFrom(ps, x) = {x} \cup ListFrom(ps, y) /\ ListFrom(qs, y) = ListFrom(ps, y)
  BY <1>2, ListUnfold
<1>4. x \notin ListFrom(ps, y)
  <2>1. ListFrom(ps, y) \subseteq 1..y
    BY <1>1, <1>2, ListBound
  <2>2. QED
    BY <1>1, <1>2, <2>1
<1>5. /\ \A j \in 0..(v.len - 1) : ListFrom(qs, v.at[j]) = ListFrom(ps, v.at[j])
      /\ \A j \in 0..(v.len - 1) : ListFrom(ps, v.at[j]) \subseteq 1..Len(ps)
  BY MembersIn DEF Intact
<1>6. 1..Len(ps) \subseteq 1..Len(qs)
  BY <1>1
<1>7. x \in ListFrom(ps, v.at[i])
  BY <1>3
<1>8. Copied(qs, v, i, y) \subseteq Copied(ps, v, i, x) \cup {x}
  <2>1. SUFFICES ASSUME NEW p \in Copied(qs, v, i, y), p # x PROVE p \in Copied(ps, v, i, x)
    OBVIOUS
  <2>2. PICK j \in 0..(v.len - 1) : p \in ListFrom(qs, v.at[j]) /\ (j < i \/ (j = i /\ p \notin ListFrom(qs, y)))
    BY DEF Copied
  <2>3. p \in ListFrom(ps, v.at[j]) /\ p \in 1..Len(ps) /\ (p \notin ListFrom(qs, y) => p \notin ListFrom(ps, x))
    BY <1>3, <1>5, <2>1, <2>2
  <2>4. QED
    BY <2>2, <2>3 DEF Copied
<1>9. Copied(ps, v, i, x) \subseteq Copied(qs, v, i, y)
  <2>1. SUFFICES ASSUME NEW p \in Copied(ps, v, i, x) PROVE p \in Copied(qs, v, i, y)
    OBVIOUS
  <2>2. PICK j \in 0..(v.len - 1) : p \in ListFrom(ps, v.at[j]) /\ (j < i \/ (j = i /\ p \notin ListFrom(ps, x)))
    BY DEF Copied
  <2>3. p \in ListFrom(qs, v.at[j]) /\ p \in 1..Len(qs) /\ (p \notin ListFrom(ps, x) => p \notin ListFrom(qs, y))
    BY <1>3, <1>5, <1>6, <2>2
  <2>4. QED
    BY <2>2, <2>3 DEF Copied
<1>10. x \in Copied(qs, v, i, y)
  <2>1. x \in ListFrom(qs, v.at[i]) /\ x \in 1..Len(qs) /\ x \notin ListFrom(qs, y)
    BY <1>3, <1>4, <1>5, <1>6, <1>7
  <2>2. QED
    BY <2>1 DEF Copied
<1>11. QED
  BY <1>2, <1>8, <1>9, <1>10

\* A growth that copies a pair keeps the invariant and the cells of the table.
LEMMA CopyPairInv ==
  ASSUME TableInv, CopyPair
  PROVE  TableInv' /\ CellsOf(pairs', Members(pairs', buckets')) = CellsOf(pairs, Members(pairs, buckets))
<1>1. /\ grow.on /\ grow.ls # 0
      /\ UNCHANGED <<eq_fn, hash_fn, cells, vectors, size, update, walk, calls, kept>>
  BY DEF CopyPair
<1>2. /\ StoreOK(cells, pairs, vectors) /\ update \in 0..Len(cells)
      /\ PlacedOK(eq_fn, hash_fn, Keyed(cells, pairs), pairs, buckets, size)
      /\ eq_fn \in {"eq", "equal"} /\ hash_fn \in {"builtin", "user"}
      /\ WalkInv(eq_fn, hash_fn, Keyed(cells, pairs), pairs, vectors, walk, kept)
      /\ GrowOK(eq_fn, hash_fn, Keyed(cells, pairs), pairs, buckets, grow)
  BY <1>1, GrowOff DEF TableInv
<1>3. /\ Chained(pairs) /\ Len(pairs) \in Nat /\ Len(cells) \in Nat /\ Held(pairs, buckets)
      /\ Len(vectors) \in Nat \ {0} /\ cells \in Seq(Cells)
      /\ \A p \in 1..Len(pairs) : pairs[p].car \in 1..Len(cells) /\ Keyed(cells, pairs)[p] = cells[pairs[p].car].key
      /\ \A n \in 1..Len(vectors) : Held(pairs, vectors[n])
  BY <1>2, StoreFacts DEF buckets, StoreOK
<1>4. /\ grow \in [on : {TRUE}, vec : Vecs, i : -1..(buckets.len - 1), ls : 0..Len(pairs), key : Keys,
                   val : {1, NotFound}]
      /\ Held(pairs, grow.vec)
      /\ Placed(hash_fn, Keyed(cells, pairs), pairs, grow.vec, grow.vec.len)
      /\ Once(eq_fn, Keyed(cells, pairs), Members(pairs, grow.vec))
      /\ \A p \in Members(pairs, buckets) : ~SameBy(eq_fn, Keyed(cells, pairs)[p], grow.key)
      /\ grow.i >= 0 /\ ListFrom(pairs, grow.ls) \subseteq ListFrom(pairs, buckets.at[grow.i])
      /\ CellsOf(pairs, Members(pairs, grow.vec)) = CellsOf(pairs, Copied(pairs, buckets, grow.i, grow.ls))
  BY <1>1, <1>2 DEF GrowOK
<1>5. PICK x, i, v, c, k : x = grow.ls /\ i = grow.i /\ v = grow.vec /\ c = pairs[x].car /\ k = cells[c].key
  OBVIOUS
<1>6. /\ Held(pairs, v) /\ Placed(hash_fn, Keyed(cells, pairs), pairs, v, v.len)
       /\ Once(eq_fn, Keyed(cells, pairs), Members(pairs, v))
       /\ ListFrom(pairs, x) \subseteq ListFrom(pairs, buckets.at[i])
       /\ CellsOf(pairs, Members(pairs, v)) = CellsOf(pairs, Copied(pairs, buckets, i, x))
  BY <1>4, <1>5
<1>7. buckets.len \in Nat
  BY <1>3, VectorType DEF Held
<1>8. x \in 1..Len(pairs) /\ i \in 0..(buckets.len - 1) /\ v \in Vecs
  BY <1>1, <1>3, <1>4, <1>5, <1>7
<1>9. c \in 1..Len(cells) /\ k = KeyOf(x) /\ Keyed(cells, pairs)[x] = k
  BY <1>3, <1>5, <1>8 DEF KeyOf
<1>10. PICK j, qs, w, y : /\ j = Bucket(hash_fn, v.len, k) /\ qs = Append(pairs, Pushed(v, j, c))
                         /\ w = vector_set(v, j, Len(pairs) + 1) /\ y = pairs[x].cdr
  OBVIOUS
<1>11. pairs' = qs /\ grow' = [grow EXCEPT !.vec = w, !.ls = y]
  BY <1>5, <1>9, <1>10, SameIs DEF CopyPair, vector_push
<1>12. PushOK(cells, pairs, cells, qs, v, w, j, k, c)
  <2>1. Len(cells) <= Len(cells) /\ \A d \in 1..Len(cells) : cells[d].key = cells[d].key
    BY <1>3
  <2>2. PushOK(cells, pairs, cells, Append(pairs, Pushed(v, Bucket(hash_fn, v.len, cells[c].key), c)), v,
               vector_set(v, Bucket(hash_fn, v.len, cells[c].key), Len(pairs) + 1),
               Bucket(hash_fn, v.len, cells[c].key), cells[c].key, c)
    BY <1>2, <1>3, <1>9, <1>6, <2>1, PushCell
  <2>3. QED
    BY <1>5, <1>10, <2>2
<1>13. /\ Chained(qs) /\ Len(qs) = Len(pairs) + 1 /\ (\A p \in 1..Len(pairs) : qs[p] = pairs[p])
       /\ (\A p \in 1..Len(qs) : qs[p].car \in 1..Len(cells))
       /\ PushedOn(pairs, qs, v, w, j, Len(pairs) + 1, c)
       /\ Extends(Keyed(cells, qs), Keyed(cells, pairs), pairs) /\ Keyed(cells, qs)[Len(pairs) + 1] = k
       /\ \A u : Held(pairs, u) => Intact(pairs, qs, u)
  BY <1>12 DEF PushOK
<1>14. Intact(pairs, qs, buckets)
  BY <1>3, <1>13
<1>15. StoreOK(cells, qs, vectors)
  <2>1. \A n \in 1..Len(vectors) : Held(qs, vectors[n])
    BY <1>3, <1>13 DEF Intact
  <2>2. QED
    BY <1>2, <1>13, <2>1 DEF StoreOK
<1>16. /\ PlacedOK(eq_fn, hash_fn, Keyed(cells, qs), qs, buckets, size)
       /\ CellsOf(qs, Members(qs, buckets)) = CellsOf(pairs, Members(pairs, buckets))
  BY <1>2, <1>3, <1>13, <1>14, PlacedStill
<1>17. WalkInv(eq_fn, hash_fn, Keyed(cells, qs), qs, vectors, walk, kept)
  <2>1. Len(vectors) \in Nat /\ Len(vectors) <= Len(vectors) /\ (walk.on => vectors[walk.vec] = vectors[walk.vec])
    BY <1>3
  <2>2. QED
    BY <1>2, <1>12, <2>1, WalkElsewhere
<1>18. PICK g : g = grow'
  OBVIOUS
<1>19. /\ y \in 0..Len(qs) /\ y \in 0..Len(pairs) /\ w \in Vecs
       /\ ListFrom(qs, y) = ListFrom(pairs, y) /\ ListFrom(pairs, x) = {x} \cup ListFrom(pairs, y)
  <2>1. y \in 0..Len(pairs)
    BY <1>3, <1>8, <1>10, ChainedPairs
  <2>2. w \in Vecs
    BY <1>13 DEF PushedOn, Held
  <2>3. ListFrom(qs, y) = ListFrom(pairs, y)
    <3>1. Len(pairs) <= Len(pairs) /\ Len(pairs) <= Len(qs) /\ \A p \in 1..Len(pairs) : qs[p].cdr = pairs[p].cdr
      BY <1>3, <1>13
    <3>2. QED
      BY <1>3, <1>13, <2>1, <3>1, ListAgree
  <2>4. ListFrom(pairs, x) = {x} \cup ListFrom(pairs, y)
    BY <1>3, <1>8, <1>10, ListUnfold
  <2>5. QED
    BY <1>3, <1>13, <2>1, <2>2, <2>3, <2>4
<1>20. /\ g \in [on : {TRUE}, vec : Vecs, i : -1..(buckets.len - 1), ls : 0..Len(qs), key : Keys,
                 val : {1, NotFound}]
       /\ g.vec = w /\ g.i = i /\ g.ls = y /\ g.key = grow.key
  <2>1. PICK B, L, M : B = -1..(buckets.len - 1) /\ L = 0..Len(pairs) /\ M = 0..Len(qs)
    OBVIOUS
  <2>2. grow \in [on : {TRUE}, vec : Vecs, i : B, ls : L, key : Keys, val : {1, NotFound}]
    BY <1>4, <2>1
  <2>3. y \in M
    BY <1>19, <2>1
  <2>4. /\ g \in [on : {TRUE}, vec : Vecs, i : B, ls : M, key : Keys, val : {1, NotFound}]
        /\ g.vec = w /\ g.i = i /\ g.ls = y /\ g.key = grow.key
    BY <1>5, <1>11, <1>18, <1>19, <2>2, <2>3
  <2>5. QED
    BY <2>1, <2>4
<1>21. Placed(hash_fn, Keyed(cells, qs), qs, w, w.len)
  <2>1. w.len = v.len
    BY <1>13 DEF PushedOn
  <2>2. Placed(hash_fn, Keyed(cells, qs), qs, w, v.len)
    BY <1>3, <1>10, <1>13, <1>6, PlacedOn
  <2>3. QED
    BY <2>1, <2>2
<1>22. Once(eq_fn, Keyed(cells, qs), Members(qs, w))
  <2>1. \A p \in Members(pairs, v) : ~SameBy(eq_fn, Keyed(cells, pairs)[p], k)
    <3>1. \A p \in Members(pairs, grow.vec) : ~SameBy(eq_fn, Keyed(cells, pairs)[p], Keyed(cells, pairs)[grow.ls])
      BY <1>1, <1>2, <1>3, NotCopied
    <3>2. QED
      BY <1>5, <1>9, <3>1
  <2>2. Members(pairs, v) \subseteq 1..Len(pairs)
    BY <1>3, <1>6, MembersIn
  <2>3. \A p \in Members(pairs, v) : Keyed(cells, qs)[p] = Keyed(cells, pairs)[p]
    BY <1>13, <2>2 DEF Extends
  <2>4. Once(eq_fn, Keyed(cells, qs), Members(pairs, v) \cup {Len(pairs) + 1})
    <3>1. \A p \in Members(pairs, v) : ~SameBy(eq_fn, Keyed(cells, pairs)[p], Keyed(cells, qs)[Len(pairs) + 1])
      BY <1>13, <2>1
    <3>2. QED
      BY <1>6, <2>3, <3>1, OnceMore
  <2>5. QED
    BY <1>13, <2>4 DEF PushedOn
<1>23. \A p \in Members(qs, buckets) : ~SameBy(eq_fn, Keyed(cells, qs)[p], g.key)
  <2>1. Members(qs, buckets) = Members(pairs, buckets) /\ Members(pairs, buckets) \subseteq 1..Len(pairs)
    BY <1>3, <1>14, MembersIn DEF Intact
  <2>2. QED
    BY <1>4, <1>13, <1>20, <2>1 DEF Extends
<1>24. ListFrom(qs, g.ls) \subseteq ListFrom(qs, buckets.at[g.i]) /\ g.i >= 0
  <2>1. ListFrom(qs, buckets.at[i]) = ListFrom(pairs, buckets.at[i])
    BY <1>8, <1>14 DEF Intact
  <2>2. QED
    BY <1>4, <1>5, <1>19, <1>20, <2>1
<1>25. CellsOf(qs, Members(qs, w)) = CellsOf(qs, Copied(qs, buckets, i, y))
  <2>1. Copied(qs, buckets, i, y) = Copied(pairs, buckets, i, x) \cup {x}
    <3>1. Len(qs) \in Nat /\ Len(pairs) <= Len(qs) /\ ListFrom(pairs, x) \subseteq ListFrom(pairs, buckets.at[i])
      BY <1>3, <1>13, <1>6
    <3>2. ListFrom(qs, pairs[x].cdr) = ListFrom(pairs, pairs[x].cdr)
      BY <1>10, <1>19
    <3>3. Copied(qs, buckets, i, pairs[x].cdr) = Copied(pairs, buckets, i, x) \cup {x}
      BY <1>3, <1>8, <1>14, <3>1, <3>2, CopiedMore, SMTT(30)
    <3>4. QED
      BY <1>10, <3>3
  <2>2. CellsOf(qs, Copied(pairs, buckets, i, x) \cup {x}) = CellsOf(pairs, Copied(pairs, buckets, i, x)) \cup {c}
    <3>1. \A p \in Copied(pairs, buckets, i, x) \cup {x} : qs[p].car = pairs[p].car
      BY <1>8, <1>13 DEF Copied
    <3>2. CellsOf(qs, Copied(pairs, buckets, i, x) \cup {x}) = CellsOf(pairs, Copied(pairs, buckets, i, x) \cup {x})
      BY <3>1, CellsSame
    <3>3. CellsOf(pairs, Copied(pairs, buckets, i, x) \cup {x}) = CellsOf(pairs, Copied(pairs, buckets, i, x)) \cup {c}
      BY <1>5 DEF CellsOf
    <3>4. QED
      BY <3>2, <3>3
  <2>3. CellsOf(qs, Members(qs, w)) = CellsOf(pairs, Members(pairs, v)) \cup {c}
    BY <1>13 DEF PushedOn
  <2>4. QED
    BY <1>6, <2>1, <2>2, <2>3
<1>26. GrowOK(eq_fn, hash_fn, Keyed(cells, qs), qs, buckets, g)
  <2>1. Held(qs, w)
    BY <1>13 DEF PushedOn
  <2>2. QED
    BY <1>20, <1>21, <1>22, <1>23, <1>24, <1>25, <2>1 DEF GrowOK
<1>27. buckets' = buckets
  BY <1>1 DEF buckets
<1>28. QED
  BY <1>1, <1>2, <1>11, <1>15, <1>16, <1>17, <1>18, <1>26, <1>27 DEF TableInv

\* When every bucket has been gone through, the new vector has the cells of the
\* table.
LEMMA GrowEnds ==
  ASSUME TableInv, grow.on, grow.ls = 0,
         \A i \in 0..(buckets.len - 1) : i > grow.i => buckets.at[i] = 0
  PROVE  /\ PlacedOK(eq_fn, hash_fn, Keyed(cells, pairs), pairs, grow.vec, size)
         /\ \A p \in Members(pairs, grow.vec) : ~SameBy(eq_fn, Keyed(cells, pairs)[p], grow.key)
         /\ CellsOf(pairs, Members(pairs, grow.vec)) = CellsOf(pairs, Members(pairs, buckets))
<1>1. /\ StoreOK(cells, pairs, vectors)
      /\ PlacedOK(eq_fn, hash_fn, Keyed(cells, pairs), pairs, buckets, size)
      /\ GrowOK(eq_fn, hash_fn, Keyed(cells, pairs), pairs, buckets, grow)
  BY GrowOff DEF TableInv
<1>2. /\ Chained(pairs) /\ Len(pairs) \in Nat /\ Held(pairs, buckets)
      /\ \A p \in 1..Len(pairs) : Keyed(cells, pairs)[p] = cells[pairs[p].car].key
  BY <1>1, StoreFacts DEF buckets
<1>3. /\ grow.i \in -1..(buckets.len - 1) /\ Held(pairs, grow.vec)
      /\ Placed(hash_fn, Keyed(cells, pairs), pairs, grow.vec, grow.vec.len)
      /\ Once(eq_fn, Keyed(cells, pairs), Members(pairs, grow.vec))
      /\ \A p \in Members(pairs, buckets) : ~SameBy(eq_fn, Keyed(cells, pairs)[p], grow.key)
      /\ CellsOf(pairs, Members(pairs, grow.vec)) = CellsOf(pairs, Copied(pairs, buckets, grow.i, 0))
  BY <1>1 DEF GrowOK
<1>4. Copied(pairs, buckets, grow.i, 0) = Members(pairs, buckets)
  <2>1. ListFrom(pairs, 0) = {}
    BY <1>2, ListUnfold
  <2>2. \A p, j : j \in 0..(buckets.len - 1) /\ p \in ListFrom(pairs, buckets.at[j]) => j < grow.i \/ j = grow.i
    <3>1. SUFFICES ASSUME NEW j \in 0..(buckets.len - 1), NEW p \in ListFrom(pairs, buckets.at[j])
                   PROVE  j < grow.i \/ j = grow.i
      OBVIOUS
    <3>2. buckets.at[j] # 0
      BY <2>1, <3>1
    <3>3. ~(j > grow.i)
      BY <3>2
    <3>4. buckets.len \in Nat
      BY <1>2, VectorType DEF Held
    <3>5. QED
      BY <1>3, <3>3, <3>4
  <2>3. QED
    BY <2>1, <2>2 DEF Copied, Members
<1>5. PlacedOK(eq_fn, hash_fn, Keyed(cells, pairs), pairs, grow.vec, size)
  BY <1>1, <1>3, <1>4 DEF PlacedOK
<1>6. ASSUME NEW p \in Members(pairs, grow.vec) PROVE ~SameBy(eq_fn, Keyed(cells, pairs)[p], grow.key)
  <2>1. PICK q \in Members(pairs, buckets) : pairs[q].car = pairs[p].car
    BY <1>3, <1>4 DEF CellsOf
  <2>2. p \in 1..Len(pairs) /\ q \in 1..Len(pairs)
    BY <1>2, <1>3, MembersIn
  <2>3. Keyed(cells, pairs)[p] = Keyed(cells, pairs)[q]
    BY <1>2, <2>1, <2>2
  <2>4. QED
    BY <1>3, <2>1, <2>3
<1>7. QED
  BY <1>3, <1>4, <1>5, <1>6

\* The new vector takes the place of the old one, whose cells it has.
LEMMA EndGrowthInv ==
  ASSUME TableInv, EndGrowth
  PROVE  TableInv'
<1>1. /\ grow.on /\ grow.ls = 0 /\ (\A i \in 0..(buckets.len - 1) : i > grow.i => buckets.at[i] = 0)
      /\ AddCell(grow.vec, grow.key, grow.val)
      /\ update' = IF grow.val = NotFound THEN Len(cells) + 1 ELSE update
      /\ UNCHANGED <<eq_fn, hash_fn, walk, calls, kept>>
  BY DEF EndGrowth
<1>2. /\ PlacedOK(eq_fn, hash_fn, Keyed(cells, pairs), pairs, grow.vec, size)
      /\ \A p \in Members(pairs, grow.vec) : ~SameBy(eq_fn, Keyed(cells, pairs)[p], grow.key)
  BY <1>1, GrowEnds
<1>3. Held(pairs, grow.vec) /\ grow.key \in Keys /\ grow.val \in Vals
  BY <1>1, GrowOff DEF GrowOK, Vals
<1>4. /\ StoreOK(cells', pairs', vectors') /\ Len(cells') = Len(cells) + 1
      /\ PlacedOK(eq_fn', hash_fn', Keyed(cells', pairs'), pairs', buckets', size')
      /\ grow' = NoGrowth
      /\ WalkInv(eq_fn', hash_fn', Keyed(cells', pairs'), pairs', vectors', walk', kept')
  BY <1>1, <1>2, <1>3, AddCellInv
<1>5. Len(cells) \in Nat /\ update \in 0..Len(cells)
  BY StoreFacts DEF TableInv
<1>6. update' \in 0..Len(cells')
  BY <1>1, <1>4, <1>5
<1>7. QED
  BY <1>1, <1>4, <1>6 DEF TableInv

-----------------------------------------------------------------------------
(* A delete.                                                               *)

\* The lists of v, which is now w, have lost at most the pair p.
Thinned(ps, qs, v, w, p) ==
  /\ Held(qs, w) /\ w.len = v.len
  /\ \A j \in 0..(v.len - 1) : /\ ListFrom(qs, w.at[j]) \subseteq ListFrom(ps, v.at[j])
                               /\ ListFrom(ps, v.at[j]) \ {p} \subseteq ListFrom(qs, w.at[j])

\* The pairs qs are ps with p unlinked from v, which is now w.
Unlinked(ps, qs, v, w, p) ==
  /\ Chained(qs) /\ Len(qs) = Len(ps) /\ (\A x \in 1..Len(ps) : qs[x].car = ps[x].car)
  /\ Held(qs, w) /\ w.len = v.len
  /\ \A j \in 0..(v.len - 1) : ListFrom(qs, w.at[j]) = ListFrom(ps, v.at[j]) \ {p}
  /\ \A u : Held(ps, u) => Thinned(ps, qs, u, u, p)
  /\ \A y : y.ls \in 0..Len(ps) /\ (y.inside => y.ls # 0) =>
              Ahead(qs, y) \subseteq Ahead(ps, y) /\ Ahead(ps, y) \ {p} \subseteq Ahead(qs, y)

\* The pair is the first of its bucket.
LEMMA UnlinkFirst ==
  ASSUME NEW ps, Chained(ps), NEW v, Held(ps, v), NEW i \in 0..(v.len - 1), NEW p \in 1..Len(ps),
         v.at[i] = p, \A j \in 0..(v.len - 1) : p \in ListFrom(ps, v.at[j]) => j = i
  PROVE  Unlinked(ps, ps, v, vector_set(v, i, ps[p].cdr), p)
<1>1. Len(ps) \in Nat /\ ps[p].cdr \in 0..(p - 1) /\ ps[p].cdr \in 0..Len(ps)
  BY ChainedPairs
<1>2. PICK y, w : y = ps[p].cdr /\ w = vector_set(v, i, y)
  OBVIOUS
<1>3. v \in Vecs /\ y \in Nat /\ y \in 0..Len(ps)
  BY <1>1, <1>2 DEF Held
<1>4. /\ w \in Vecs /\ w.len = v.len
      /\ \A j \in 0..(v.len - 1) : w.at[j] = IF j = i THEN y ELSE v.at[j]
  BY <1>2, <1>3, VectorSet
<1>5. \A j \in 0..(v.len - 1) : v.at[j] \in 0..Len(ps)
  BY MembersIn
<1>6. Held(ps, w)
  BY <1>1, <1>3, <1>4, <1>5 DEF Held
<1>7. ListFrom(ps, p) = {p} \cup ListFrom(ps, y)
  BY <1>2, ListUnfold
<1>8. p \notin ListFrom(ps, y)
  <2>1. ListFrom(ps, y) \subseteq 1..y
    BY <1>3, ListBound
  <2>2. QED
    BY <1>1, <1>2, <2>1
<1>9. \A j \in 0..(v.len - 1) : ListFrom(ps, w.at[j]) = ListFrom(ps, v.at[j]) \ {p}
  BY <1>4, <1>7, <1>8
<1>10. \A u : Held(ps, u) => Thinned(ps, ps, u, u, p)
  BY DEF Thinned
<1>11. Unlinked(ps, ps, v, w, p)
  BY <1>4, <1>6, <1>9, <1>10 DEF Unlinked
<1>12. QED
  BY <1>2, <1>11

\* The pair is the cdr of another, q, of its bucket.
LEMMA UnlinkNext ==
  ASSUME NEW ps, Chained(ps), NEW qs, NEW v, Held(ps, v), NEW i \in 0..(v.len - 1),
         NEW p \in 1..Len(ps), NEW q \in 1..Len(ps), ps[q].cdr = p, q \in ListFrom(ps, v.at[i]),
         qs \in Seq(Pairs), Len(qs) = Len(ps), qs[q].car = ps[q].car, qs[q].cdr = ps[p].cdr,
         \A x \in 1..Len(ps) : x # q => qs[x] = ps[x],
         \A j \in 0..(v.len - 1) : p \in ListFrom(ps, v.at[j]) => j = i
  PROVE  Unlinked(ps, qs, v, v, p)
<1>1. /\ Len(ps) \in Nat /\ ps \in Seq(Pairs) /\ p < q
      /\ \A x \in 1..Len(ps) : ps[x] \in Pairs /\ ps[x].cdr \in 0..(x - 1) /\ ps[x].cdr \in 0..Len(ps)
  BY ChainedPairs DEF Chained
<1>2. PICK y : y = ps[p].cdr
  OBVIOUS
<1>6. Chained(qs)
  <2>1. \A x \in 1..Len(qs) : qs[x].cdr < x
    <3>1. y \in 0..(p - 1)
      BY <1>1, <1>2
    <3>2. QED
      BY <1>1, <1>2, <3>1
  <2>2. QED
    BY <2>1 DEF Chained
<1>7. \A x \in 1..Len(ps) : qs[x].car = ps[x].car
  OBVIOUS
<1>8. \A x \in 0..Len(ps) :
        ListFrom(qs, x) = IF q \in ListFrom(ps, x) THEN ListFrom(ps, x) \ {p} ELSE ListFrom(ps, x)
  <2>1. qs[q].cdr = ps[p].cdr /\ \A x \in 1..Len(ps) : x # q => qs[x].cdr = ps[x].cdr
    OBVIOUS
  <2>2. QED
    BY <1>6, <2>1, ListUnlink
<1>9. \A u : Held(ps, u) => Held(qs, u)
  BY DEF Held
<1>10. ASSUME NEW u, Held(ps, u) PROVE Thinned(ps, qs, u, u, p)
  <2>1. \A j \in 0..(u.len - 1) : u.at[j] \in 0..Len(ps)
    BY <1>10, MembersIn
  <2>2. \A j \in 0..(u.len - 1) : /\ ListFrom(qs, u.at[j]) \subseteq ListFrom(ps, u.at[j])
                                  /\ ListFrom(ps, u.at[j]) \ {p} \subseteq ListFrom(qs, u.at[j])
    BY <1>8, <2>1
  <2>3. QED
    BY <1>9, <1>10, <2>2 DEF Thinned
<1>11. ASSUME NEW j \in 0..(v.len - 1) PROVE ListFrom(qs, v.at[j]) = ListFrom(ps, v.at[j]) \ {p}
  <2>1. v.at[j] \in 0..Len(ps)
    BY MembersIn
  <2>2. CASE j = i
    BY <1>8, <2>1, <2>2
  <2>3. CASE j # i
    <3>1. p \notin ListFrom(ps, v.at[j])
      BY <2>3
    <3>2. QED
      BY <1>8, <2>1, <3>1
  <2>4. QED
    BY <2>2, <2>3
<1>12. ASSUME NEW w, w.ls \in 0..Len(ps), w.inside => w.ls # 0
       PROVE  Ahead(qs, w) \subseteq Ahead(ps, w) /\ Ahead(ps, w) \ {p} \subseteq Ahead(qs, w)
  <2>1. PICK a : a = IF w.inside THEN ps[w.ls].cdr ELSE w.ls
    OBVIOUS
  <2>2. PICK b : b = IF w.inside THEN qs[w.ls].cdr ELSE w.ls
    OBVIOUS
  <2>3. (a = IF w.inside THEN ps[w.ls].cdr ELSE w.ls) /\ (b = IF w.inside THEN qs[w.ls].cdr ELSE w.ls)
    BY <2>1, <2>2
  <2>4. Ahead(ps, w) = ListFrom(ps, a) /\ Ahead(qs, w) = ListFrom(qs, b)
    BY <2>3 DEF Ahead
  <2>5. a \in 0..Len(ps)
    BY <1>12, <2>3, AheadIn
  <2>6. CASE w.inside /\ w.ls = q
    <3>1. a = p /\ b = y
      BY <1>2, <2>3, <2>6
    <3>2. y \in 0..Len(ps)
      BY <1>1, <1>2
    <3>3. ListFrom(ps, p) = {p} \cup ListFrom(ps, y)
      BY <1>2, ListUnfold
    <3>4. ListFrom(qs, y) \subseteq ListFrom(ps, y) /\ ListFrom(ps, y) \ {p} \subseteq ListFrom(qs, y)
      BY <1>8, <3>2
    <3>5. QED
      BY <2>4, <3>1, <3>3, <3>4
  <2>7. CASE ~(w.inside /\ w.ls = q)
    <3>1. b = a
      <4>1. w.inside => w.ls \in 1..Len(ps)
        BY <1>1, <1>12
      <4>2. QED
        BY <2>3, <2>7, <4>1
    <3>2. QED
      BY <1>8, <2>4, <2>5, <3>1
  <2>8. QED
    BY <2>6, <2>7
<1>13. Held(qs, v)
  BY <1>9
<1>14. QED
  BY <1>6, <1>7, <1>10, <1>11, <1>12, <1>13 DEF Unlinked

\* The cell is not counted any more.
LEMMA KeyedUnlinked ==
  ASSUME NEW cs, NEW ps, NEW qs, NEW v, NEW w, NEW p, Unlinked(ps, qs, v, w, p)
  PROVE  Keyed(cs, qs) = Keyed(cs, ps)
BY DEF Unlinked, Keyed

\* Without the pair p the keys are in their places, and one fewer.
LEMMA PlacedUnlinked ==
  ASSUME NEW cs, NEW ps, NEW vs, StoreOK(cs, ps, vs), NEW e, NEW h, NEW v, Held(ps, v),
         NEW n, PlacedOK(e, h, Keyed(cs, ps), ps, v, n),
         NEW qs, NEW w, NEW p \in Members(ps, v), Unlinked(ps, qs, v, w, p), NEW m, m = n - 1
  PROVE  /\ PlacedOK(e, h, Keyed(cs, ps), qs, w, m)
         /\ CellsOf(qs, Members(qs, w)) = CellsOf(ps, Members(ps, v)) \ {ps[p].car}
<1>1. /\ Len(cs) \in Nat /\ Len(ps) \in Nat /\ Chained(ps)
      /\ \A x \in 1..Len(ps) : ps[x].car \in 1..Len(cs) /\ Keyed(cs, ps)[x] = cs[ps[x].car].key
  BY StoreFacts
<1>2. /\ Placed(h, Keyed(cs, ps), ps, v, v.len) /\ Once(e, Keyed(cs, ps), Members(ps, v))
      /\ n = Cardinality(CellsOf(ps, Members(ps, v)))
  BY DEF PlacedOK
<1>3. /\ Len(qs) = Len(ps) /\ (\A x \in 1..Len(ps) : qs[x].car = ps[x].car) /\ w.len = v.len
      /\ \A j \in 0..(v.len - 1) : ListFrom(qs, w.at[j]) = ListFrom(ps, v.at[j]) \ {p}
  BY DEF Unlinked
<1>5. Members(qs, w) = Members(ps, v) \ {p}
  BY <1>3 DEF Members
<1>6. Placed(h, Keyed(cs, ps), qs, w, w.len)
  BY <1>2, <1>3 DEF Placed
<1>7. Once(e, Keyed(cs, ps), Members(qs, w))
  BY <1>2, <1>5 DEF Once
<1>8. Members(ps, v) \subseteq 1..Len(ps)
  BY <1>1, MembersIn
<1>9. \A x \in Members(ps, v) : ps[x].car = ps[p].car => x = p
  <2>1. SUFFICES ASSUME NEW x \in Members(ps, v), ps[x].car = ps[p].car PROVE x = p
    OBVIOUS
  <2>2. Keyed(cs, ps)[x] = Keyed(cs, ps)[p]
    BY <1>1, <1>8, <2>1
  <2>3. SameBy(e, Keyed(cs, ps)[x], Keyed(cs, ps)[p])
    BY <2>2, Equivalence
  <2>4. QED
    BY <1>2, <2>3 DEF Once
<1>10. CellsOf(qs, Members(qs, w)) = CellsOf(ps, Members(ps, v)) \ {ps[p].car}
  <2>1. \A x \in Members(qs, w) : qs[x].car = ps[x].car
    BY <1>3, <1>5, <1>8
  <2>2. CellsOf(qs, Members(qs, w)) = CellsOf(ps, Members(qs, w))
    BY <2>1, CellsSame
  <2>3. CellsOf(ps, Members(ps, v) \ {p}) = CellsOf(ps, Members(ps, v)) \ {ps[p].car}
    BY <1>9 DEF CellsOf
  <2>4. QED
    BY <1>5, <2>2, <2>3
<1>11. m = Cardinality(CellsOf(qs, Members(qs, w)))
  <2>1. PICK C, c : C = CellsOf(ps, Members(ps, v)) /\ c = ps[p].car
    OBVIOUS
  <2>2. C \subseteq 1..Len(cs) /\ c \in C
    BY <1>1, <1>8, <2>1 DEF CellsOf
  <2>3. IsFiniteSet(C)
    <3>1. IsFiniteSet(1..Len(cs))
      BY <1>1, FS_Interval
    <3>2. QED
      BY <2>2, <3>1, FS_Subset
  <2>4. Cardinality(C \ {c}) = Cardinality(C) - 1
    BY <2>2, <2>3, FS_RemoveElement
  <2>5. QED
    BY <1>2, <1>10, <2>1, <2>4
<1>12. QED
  BY <1>6, <1>7, <1>10, <1>11 DEF PlacedOK

\* A walk along v, which is now w, when the key of the pair p is kept no more.
LEMMA WalkingThinned ==
  ASSUME NEW e, NEW h, NEW key, NEW ps, Chained(ps), NEW v, Held(ps, v), NEW w, NEW kpt,
         w.ls \in 0..Len(ps), Walking(e, h, key, ps, v, w, kpt),
         NEW qs, Len(qs) = Len(ps), NEW u, NEW p, Thinned(ps, qs, v, u, p),
         Ahead(qs, w) \subseteq Ahead(ps, w), Ahead(ps, w) \ {p} \subseteq Ahead(qs, w),
         NEW k, SameBy(e, key[p], k), NEW kpt2, kpt2 \subseteq kpt, \A j \in kpt2 : ~SameBy(e, j, k)
  PROVE  Walking(e, h, key, qs, u, w, kpt2)
<1>1. /\ w.i <= v.len /\ (w.inside => w.ls # 0) /\ Placed(h, key, ps, v, w.i)
      /\ WalkOK(e, h, key, Ahead(ps, w), Ahead(ps, w) \cup Below(ps, v, w.i), w.seen, kpt, v.len, w.i)
  BY DEF Walking
<1>2. /\ u.len = v.len
      /\ \A j \in 0..(v.len - 1) : /\ ListFrom(qs, u.at[j]) \subseteq ListFrom(ps, v.at[j])
                                   /\ ListFrom(ps, v.at[j]) \ {p} \subseteq ListFrom(qs, u.at[j])
  BY DEF Thinned
<1>3. Placed(h, key, qs, u, w.i)
  BY <1>1, <1>2 DEF Placed
<1>4. Below(qs, u, w.i) \subseteq Below(ps, v, w.i) /\ Below(ps, v, w.i) \ {p} \subseteq Below(qs, u, w.i)
  <2>1. Below(qs, u, w.i) \subseteq Below(ps, v, w.i)
    BY <1>2 DEF Below
  <2>2. ASSUME NEW x \in Below(ps, v, w.i), x # p PROVE x \in Below(qs, u, w.i)
    <3>1. PICK j \in 0..(v.len - 1) : j < w.i /\ x \in ListFrom(ps, v.at[j])
      BY DEF Below
    <3>2. x \in ListFrom(qs, u.at[j])
      BY <1>2, <2>2, <3>1
    <3>3. QED
      BY <1>2, <3>1, <3>2 DEF Below
  <2>3. QED
    BY <2>1, <2>2
<1>5. PICK C, R, C2, R2 : /\ C = Ahead(ps, w) /\ R = Ahead(ps, w) \cup Below(ps, v, w.i)
                          /\ C2 = Ahead(qs, w) /\ R2 = Ahead(qs, w) \cup Below(qs, u, w.i)
  OBVIOUS
<1>6. C2 \subseteq C /\ C2 \subseteq R2 /\ R2 \subseteq R /\ R \ {p} \subseteq R2
  BY <1>4, <1>5
<1>7. kpt2 \subseteq kpt /\ \A x \in R2 : key[x] = key[x]
  OBVIOUS
<1>8. \A j \in kpt2 : \A x \in R : SameBy(e, key[x], j) => x \in R2
  <2>1. SUFFICES ASSUME NEW j \in kpt2, NEW x \in R, SameBy(e, key[x], j) PROVE x \in R2
    OBVIOUS
  <2>2. ~SameBy(e, j, k)
    OBVIOUS
  <2>3. ~SameBy(e, key[p], j)
    BY <2>2, Equivalence
  <2>4. x # p
    BY <2>1, <2>3
  <2>5. QED
    BY <1>6, <2>4
<1>9. WalkOK(e, h, key, C, R, w.seen, kpt, v.len, w.i)
  BY <1>1, <1>5
<1>10. WalkOK(e, h, key, C2, R2, w.seen, kpt2, v.len, w.i)
  BY <1>6, <1>7, <1>8, <1>9, WalkLess
<1>11. QED
  BY <1>1, <1>2, <1>3, <1>5, <1>10 DEF Walking

\* A walk meets what it has still to meet without the pair p, also when it is the
\* pair it stands on or the next one.
LEMMA WalkUnlinked ==
  ASSUME NEW cs, NEW ps, NEW vs, StoreOK(cs, ps, vs), NEW e, NEW h, NEW w, NEW kpt,
         WalkInv(e, h, Keyed(cs, ps), ps, vs, w, kpt),
         NEW qs, NEW x, NEW p, Unlinked(ps, qs, vs[Len(vs)], x, p),
         NEW vs2, Len(vs2) = Len(vs), vs2[Len(vs)] = x,
         \A n \in 1..Len(vs) : n # Len(vs) => vs2[n] = vs[n],
         NEW k, SameBy(e, Keyed(cs, ps)[p], k), NEW kpt2, kpt2 \subseteq kpt, \A j \in kpt2 : ~SameBy(e, j, k)
  PROVE  WalkInv(e, h, Keyed(cs, ps), qs, vs2, w, kpt2)
<1>1. /\ Len(ps) \in Nat /\ Len(vs) \in Nat \ {0} /\ Chained(ps)
      /\ \A n \in 1..Len(vs) : Held(ps, vs[n])
  BY StoreFacts
<1>2. /\ Len(qs) = Len(ps) /\ (\A u : Held(ps, u) => Thinned(ps, qs, u, u, p))
      /\ Thinned(ps, qs, vs[Len(vs)], x, p)
      /\ \A y : y.ls \in 0..Len(ps) /\ (y.inside => y.ls # 0) =>
                  Ahead(qs, y) \subseteq Ahead(ps, y) /\ Ahead(ps, y) \ {p} \subseteq Ahead(qs, y)
  BY DEF Unlinked, Thinned
<1>3. ASSUME w.on PROVE Walking(e, h, Keyed(cs, ps), qs, vs2[w.vec], w, kpt2)
  <2>1. /\ w.vec \in 0..Len(vs) /\ w.vec # 0 /\ w.ls \in 0..Len(ps) /\ (w.inside => w.ls # 0)
        /\ Walking(e, h, Keyed(cs, ps), ps, vs[w.vec], w, kpt)
    BY <1>3, WalkType
  <2>2. w.vec \in 1..Len(vs)
    BY <1>1, <2>1
  <2>3. PICK v, u : v = vs[w.vec] /\ u = vs2[w.vec]
    OBVIOUS
  <2>4. Held(ps, v) /\ Walking(e, h, Keyed(cs, ps), ps, v, w, kpt)
    BY <1>1, <2>1, <2>2, <2>3
  <2>5. Thinned(ps, qs, v, u, p)
    <3>1. CASE w.vec = Len(vs)
      BY <1>2, <2>3, <3>1
    <3>2. CASE w.vec # Len(vs)
      <4>1. u = v
        BY <2>2, <2>3, <3>2
      <4>2. QED
        BY <1>2, <2>4, <4>1
    <3>3. QED
      BY <3>1, <3>2
  <2>6. Ahead(qs, w) \subseteq Ahead(ps, w) /\ Ahead(ps, w) \ {p} \subseteq Ahead(qs, w)
    BY <1>2, <2>1
  <2>7. Walking(e, h, Keyed(cs, ps), qs, u, w, kpt2)
    BY <1>1, <1>2, <2>1, <2>3, <2>4, <2>5, <2>6, WalkingThinned
  <2>8. QED
    BY <2>3, <2>7
<1>4. Len(qs) \in Nat /\ Len(ps) <= Len(qs) /\ Len(vs2) \in Nat /\ Len(vs) <= Len(vs2) /\ Len(vs) \in Nat
      /\ kpt2 \subseteq kpt
  BY <1>1, <1>2
<1>5. QED
  BY <1>1, <1>3, <1>4, WalkStays

\* What DeleteCell leaves.
LEMMA DeleteCellIs ==
  ASSUME TableInv, NEW k \in Keys, CellAt(k) # 0, DeleteCell(k)
  PROVE  /\ CellAt(k) \in Members(pairs, buckets) /\ CellAt(k) \in 1..Len(pairs)
         /\ SameBy(eq_fn, Keyed(cells, pairs)[CellAt(k)], k)
         /\ Unlinked(pairs, pairs', buckets, buckets', CellAt(k))
         /\ vectors' \in Seq(Vecs) /\ Len(vectors') = Len(vectors)
         /\ \A n \in 1..Len(vectors) : n # Len(vectors) => vectors'[n] = vectors[n]
         /\ size' = size - 1
<1>1. /\ StoreOK(cells, pairs, vectors)
      /\ PlacedOK(eq_fn, hash_fn, Keyed(cells, pairs), pairs, buckets, size)
  BY DEF TableInv
<1>2. /\ Chained(pairs) /\ pairs \in Seq(Pairs) /\ Len(pairs) \in Nat /\ Held(pairs, buckets)
      /\ vectors \in Seq(Vecs) /\ Len(vectors) \in Nat \ {0}
  BY <1>1, StoreFacts DEF buckets, StoreOK, Chained
<1>3. PICK p, i, ls, v : p = CellAt(k) /\ i = get_bucket(buckets.len, k) /\ ls = buckets.at[i] /\ v = buckets
  OBVIOUS
<1>4. /\ p \in ListFrom(pairs, ls) /\ p \in Members(pairs, v) /\ p \in 1..Len(pairs)
      /\ SameBy(eq_fn, Keyed(cells, pairs)[p], k)
  BY <1>1, <1>3, CellAtIs
<1>5. v.len \in Nat \ {0} /\ Held(pairs, v) /\ v \in Vecs
  BY <1>2, <1>3, VectorType DEF Held
<1>6. i \in 0..(v.len - 1) /\ ls = v.at[i] /\ ls \in 0..Len(pairs)
  BY <1>2, <1>3, <1>5, SameIs, BucketRange, MembersIn
<1>7. ASSUME NEW j \in 0..(v.len - 1), p \in ListFrom(pairs, v.at[j]) PROVE j = i
  <2>1. i < v.len /\ j < v.len
    BY <1>5, <1>6
  <2>2. QED
    BY <1>1, <1>3, <1>4, <1>6, <1>7, <2>1 DEF PlacedOK, Placed
<1>8. size' = size - 1
  BY DEF DeleteCell
<1>9. CASE ls = p
  <2>1. PICK x : x = vector_set(v, i, pairs[p].cdr)
    OBVIOUS
  <2>2. vectors' = [vectors EXCEPT ![Len(vectors)] = x] /\ pairs' = pairs
    BY <1>3, <1>9, <2>1 DEF DeleteCell, buckets
  <2>3. Unlinked(pairs, pairs, v, x, p)
    BY <1>2, <1>4, <1>5, <1>6, <1>7, <1>9, <2>1, UnlinkFirst
  <2>4. x \in Vecs
    BY <2>3 DEF Unlinked, Held
  <2>5. /\ vectors' \in Seq(Vecs) /\ Len(vectors') = Len(vectors) /\ vectors'[Len(vectors)] = x
        /\ \A n \in 1..Len(vectors) : n # Len(vectors) => vectors'[n] = vectors[n]
    BY <1>2, <2>2, <2>4
  <2>6. buckets' = x
    BY <2>5 DEF buckets
  <2>7. QED
    BY <1>3, <1>4, <1>8, <2>2, <2>3, <2>5, <2>6
<1>10. CASE ls # p
  <2>1. PICK q : q = CHOOSE r \in ListFrom(pairs, ls) : pairs[r].cdr = p
    OBVIOUS
  <2>2. pairs' = relink(q, pairs[p].cdr) /\ vectors' = vectors
    BY <1>3, <1>10, <2>1 DEF DeleteCell
  <2>3. q \in ListFrom(pairs, ls) /\ pairs[q].cdr = p
    <3>1. \E y \in ListFrom(pairs, ls) : pairs[y].cdr = p
      BY <1>2, <1>4, <1>6, <1>10, ListBefore
    <3>2. QED
      BY <2>1, <3>1
  <2>4. q \in 1..Len(pairs)
    BY <1>2, <1>5, <1>6, <2>3, MembersIn
  <2>5. PICK qs : qs = pairs'
    OBVIOUS
  <2>6. /\ qs \in Seq(Pairs) /\ Len(qs) = Len(pairs) /\ qs[q].car = pairs[q].car /\ qs[q].cdr = pairs[p].cdr
        /\ \A x \in 1..Len(pairs) : x # q => qs[x] = pairs[x]
    <3>1. PICK y, r : y = pairs[p].cdr /\ r = [pairs[q] EXCEPT !.cdr = y]
      OBVIOUS
    <3>2. y \in Nat
      BY <1>2, <1>4, <3>1, ChainedPairs
    <3>3. r \in Pairs /\ r.car = pairs[q].car /\ r.cdr = y
      <4>1. pairs[q] \in Pairs
        BY <1>2, <2>4
      <4>2. QED
        BY <3>1, <3>2, <4>1 DEF Pairs
    <3>4. qs = [pairs EXCEPT ![q] = r]
      BY <2>2, <2>5, <3>1 DEF relink
    <3>5. qs \in Seq(Pairs) /\ Len(qs) = Len(pairs) /\ qs[q] = r /\ \A x \in 1..Len(pairs) : x # q => qs[x] = pairs[x]
      BY <1>2, <2>4, <3>3, <3>4
    <3>6. QED
      BY <3>1, <3>3, <3>5
  <2>7. Unlinked(pairs, qs, v, v, p)
    BY <1>2, <1>4, <1>5, <1>6, <1>7, <2>3, <2>4, <2>6, UnlinkNext
  <2>8. buckets' = v
    BY <1>3, <2>2 DEF buckets
  <2>9. QED
    BY <1>2, <1>3, <1>4, <1>8, <2>2, <2>5, <2>7, <2>8
<1>11. QED
  BY <1>9, <1>10

\* hash-table-delete! keeps the invariant.
LEMMA DeleteInv ==
  ASSUME TableInv, NEW k \in Keys, Delete(k)
  PROVE  TableInv'
<1>1. /\ ~grow.on /\ CellAt(k) # 0 /\ DeleteCell(k) /\ kept' = {j \in kept : ~Same(j, k)}
      /\ UNCHANGED <<eq_fn, hash_fn, cells, grow, update, walk>>
  BY DEF Delete, Called
<1>2. /\ StoreOK(cells, pairs, vectors) /\ update \in 0..Len(cells) /\ grow = NoGrowth
      /\ PlacedOK(eq_fn, hash_fn, Keyed(cells, pairs), pairs, buckets, size)
      /\ eq_fn \in {"eq", "equal"} /\ hash_fn \in {"builtin", "user"}
      /\ WalkInv(eq_fn, hash_fn, Keyed(cells, pairs), pairs, vectors, walk, kept)
  BY <1>1, GrowOff DEF TableInv
<1>3. PICK p : p = CellAt(k)
  OBVIOUS
<1>4. /\ p \in Members(pairs, buckets) /\ p \in 1..Len(pairs) /\ SameBy(eq_fn, Keyed(cells, pairs)[p], k)
      /\ Unlinked(pairs, pairs', buckets, buckets', p)
      /\ vectors' \in Seq(Vecs) /\ Len(vectors') = Len(vectors)
      /\ \A n \in 1..Len(vectors) : n # Len(vectors) => vectors'[n] = vectors[n]
      /\ size' = size - 1
  BY <1>1, <1>3, DeleteCellIs
<1>5. /\ Len(vectors) \in Nat \ {0} /\ Held(pairs, buckets)
      /\ \A n \in 1..Len(vectors) : Held(pairs, vectors[n])
  BY <1>2, StoreFacts DEF buckets
<1>6. /\ PlacedOK(eq_fn, hash_fn, Keyed(cells, pairs'), pairs', buckets', size - 1)
      /\ Keyed(cells, pairs') = Keyed(cells, pairs)
  <2>1. PICK qs, x, m : qs = pairs' /\ x = buckets' /\ m = size - 1
    OBVIOUS
  <2>2. Unlinked(pairs, qs, buckets, x, p)
    BY <1>4, <2>1
  <2>3. Keyed(cells, qs) = Keyed(cells, pairs)
    BY <2>2, KeyedUnlinked
  <2>4. PlacedOK(eq_fn, hash_fn, Keyed(cells, pairs), qs, x, m)
    BY <1>2, <1>4, <1>5, <2>1, <2>2, PlacedUnlinked
  <2>5. QED
    BY <2>1, <2>3, <2>4
<1>7. /\ Chained(pairs') /\ Len(pairs') = Len(pairs) /\ Held(pairs', buckets')
      /\ (\A x \in 1..Len(pairs) : pairs'[x].car = pairs[x].car)
      /\ \A u : Held(pairs, u) => Held(pairs', u)
  BY <1>4 DEF Unlinked, Thinned
<1>8. StoreOK(cells, pairs', vectors')
  <2>1. buckets' = vectors'[Len(vectors)]
    BY <1>4 DEF buckets
  <2>2. \A n \in 1..Len(vectors') : Held(pairs', vectors'[n])
    BY <1>4, <1>5, <1>7, <2>1
  <2>3. vectors' # <<>>
    BY <1>4, <1>5
  <2>4. QED
    BY <1>2, <1>4, <1>7, <2>2, <2>3 DEF StoreOK
<1>9. WalkInv(eq_fn, hash_fn, Keyed(cells, pairs), pairs', vectors', walk, kept')
  <2>1. kept' = {j \in kept : ~SameBy(eq_fn, j, k)}
    BY <1>1, SameIs
  <2>2. PICK qs, x, vs, kpt : qs = pairs' /\ x = buckets' /\ vs = vectors' /\ kpt = kept'
    OBVIOUS
  <2>3. /\ Unlinked(pairs, qs, vectors[Len(vectors)], x, p) /\ vs[Len(vectors)] = x /\ Len(vs) = Len(vectors)
        /\ (\A n \in 1..Len(vectors) : n # Len(vectors) => vs[n] = vectors[n])
        /\ kpt \subseteq kept /\ \A j \in kpt : ~SameBy(eq_fn, j, k)
    BY <1>4, <2>1, <2>2 DEF buckets
  <2>4. WalkInv(eq_fn, hash_fn, Keyed(cells, pairs), qs, vs, walk, kpt)
    BY <1>2, <1>4, <2>3, WalkUnlinked
  <2>5. QED
    BY <2>2, <2>4
<1>10. QED
  BY <1>1, <1>2, <1>4, <1>6, <1>8, <1>9 DEF TableInv

-----------------------------------------------------------------------------
(* The steps of a walk.                                                    *)

\* The walk and the keys kept change, and nothing else.
LEMMA WalkStep ==
  ASSUME TableInv,
         WalkInv(eq_fn, hash_fn, Keyed(cells, pairs), pairs, vectors, walk', kept'),
         UNCHANGED <<eq_fn, hash_fn, cells, pairs, vectors, size, grow, update>>
  PROVE  TableInv'
<1>1. buckets' = buckets
  BY DEF buckets
<1>2. QED
  BY <1>1 DEF TableInv

\* A walk that begins has met nothing, and has every bound key before it.
LEMMA WalkBeginInv ==
  ASSUME TableInv, WalkBegin
  PROVE  TableInv'
<1>1. /\ walk' = [NoWalk EXCEPT !.on = TRUE, !.vec = Len(vectors), !.i = buckets.len]
      /\ kept' = {k \in Keys : CellAt(k) # 0}
      /\ UNCHANGED <<eq_fn, hash_fn, cells, pairs, vectors, size, grow, update, calls>>
  BY DEF WalkBegin
<1>2. /\ StoreOK(cells, pairs, vectors)
      /\ PlacedOK(eq_fn, hash_fn, Keyed(cells, pairs), pairs, buckets, size)
  BY DEF TableInv
<1>3. /\ Len(vectors) \in Nat \ {0} /\ Len(pairs) \in Nat /\ Chained(pairs) /\ Held(pairs, buckets)
  BY <1>2, StoreFacts DEF buckets
<1>4. PICK w, v, n, kpt, key : /\ w = walk' /\ v = buckets /\ n = Len(vectors) /\ kpt = kept'
                               /\ key = Keyed(cells, pairs)
  OBVIOUS
<1>5. v.len \in Nat \ {0} /\ Held(pairs, v)
  BY <1>3, <1>4, VectorType DEF Held
<1>6. w = [on |-> TRUE, vec |-> n, i |-> v.len, ls |-> 0, inside |-> FALSE, seen |-> <<>>]
  BY <1>1, <1>4 DEF NoWalk
<1>7. w \in [on : BOOLEAN, vec : 0..Len(vectors), i : Nat, ls : 0..Len(pairs), inside : BOOLEAN, seen : Seq(Keys)]
  <2>1. n \in 0..Len(vectors) /\ v.len \in Nat /\ 0 \in 0..Len(pairs) /\ <<>> \in Seq(Keys)
    BY <1>3, <1>4, <1>5
  <2>2. QED
    BY <1>6, <2>1
<1>8. Ahead(pairs, w) = {} /\ Ahead(pairs, w) \cup Below(pairs, v, v.len) = Members(pairs, v)
  <2>1. Ahead(pairs, w) = {}
    BY <1>3, <1>6, ListUnfold DEF Ahead
  <2>2. Below(pairs, v, v.len) = Members(pairs, v)
    BY <1>5 DEF Below, Members
  <2>3. QED
    BY <2>1, <2>2
<1>9. Placed(hash_fn, key, pairs, v, v.len) /\ Once(eq_fn, key, Members(pairs, v))
  BY <1>2, <1>4 DEF PlacedOK
<1>10. \A k \in kpt : \E p \in Members(pairs, v) : SameBy(eq_fn, key[p], k)
  <2>1. SUFFICES ASSUME NEW k \in kpt PROVE \E p \in Members(pairs, v) : SameBy(eq_fn, key[p], k)
    OBVIOUS
  <2>2. k \in Keys /\ CellAt(k) # 0
    BY <1>1, <1>4
  <2>3. CellAt(k) \in Members(pairs, buckets) /\ SameBy(eq_fn, Keyed(cells, pairs)[CellAt(k)], k)
    BY <1>2, <2>2, CellAtIs
  <2>4. QED
    BY <1>4, <2>3
<1>11. Len(w.seen) = 0
  BY <1>6
<1>12. WalkOK(eq_fn, hash_fn, key, {}, Members(pairs, v), w.seen, kpt, v.len, v.len)
  BY <1>9, <1>10, <1>11 DEF WalkOK
<1>13. Walking(eq_fn, hash_fn, key, pairs, v, w, kpt)
  <2>1. w.i = v.len /\ w.inside = FALSE
    BY <1>6
  <2>2. v.len <= v.len
    BY <1>5
  <2>3. QED
    BY <1>8, <1>9, <1>12, <2>1, <2>2 DEF Walking
<1>14. WalkInv(eq_fn, hash_fn, key, pairs, vectors, w, kpt)
  <2>1. w.on = TRUE /\ w.vec = n /\ n # 0 /\ vectors[n] = v
    BY <1>3, <1>4, <1>6 DEF buckets
  <2>2. kpt \subseteq Keys
    BY <1>1, <1>4
  <2>3. QED
    BY <1>7, <1>11, <1>13, <2>1, <2>2 DEF WalkInv
<1>15. QED
  BY <1>1, <1>4, <1>14, WalkStep

\* A walk that takes the cdr after the procedure has returned keeps the invariant.
LEMMA WalkNextInv ==
  ASSUME TableInv, WalkNext
  PROVE  TableInv'
<1>1. /\ walk.on /\ walk.inside /\ walk' = [walk EXCEPT !.inside = FALSE, !.ls = pairs[walk.ls].cdr]
      /\ UNCHANGED <<eq_fn, hash_fn, cells, pairs, vectors, size, grow, update, calls, kept>>
  BY DEF WalkNext
<1>2. /\ StoreOK(cells, pairs, vectors)
      /\ WalkInv(eq_fn, hash_fn, Keyed(cells, pairs), pairs, vectors, walk, kept)
  BY DEF TableInv
<1>3. Len(pairs) \in Nat /\ Chained(pairs)
  BY <1>2, StoreFacts
<1>4. PICK w, y, key : w = walk' /\ y = pairs[walk.ls].cdr /\ key = Keyed(cells, pairs)
  OBVIOUS
<1>5. /\ walk \in [on : BOOLEAN, vec : 0..Len(vectors), i : Nat, ls : 0..Len(pairs), inside : BOOLEAN, seen : Seq(Keys)]
      /\ walk.vec # 0 /\ Walking(eq_fn, hash_fn, key, pairs, vectors[walk.vec], walk, kept)
      /\ walk.ls # 0 /\ walk.ls \in 0..Len(pairs) /\ kept \subseteq Keys
      /\ \A i, j \in 1..Len(walk.seen) : SameBy(eq_fn, walk.seen[i], walk.seen[j]) => i = j
  BY <1>1, <1>2, <1>4, WalkType DEF WalkInv
<1>6. walk.ls \in 1..Len(pairs)
  BY <1>3, <1>5
<1>7. y \in 0..Len(pairs)
  BY <1>3, <1>4, <1>6, ChainedPairs
<1>8. /\ w \in [on : BOOLEAN, vec : 0..Len(vectors), i : Nat, ls : 0..Len(pairs), inside : BOOLEAN, seen : Seq(Keys)]
      /\ w.on = walk.on /\ w.vec = walk.vec /\ w.i = walk.i /\ w.ls = y /\ w.inside = FALSE /\ w.seen = walk.seen
  <2>1. PICK A, B : A = 0..Len(vectors) /\ B = 0..Len(pairs)
    OBVIOUS
  <2>2. walk \in [on : BOOLEAN, vec : A, i : Nat, ls : B, inside : BOOLEAN, seen : Seq(Keys)] /\ y \in B
    BY <1>5, <1>7, <2>1
  <2>3. /\ w \in [on : BOOLEAN, vec : A, i : Nat, ls : B, inside : BOOLEAN, seen : Seq(Keys)]
        /\ w.on = walk.on /\ w.vec = walk.vec /\ w.i = walk.i /\ w.ls = y /\ w.inside = FALSE /\ w.seen = walk.seen
    BY <1>1, <1>4, <2>2
  <2>4. QED
    BY <2>1, <2>3
<1>9. Ahead(pairs, w) = Ahead(pairs, walk)
  BY <1>1, <1>4, <1>8 DEF Ahead
<1>10. Walking(eq_fn, hash_fn, key, pairs, vectors[w.vec], w, kept)
  BY <1>5, <1>8, <1>9 DEF Walking
<1>11. WalkInv(eq_fn, hash_fn, key, pairs, vectors, w, kept)
  BY <1>1, <1>5, <1>8, <1>10 DEF WalkInv
<1>12. QED
  BY <1>1, <1>4, <1>11, WalkStep

Follows(s, seen, a) ==
  /\ Len(seen) \in Nat /\ Len(s) = Len(seen) + 1 /\ s[Len(seen) + 1] = a
  /\ \A n \in 1..Len(seen) : s[n] = seen[n]
Distinct(e, s) == \A m, n \in 1..Len(s) : SameBy(e, s[m], s[n]) => m = n

\* proc is called on the key of the pair x, which leaves those in C2.
LEMMA WalkSees ==
  ASSUME NEW e, NEW h, NEW key, NEW C, NEW R, NEW seen, NEW kpt, NEW len, NEW i \in Int,
         WalkOK(e, h, key, C, R, seen, kpt, len, i),
         NEW x \in C, C \subseteq R,
         NEW C2, NEW R2, C2 \subseteq C, R2 \subseteq R, x \notin R2, \A p \in R : p = x \/ p \in R2,
         Distinct(e, seen), NEW s, Follows(s, seen, key[x])
  PROVE  WalkOK(e, h, key, C2, R2, s, kpt, len, i) /\ Distinct(e, s)
<1>1. /\ Once(e, key, R)
      /\ \A p \in R : \A n \in 1..Len(seen) : ~SameBy(e, key[p], seen[n])
      /\ \A k \in kpt : \/ \E n \in 1..Len(seen) : SameBy(e, seen[n], k)
                        \/ \E p \in R : SameBy(e, key[p], k)
      /\ \A p \in C : Bucket(h, len, key[p]) = i
      /\ \A n \in 1..Len(seen) : Bucket(h, len, seen[n]) >= i
  BY DEF WalkOK
<1>2. PICK m : m = Len(seen) + 1
  OBVIOUS
<1>3. Len(seen) \in Nat /\ Len(s) = m /\ s[m] = key[x] /\ \A n \in 1..Len(seen) : s[n] = seen[n]
  BY <1>2 DEF Follows
<1>4. \A n \in 1..Len(s) : n = m \/ n \in 1..Len(seen)
  BY <1>2, <1>3
<1>5. m \in 1..Len(s) /\ (\A n \in 1..Len(seen) : n \in 1..Len(s)) /\ x \in R
  BY <1>2, <1>3
<1>6. Once(e, key, R2)
  BY <1>1 DEF Once
<1>7. ASSUME NEW p \in R2, NEW n \in 1..Len(s) PROVE ~SameBy(e, key[p], s[n])
  <2>1. CASE n = m
    BY <1>1, <1>3, <1>5, <2>1 DEF Once
  <2>2. CASE n \in 1..Len(seen)
    BY <1>1, <1>3, <2>2
  <2>3. QED
    BY <1>4, <2>1, <2>2
<1>8. ASSUME NEW k \in kpt
      PROVE  \/ \E n \in 1..Len(s) : SameBy(e, s[n], k)
             \/ \E p \in R2 : SameBy(e, key[p], k)
  <2>1. CASE \E n \in 1..Len(seen) : SameBy(e, seen[n], k)
    BY <1>3, <1>5, <2>1
  <2>2. CASE \E p \in R : SameBy(e, key[p], k)
    <3>1. PICK p \in R : SameBy(e, key[p], k)
      BY <2>2
    <3>2. CASE p = x
      BY <1>3, <1>5, <3>1, <3>2
    <3>3. CASE p # x
      BY <3>1, <3>3
    <3>4. QED
      BY <3>2, <3>3
  <2>3. QED
    BY <1>1, <2>1, <2>2
<1>9. \A p \in C2 : Bucket(h, len, key[p]) = i
  BY <1>1
<1>10. \A n \in 1..Len(s) : Bucket(h, len, s[n]) >= i
  <2>1. Bucket(h, len, s[m]) >= i
    BY <1>1, <1>3
  <2>2. QED
    BY <1>1, <1>3, <1>4, <2>1
<1>11. ASSUME NEW a \in 1..Len(s), NEW b \in 1..Len(s), SameBy(e, s[a], s[b]) PROVE a = b
  <2>1. \A n \in 1..Len(seen) : ~SameBy(e, key[x], seen[n]) /\ ~SameBy(e, seen[n], key[x])
    BY <1>1, <1>5, Equivalence
  <2>2. QED
    BY <1>3, <1>4, <1>11, <2>1 DEF Distinct
<1>12. WalkOK(e, h, key, C2, R2, s, kpt, len, i)
  BY <1>6, <1>7, <1>8, <1>9, <1>10 DEF WalkOK
<1>13. QED
  BY <1>11, <1>12 DEF Distinct

\* A walk that calls the procedure on a key has not done so before.
LEMMA WalkVisitInv ==
  ASSUME TableInv, WalkVisit
  PROVE  TableInv'
<1>1. /\ walk.on /\ ~walk.inside /\ walk.ls # 0
      /\ walk' = [walk EXCEPT !.inside = TRUE, !.seen = Append(@, KeyOf(walk.ls))]
      /\ UNCHANGED <<eq_fn, hash_fn, cells, pairs, vectors, size, grow, update, calls, kept>>
  BY DEF WalkVisit
<1>2. /\ StoreOK(cells, pairs, vectors)
      /\ WalkInv(eq_fn, hash_fn, Keyed(cells, pairs), pairs, vectors, walk, kept)
  BY DEF TableInv
<1>3. /\ Len(pairs) \in Nat /\ Chained(pairs)
      /\ \A p \in 1..Len(pairs) : Keyed(cells, pairs)[p] = cells[pairs[p].car].key /\ Keyed(cells, pairs)[p] \in Keys
  BY <1>2, StoreFacts
<1>4. PICK w, x, v, key : w = walk' /\ x = walk.ls /\ v = vectors[walk.vec] /\ key = Keyed(cells, pairs)
  OBVIOUS
<1>5. /\ walk \in [on : BOOLEAN, vec : 0..Len(vectors), i : Nat, ls : 0..Len(pairs), inside : BOOLEAN, seen : Seq(Keys)]
      /\ walk.vec # 0 /\ Walking(eq_fn, hash_fn, key, pairs, v, walk, kept)
      /\ x \in 0..Len(pairs) /\ kept \subseteq Keys /\ walk.i \in Nat /\ walk.seen \in Seq(Keys)
      /\ \A i, j \in 1..Len(walk.seen) : SameBy(eq_fn, walk.seen[i], walk.seen[j]) => i = j
  BY <1>1, <1>2, <1>4, WalkType DEF WalkInv
<1>6. x \in 1..Len(pairs)
  BY <1>1, <1>3, <1>4, <1>5
<1>7. KeyOf(walk.ls) = key[x] /\ key[x] \in Keys
  BY <1>3, <1>4, <1>6 DEF KeyOf
<1>8. PICK s : s = Append(walk.seen, key[x])
  OBVIOUS
<1>9. s \in Seq(Keys)
  BY <1>5, <1>7, <1>8
<1>10. /\ w \in [on : BOOLEAN, vec : 0..Len(vectors), i : Nat, ls : 0..Len(pairs), inside : BOOLEAN, seen : Seq(Keys)]
       /\ w.on = TRUE /\ w.vec = walk.vec /\ w.i = walk.i /\ w.ls = x /\ w.inside = TRUE /\ w.seen = s
  <2>1. PICK A, B : A = 0..Len(vectors) /\ B = 0..Len(pairs)
    OBVIOUS
  <2>2. walk \in [on : BOOLEAN, vec : A, i : Nat, ls : B, inside : BOOLEAN, seen : Seq(Keys)]
    BY <1>5, <2>1
  <2>3. w = [walk EXCEPT !.inside = TRUE, !.seen = s]
    BY <1>1, <1>4, <1>7, <1>8
  <2>4. /\ w \in [on : BOOLEAN, vec : A, i : Nat, ls : B, inside : BOOLEAN, seen : Seq(Keys)]
        /\ w.on = walk.on /\ w.vec = walk.vec /\ w.i = walk.i /\ w.ls = x /\ w.inside = TRUE /\ w.seen = s
    BY <1>4, <1>9, <2>2, <2>3
  <2>5. walk.on = TRUE
    BY <1>1, <2>2
  <2>6. QED
    BY <2>1, <2>4, <2>5
<1>11. PICK C, R, C2, R2, y : /\ C = Ahead(pairs, walk) /\ R = C \cup Below(pairs, v, walk.i)
                              /\ C2 = Ahead(pairs, w) /\ R2 = C2 \cup Below(pairs, v, walk.i)
                              /\ y = pairs[x].cdr
  OBVIOUS
<1>12. C = {x} \cup C2 /\ x \notin C2
  <2>1. C = ListFrom(pairs, x) /\ C2 = ListFrom(pairs, y)
    BY <1>1, <1>4, <1>10, <1>11 DEF Ahead
  <2>2. ListFrom(pairs, x) = {x} \cup ListFrom(pairs, y)
    BY <1>3, <1>6, <1>11, ListUnfold
  <2>3. y \in 0..(x - 1) /\ y \in 0..Len(pairs)
    BY <1>3, <1>6, <1>11, ChainedPairs
  <2>4. ListFrom(pairs, y) \subseteq 1..y
    BY <1>3, <2>3, ListBound
  <2>5. x \notin ListFrom(pairs, y)
    BY <1>6, <2>3, <2>4
  <2>6. QED
    BY <2>1, <2>2, <2>5
<1>13. /\ walk.i <= v.len /\ Placed(hash_fn, key, pairs, v, walk.i)
       /\ WalkOK(eq_fn, hash_fn, key, C, R, walk.seen, kept, v.len, walk.i)
  BY <1>5, <1>11 DEF Walking
<1>14. x \notin Below(pairs, v, walk.i)
  <2>1. SUFFICES ASSUME x \in Below(pairs, v, walk.i) PROVE FALSE
    OBVIOUS
  <2>2. PICK j \in 0..(v.len - 1) : j < walk.i /\ x \in ListFrom(pairs, v.at[j])
    BY <2>1 DEF Below
  <2>3. Bucket(hash_fn, v.len, key[x]) = j
    BY <1>13, <2>2 DEF Placed
  <2>4. Bucket(hash_fn, v.len, key[x]) = walk.i
    BY <1>12, <1>13 DEF WalkOK
  <2>5. QED
    BY <1>5, <2>2, <2>3, <2>4
<1>15. R2 = R \ {x} /\ x \in C /\ C \subseteq R /\ C2 \subseteq C
  BY <1>11, <1>12, <1>14
<1>16. /\ WalkOK(eq_fn, hash_fn, key, C2, R2, s, kept, v.len, walk.i)
       /\ \A m, n \in 1..Len(s) : SameBy(eq_fn, s[m], s[n]) => m = n
  <2>1. walk.i \in Int /\ Distinct(eq_fn, walk.seen)
    BY <1>5 DEF Distinct
  <2>2. x \notin R2 /\ R2 \subseteq R /\ (\A p \in R : p = x \/ p \in R2) /\ x \in C /\ C \subseteq R /\ C2 \subseteq C
    BY <1>15
  <2>3. WalkOK(eq_fn, hash_fn, key, C2, R2, s, kept, v.len, walk.i) /\ Distinct(eq_fn, s)
    <3>1. Follows(s, walk.seen, key[x])
      BY <1>5, <1>7, <1>8 DEF Follows
    <3>2. QED
      BY <1>13, <2>1, <2>2, <3>1, WalkSees
  <2>4. QED
    BY <2>3 DEF Distinct
<1>17. Walking(eq_fn, hash_fn, key, pairs, vectors[w.vec], w, kept)
  <2>1. WalkOK(eq_fn, hash_fn, key, Ahead(pairs, w), Ahead(pairs, w) \cup Below(pairs, v, w.i), w.seen, kept,
               v.len, w.i)
    BY <1>10, <1>11, <1>16
  <2>2. w.ls # 0 /\ vectors[w.vec] = v /\ w.i <= v.len /\ Placed(hash_fn, key, pairs, v, w.i)
    BY <1>1, <1>4, <1>10, <1>13
  <2>3. QED
    BY <2>1, <2>2 DEF Walking
<1>18. WalkInv(eq_fn, hash_fn, key, pairs, vectors, w, kept)
  BY <1>5, <1>10, <1>16, <1>17 DEF WalkInv
<1>19. QED
  BY <1>1, <1>4, <1>18, WalkStep

\* A walk goes on to the next bucket, or has met every kept key.
LEMMA WalkBucketInv ==
  ASSUME TableInv, WalkBucket
  PROVE  TableInv'
<1>1. PICK v, key : v = vectors[walk.vec] /\ key = Keyed(cells, pairs)
  OBVIOUS
<1>. DEFINE S == {i \in 0..(v.len - 1) : i < walk.i /\ v.at[i] # 0}
<1>2. PICK i : i = CHOOSE k \in S : \A j \in S : j <= k
  OBVIOUS
<1>3. /\ walk.on /\ ~walk.inside /\ walk.ls = 0
      /\ walk' = IF S = {} THEN [walk EXCEPT !.on = FALSE] ELSE [walk EXCEPT !.i = i, !.ls = v.at[i]]
      /\ UNCHANGED <<eq_fn, hash_fn, cells, pairs, vectors, size, grow, update, calls, kept>>
  <2>1. WalkDown(v)
    BY <1>1 DEF WalkBucket
  <2>2. QED
    BY <1>2, <2>1 DEF WalkDown
<1>4. /\ StoreOK(cells, pairs, vectors)
      /\ WalkInv(eq_fn, hash_fn, Keyed(cells, pairs), pairs, vectors, walk, kept)
  BY DEF TableInv
<1>5. /\ Len(pairs) \in Nat /\ Len(vectors) \in Nat /\ Chained(pairs)
      /\ \A n \in 1..Len(vectors) : Held(pairs, vectors[n])
  BY <1>4, StoreFacts
<1>6. /\ walk \in [on : BOOLEAN, vec : 0..Len(vectors), i : Nat, ls : 0..Len(pairs), inside : BOOLEAN, seen : Seq(Keys)]
      /\ walk.vec # 0 /\ Walking(eq_fn, hash_fn, key, pairs, v, walk, kept)
      /\ kept \subseteq Keys /\ walk.i \in Nat /\ walk.seen \in Seq(Keys) /\ walk.vec \in 0..Len(vectors)
      /\ \A m, j \in 1..Len(walk.seen) : SameBy(eq_fn, walk.seen[m], walk.seen[j]) => m = j
  BY <1>1, <1>3, <1>4, WalkType DEF WalkInv
<1>7. Held(pairs, v) /\ v.len \in Nat
  <2>1. walk.vec \in 1..Len(vectors)
    BY <1>5, <1>6
  <2>2. Held(pairs, v)
    BY <1>1, <1>5, <2>1
  <2>3. QED
    BY <2>2, VectorType DEF Held
<1>8. ListFrom(pairs, 0) = {}
  BY <1>5, ListUnfold
<1>9. /\ walk.i <= v.len /\ Placed(hash_fn, key, pairs, v, walk.i)
      /\ WalkOK(eq_fn, hash_fn, key, {}, Below(pairs, v, walk.i), walk.seen, kept, v.len, walk.i)
  <2>1. Ahead(pairs, walk) = {}
    BY <1>3, <1>8 DEF Ahead
  <2>2. QED
    BY <1>6, <2>1 DEF Walking
<1>10. PICK w : w = walk'
  OBVIOUS
<1>11. CASE S = {}
  <2>1. /\ w \in [on : BOOLEAN, vec : 0..Len(vectors), i : Nat, ls : 0..Len(pairs), inside : BOOLEAN, seen : Seq(Keys)]
        /\ w.on = FALSE /\ w.seen = walk.seen
    <3>1. w = [walk EXCEPT !.on = FALSE]
      BY <1>3, <1>10, <1>11
    <3>2. QED
      BY <1>6, <3>1
  <2>2. Below(pairs, v, walk.i) = {}
    <3>1. \A j \in 0..(v.len - 1) : j < walk.i => ListFrom(pairs, v.at[j]) = {}
      BY <1>8, <1>11
    <3>2. QED
      BY <3>1 DEF Below
  <2>3. \A k \in kept : \E n \in 1..Len(w.seen) : SameBy(eq_fn, w.seen[n], k)
    BY <1>9, <2>1, <2>2 DEF WalkOK
  <2>4. WalkInv(eq_fn, hash_fn, key, pairs, vectors, w, kept)
    BY <1>6, <2>1, <2>3 DEF WalkInv
  <2>5. QED
    BY <1>1, <1>3, <1>10, <2>4, WalkStep
<1>12. CASE S # {}
  <2>1. i \in S /\ \A j \in S : j <= i
    <3>1. \E x \in S : \A j \in S : j <= x
      <4>1. S \subseteq 0..(v.len)
        BY <1>7
      <4>. HIDE DEF S
      <4>2. QED
        BY <1>7, <1>12, <4>1, MaxInSet
    <3>. HIDE DEF S
    <3>2. QED
      BY <1>2, <3>1
  <2>2. PICK x : x = v.at[i]
    OBVIOUS
  <2>3. i \in 0..(v.len - 1) /\ i \in Nat /\ i < walk.i /\ x \in 0..Len(pairs)
    BY <1>5, <1>7, <2>1, <2>2, MembersIn
  <2>4. /\ w \in [on : BOOLEAN, vec : 0..Len(vectors), i : Nat, ls : 0..Len(pairs), inside : BOOLEAN, seen : Seq(Keys)]
        /\ w.on = walk.on /\ w.vec = walk.vec /\ w.i = i /\ w.ls = x /\ w.inside = walk.inside /\ w.seen = walk.seen
    <3>1. PICK A, B : A = 0..Len(vectors) /\ B = 0..Len(pairs)
      OBVIOUS
    <3>2. walk \in [on : BOOLEAN, vec : A, i : Nat, ls : B, inside : BOOLEAN, seen : Seq(Keys)] /\ x \in B /\ i \in Nat
      BY <1>6, <2>3, <3>1
    <3>3. w = [walk EXCEPT !.i = i, !.ls = x]
      BY <1>3, <1>10, <1>12, <2>2
    <3>4. /\ w \in [on : BOOLEAN, vec : A, i : Nat, ls : B, inside : BOOLEAN, seen : Seq(Keys)]
          /\ w.on = walk.on /\ w.vec = walk.vec /\ w.i = i /\ w.ls = x /\ w.inside = walk.inside /\ w.seen = walk.seen
      BY <3>2, <3>3
    <3>5. QED
      BY <3>1, <3>4
  <2>5. PICK C, R : C = ListFrom(pairs, x) /\ R = Below(pairs, v, walk.i)
    OBVIOUS
  <2>6. C \cup Below(pairs, v, i) = R
    <3>1. \A j \in 0..(v.len - 1) : i < j /\ j < walk.i => ListFrom(pairs, v.at[j]) = {}
      <4>1. SUFFICES ASSUME NEW j \in 0..(v.len - 1), i < j, j < walk.i PROVE ListFrom(pairs, v.at[j]) = {}
        OBVIOUS
      <4>2. j \notin S
        BY <2>1, <2>3, <4>1
      <4>3. v.at[j] = 0
        BY <4>1, <4>2
      <4>4. QED
        BY <1>8, <4>3
    <3>2. C \subseteq R
      <4>1. C \subseteq 1..Len(pairs)
        BY <1>5, <1>7, <2>2, <2>3, <2>5, MembersIn
      <4>2. QED
        BY <2>2, <2>3, <2>5, <4>1 DEF Below
    <3>3. Below(pairs, v, i) \subseteq R
      BY <1>6, <2>3, <2>5 DEF Below
    <3>4. ASSUME NEW p \in R, p \notin C PROVE p \in Below(pairs, v, i)
      <4>1. PICK j \in 0..(v.len - 1) : j < walk.i /\ p \in ListFrom(pairs, v.at[j])
        BY <2>5 DEF Below
      <4>2. ~(i < j) /\ j # i
        BY <2>2, <2>5, <3>1, <3>4, <4>1
      <4>3. j < i
        BY <1>7, <2>3, <4>2
      <4>4. p \in 1..Len(pairs)
        BY <2>5 DEF Below
      <4>5. QED
        BY <4>1, <4>3, <4>4 DEF Below
    <3>5. QED
      BY <3>2, <3>3, <3>4
  <2>7. Placed(hash_fn, key, pairs, v, i) /\ \A p \in C : Bucket(hash_fn, v.len, key[p]) = i
    BY <1>6, <1>9, <2>2, <2>3, <2>5 DEF Placed
  <2>8. WalkOK(eq_fn, hash_fn, key, C, R, walk.seen, kept, v.len, i)
    <3>1. \A n \in 1..Len(walk.seen) : Bucket(hash_fn, v.len, walk.seen[n]) >= i
      <4>1. SUFFICES ASSUME NEW n \in 1..Len(walk.seen) PROVE Bucket(hash_fn, v.len, walk.seen[n]) >= i
        OBVIOUS
      <4>2. walk.seen[n] \in Keys /\ v.len \in Nat \ {0}
        BY <1>6, <1>7, <2>3
      <4>3. Bucket(hash_fn, v.len, walk.seen[n]) \in 0..(v.len - 1)
        BY <4>2, BucketRange
      <4>4. Bucket(hash_fn, v.len, walk.seen[n]) >= walk.i
        BY <1>9 DEF WalkOK
      <4>5. QED
        BY <1>6, <2>3, <4>3, <4>4
    <3>2. QED
      BY <1>9, <2>5, <2>7, <3>1 DEF WalkOK
  <2>9. Walking(eq_fn, hash_fn, key, pairs, vectors[w.vec], w, kept)
    <3>1. Ahead(pairs, w) = C
      BY <1>3, <2>4, <2>5 DEF Ahead
    <3>2. i <= v.len /\ ~w.inside /\ vectors[w.vec] = v
      BY <1>1, <1>3, <1>7, <2>3, <2>4
    <3>3. QED
      BY <2>4, <2>6, <2>7, <2>8, <3>1, <3>2 DEF Walking
  <2>10. WalkInv(eq_fn, hash_fn, key, pairs, vectors, w, kept)
    BY <1>3, <1>6, <2>4, <2>9 DEF WalkInv
  <2>11. QED
    BY <1>1, <1>3, <1>10, <2>10, WalkStep
<1>13. QED
  BY <1>11, <1>12

-----------------------------------------------------------------------------
(* TableSound.                                                             *)

\* An empty table satisfies the invariant.
LEMMA InitInv ==
  ASSUME TableInit
  PROVE  TableInv
<1>1. PICK kind \in Kinds : EmptyTable(kind)
  BY DEF TableInit
<1>2. kind[1] \in {"eq", "equal"} /\ kind[2] \in {"builtin", "user"} /\ FirstLength \in Nat \ {0}
  BY HashAssumption
<1>3. /\ eq_fn \in {"eq", "equal"} /\ hash_fn \in {"builtin", "user"}
      /\ cells = <<>> /\ pairs = <<>> /\ size = 0 /\ grow = NoGrowth
      /\ update = 0 /\ walk = NoWalk /\ kept = {}
  BY <1>1, <1>2 DEF EmptyTable
<1>4. PICK v : v = make_vector(FirstLength)
  OBVIOUS
<1>5. vectors = <<v>>
  BY <1>1, <1>4 DEF EmptyTable
<1>6. v.len = FirstLength /\ \A j \in 0..(v.len - 1) : v.at[j] = 0
  BY <1>2, <1>4 DEF make_vector
<1>7. v \in Vecs
  <2>1. v \in [len : {FirstLength}, at : [0..(FirstLength - 1) -> Nat]]
    BY <1>2, <1>4 DEF make_vector
  <2>2. QED
    BY <1>2, <2>1 DEF Vecs
<1>8. Chained(pairs) /\ Len(pairs) = 0 /\ Len(cells) = 0
  BY <1>3 DEF Chained
<1>9. Held(pairs, v)
  BY <1>6, <1>7, <1>8 DEF Held
<1>10. vectors \in Seq(Vecs) /\ Len(vectors) = 1 /\ vectors[1] = v /\ vectors # <<>>
  BY <1>5, <1>7
<1>11. StoreOK(cells, pairs, vectors)
  <2>1. cells \in Seq(Cells)
    BY <1>3
  <2>2. \A n \in 1..Len(vectors) : Held(pairs, vectors[n])
    BY <1>9, <1>10
  <2>3. QED
    BY <1>8, <1>10, <2>1, <2>2 DEF StoreOK
<1>12. buckets = v
  BY <1>10 DEF buckets
<1>13. \A j \in 0..(v.len - 1) : ListFrom(pairs, v.at[j]) = {}
  BY <1>6, <1>8, ListUnfold
<1>14. PlacedOK(eq_fn, hash_fn, Keyed(cells, pairs), pairs, v, size)
  <2>1. Members(pairs, v) = {}
    BY <1>13 DEF Members
  <2>2. CellsOf(pairs, Members(pairs, v)) = {}
    BY <2>1 DEF CellsOf
  <2>3. Cardinality({}) = 0
    BY FS_EmptySet
  <2>4. Placed(hash_fn, Keyed(cells, pairs), pairs, v, v.len) /\ Once(eq_fn, Keyed(cells, pairs), Members(pairs, v))
    BY <1>13, <2>1 DEF Placed, Once
  <2>5. QED
    BY <1>3, <2>2, <2>3, <2>4 DEF PlacedOK
<1>15. WalkInv(eq_fn, hash_fn, Keyed(cells, pairs), pairs, vectors, walk, kept)
  <2>1. walk = [on |-> FALSE, vec |-> 0, i |-> 0, ls |-> 0, inside |-> FALSE, seen |-> <<>>]
    BY <1>3 DEF NoWalk
  <2>2. walk \in [on : BOOLEAN, vec : 0..Len(vectors), i : Nat, ls : 0..Len(pairs), inside : BOOLEAN, seen : Seq(Keys)]
    <3>1. 0 \in 0..Len(vectors) /\ 0 \in 0..Len(pairs) /\ <<>> \in Seq(Keys)
      BY <1>8, <1>10
    <3>2. QED
      BY <2>1, <3>1
  <2>3. walk.on = FALSE /\ walk.vec = 0 /\ Len(walk.seen) = 0
    BY <2>1
  <2>4. QED
    BY <1>3, <2>2, <2>3 DEF WalkInv
<1>16. update \in 0..Len(cells)
  BY <1>3, <1>8
<1>17. QED
  BY <1>3, <1>11, <1>12, <1>14, <1>15, <1>16 DEF TableInv

\* Every step keeps the invariant.
LEMMA NextInv ==
  ASSUME TableInv, [TableNext]_table
  PROVE  TableInv'
<1>1. CASE UNCHANGED table
  <2>1. UNCHANGED <<eq_fn, hash_fn, cells, pairs, vectors, size, grow, update, walk, kept>>
    BY <1>1 DEF table
  <2>2. buckets' = buckets
    BY <2>1 DEF buckets
  <2>3. QED
    BY <2>1, <2>2 DEF TableInv
<1>2. CASE TableNext
  <2>1. \/ \E k \in Keys : Set(k) \/ Delete(k) \/ UpdateBegin(k)
        \/ NextBucket \/ CopyPair \/ EndGrowth
        \/ UpdateEnd \/ UpdateFails
        \/ WalkBegin \/ WalkVisit \/ WalkNext \/ WalkBucket
    BY <1>2 DEF TableNext
  <2>2. QED
    BY <2>1, SetInv, DeleteInv, UpdateBeginInv, NextBucketInv, CopyPairInv, EndGrowthInv, UpdateEndInv,
       UpdateFailsInv, WalkBeginInv, WalkVisitInv, WalkNextInv, WalkBucketInv
<1>3. QED
  BY <1>1, <1>2

\* The invariant implies the property.
LEMMA InvSound ==
  ASSUME TableInv
  PROVE  TableSound
<1>1. /\ StoreOK(cells, pairs, vectors)
      /\ PlacedOK(eq_fn, hash_fn, Keyed(cells, pairs), pairs, buckets, size)
      /\ WalkInv(eq_fn, hash_fn, Keyed(cells, pairs), pairs, vectors, walk, kept)
  BY DEF TableInv
<1>2. /\ Chained(pairs) /\ Len(pairs) \in Nat /\ Held(pairs, buckets)
      /\ \A p \in 1..Len(pairs) : Keyed(cells, pairs)[p] = cells[pairs[p].car].key
  BY <1>1, StoreFacts DEF buckets
<1>3. /\ Placed(hash_fn, Keyed(cells, pairs), pairs, buckets, buckets.len)
      /\ Once(eq_fn, Keyed(cells, pairs), Members(pairs, buckets))
      /\ size = Cardinality(CellsOf(pairs, Members(pairs, buckets)))
  BY <1>1 DEF PlacedOK
<1>. DEFINE all == {x \in (0..(buckets.len - 1)) \X (1..Len(pairs)) : x[2] \in ListFrom(pairs, buckets.at[x[1]])}
<1>4. buckets.len \in Nat
  BY <1>2, VectorType DEF Held
<1>5. ASSUME NEW x \in all
      PROVE  /\ x[1] \in 0..(buckets.len - 1) /\ x[2] \in 1..Len(pairs)
             /\ x[2] \in ListFrom(pairs, buckets.at[x[1]]) /\ x[2] \in Members(pairs, buckets)
             /\ KeyOf(x[2]) = Keyed(cells, pairs)[x[2]]
             /\ x[1] = get_bucket(buckets.len, KeyOf(x[2])) /\ x = <<x[1], x[2]>>
  <2>1. /\ x[1] \in 0..(buckets.len - 1) /\ x[2] \in 1..Len(pairs) /\ x[2] \in ListFrom(pairs, buckets.at[x[1]])
        /\ x = <<x[1], x[2]>>
    OBVIOUS
  <2>2. x[2] \in Members(pairs, buckets)
    BY <2>1 DEF Members
  <2>3. KeyOf(x[2]) = Keyed(cells, pairs)[x[2]]
    BY <1>2, <2>1 DEF KeyOf
  <2>4. x[1] < buckets.len
    BY <1>4, <2>1
  <2>5. Bucket(hash_fn, buckets.len, Keyed(cells, pairs)[x[2]]) = x[1]
    BY <1>3, <2>1, <2>4 DEF Placed
  <2>6. QED
    BY <2>1, <2>2, <2>3, <2>5, SameIs
<1>6. ASSUME NEW x \in all, NEW y \in all, Same(KeyOf(x[2]), KeyOf(y[2])) PROVE x = y
  <2>1. SameBy(eq_fn, Keyed(cells, pairs)[x[2]], Keyed(cells, pairs)[y[2]])
    BY <1>5, <1>6, SameIs
  <2>2. x[2] = y[2]
    BY <1>3, <1>5, <2>1 DEF Once
  <2>3. x[1] = y[1]
    BY <1>5, <2>2
  <2>4. QED
    BY <1>5, <2>2, <2>3
<1>7. {pairs[x[2]].car : x \in all} = CellsOf(pairs, Members(pairs, buckets))
  <2>1. ASSUME NEW c \in {pairs[x[2]].car : x \in all} PROVE c \in CellsOf(pairs, Members(pairs, buckets))
    <3>1. PICK x \in all : c = pairs[x[2]].car
      BY <2>1
    <3>2. x[2] \in Members(pairs, buckets)
      BY <1>5
    <3>3. QED
      BY <3>1, <3>2 DEF CellsOf
  <2>2. ASSUME NEW c \in CellsOf(pairs, Members(pairs, buckets)) PROVE c \in {pairs[x[2]].car : x \in all}
    <3>1. PICK p \in Members(pairs, buckets) : c = pairs[p].car
      BY <2>2 DEF CellsOf
    <3>2. PICK j \in 0..(buckets.len - 1) : p \in ListFrom(pairs, buckets.at[j])
      BY <1>2, MembersIn
    <3>3. p \in 1..Len(pairs)
      BY <1>2, MembersIn
    <3>4. PICK x : x = <<j, p>>
      OBVIOUS
    <3>5. x \in all /\ x[2] = p
      BY <3>2, <3>3, <3>4
    <3>6. QED
      BY <3>1, <3>5
  <2>3. QED
    BY <2>1, <2>2
<1>8. PlacedOnce
  <2>1. size = Cardinality({pairs[x[2]].car : x \in all})
    BY <1>3, <1>7
  <2>2. \A x \in all : x[1] = get_bucket(buckets.len, KeyOf(x[2]))
    BY <1>5
  <2>3. \A x, y \in all : Same(KeyOf(x[2]), KeyOf(y[2])) => x = y
    BY <1>6
  <2>4. QED
    BY <2>1, <2>2, <2>3, Zenon DEF PlacedOnce
<1>9. WalkComplete
  <2>1. /\ walk.seen \in Seq(Keys)
        /\ \A i, j \in 1..Len(walk.seen) : SameBy(eq_fn, walk.seen[i], walk.seen[j]) => i = j
        /\ ~walk.on /\ walk.vec # 0 => \A k \in kept : \E n \in 1..Len(walk.seen) : SameBy(eq_fn, walk.seen[n], k)
    BY <1>1 DEF WalkInv
  <2>2. DOMAIN walk.seen = 1..Len(walk.seen)
    BY <2>1
  <2>3. QED
    BY <2>1, <2>2, SameIs DEF WalkComplete
<1>10. QED
  BY <1>8, <1>9 DEF TableSound

\* Whatever calls are made, every pair of a table is in the bucket its key
\* hashes to, no two have the same key and the size counts the cells; and a
\* walk calls its procedure once for a key and for every key bound throughout,
\* although the table is written, shrunk and grown under it (hash-table-cell
\* and hash-table-delete! in hash.c, hash-table-walk in interface.scm).
THEOREM TableAlwaysSound == TableSpec => []TableSound
<1>1. TableInit => TableInv
  BY InitInv
<1>2. TableInv /\ [TableNext]_table => TableInv'
  BY NextInv
<1>3. TableInv => TableSound
  BY InvSound
<1>4. QED
  BY <1>1, <1>2, <1>3, PTL DEF TableSpec

-----------------------------------------------------------------------------
(* TableIsMap: the bindings are those of the cells in the table.           *)

\* The cells of the table, of which no two have the same key.
Bound == CellsOf(pairs, Members(pairs, buckets))
OnceCells(e, cs, C) == \A c, d \in C : SameBy(e, cs[c].key, cs[d].key) => c = d

\* The value of the key j in the cells C is x.
ValueIs(e, cs, C, j, x) ==
  \/ x = 0 /\ \A c \in C : ~SameBy(e, cs[c].key, j)
  \/ \E c \in C : SameBy(e, cs[c].key, j) /\ x = cs[c].val

\* Keys that the table takes for one have one value.
LEMMA ValueOne ==
  ASSUME NEW e, NEW cs, NEW C, OnceCells(e, cs, C), NEW i, NEW j, SameBy(e, i, j),
         NEW x, NEW y, ValueIs(e, cs, C, i, x), ValueIs(e, cs, C, j, y)
  PROVE  x = y
<1>1. \A c : SameBy(e, cs[c].key, i) <=> SameBy(e, cs[c].key, j)
  BY Equivalence
<1>2. \A c, d \in C : SameBy(e, cs[c].key, j) /\ SameBy(e, cs[d].key, j) => c = d
  <2>1. ASSUME NEW c \in C, NEW d \in C, SameBy(e, cs[c].key, j), SameBy(e, cs[d].key, j) PROVE c = d
    <3>1. SameBy(e, j, cs[d].key)
      BY <2>1, Equivalence
    <3>2. SameBy(e, cs[c].key, cs[d].key)
      BY <2>1, <3>1, Equivalence
    <3>3. QED
      BY <3>2 DEF OnceCells
  <2>2. QED
    BY <2>1
<1>3. QED
  BY <1>1, <1>2 DEF ValueIs

\* The value of a key depends on the bound cells only.
LEMMA ValueSame ==
  ASSUME NEW e, NEW cs, NEW C, NEW j, NEW x, ValueIs(e, cs, C, j, x), NEW cs2, \A c \in C : cs2[c] = cs[c]
  PROVE  ValueIs(e, cs2, C, j, x)
BY DEF ValueIs

\* A new cell binds its own key and no other.
LEMMA ValueAdd ==
  ASSUME NEW e, NEW cs, NEW C, NEW j, NEW x, ValueIs(e, cs, C, j, x), NEW cs2, \A c \in C : cs2[c] = cs[c],
         NEW n, NEW k, NEW val, cs2[n].key = k, cs2[n].val = val, \A c \in C : ~SameBy(e, cs[c].key, k)
  PROVE  ValueIs(e, cs2, C \cup {n}, j, IF SameBy(e, j, k) THEN val ELSE x)
<1>1. CASE SameBy(e, j, k)
  <2>1. SameBy(e, cs2[n].key, j)
    BY <1>1, Equivalence
  <2>2. QED
    BY <1>1, <2>1 DEF ValueIs
<1>2. CASE ~SameBy(e, j, k)
  <2>1. ~SameBy(e, cs2[n].key, j)
    BY <1>2, Equivalence
  <2>2. QED
    BY <1>2, <2>1 DEF ValueIs
<1>3. QED
  BY <1>1, <1>2

\* The cell c has the value val in cs2, and the other cells of C what they have in cs.
Valued(cs, cs2, C, c, val) ==
  /\ \A d \in C : cs2[d].key = cs[d].key /\ (d # c => cs2[d].val = cs[d].val)
  /\ cs2[c].val = val

\* A write to a bound cell changes the value of its key and of no other.
LEMMA ValueSet ==
  ASSUME NEW e, NEW cs, NEW C, OnceCells(e, cs, C), NEW j, NEW x, ValueIs(e, cs, C, j, x), NEW cs2,
         NEW c \in C, NEW val, Valued(cs, cs2, C, c, val)
  PROVE  ValueIs(e, cs2, C, j, IF SameBy(e, j, cs[c].key) THEN val ELSE x)
<1>1. CASE SameBy(e, j, cs[c].key)
  <2>1. SameBy(e, cs2[c].key, j)
    BY <1>1, Equivalence DEF Valued
  <2>2. QED
    BY <1>1, <2>1 DEF ValueIs, Valued
<1>2. CASE ~SameBy(e, j, cs[c].key)
  <2>1. ~SameBy(e, cs[c].key, j)
    BY <1>2, Equivalence
  <2>2. QED
    BY <1>2, <2>1 DEF ValueIs, Valued
<1>3. QED
  BY <1>1, <1>2

\* Without its cell a key has no value, and the others have theirs.
LEMMA ValueRemove ==
  ASSUME NEW e, NEW cs, NEW C, OnceCells(e, cs, C), NEW j, NEW x, ValueIs(e, cs, C, j, x), NEW c \in C
  PROVE  ValueIs(e, cs, C \ {c}, j, IF SameBy(e, j, cs[c].key) THEN 0 ELSE x)
<1>1. CASE SameBy(e, j, cs[c].key)
  <2>1. \A d \in C \ {c} : ~SameBy(e, cs[d].key, j)
    BY <1>1, Equivalence DEF OnceCells
  <2>2. QED
    BY <1>1, <2>1 DEF ValueIs
<1>2. CASE ~SameBy(e, j, cs[c].key)
  <2>1. ~SameBy(e, cs[c].key, j)
    BY <1>2, Equivalence
  <2>2. QED
    BY <1>2, <2>1 DEF ValueIs
<1>3. QED
  BY <1>1, <1>2

\* What Ref finds.
LEMMA RefIs ==
  ASSUME TableInv
  PROVE  /\ Bound \subseteq 1..Len(cells) /\ OnceCells(eq_fn, cells, Bound)
         /\ \A j \in Keys : ValueIs(eq_fn, cells, Bound, j, Ref(j))
         /\ \A j \in Keys : CellAt(j) # 0 => /\ pairs[CellAt(j)].car \in Bound
                                             /\ SameBy(eq_fn, cells[pairs[CellAt(j)].car].key, j)
         /\ \A j \in Keys : CellAt(j) = 0 => Ref(j) = 0 /\ \A c \in Bound : ~SameBy(eq_fn, cells[c].key, j)
<1>1. /\ StoreOK(cells, pairs, vectors)
      /\ PlacedOK(eq_fn, hash_fn, Keyed(cells, pairs), pairs, buckets, size)
  BY DEF TableInv
<1>2. /\ Chained(pairs) /\ Held(pairs, buckets)
      /\ \A p \in 1..Len(pairs) : pairs[p].car \in 1..Len(cells) /\ Keyed(cells, pairs)[p] = cells[pairs[p].car].key
  BY <1>1, StoreFacts DEF buckets
<1>3. Members(pairs, buckets) \subseteq 1..Len(pairs)
  BY <1>2, MembersIn
<1>4. \A c \in Bound : \E p \in Members(pairs, buckets) :
        pairs[p].car = c /\ p \in 1..Len(pairs) /\ Keyed(cells, pairs)[p] = cells[c].key
  BY <1>2, <1>3 DEF Bound, CellsOf
<1>5. Bound \subseteq 1..Len(cells)
  BY <1>2, <1>4
<1>6. OnceCells(eq_fn, cells, Bound)
  <2>1. SUFFICES ASSUME NEW c \in Bound, NEW d \in Bound, SameBy(eq_fn, cells[c].key, cells[d].key) PROVE c = d
    BY DEF OnceCells
  <2>2. PICK p \in Members(pairs, buckets) : pairs[p].car = c /\ Keyed(cells, pairs)[p] = cells[c].key
    BY <1>4
  <2>3. PICK q \in Members(pairs, buckets) : pairs[q].car = d /\ Keyed(cells, pairs)[q] = cells[d].key
    BY <1>4
  <2>4. p = q
    BY <1>1, <2>1, <2>2, <2>3 DEF PlacedOK, Once
  <2>5. QED
    BY <2>2, <2>3, <2>4
<1>7. ASSUME NEW j \in Keys, CellAt(j) # 0
      PROVE  /\ pairs[CellAt(j)].car \in Bound /\ SameBy(eq_fn, cells[pairs[CellAt(j)].car].key, j)
             /\ ValueIs(eq_fn, cells, Bound, j, Ref(j))
  <2>1. PICK p : p = CellAt(j)
    OBVIOUS
  <2>2. p \in Members(pairs, buckets) /\ p \in 1..Len(pairs) /\ SameBy(eq_fn, Keyed(cells, pairs)[p], j)
    BY <1>1, <1>7, <2>1, CellAtIs
  <2>3. pairs[p].car \in Bound /\ SameBy(eq_fn, cells[pairs[p].car].key, j)
    BY <1>2, <2>2 DEF Bound, CellsOf
  <2>4. Ref(j) = cells[pairs[p].car].val
    BY <1>7, <2>1 DEF Ref
  <2>5. QED
    BY <2>1, <2>3, <2>4 DEF ValueIs
<1>8. ASSUME NEW j \in Keys, CellAt(j) = 0
      PROVE  /\ Ref(j) = 0 /\ \A c \in Bound : ~SameBy(eq_fn, cells[c].key, j)
             /\ ValueIs(eq_fn, cells, Bound, j, Ref(j))
  <2>1. \A p \in Members(pairs, buckets) : ~SameBy(eq_fn, Keyed(cells, pairs)[p], j)
    BY <1>1, <1>8, CellAtIs
  <2>2. \A c \in Bound : ~SameBy(eq_fn, cells[c].key, j)
    BY <1>4, <2>1
  <2>3. Ref(j) = 0
    BY <1>8 DEF Ref, Absent
  <2>4. QED
    BY <2>2, <2>3 DEF ValueIs
<1>9. QED
  BY <1>5, <1>6, <1>7, <1>8

\* What a lookup finds, in the next state.
LEMMA RefNext ==
  (TableInv => /\ OnceCells(eq_fn, cells, Bound)
               /\ \A j \in Keys : ValueIs(eq_fn, cells, Bound, j, Ref(j)))'
<1>1. TableInv => /\ OnceCells(eq_fn, cells, Bound)
                  /\ \A j \in Keys : ValueIs(eq_fn, cells, Bound, j, Ref(j))
  BY RefIs
<1>2. QED
  BY <1>1, PTL

View == <<Bindings, size, SameKeys>>

\* The value of every key is that of the cells in the next state.
LEMMA RefBecomes ==
  ASSUME TableInv', eq_fn' = eq_fn, NEW j \in Keys, NEW x, ValueIs(eq_fn, cells', Bound', j, x)
  PROVE  Ref(j)' = x
<1>1. OnceCells(eq_fn, cells', Bound') /\ ValueIs(eq_fn, cells', Bound', j, Ref(j)')
  BY RefNext
<1>2. SameBy(eq_fn, j, j)
  BY Equivalence
<1>3. QED
  BY <1>1, <1>2, ValueOne

\* A table's equivalence never changes.
LEMMA SameKeysStay ==
  ASSUME eq_fn' = eq_fn
  PROVE  SameKeys' = SameKeys
BY DEF SameKeys, Same

\* Steps that leave the cells of the table and their values.
LEMMA NothingMaps ==
  ASSUME TableInv, TableInv', eq_fn' = eq_fn, size' = size, Bound' = Bound,
         \A c \in Bound : cells'[c] = cells[c]
  PROVE  View' = View
<1>1. ASSUME NEW j \in Keys PROVE Ref(j)' = Ref(j)
  <2>1. ValueIs(eq_fn, cells, Bound, j, Ref(j))
    BY RefIs
  <2>2. ValueIs(eq_fn, cells', Bound, j, Ref(j))
    BY <2>1, ValueSame
  <2>3. QED
    BY <2>2, RefBecomes
<1>2. Bindings' = Bindings
  BY <1>1 DEF Bindings
<1>3. QED
  BY <1>2, SameKeysStay DEF View

\* Steps that give the key k a value.
LEMMA PutMaps ==
  ASSUME TableInv, TableInv', eq_fn' = eq_fn, NEW k \in Keys, NEW val \in Vals,
         \A j \in Keys : ValueIs(eq_fn, cells', Bound', j, IF SameBy(eq_fn, j, k) THEN val ELSE Ref(j)),
         size' = IF Ref(k) = 0 THEN size + 1 ELSE size
  PROVE  [Map!MapNext]_View
<1>1. \A j \in Keys : Ref(j)' = IF SameBy(eq_fn, j, k) THEN val ELSE Ref(j)
  BY RefBecomes
<1>2. val # 0
  BY DEF Vals, NotFound
<1>3. SameBy(eq_fn, k, k)
  BY Equivalence
<1>4. CASE Ref(k) = val
  <2>1. ASSUME NEW j \in Keys PROVE Ref(j)' = Ref(j)
    <3>1. CASE SameBy(eq_fn, j, k)
      <4>1. ValueIs(eq_fn, cells, Bound, j, Ref(j)) /\ ValueIs(eq_fn, cells, Bound, k, Ref(k))
            /\ OnceCells(eq_fn, cells, Bound)
        BY RefIs
      <4>2. Ref(j) = Ref(k)
        BY <3>1, <4>1, ValueOne
      <4>3. QED
        BY <1>1, <1>4, <3>1, <4>2
    <3>2. CASE ~SameBy(eq_fn, j, k)
      BY <1>1, <3>2
    <3>3. QED
      BY <3>1, <3>2
  <2>2. Bindings' = Bindings /\ size' = size
    BY <1>2, <1>4, <2>1 DEF Bindings
  <2>3. View' = View
    BY <2>2, SameKeysStay DEF View
  <2>4. QED
    BY <2>3
<1>5. CASE Ref(k) # val
  <2>1. Bindings[k] = Ref(k) /\ Bindings'[k] = val
    BY <1>1, <1>3 DEF Bindings
  <2>2. \A j \in Keys : <<j, k>> \in SameKeys <=> SameBy(eq_fn, j, k)
    BY SameIs DEF SameKeys
  <2>3. Bindings' = Map!Bind(k, val)
    <3>1. Bindings' = [j \in Keys |-> Ref(j)']
      BY DEF Bindings
    <3>2. Map!Bind(k, val) = [j \in Keys |-> IF <<j, k>> \in SameKeys THEN val ELSE Bindings[j]]
      BY DEF Map!Bind
    <3>3. \A j \in Keys : Ref(j)' = IF <<j, k>> \in SameKeys THEN val ELSE Bindings[j]
      BY <1>1, <2>2 DEF Bindings
    <3>4. QED
      BY <3>1, <3>2, <3>3
  <2>4. Map!Put(k, val)
    <3>1. size' = IF Bindings[k] = Map!Absent THEN size + 1 ELSE size
      BY <2>1 DEF Map!Absent
    <3>2. QED
      BY <2>3, <3>1, SameKeysStay DEF Map!Put
  <2>5. Map!MapNext
    BY <1>5, <2>1, <2>4 DEF Map!MapNext, Vals
  <2>6. QED
    BY <2>5
<1>6. QED
  BY <1>4, <1>5

\* A cell is added for the key k.
LEMMA AddMaps ==
  ASSUME TableInv, TableInv', eq_fn' = eq_fn, NEW k \in Keys, NEW val \in Vals, CellAt(k) = 0,
         cells' = Append(cells, [key |-> k, val |-> val]), Bound' = Bound \cup {Len(cells) + 1}, size' = size + 1
  PROVE  [Map!MapNext]_View
<1>1. /\ Bound \subseteq 1..Len(cells)
      /\ \A j \in Keys : ValueIs(eq_fn, cells, Bound, j, Ref(j))
      /\ Ref(k) = 0 /\ \A c \in Bound : ~SameBy(eq_fn, cells[c].key, k)
  BY RefIs
<1>2. cells \in Seq(Cells) /\ Len(cells) \in Nat
  BY StoreFacts DEF TableInv, StoreOK
<1>3. PICK cs, n, C : cs = cells' /\ n = Len(cells) + 1 /\ C = Bound'
  OBVIOUS
<1>4. cs[n] = [key |-> k, val |-> val] /\ \A c \in 1..Len(cells) : cs[c] = cells[c]
  BY <1>2, <1>3
<1>5. cs[n].key = k /\ cs[n].val = val /\ (\A c \in Bound : cs[c] = cells[c]) /\ C = Bound \cup {n}
  BY <1>1, <1>3, <1>4
<1>6. ASSUME NEW j \in Keys PROVE ValueIs(eq_fn, cs, C, j, IF SameBy(eq_fn, j, k) THEN val ELSE Ref(j))
  <2>1. ValueIs(eq_fn, cs, Bound \cup {n}, j, IF SameBy(eq_fn, j, k) THEN val ELSE Ref(j))
    BY <1>1, <1>5, ValueAdd, ZenonT(60)
  <2>2. QED
    BY <1>5, <2>1
<1>7. \A j \in Keys : ValueIs(eq_fn, cells', Bound', j, IF SameBy(eq_fn, j, k) THEN val ELSE Ref(j))
  BY <1>3, <1>6
<1>8. QED
  BY <1>1, <1>7, PutMaps

\* The cell c is written.
LEMMA WriteMaps ==
  ASSUME TableInv, TableInv', NEW c \in 1..Len(cells), NEW val \in Vals, cells' = set_value(c, val),
         UNCHANGED <<eq_fn, pairs, vectors, size>>
  PROVE  [Map!MapNext]_View
<1>1. /\ Bound \subseteq 1..Len(cells) /\ OnceCells(eq_fn, cells, Bound)
      /\ \A j \in Keys : ValueIs(eq_fn, cells, Bound, j, Ref(j))
  BY RefIs
<1>2. cells \in Seq(Cells) /\ Len(cells) \in Nat /\ \A d \in 1..Len(cells) : cells[d] \in Cells
  BY StoreFacts DEF TableInv, StoreOK
<1>3. Bound' = Bound
  BY DEF Bound, buckets
<1>4. PICK cs, r : cs = cells' /\ r = [cells[c] EXCEPT !.val = val]
  OBVIOUS
<1>5. r.key = cells[c].key /\ r.val = val
  BY <1>2, <1>4 DEF Cells
<1>6. cs[c] = r /\ \A d \in 1..Len(cells) : d # c => cs[d] = cells[d]
  BY <1>2, <1>4 DEF set_value
<1>7. CASE c \notin Bound
  <2>1. \A d \in Bound : cells'[d] = cells[d]
    BY <1>1, <1>4, <1>6, <1>7
  <2>2. View' = View
    BY <1>3, <2>1, NothingMaps
  <2>3. QED
    BY <2>2
<1>8. CASE c \in Bound
  <2>1. PICK k : k = cells[c].key
    OBVIOUS
  <2>2. k \in Keys
    BY <1>2, <2>1 DEF Cells
  <2>3. \A d \in Bound : cs[d].key = cells[d].key /\ (d # c => cs[d].val = cells[d].val)
    BY <1>1, <1>5, <1>6
  <2>4. Valued(cells, cs, Bound, c, val)
    BY <1>5, <1>6, <2>3 DEF Valued
  <2>5. ASSUME NEW j \in Keys PROVE ValueIs(eq_fn, cs, Bound, j, IF SameBy(eq_fn, j, k) THEN val ELSE Ref(j))
    <3>1. ValueIs(eq_fn, cs, Bound, j, IF SameBy(eq_fn, j, cells[c].key) THEN val ELSE Ref(j))
      BY <1>1, <1>8, <2>4, ValueSet
    <3>2. QED
      BY <2>1, <3>1
  <2>6. Ref(k) # 0
    <3>1. SameBy(eq_fn, cells[c].key, k)
      BY <2>1, Equivalence
    <3>2. ValueIs(eq_fn, cells, Bound, k, cells[c].val)
      BY <1>8, <3>1 DEF ValueIs
    <3>3. SameBy(eq_fn, k, k) /\ ValueIs(eq_fn, cells, Bound, k, Ref(k))
      BY <1>1, <2>2, Equivalence
    <3>4. Ref(k) = cells[c].val
      BY <1>1, <3>2, <3>3, ValueOne
    <3>5. cells[c].val \in Vals
      BY <1>2 DEF Cells
    <3>6. QED
      BY <3>4, <3>5 DEF Vals, NotFound
  <2>7. \A j \in Keys : ValueIs(eq_fn, cells', Bound', j, IF SameBy(eq_fn, j, k) THEN val ELSE Ref(j))
    BY <1>3, <1>4, <2>5
  <2>8. QED
    BY <2>2, <2>6, <2>7, PutMaps
<1>9. QED
  BY <1>7, <1>8

\* hash-table-delete! removes one key from the map.
LEMMA DeleteMaps ==
  ASSUME TableInv, TableInv', NEW k \in Keys, Delete(k)
  PROVE  Map!MapNext
<1>1. /\ CellAt(k) # 0 /\ DeleteCell(k) /\ UNCHANGED <<eq_fn, cells>>
  BY DEF Delete
<1>2. PICK p, c : p = CellAt(k) /\ c = pairs[p].car
  OBVIOUS
<1>3. /\ OnceCells(eq_fn, cells, Bound) /\ (\A j \in Keys : ValueIs(eq_fn, cells, Bound, j, Ref(j)))
      /\ c \in Bound /\ SameBy(eq_fn, cells[c].key, k) /\ Bound \subseteq 1..Len(cells)
  BY <1>1, <1>2, RefIs
<1>4. /\ StoreOK(cells, pairs, vectors)
      /\ PlacedOK(eq_fn, hash_fn, Keyed(cells, pairs), pairs, buckets, size)
  BY DEF TableInv
<1>5. Held(pairs, buckets) /\ Len(cells) \in Nat /\ \A d \in 1..Len(cells) : cells[d] \in Cells
  BY <1>4, StoreFacts DEF buckets
<1>6. p \in Members(pairs, buckets) /\ Unlinked(pairs, pairs', buckets, buckets', p) /\ size' = size - 1
  BY <1>1, <1>2, DeleteCellIs
<1>7. Bound' = Bound \ {c}
  <2>1. PICK qs, x, m : qs = pairs' /\ x = buckets' /\ m = size - 1
    OBVIOUS
  <2>2. Unlinked(pairs, qs, buckets, x, p)
    BY <1>6, <2>1
  <2>3. CellsOf(qs, Members(qs, x)) = CellsOf(pairs, Members(pairs, buckets)) \ {pairs[p].car}
    BY <1>4, <1>5, <1>6, <2>1, <2>2, PlacedUnlinked
  <2>4. QED
    BY <1>2, <2>1, <2>3 DEF Bound
<1>8. \A j : SameBy(eq_fn, j, cells[c].key) <=> SameBy(eq_fn, j, k)
  BY <1>3, Equivalence
<1>9. ASSUME NEW j \in Keys PROVE Ref(j)' = IF SameBy(eq_fn, j, k) THEN 0 ELSE Ref(j)
  <2>1. ValueIs(eq_fn, cells, Bound \ {c}, j, IF SameBy(eq_fn, j, cells[c].key) THEN 0 ELSE Ref(j))
    BY <1>3, ValueRemove
  <2>2. ValueIs(eq_fn, cells', Bound', j, IF SameBy(eq_fn, j, k) THEN 0 ELSE Ref(j))
    BY <1>1, <1>7, <1>8, <2>1
  <2>3. QED
    BY <1>1, <2>2, RefBecomes
<1>10. Ref(k) # 0
  <2>1. ValueIs(eq_fn, cells, Bound, k, cells[c].val)
    BY <1>3 DEF ValueIs
  <2>2. SameBy(eq_fn, k, k) /\ ValueIs(eq_fn, cells, Bound, k, Ref(k))
    BY <1>3, Equivalence
  <2>3. Ref(k) = cells[c].val
    BY <1>3, <2>1, <2>2, ValueOne
  <2>4. cells[c].val \in Vals
    BY <1>3, <1>5 DEF Cells
  <2>5. QED
    BY <2>3, <2>4 DEF Vals, NotFound
<1>11. SameBy(eq_fn, k, k)
  BY Equivalence
<1>12. Bindings[k] = Ref(k) /\ Bindings'[k] = 0
  BY <1>9, <1>11 DEF Bindings
<1>13. \A j \in Keys : <<j, k>> \in SameKeys <=> SameBy(eq_fn, j, k)
  BY SameIs DEF SameKeys
<1>14. Bindings' = Map!Bind(k, Map!Absent)
  <2>1. Bindings' = [j \in Keys |-> Ref(j)']
    BY DEF Bindings
  <2>2. Map!Bind(k, Map!Absent) = [j \in Keys |-> IF <<j, k>> \in SameKeys THEN 0 ELSE Bindings[j]]
    BY DEF Map!Bind, Map!Absent
  <2>3. \A j \in Keys : Ref(j)' = IF <<j, k>> \in SameKeys THEN 0 ELSE Bindings[j]
    BY <1>9, <1>13 DEF Bindings
  <2>4. QED
    BY <2>1, <2>2, <2>3
<1>15. Map!Remove(k)
  <2>1. Bindings[k] # Map!Absent
    BY <1>10, <1>12 DEF Map!Absent
  <2>2. QED
    BY <1>1, <1>6, <1>14, <2>1, SameKeysStay DEF Map!Remove
<1>16. QED
  BY <1>10, <1>12, <1>15 DEF Map!MapNext

\* hash-table-cell for a key that has no cell.
LEMMA CreateMaps ==
  ASSUME TableInv, TableInv', ~grow.on, NEW k \in Keys, NEW val \in {1, NotFound}, CellAt(k) = 0,
         CreateCell(k, val), eq_fn' = eq_fn, hash_fn' = hash_fn, walk' = walk, kept' = kept
  PROVE  [Map!MapNext]_View
<1>1. CASE resize_check(size, buckets.len)
  <2>1. cells' = cells /\ pairs' = pairs /\ vectors' = vectors /\ size' = size
    BY <1>1 DEF CreateCell
  <2>2. Bound' = Bound
    BY <2>1 DEF Bound, buckets
  <2>3. View' = View
    BY <2>1, <2>2, NothingMaps
  <2>4. QED
    BY <2>3
<1>2. CASE ~resize_check(size, buckets.len)
  <2>1. AddCell(buckets, k, val)
    BY <1>2 DEF CreateCell
  <2>2. /\ StoreOK(cells, pairs, vectors) /\ val \in Vals
        /\ PlacedOK(eq_fn, hash_fn, Keyed(cells, pairs), pairs, buckets, size)
    BY DEF TableInv, Vals
  <2>3. Held(pairs, buckets) /\ \A p \in Members(pairs, buckets) : ~SameBy(eq_fn, Keyed(cells, pairs)[p], k)
    BY <2>2, CellAtIs, StoreFacts DEF buckets
  <2>4. CellsOf(pairs', Members(pairs', buckets')) = CellsOf(pairs, Members(pairs, buckets)) \cup {Len(cells) + 1}
    BY <2>1, <2>2, <2>3, AddCellInv
  <2>5. /\ cells' = Append(cells, [key |-> k, val |-> val]) /\ size' = size + 1
        /\ Bound' = Bound \cup {Len(cells) + 1}
    BY <2>1, <2>4 DEF AddCell, Bound
  <2>6. QED
    BY <2>2, <2>5, AddMaps
<1>3. QED
  BY <1>1, <1>2

\* hash-table-set! puts one value into the map, at once or when the growth ends.
LEMMA SetMaps ==
  ASSUME TableInv, TableInv', NEW k \in Keys, Set(k)
  PROVE  [Map!MapNext]_View
<1>1. ~grow.on /\ eq_fn' = eq_fn /\ hash_fn' = hash_fn /\ walk' = walk /\ kept' = kept
  BY DEF Set, Called
<1>2. CASE CellAt(k) # 0
  <2>1. pairs[CellAt(k)].car \in 1..Len(cells) /\ 1 \in Vals
    BY <1>2, RefIs DEF Vals
  <2>2. cells' = set_value(pairs[CellAt(k)].car, 1) /\ UNCHANGED <<eq_fn, pairs, vectors, size>>
    BY <1>2 DEF Set
  <2>3. QED
    BY <2>1, <2>2, WriteMaps
<1>3. CASE CellAt(k) = 0
  <2>1. CreateCell(k, 1)
    BY <1>3 DEF Set
  <2>2. QED
    BY <1>1, <1>3, <2>1, CreateMaps
<1>4. QED
  BY <1>2, <1>3

\* hash-table-update! puts the not-found object into the map, or changes nothing.
LEMMA UpdateBeginMaps ==
  ASSUME TableInv, TableInv', NEW k \in Keys, UpdateBegin(k)
  PROVE  [Map!MapNext]_View
<1>1. ~grow.on /\ eq_fn' = eq_fn /\ hash_fn' = hash_fn /\ walk' = walk /\ kept' = kept
  BY DEF UpdateBegin, Called
<1>2. CASE CellAt(k) # 0
  <2>1. UNCHANGED <<cells, pairs, vectors, size>>
    BY <1>2 DEF UpdateBegin
  <2>2. Bound' = Bound
    BY <2>1 DEF Bound, buckets
  <2>3. View' = View
    BY <1>1, <2>1, <2>2, NothingMaps
  <2>4. QED
    BY <2>3
<1>3. CASE CellAt(k) = 0
  <2>1. CreateCell(k, NotFound)
    BY <1>3 DEF UpdateBegin
  <2>2. QED
    BY <1>1, <1>3, <2>1, CreateMaps
<1>4. QED
  BY <1>2, <1>3

\* The end of a growth puts the key that caused it into the map.
LEMMA EndGrowthMaps ==
  ASSUME TableInv, TableInv', EndGrowth
  PROVE  [Map!MapNext]_View
<1>1. /\ grow.on /\ grow.ls = 0 /\ (\A i \in 0..(buckets.len - 1) : i > grow.i => buckets.at[i] = 0)
      /\ AddCell(grow.vec, grow.key, grow.val)
      /\ UNCHANGED <<eq_fn, hash_fn, walk, calls, kept>>
  BY DEF EndGrowth
<1>2. /\ PlacedOK(eq_fn, hash_fn, Keyed(cells, pairs), pairs, grow.vec, size)
      /\ \A p \in Members(pairs, grow.vec) : ~SameBy(eq_fn, Keyed(cells, pairs)[p], grow.key)
      /\ CellsOf(pairs, Members(pairs, grow.vec)) = CellsOf(pairs, Members(pairs, buckets))
  BY <1>1, GrowEnds
<1>3. /\ Held(pairs, grow.vec) /\ grow.key \in Keys /\ grow.val \in Vals
      /\ \A p \in Members(pairs, buckets) : ~SameBy(eq_fn, Keyed(cells, pairs)[p], grow.key)
  BY <1>1, GrowOff DEF GrowOK, Vals
<1>4. CellsOf(pairs', Members(pairs', buckets')) = CellsOf(pairs, Members(pairs, grow.vec)) \cup {Len(cells) + 1}
  BY <1>1, <1>2, <1>3, AddCellInv
<1>5. /\ cells' = Append(cells, [key |-> grow.key, val |-> grow.val]) /\ size' = size + 1
      /\ Bound' = Bound \cup {Len(cells) + 1}
  BY <1>1, <1>2, <1>4 DEF AddCell, Bound
<1>6. CellAt(grow.key) = 0
  <2>1. /\ StoreOK(cells, pairs, vectors)
        /\ PlacedOK(eq_fn, hash_fn, Keyed(cells, pairs), pairs, buckets, size)
    BY DEF TableInv
  <2>2. QED
    BY <1>3, <2>1, CellAtIs
<1>7. QED
  BY <1>1, <1>3, <1>5, <1>6, AddMaps

\* Steps that change neither the cells nor the lists of the table.
LEMMA OtherMaps ==
  ASSUME TableInv, TableInv',
         \/ NextBucket \/ UpdateFails \/ WalkBegin \/ WalkVisit \/ WalkNext \/ WalkBucket \/ UNCHANGED table
  PROVE  View' = View
<1>1. UNCHANGED <<eq_fn, cells, pairs, vectors, size>>
  BY DEF NextBucket, UpdateFails, WalkBegin, WalkVisit, WalkNext, WalkBucket, WalkDown, table
<1>2. Bound' = Bound
  BY <1>1 DEF Bound, buckets
<1>3. QED
  BY <1>1, <1>2, NothingMaps

\* Every step is a step of the map, or leaves it alone.
LEMMA NextMaps ==
  ASSUME TableInv, [TableNext]_table
  PROVE  [Map!MapNext]_View
<1>1. TableInv'
  BY NextInv
<1>2. ASSUME NEW k \in Keys, Set(k) \/ Delete(k) \/ UpdateBegin(k) PROVE [Map!MapNext]_View
  BY <1>1, <1>2, SetMaps, DeleteMaps, UpdateBeginMaps
<1>3. CASE CopyPair
  <2>1. CellsOf(pairs', Members(pairs', buckets')) = CellsOf(pairs, Members(pairs, buckets))
    BY <1>3, CopyPairInv
  <2>2. Bound' = Bound /\ UNCHANGED <<eq_fn, cells, size>>
    BY <1>3, <2>1 DEF CopyPair, Bound
  <2>3. View' = View
    BY <1>1, <2>2, NothingMaps
  <2>4. QED
    BY <2>3
<1>4. CASE EndGrowth
  BY <1>1, <1>4, EndGrowthMaps
<1>5. CASE UpdateEnd
  <2>1. cells' = set_value(update, 2) /\ update # 0 /\ UNCHANGED <<eq_fn, pairs, vectors, size>>
    BY <1>5 DEF UpdateEnd
  <2>2. Len(cells) \in Nat /\ update \in 0..Len(cells) /\ 2 \in Vals
    BY StoreFacts DEF TableInv, Vals
  <2>3. update \in 1..Len(cells)
    BY <2>1, <2>2
  <2>4. QED
    BY <1>1, <2>1, <2>2, <2>3, WriteMaps
<1>6. CASE \/ NextBucket \/ UpdateFails \/ WalkBegin \/ WalkVisit \/ WalkNext \/ WalkBucket \/ UNCHANGED table
  <2>1. View' = View
    BY <1>1, <1>6, OtherMaps
  <2>2. QED
    BY <2>1
<1>7. QED
  BY <1>2, <1>3, <1>4, <1>5, <1>6 DEF TableNext

\* An empty table is the empty map.
LEMMA InitMaps ==
  ASSUME TableInit
  PROVE  Map!MapInit
<1>1. TableInv
  BY InitInv
<1>2. cells = <<>> /\ size = 0
  BY DEF TableInit, EmptyTable
<1>3. Bound = {}
  <2>1. Bound \subseteq 1..Len(cells) /\ Len(cells) = 0
    BY <1>1, <1>2, RefIs
  <2>2. QED
    BY <2>1
<1>4. ASSUME NEW j \in Keys PROVE Ref(j) = 0
  <2>1. ValueIs(eq_fn, cells, Bound, j, Ref(j))
    BY <1>1, RefIs
  <2>2. QED
    BY <1>3, <2>1 DEF ValueIs
<1>5. Bindings = [k \in Keys |-> Map!Absent]
  BY <1>4 DEF Bindings, Map!Absent
<1>6. SameKeys \in SUBSET (Keys \X Keys)
  BY DEF SameKeys
<1>7. QED
  BY <1>2, <1>5, <1>6 DEF Map!MapInit

\* A table of hash.c, looked up by key, is a map with a count: every step of
\* every call changes at most the one binding the call names, also when it
\* grows the table, unlinks a pair or writes to the cell of an update that was
\* overtaken by other calls.
THEOREM TableImplementsMap == TableSpec => TableIsMap
<1>1. TableInit => TableInv /\ Map!MapInit
  BY InitInv, InitMaps
<1>2. TableInv /\ [TableNext]_table => TableInv'
  BY NextInv
<1>3. TableInv /\ [TableNext]_table => [Map!MapNext]_View
  BY NextMaps
<1>4. QED
  BY <1>1, <1>2, <1>3, PTL DEF TableSpec, TableIsMap, Map!MapSpec, View
=============================================================================
