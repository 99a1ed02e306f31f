----------------------------- MODULE HashTable -----------------------------
(***************************************************************************)
(* The hash tables of SRFI 69 (lib/srfi/69/hash.c, interface.scm).         *)
(*                                                                         *)
(* A table is a vector of buckets, each a list of cells (key . value).     *)
(* Cells, list pairs and bucket vectors are objects: deleting a key        *)
(* changes a pair, growing the table copies the pairs and shares the       *)
(* cells, and hash-table-walk keeps the vector and the pair it has reached *)
(* while other code, its own procedure or another thread, changes the      *)
(* table.  A call into hash.c is one step; a walk and an update, which     *)
(* call back into Scheme, are several.                                     *)
(***************************************************************************)
EXTENDS Integers, Sequences, FiniteSets

CONSTANTS Keys,       \* the key objects
          Kinds,      \* the equivalences and hash functions of tables, in pairs
          Class(_),   \* the keys equal? does not tell apart have the same class
          HashOf(_),  \* what the hash function makes of a key, or Raises
          Raises,     \* what HashOf gives when the hash function raises
          FirstLength, \* the buckets of a new table
          MaxCalls    \* bound on the calls of a run

\* What SRFI 69 asks of a hash function: that it agrees with the equivalence.
ASSUME HashAssumption ==
  /\ Kinds \subseteq {"eq", "equal"} \X {"builtin", "user"}
  /\ \A k \in Keys : HashOf(k) \in Int
  /\ \A j, k \in Keys : Class(j) = Class(k) => HashOf(j) = HashOf(k)
  /\ FirstLength \in Nat \ {0} /\ MaxCalls \in Nat

VARIABLES eq_fn,      \* "eq" or "equal"
          hash_fn,    \* "builtin" (taken modulo the length) or "user"
          cells,      \* the cells, each [key, val]
          pairs,      \* the pairs of the buckets, each [car, cdr]; 0 is ()
          vectors,    \* the bucket vectors, each its length and its buckets; the
                      \* last one is the table's
          size,
          grow,       \* the growth under way: the new vector, the pair to copy,
                      \* and the key and value that are to be added after it
          update,     \* the cell of the update under way, or 0
          walk,       \* the walk under way and the keys it has called proc on
          calls,      \* calls made
          kept        \* the keys bound since the walk began

table == <<eq_fn, hash_fn, cells, pairs, vectors, size, grow, update, walk, calls, kept>>

Absent == 0                           \* no value
NotFound == -1                        \* the pair hash-table-update! stores first
NoWalk == [on |-> FALSE, vec |-> 0, i |-> 0, ls |-> 0, inside |-> FALSE, seen |-> <<>>]

make_vector(n) == [len |-> n, at |-> [i \in 0..(n - 1) |-> 0]]
NoGrowth == [on |-> FALSE, vec |-> make_vector(0), i |-> 0, ls |-> 0, val |-> Absent]

vector_set(v, i, ls) == [v EXCEPT !.at = [@ EXCEPT ![i] = ls]]
relink(p, ls) == [pairs EXCEPT ![p].cdr = ls]
set_value(c, v) == [cells EXCEPT ![c].val = v]

Same(a, b) == IF eq_fn = "eq" THEN a = b ELSE Class(a) = Class(b)
buckets == vectors[Len(vectors)]

(***************************************************************************)
(* hash.c.                                                                 *)
(***************************************************************************)

\* A user's hash function that raises or answers too much gives bucket 0.
get_bucket(len, k) ==
  IF hash_fn = "builtin" THEN HashOf(k) % len
  ELSE IF HashOf(k) = Raises \/ HashOf(k) \notin 0..(len - 1) THEN 0 ELSE HashOf(k)

\* The pairs of the list that begins at ls.
ListFrom(ps, ls) ==
  LET on[p \in 0..Len(ps)] == IF p = 0 THEN {} ELSE {p} \cup on[ps[p].cdr] IN on[ls]

KeyOf(p) == cells[pairs[p].car].key

\* A variant with a bug: the keys are compared by eq? in every table.
scan_bucket_eq(ls, k) ==
  LET scan[p \in 0..Len(pairs)] == IF p = 0 THEN 0 ELSE IF KeyOf(p) = k THEN p ELSE scan[pairs[p].cdr]
  IN  scan[ls]

\* The first pair of the list whose cell has the key k, or 0.
scan_bucket(ls, k) ==
  LET scan[p \in 0..Len(pairs)] == IF p = 0 THEN 0 ELSE IF Same(KeyOf(p), k) THEN p ELSE scan[pairs[p].cdr]
  IN  scan[ls]

resize_check(n, len) == n * 3 > len \div 4

\* sexp_push on the bucket i of the vector v: of the cell c, in a new pair.
Pushed(v, i, c) == [car |-> c, cdr |-> v.at[i]]
vector_push(v, i) == vector_set(v, i, Len(pairs) + 1)

CellAt(k) == scan_bucket(buckets.at[get_bucket(buckets.len, k)], k)

\* The end of hash-table-cell with a true createp: a cell for k in the vector v.
AddCell(v, k, val) ==
  LET i == get_bucket(v.len, k)
  IN  /\ cells' = Append(cells, [key |-> k, val |-> val])
      /\ pairs' = Append(pairs, Pushed(v, i, Len(cells) + 1))
      /\ size' = size + 1
      /\ vectors' = IF grow.on THEN Append(vectors, vector_push(v, i))
                    ELSE [vectors EXCEPT ![Len(vectors)] = vector_push(v, i)]
      /\ grow' = NoGrowth

\* hash-table-cell, when there is no cell for k: the table may have to grow
\* first.
CreateCell(k, val) ==
  IF resize_check(size, buckets.len)
    THEN /\ grow' = [on |-> TRUE, vec |-> make_vector(2 * buckets.len), i |-> -1, ls |-> 0,
                     key |-> k, val |-> val]
         /\ UNCHANGED <<cells, pairs, vectors, size>>
    ELSE AddCell(buckets, k, val)

\* sexp_regrow_hash_table.  The buckets are gone through from the first, and
\* every list from its front, so that its order is turned around.
NextBucket ==
  LET S == {i \in 0..(buckets.len - 1) : i > grow.i /\ buckets.at[i] # 0}
      i == CHOOSE i \in S : \A j \in S : i <= j
  IN  /\ grow.on /\ grow.ls = 0 /\ S # {}
      /\ grow' = [grow EXCEPT !.i = i, !.ls = buckets.at[i]]
      /\ UNCHANGED <<eq_fn, hash_fn, cells, pairs, vectors, size, update, walk, calls, kept>>

CopyPair ==
  LET j == get_bucket(grow.vec.len, KeyOf(grow.ls))
  IN  /\ grow.on /\ grow.ls # 0
      /\ pairs' = Append(pairs, Pushed(grow.vec, j, pairs[grow.ls].car))
      /\ grow' = [grow EXCEPT !.vec = vector_push(@, j), !.ls = pairs[grow.ls].cdr]
      /\ UNCHANGED <<eq_fn, hash_fn, cells, vectors, size, update, walk, calls, kept>>

\* ...after which the table has the new vector, and the cell is made in it.
EndGrowth ==
  /\ grow.on /\ grow.ls = 0 /\ \A i \in 0..(buckets.len - 1) : i > grow.i => buckets.at[i] = 0
  /\ AddCell(grow.vec, grow.key, grow.val)
  /\ update' = IF grow.val = NotFound THEN Len(cells) + 1 ELSE update
  /\ UNCHANGED <<eq_fn, hash_fn, walk, calls, kept>>

\* hash-table-delete!: unlinks the pair in place.
DeleteCell(k) ==
  LET p == CellAt(k)
      i == get_bucket(buckets.len, k)
      ls == buckets.at[i]
      before == CHOOSE q \in ListFrom(pairs, ls) : pairs[q].cdr = p
  IN  /\ size' = size - 1
      /\ IF ls = p
           THEN /\ vectors' = [vectors EXCEPT ![Len(vectors)] = vector_set(@, i, pairs[p].cdr)]
                /\ UNCHANGED pairs
           ELSE /\ pairs' = relink(before, pairs[p].cdr)
                /\ UNCHANGED vectors

(***************************************************************************)
(* interface.scm.                                                          *)
(***************************************************************************)

Called == ~grow.on /\ calls < MaxCalls /\ calls' = calls + 1

\* hash-table-ref/default
Ref(k) == IF CellAt(k) = 0 THEN Absent ELSE cells[pairs[CellAt(k)].car].val

\* hash-table-set! of the value 1; an update's procedure returns 2.
Set(k) ==
  /\ Called
  /\ IF CellAt(k) # 0
       THEN /\ cells' = set_value(pairs[CellAt(k)].car, 1)
            /\ UNCHANGED <<pairs, vectors, size, grow>>
       ELSE CreateCell(k, 1)
  /\ UNCHANGED <<eq_fn, hash_fn, update, walk, kept>>

Delete(k) ==
  /\ Called
  /\ CellAt(k) # 0
  /\ DeleteCell(k)
  /\ kept' = {j \in kept : ~Same(j, k)}
  /\ UNCHANGED <<eq_fn, hash_fn, cells, grow, update, walk>>

\* hash-table-update! makes the cell, and then calls the procedure.
UpdateBegin(k) ==
  /\ Called
  /\ update = 0
  /\ IF CellAt(k) # 0
       THEN /\ update' = pairs[CellAt(k)].car
            /\ UNCHANGED <<cells, pairs, vectors, size, grow>>
       ELSE /\ CreateCell(k, NotFound)
            /\ update' = IF grow'.on THEN 0 ELSE Len(cells) + 1
  /\ UNCHANGED <<eq_fn, hash_fn, walk, kept>>

\* The procedure has returned: its value goes to the cell, wherever that is.
UpdateEnd ==
  /\ ~grow.on /\ update # 0
  /\ cells' = set_value(update, 2)
  /\ update' = 0
  /\ UNCHANGED <<eq_fn, hash_fn, pairs, vectors, size, grow, walk, calls, kept>>

\* The procedure has raised, or the key was not there and no failure thunk.
UpdateFails ==
  /\ ~grow.on /\ update # 0
  /\ update' = 0
  /\ UNCHANGED <<eq_fn, hash_fn, cells, pairs, vectors, size, grow, walk, calls, kept>>

\* hash-table-walk (hash-table-fold) begins at the last bucket.
WalkBegin ==
  /\ ~grow.on /\ ~walk.on /\ walk.vec = 0
  /\ walk' = [NoWalk EXCEPT !.on = TRUE, !.vec = Len(vectors), !.i = buckets.len]
  /\ kept' = {k \in Keys : CellAt(k) # 0}
  /\ UNCHANGED <<eq_fn, hash_fn, cells, pairs, vectors, size, grow, update, calls>>

\* proc is called with the key and the value of the pair.
WalkVisit ==
  /\ ~grow.on /\ walk.on /\ ~walk.inside /\ walk.ls # 0
  /\ walk' = [walk EXCEPT !.inside = TRUE, !.seen = Append(@, KeyOf(walk.ls))]
  /\ UNCHANGED <<eq_fn, hash_fn, cells, pairs, vectors, size, grow, update, calls, kept>>

\* proc has returned: the cdr is taken now.
WalkNext ==
  /\ ~grow.on /\ walk.on /\ walk.inside
  /\ walk' = [walk EXCEPT !.inside = FALSE, !.ls = pairs[walk.ls].cdr]
  /\ UNCHANGED <<eq_fn, hash_fn, cells, pairs, vectors, size, grow, update, calls, kept>>

\* On to the next bucket of vec that is not empty, if there is any.
WalkDown(vec) ==
  LET S == {i \in 0..(vec.len - 1) : i < walk.i /\ vec.at[i] # 0}
      i == CHOOSE i \in S : \A j \in S : j <= i
  IN  /\ ~grow.on /\ walk.on /\ ~walk.inside /\ walk.ls = 0
      /\ walk' = IF S = {} THEN [walk EXCEPT !.on = FALSE]
                 ELSE [walk EXCEPT !.i = i, !.ls = vec.at[i]]
      /\ UNCHANGED <<eq_fn, hash_fn, cells, pairs, vectors, size, grow, update, calls, kept>>

\* A variant with a bug: the next bucket is looked up in the table as it is now.
WalkBucketNow == WalkDown(buckets)

\* The end of a bucket of the vector that the walk began with.
WalkBucket == WalkDown(vectors[walk.vec])

\* make-hash-table
EmptyTable(kind) ==
  /\ eq_fn = kind[1] /\ hash_fn = kind[2]
  /\ cells = <<>> /\ pairs = <<>> /\ size = 0 /\ calls = 0
  /\ vectors = <<make_vector(FirstLength)>> /\ grow = NoGrowth
  /\ update = 0 /\ walk = NoWalk /\ kept = {}

TableInit == \E kind \in Kinds : EmptyTable(kind)

TableNext ==
  \/ \E k \in Keys : Set(k) \/ Delete(k) \/ UpdateBegin(k)
  \/ NextBucket \/ CopyPair \/ EndGrowth
  \/ UpdateEnd \/ UpdateFails
  \/ WalkBegin \/ WalkVisit \/ WalkNext \/ WalkBucket

TableSpec == TableInit /\ [][TableNext]_table

(***************************************************************************)
(* Properties.                                                             *)
(***************************************************************************)

\* What a table shows: the value of every key, and the keys it takes for one.
Bindings == [k \in Keys |-> Ref(k)]
SameKeys == {e \in Keys \X Keys : Same(e[1], e[2])}

\* Looked up by key, a table of hash.c is a map with a count: growing the
\* table, unlinking pairs and writing to the cell of an update that other calls
\* have overtaken change at most the one binding the call names.
Map == INSTANCE FiniteMap WITH
         Values <- {1, 2, NotFound}, map <- Bindings, count <- size, eqv <- SameKeys
TableIsMap == Map!MapSpec

\* Every pair of the table is in the bucket its key hashes to, and no other
\* pair has the same key: the size counts the cells.
PlacedOnce ==
  LET all == {x \in (0..(buckets.len - 1)) \X (1..Len(pairs)) : x[2] \in ListFrom(pairs, buckets.at[x[1]])}
  IN  /\ \A x \in all : x[1] = get_bucket(buckets.len, KeyOf(x[2]))
      /\ \A x, y \in all : Same(KeyOf(x[2]), KeyOf(y[2])) => x = y
      /\ size = Cardinality({pairs[x[2]].car : x \in all})

\* hash-table-walk, with the table changed meanwhile in any way, calls proc at
\* most once for a key and on every key that was bound from beginning to end.
WalkComplete ==
  /\ \A i, j \in DOMAIN walk.seen : Same(walk.seen[i], walk.seen[j]) => i = j
  /\ ~walk.on /\ walk.vec # 0 =>
       \A k \in kept : \E i \in DOMAIN walk.seen : Same(walk.seen[i], k)

\* The buckets stay right while the table grows, shrinks and is walked.
TableSound == PlacedOnce /\ WalkComplete
=============================================================================
