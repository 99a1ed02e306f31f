----------------------------- MODULE ListLemmas -----------------------------
(***************************************************************************)
(* What the list operators of the thread models return, for every list:    *)
(* the facts about InsertAt, RemoveAt, DeleteList and friends that the     *)
(* proofs about GreenThreads cite.                                         *)
(***************************************************************************)
EXTENDS Integers, SequencesExt, WellFoundedInduction, TLAPS

\* A nonempty set of naturals has a least element, and Min returns it.
LEMMA MinInSet ==
  ASSUME NEW S, S \subseteq Nat, S # {}
  PROVE  Min(S) \in S /\ \A y \in S : Min(S) <= y
<1>. DEFINE R == {p \in Nat \X Nat : p[1] < p[2]}
<1>1. IsWellFoundedOn(R, Nat)
  BY NatLessThanWellFounded DEF OpToRel
<1>. HIDE DEF R
<1>2. PICK x \in S : \A y \in S : ~(<<y, x>> \in R)
  BY <1>1, WFMin
<1>3. ASSUME NEW y \in S PROVE x <= y
  <2>1. <<y, x>> \in Nat \X Nat
    OBVIOUS
  <2>2. ~(<<y, x>>[1] < <<y, x>>[2])
    BY <1>2, <2>1, Zenon DEF R
  <2>. QED
    BY <2>2
<1>. QED
  BY <1>3 DEF Min

\* The cells of a concatenation.
LEMMA ConcatCells ==
  ASSUME NEW S, NEW p \in Seq(S), NEW q \in Seq(S)
  PROVE  /\ p \o q \in Seq(S) /\ Len(p \o q) = Len(p) + Len(q)
         /\ \A j \in 1..(Len(p) + Len(q)) :
              (p \o q)[j] = IF j <= Len(p) THEN p[j] ELSE q[j - Len(p)]
OBVIOUS

\* The cells of a list after the cell at i is unlinked.
LEMMA RemoveAtCells ==
  ASSUME NEW S, NEW q \in Seq(S), NEW i \in 1..Len(q)
  PROVE  /\ RemoveAt(q, i) \in Seq(S)
         /\ Len(RemoveAt(q, i)) = Len(q) - 1
         /\ \A j \in 1..(Len(q) - 1) :
              RemoveAt(q, i)[j] = IF j < i THEN q[j] ELSE q[j + 1]
<1>. DEFINE a == SubSeq(q, 1, i - 1)
            b == SubSeq(q, i + 1, Len(q))
<1>1. a \in Seq(S) /\ Len(a) = i - 1 /\ \A j \in 1..(i - 1) : a[j] = q[j]
  OBVIOUS
<1>2. b \in Seq(S) /\ Len(b) = Len(q) - i /\ \A j \in 1..(Len(q) - i) : b[j] = q[i + j]
  OBVIOUS
<1>. HIDE DEF a, b
<1>3. /\ a \o b \in Seq(S) /\ Len(a \o b) = Len(q) - 1
      /\ \A j \in 1..(Len(q) - 1) : (a \o b)[j] = IF j < i THEN a[j] ELSE b[j - i + 1]
  <2>1. /\ a \o b \in Seq(S) /\ Len(a \o b) = Len(a) + Len(b)
        /\ \A j \in 1..(Len(a) + Len(b)) :
             (a \o b)[j] = IF j <= Len(a) THEN a[j] ELSE b[j - Len(a)]
    BY <1>1, <1>2, ConcatCells
  <2>2. Len(a) = i - 1 /\ Len(a) + Len(b) = Len(q) - 1 /\ i \in Nat /\ Len(q) \in Nat
    BY <1>1, <1>2
  <2>3. \A j \in 1..(Len(q) - 1) : (j <= Len(a) <=> j < i) /\ j - Len(a) = j - i + 1
    BY <2>2
  <2>. QED
    BY <2>1, <2>2, <2>3
<1>4. \A j \in 1..(Len(q) - 1) : (a \o b)[j] = IF j < i THEN q[j] ELSE q[j + 1]
  BY <1>1, <1>2, <1>3
<1>5. RemoveAt(q, i) = a \o b
  BY DEF RemoveAt, a, b
<1>. QED
  BY <1>3, <1>4, <1>5

\* The cells of a list after a new cell is linked in at i.
LEMMA InsertAtCells ==
  ASSUME NEW S, NEW q \in Seq(S), NEW i \in 1..(Len(q) + 1), NEW x \in S
  PROVE  /\ InsertAt(q, i, x) \in Seq(S)
         /\ Len(InsertAt(q, i, x)) = Len(q) + 1
         /\ \A j \in 1..(Len(q) + 1) :
              InsertAt(q, i, x)[j] = IF j < i THEN q[j] ELSE IF j = i THEN x ELSE q[j - 1]
<1>. DEFINE a == SubSeq(q, 1, i - 1)
            b == SubSeq(q, i, Len(q))
<1>1. a \in Seq(S) /\ Len(a) = i - 1 /\ \A j \in 1..(i - 1) : a[j] = q[j]
  OBVIOUS
<1>2. b \in Seq(S) /\ Len(b) = Len(q) - i + 1
      /\ \A j \in 1..(Len(q) - i + 1) : b[j] = q[i + j - 1]
  OBVIOUS
<1>. HIDE DEF a, b
<1>3. InsertAt(q, i, x) = (a \o <<x>>) \o b
  BY DEF InsertAt, a, b
<1>. DEFINE c == a \o <<x>>
<1>4. c \in Seq(S) /\ Len(c) = i /\ c[i] = x /\ \A j \in 1..(i - 1) : c[j] = q[j]
  BY <1>1
<1>. HIDE DEF c
<1>5. /\ c \o b \in Seq(S) /\ Len(c \o b) = Len(q) + 1
      /\ \A j \in 1..(Len(q) + 1) : (c \o b)[j] = IF j <= i THEN c[j] ELSE b[j - i]
  <2>1. /\ c \o b \in Seq(S) /\ Len(c \o b) = Len(c) + Len(b)
        /\ \A j \in 1..(Len(c) + Len(b)) :
             (c \o b)[j] = IF j <= Len(c) THEN c[j] ELSE b[j - Len(c)]
    BY <1>2, <1>4, ConcatCells
  <2>2. Len(c) = i /\ Len(c) + Len(b) = Len(q) + 1
    BY <1>2, <1>4
  <2>. QED
    BY <2>1, <2>2
<1>6. \A j \in 1..(Len(q) + 1) :
        (c \o b)[j] = IF j < i THEN q[j] ELSE IF j = i THEN x ELSE q[j - 1]
  BY <1>2, <1>4, <1>5
<1>7. InsertAt(q, i, x) = c \o b
  BY <1>3 DEF c
<1>. QED
  BY <1>5, <1>6, <1>7

\* Unlinking the cell at i takes at most its element out of the list.
LEMMA RemoveAtSet ==
  ASSUME NEW S, NEW q \in Seq(S), NEW i \in 1..Len(q)
  PROVE  /\ ToSet(q) \ {q[i]} \subseteq ToSet(RemoveAt(q, i))
         /\ ToSet(RemoveAt(q, i)) \subseteq ToSet(q)
<1>. DEFINE r == RemoveAt(q, i)
<1>1. /\ r \in Seq(S) /\ Len(r) = Len(q) - 1
      /\ \A j \in 1..(Len(q) - 1) : r[j] = IF j < i THEN q[j] ELSE q[j + 1]
  BY RemoveAtCells
<1>. HIDE DEF r
<1>2. ASSUME NEW j \in 1..Len(q), q[j] # q[i]
      PROVE  \E k \in DOMAIN r : r[k] = q[j]
  <2>1. CASE j < i
    BY <2>1, <1>1
  <2>2. CASE j > i
    <3>1. j - 1 \in DOMAIN r /\ r[j - 1] = q[j]
      BY <2>2, <1>1
    <3>. QED
      BY <3>1, Zenon
  <2>. QED
    BY <1>2, <2>1, <2>2
<1>3. ToSet(q) \ {q[i]} \subseteq ToSet(r)
  BY <1>2 DEF ToSet
<1>4. ToSet(r) \subseteq ToSet(q)
  BY <1>1 DEF ToSet
<1>. QED
  BY <1>3, <1>4 DEF r

\* Linking in a new cell adds its element to the list and takes none out.
LEMMA InsertAtSet ==
  ASSUME NEW S, NEW q \in Seq(S), NEW i \in 1..(Len(q) + 1), NEW x \in S
  PROVE  ToSet(InsertAt(q, i, x)) = ToSet(q) \cup {x}
<1>. DEFINE r == InsertAt(q, i, x)
<1>1. /\ r \in Seq(S) /\ Len(r) = Len(q) + 1
      /\ \A j \in 1..(Len(q) + 1) :
           r[j] = IF j < i THEN q[j] ELSE IF j = i THEN x ELSE q[j - 1]
  BY InsertAtCells
<1>. HIDE DEF r
<1>2. ASSUME NEW j \in 1..Len(q)
      PROVE  \E k \in DOMAIN r : r[k] = q[j]
  <2>1. CASE j < i
    <3>1. j \in DOMAIN r /\ r[j] = q[j]
      BY <2>1, <1>1
    <3>. QED
      BY <3>1, Zenon
  <2>2. CASE j >= i
    <3>1. j + 1 \in DOMAIN r /\ r[j + 1] = q[j]
      BY <2>2, <1>1
    <3>. QED
      BY <3>1, Zenon
  <2>. QED
    BY <2>1, <2>2
<1>3. ToSet(q) \subseteq ToSet(r)
  BY <1>2 DEF ToSet
<1>4. x \in ToSet(r)
  BY <1>1 DEF ToSet
<1>5. ToSet(r) \subseteq ToSet(q) \cup {x}
  BY <1>1 DEF ToSet
<1>. QED
  BY <1>3, <1>4, <1>5 DEF r

\* The elements of a list with one more cell at its end, without its first
\* cell, and of two lists linked together.
LEMMA AppendSet ==
  ASSUME NEW S, NEW q \in Seq(S), NEW x \in S
  PROVE  Append(q, x) \in Seq(S) /\ ToSet(Append(q, x)) = ToSet(q) \cup {x}
<1>1. /\ Append(q, x) \in Seq(S) /\ Len(Append(q, x)) = Len(q) + 1
      /\ \A j \in 1..Len(q) : Append(q, x)[j] = q[j]
      /\ Append(q, x)[Len(q) + 1] = x
  OBVIOUS
<1>2. ToSet(q) \subseteq ToSet(Append(q, x)) /\ x \in ToSet(Append(q, x))
  BY <1>1 DEF ToSet
<1>3. ToSet(Append(q, x)) \subseteq ToSet(q) \cup {x}
  BY <1>1 DEF ToSet
<1>. QED
  BY <1>1, <1>2, <1>3

\* Taking the head off a list leaves the other members.
LEMMA TailSet ==
  ASSUME NEW S, NEW q \in Seq(S), q # <<>>
  PROVE  /\ Tail(q) \in Seq(S) /\ q[1] \in S /\ q[1] = Head(q)
         /\ Head(q) \in ToSet(q)
         /\ ToSet(q) = {Head(q)} \cup ToSet(Tail(q))
<1>1. /\ Tail(q) \in Seq(S) /\ Len(Tail(q)) = Len(q) - 1 /\ Len(q) >= 1
      /\ \A j \in 1..(Len(q) - 1) : Tail(q)[j] = q[j + 1]
  OBVIOUS
<1>2. ASSUME NEW j \in 1..Len(q), j # 1
      PROVE  \E k \in DOMAIN Tail(q) : Tail(q)[k] = q[j]
  <2>1. j - 1 \in DOMAIN Tail(q) /\ Tail(q)[j - 1] = q[j]
    BY <1>1, <1>2
  <2>. QED
    BY <2>1, Zenon
<1>3. Head(q) = q[1] /\ 1 \in DOMAIN q
  BY <1>1
<1>4. ToSet(q) \subseteq {Head(q)} \cup ToSet(Tail(q))
  BY <1>2, <1>3 DEF ToSet
<1>5. ToSet(Tail(q)) \subseteq ToSet(q)
  BY <1>1 DEF ToSet
<1>. QED
  <2>1. q[1] \in S /\ Head(q) \in ToSet(q)
    BY <1>1, <1>3 DEF ToSet
  <2>. QED
    BY <1>1, <1>3, <1>4, <1>5, <2>1

\* The members of a concatenation are those of its parts.
LEMMA ConcatSet ==
  ASSUME NEW S, NEW p \in Seq(S), NEW q \in Seq(S)
  PROVE  p \o q \in Seq(S) /\ ToSet(p \o q) = ToSet(p) \cup ToSet(q)
<1>1. /\ p \o q \in Seq(S) /\ Len(p \o q) = Len(p) + Len(q)
      /\ \A j \in 1..(Len(p) + Len(q)) :
           (p \o q)[j] = IF j <= Len(p) THEN p[j] ELSE q[j - Len(p)]
  BY ConcatCells
<1>2. ASSUME NEW j \in 1..Len(q) PROVE \E k \in DOMAIN (p \o q) : (p \o q)[k] = q[j]
  <2>1. Len(p) + j \in DOMAIN (p \o q) /\ (p \o q)[Len(p) + j] = q[j]
    BY <1>1
  <2>. QED
    BY <2>1, Zenon
<1>3. ToSet(p) \subseteq ToSet(p \o q)
  BY <1>1 DEF ToSet
<1>4. ToSet(q) \subseteq ToSet(p \o q)
  BY <1>2 DEF ToSet
<1>5. ToSet(p \o q) \subseteq ToSet(p) \cup ToSet(q)
  BY <1>1 DEF ToSet
<1>. QED
  BY <1>1, <1>3, <1>4, <1>5

\* Consing adds one member.
LEMMA ConsSet ==
  ASSUME NEW S, NEW x \in S, NEW q \in Seq(S)
  PROVE  <<x>> \o q \in Seq(S) /\ ToSet(<<x>> \o q) = {x} \cup ToSet(q)
<1>. DEFINE p == <<x>>
<1>1. p \in Seq(S) /\ DOMAIN p = {1} /\ p[1] = x
  OBVIOUS
<1>. HIDE DEF p
<1>2. ToSet(p) = {x}
  BY <1>1 DEF ToSet
<1>3. p \o q \in Seq(S) /\ ToSet(p \o q) = ToSet(p) \cup ToSet(q)
  BY <1>1, ConcatSet
<1>. QED
  BY <1>2, <1>3 DEF p

\* Two lists with the same cells are the same.
LEMMA SameCells ==
  ASSUME NEW S, NEW p \in Seq(S), NEW q \in Seq(S), Len(p) = Len(q),
         \A i \in 1..Len(p) : p[i] = q[i]
  PROVE  p = q
OBVIOUS

\* The cells of a list with one more in front.
LEMMA ConsCells ==
  ASSUME NEW S, NEW x \in S, NEW q \in Seq(S)
  PROVE  /\ <<x>> \o q \in Seq(S) /\ Len(<<x>> \o q) = Len(q) + 1 /\ Len(q) \in Nat
         /\ (<<x>> \o q)[1] = x
         /\ \A i \in 1..Len(q) : (<<x>> \o q)[i + 1] = q[i]
<1>. DEFINE p == <<x>>
<1>1. p \in Seq(S) /\ Len(p) = 1 /\ p[1] = x
  OBVIOUS
<1>. HIDE DEF p
<1>. DEFINE r == p \o q
<1>2. /\ r \in Seq(S) /\ Len(r) = Len(p) + Len(q)
      /\ \A j \in 1..(Len(p) + Len(q)) : r[j] = IF j <= Len(p) THEN p[j] ELSE q[j - Len(p)]
  BY <1>1, ConcatCells
<1>3. Len(q) \in Nat
  OBVIOUS
<1>. HIDE DEF r
<1>4. /\ Len(r) = Len(q) + 1 /\ r[1] = x
      /\ \A i \in 1..Len(q) : r[i + 1] = q[i]
  BY <1>1, <1>2, <1>3
<1>. QED
  BY <1>2, <1>3, <1>4 DEF p, r

\* Taking off what was consed.
LEMMA HeadTailOfCons ==
  ASSUME NEW S, NEW x \in S, NEW q \in Seq(S)
  PROVE  <<x>> \o q # <<>> /\ Head(<<x>> \o q) = x /\ Tail(<<x>> \o q) = q
<1>. DEFINE p == <<x>> \o q
<1>1. /\ p \in Seq(S) /\ Len(p) = Len(q) + 1 /\ Len(q) \in Nat
      /\ p[1] = x /\ \A i \in 1..Len(q) : p[i + 1] = q[i]
  BY ConsCells
<1>. HIDE DEF p
<1>2. p # <<>> /\ Head(p) = x
  BY <1>1
<1>3. /\ Tail(p) \in Seq(S) /\ Len(Tail(p)) = Len(p) - 1
      /\ \A i \in 1..(Len(p) - 1) : Tail(p)[i] = p[i + 1]
  BY <1>1, <1>2
<1>. DEFINE t == Tail(p)
<1>. HIDE DEF t
<1>4. t \in Seq(S) /\ Len(t) = Len(q) /\ \A i \in 1..Len(t) : t[i] = q[i]
  BY <1>1, <1>3 DEF t
<1>5. t = q
  BY <1>4, SameCells
<1>. QED
  BY <1>2, <1>5 DEF p, t

\* Cutting a list in two loses no element.
LEMMA CutSet ==
  ASSUME NEW S, NEW q \in Seq(S), NEW n \in 0..Len(q)
  PROVE  /\ SubSeq(q, 1, n) \in Seq(S) /\ SubSeq(q, n + 1, Len(q)) \in Seq(S)
         /\ ToSet(SubSeq(q, 1, n)) = {q[i] : i \in 1..n}
         /\ ToSet(q) = ToSet(SubSeq(q, 1, n)) \cup ToSet(SubSeq(q, n + 1, Len(q)))
<1>. DEFINE a == SubSeq(q, 1, n)
            b == SubSeq(q, n + 1, Len(q))
<1>1. a \in Seq(S) /\ Len(a) = n /\ \A j \in 1..n : a[j] = q[j]
  OBVIOUS
<1>2. b \in Seq(S) /\ Len(b) = Len(q) - n /\ \A j \in 1..(Len(q) - n) : b[j] = q[n + j]
  OBVIOUS
<1>. HIDE DEF a, b
<1>3. ToSet(a) = {q[i] : i \in 1..n}
  BY <1>1 DEF ToSet
<1>4. ASSUME NEW j \in 1..Len(q), j > n PROVE \E k \in DOMAIN b : b[k] = q[j]
  <2>1. j - n \in DOMAIN b /\ b[j - n] = q[j]
    BY <1>2, <1>4
  <2>. QED
    BY <2>1, Zenon
<1>5. ToSet(q) \subseteq ToSet(a) \cup ToSet(b)
  BY <1>1, <1>4 DEF ToSet
<1>6. ToSet(a) \subseteq ToSet(q) /\ ToSet(b) \subseteq ToSet(q)
  <2>1. ToSet(a) \subseteq ToSet(q)
    BY <1>1 DEF ToSet
  <2>2. ASSUME NEW j \in DOMAIN b PROVE n + j \in DOMAIN q /\ q[n + j] = b[j]
    BY <1>2
  <2>3. ToSet(b) \subseteq ToSet(q)
    BY <2>2, Zenon DEF ToSet
  <2>. QED
    BY <2>1, <2>3
<1>. QED
  BY <1>1, <1>2, <1>3, <1>5, <1>6 DEF a, b

\* The first cells of a list.
LEMMA PrefixCells ==
  ASSUME NEW S, NEW q \in Seq(S), NEW n \in 0..Len(q)
  PROVE  /\ SubSeq(q, 1, n) \in Seq(S) /\ Len(SubSeq(q, 1, n)) = n
         /\ \A j \in 1..n : SubSeq(q, 1, n)[j] = q[j]
OBVIOUS

\* The cells of a sequence without its last one.
LEMMA FrontCells ==
  ASSUME NEW S, NEW s \in Seq(S), s # <<>>
  PROVE  /\ Front(s) \in Seq(S) /\ Len(Front(s)) = Len(s) - 1 /\ Len(s) \in Nat \ {0}
         /\ \A i \in 1..(Len(s) - 1) : Front(s)[i] = s[i]
         /\ Last(s) = s[Len(s)] /\ Last(s) \in S
<1>1. Len(s) \in Nat \ {0} /\ s[Len(s)] \in S
  OBVIOUS
<1>2. Len(s) - 1 \in 0..Len(s)
  BY <1>1
<1>. QED
  BY <1>1, <1>2, PrefixCells DEF Last, Front

\* The cells of a sequence with one more.
LEMMA AppendCells ==
  ASSUME NEW S, NEW s \in Seq(S), NEW x \in S
  PROVE  /\ Append(s, x) \in Seq(S) /\ Len(Append(s, x)) = Len(s) + 1 /\ Len(s) \in Nat
         /\ \A i \in 1..Len(s) : Append(s, x)[i] = s[i]
         /\ Append(s, x)[Len(s) + 1] = x
OBVIOUS

\* Cutting off what was appended.
LEMMA FrontOfAppend ==
  ASSUME NEW S, NEW s \in Seq(S), NEW x \in S
  PROVE  Append(s, x) # <<>> /\ Last(Append(s, x)) = x /\ Front(Append(s, x)) = s
<1>. DEFINE a == Append(s, x)
<1>1. /\ a \in Seq(S) /\ Len(a) = Len(s) + 1 /\ Len(s) \in Nat
      /\ \A i \in 1..Len(s) : a[i] = s[i]
      /\ a[Len(s) + 1] = x
  BY AppendCells
<1>2. a # <<>>
  BY <1>1
<1>. HIDE DEF a
<1>3. /\ Front(a) \in Seq(S) /\ Len(Front(a)) = Len(s) /\ Last(a) = x
      /\ \A i \in 1..Len(s) : Front(a)[i] = s[i]
  BY <1>1, <1>2, FrontCells
<1>4. Front(a) = s
  BY <1>3
<1>. QED
  BY <1>2, <1>3, <1>4 DEF a

\* A set of the numbers up to N that holds every number whose predecessors it
\* holds has all of them.
LEMMA UpTo ==
  ASSUME NEW N \in Nat, NEW S,
         \A n \in 0..N : (\A m \in 0..(n - 1) : m \in S) => n \in S
  PROVE  \A n \in 0..N : n \in S
<1>1. SUFFICES ASSUME NEW x \in 0..N, x \notin S PROVE FALSE
  OBVIOUS
<1>. DEFINE T == {n \in 0..N : n \notin S}
<1>2. T \subseteq Nat /\ T # {}
  BY <1>1
<1>3. PICK n : n \in T /\ \A y \in T : n <= y
  BY <1>2, MinInSet
<1>4. \A m \in 0..(n - 1) : m \in S
  BY <1>3
<1>5. QED
  BY <1>3, <1>4

\* A set of numbers up to N has a largest one.
LEMMA MaxInSet ==
  ASSUME NEW N \in Nat, NEW S, S \subseteq 0..N, S # {}
  PROVE  \E x \in S : \A y \in S : y <= x
<1>. DEFINE T == {n \in 0..N : \A y \in S : y <= n}
<1>1. T \subseteq Nat /\ N \in T
  OBVIOUS
<1>2. PICK x : x \in T /\ \A y \in T : x <= y
  <2>. HIDE DEF T
  <2>1. QED
    BY <1>1, MinInSet
<1>3. x \in S
  <2>1. SUFFICES ASSUME x \notin S PROVE FALSE
    OBVIOUS
  <2>2. PICK z : z \in S
    OBVIOUS
  <2>3. \A y \in S : y \in 0..N /\ y <= x /\ y # x
    BY <1>2, <2>1
  <2>4. x \in 0..N /\ x > 0
    BY <1>2, <2>2, <2>3
  <2>5. x - 1 \in T
    BY <2>3, <2>4
  <2>6. QED
    BY <1>2, <2>4, <2>5
<1>4. QED
  BY <1>2, <1>3

\* f starts with a and step[i] leads from f[i - 1] to f[i].
Iterates(f, N, S, a, step) ==
  f \in [0..N -> S] /\ f[0] = a /\ \A i \in 1..N : f[i] = step[i][f[i - 1]]

\* A function can be defined by recursion on the numbers up to N.
LEMMA Recursion ==
  ASSUME NEW N \in Nat, NEW S, NEW a, a \in S, NEW step, step \in [1..N -> [S -> S]]
  PROVE  \E f : Iterates(f, N, S, a, step)
<1>. DEFINE T == {n \in 0..N : \E f \in [0..n -> S] : f[0] = a /\ \A i \in 1..n : f[i] = step[i][f[i - 1]]}
<1>1. ASSUME NEW n \in 0..N, \A m \in 0..(n - 1) : m \in T
      PROVE  n \in T
  <2>1. CASE n = 0
    <3>1. PICK f : f = [i \in 0..0 |-> a]
      OBVIOUS
    <3>2. f \in [0..0 -> S] /\ f[0] = a /\ \A i \in 1..0 : f[i] = step[i][f[i - 1]]
      BY <3>1
    <3>3. QED
      BY <2>1, <3>2
  <2>2. CASE n # 0
    <3>1. n - 1 \in T /\ n \in 1..N
      <4>1. n - 1 \in 0..(n - 1) /\ n \in 1..N
        BY <2>2
      <4>. HIDE DEF T
      <4>2. QED
        BY <1>1, <4>1
    <3>2. PICK g \in [0..(n - 1) -> S] : g[0] = a /\ \A i \in 1..(n - 1) : g[i] = step[i][g[i - 1]]
      BY <3>1
    <3>3. PICK x : x = step[n][g[n - 1]]
      OBVIOUS
    <3>4. x \in S
      <4>1. n \in 1..N /\ g[n - 1] \in S
        BY <3>1, <3>2
      <4>2. QED
        BY <3>3, <4>1
    <3>5. PICK f : f = [i \in 0..n |-> IF i = n THEN x ELSE g[i]]
      OBVIOUS
    <3>6. f \in [0..n -> S] /\ f[n] = x /\ \A i \in 0..(n - 1) : f[i] = g[i]
      BY <3>2, <3>4, <3>5
    <3>7. f[0] = a
      BY <3>1, <3>2, <3>6
    <3>8. ASSUME NEW i \in 1..n PROVE f[i] = step[i][f[i - 1]]
      <4>1. f[i - 1] = g[i - 1]
        BY <3>6
      <4>2. CASE i = n
        BY <3>3, <3>6, <4>1, <4>2
      <4>3. CASE i # n
        <5>1. i \in 1..(n - 1) /\ i \in 0..(n - 1)
          BY <4>3
        <5>2. f[i] = g[i] /\ g[i] = step[i][g[i - 1]]
          BY <3>2, <3>6, <5>1
        <5>3. QED
          BY <4>1, <5>2
      <4>4. QED
        BY <4>2, <4>3
    <3>9. QED
      BY <3>6, <3>7, <3>8
  <2>3. QED
    BY <2>1, <2>2
<1>. HIDE DEF T
<1>2. \A n \in 0..N : n \in T
  BY <1>1, UpTo
<1>3. N \in T
  BY <1>2
<1>4. QED
  BY <1>3 DEF T, Iterates
=============================================================================
