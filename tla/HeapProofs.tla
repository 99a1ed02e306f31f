----------------------------- MODULE HeapProofs -----------------------------
(***************************************************************************)
(* Proofs about the heap, in two parts.  The blocks: objects and free      *)
(* chunks tile every heap, the free lists are ordered and coalesced, and   *)
(* the scans of the collector stop at every object exactly once.  The      *)
(* collector: marking is complete, what the mutator can reach survives,    *)
(* weak references are broken only when they must be and never left        *)
(* dangling, garbage is finalized once and then freed.                     *)
(***************************************************************************)
EXTENDS Heap, ListLemmas, FiniteSetTheorems

-----------------------------------------------------------------------------
(* The inductive invariant.                                                *)

\* The heaps of the chain lie behind each other.
HeapsApart ==
  /\ \A h \in DOMAIN heaps : heaps[h].size >= 2
  /\ \A g, h \in DOMAIN heaps : g < h => End(g) < heaps[h].base

\* A free chunk lies within its heap.
ChunksInside ==
  \A h \in DOMAIN heaps : \A i \in DOMAIN free[h] :
    FirstBlock(h) <= free[h][i].at /\ free[h][i].at + free[h][i].size <= End(h)

\* The chunks of a free list are ordered and do not touch.
ChunksApart ==
  \A h \in DOMAIN heaps : \A i, j \in DOMAIN free[h] :
    i < j => free[h][i].at + free[h][i].size < free[h][j].at

\* An object lies within one of the heaps.
ObjectsInside ==
  \A a \in Objects : \E h \in DOMAIN heaps :
    FirstBlock(h) <= a /\ a + Row(a).size <= End(h)

\* Objects do not overlap...
ObjectsApart ==
  \A a, b \in Objects : a < b => a + Row(a).size <= b

\* ...neither each other nor free chunks.
BlocksApart ==
  \A a \in Objects : \A h \in DOMAIN heaps : \A i \in DOMAIN free[h] :
    a + Row(a).size <= free[h][i].at \/ free[h][i].at + free[h][i].size <= a

\* Every unit behind a heap's head belongs to a block.
InObject(u) == \E a \in Objects : a <= u /\ u < a + Row(a).size
InChunk(h, u) ==
  \E i \in DOMAIN free[h] : free[h][i].at <= u /\ u < free[h][i].at + free[h][i].size
Covered ==
  \A h \in DOMAIN heaps : \A u \in FirstBlock(h)..(End(h) - 1) : InObject(u) \/ InChunk(h, u)

Layout ==
  /\ HeapsApart /\ ChunksInside /\ ChunksApart
  /\ ObjectsInside /\ ObjectsApart /\ BlocksApart /\ Covered

\* p stays in its heap, and while the heap is scanned no object straddles it.
ScanInside == p \in FirstBlock(hi)..End(hi)
AtBlock ==
  ScanInside /\ (Scanning => \A a \in Objects : a + Row(a).size <= p \/ p <= a)

\* The ranges that the marker has still to look at are slots of marked objects.
SlotsOf(r) == r.from < r.to => r.obj \in marked /\ 1 <= r.from /\ r.to <= Row(r.obj).slots
RangesOK == SlotsOf(walk) /\ \A i \in DOMAIN mstack : SlotsOf(mstack[i])

LayoutInv == TypeOK /\ Layout /\ AtBlock /\ RangesOK

-----------------------------------------------------------------------------
(* Lemmas on the operators.                                                *)

\* What the type table says of a kind.
LEMMA TypeFacts ==
  ASSUME NEW k \in Kinds
  PROVE  /\ Types[k].size \in Nat \ {0} /\ Types[k].len \in Nat /\ Types[k].slots \in Nat
         /\ Types[k].weak \in Nat /\ Types[k].extra \in Nat /\ Types[k].finalizer \in BOOLEAN
         /\ Types[k].slots <= Types[k].len
         /\ Types[k].weak + Types[k].extra <= Types[k].len
         /\ Types[k].len \in {Types[k].slots, Types[k].weak + Types[k].extra}
BY HeapAssumption DEF TypeRows

\* The type of an object.
LEMMA ObjectFacts ==
  ASSUME TypeOK, NEW a \in Objects
  PROVE  /\ a \in Nat /\ obj[a] \in [kind : Kinds, fin : Nat, fields : Seq(Refs)]
         /\ obj[a].kind \in Kinds
         /\ Row(a).size \in Nat \ {0} /\ Row(a).len \in Nat /\ Row(a).slots \in Nat
         /\ Row(a).weak \in Nat /\ Row(a).extra \in Nat /\ Row(a).finalizer \in BOOLEAN
         /\ Row(a).slots <= Row(a).len /\ Row(a).weak + Row(a).extra <= Row(a).len
         /\ Row(a).len \in {Row(a).slots, Row(a).weak + Row(a).extra}
         /\ Len(obj[a].fields) = Row(a).len
<1>1. /\ a \in Nat /\ obj[a] \in [kind : Kinds, fin : Nat, fields : Seq(Refs)]
      /\ Len(obj[a].fields) = Row(a).len
  BY DEF TypeOK
<1>2. obj[a].kind \in Kinds
  BY <1>1
<1>3. QED
  BY <1>1, <1>2, TypeFacts DEF Row

\* The type of a heap and of its chunks.
LEMMA HeapFacts ==
  ASSUME TypeOK, NEW h \in DOMAIN heaps
  PROVE  /\ heaps[h] \in [base : Nat, size : Nat] /\ heaps[h].base \in Nat /\ heaps[h].size \in Nat
         /\ FirstBlock(h) \in Nat /\ End(h) \in Nat
         /\ FirstBlock(h) = heaps[h].base + 1 /\ End(h) = heaps[h].base + heaps[h].size
         /\ h \in DOMAIN free /\ free[h] \in Seq(Chunks) /\ Len(free[h]) \in Nat
         /\ DOMAIN free[h] = 1..Len(free[h])
         /\ \A i \in DOMAIN free[h] :
              /\ free[h][i] \in Chunks
              /\ free[h][i].at \in Nat /\ free[h][i].size \in Nat \ {0}
<1>0. /\ heaps \in Seq([base : Nat, size : Nat])
      /\ free \in Seq(Seq(Chunks)) /\ Len(free) = Len(heaps)
  BY DEF TypeOK
<1>6. DOMAIN heaps = 1..Len(heaps) /\ DOMAIN free = 1..Len(free)
  BY <1>0
<1>7. h \in 1..Len(heaps) /\ h \in DOMAIN free /\ h \in 1..Len(free)
  BY <1>0, <1>6
<1>8. \A S : \A s \in Seq(S) : \A i \in 1..Len(s) : s[i] \in S
  OBVIOUS
<1>1. heaps[h] \in [base : Nat, size : Nat] /\ h \in DOMAIN free /\ h \in 1..Len(free)
  BY <1>0, <1>7, <1>8
<1>2. free[h] \in Seq(Chunks)
  BY <1>0, <1>1
<1>3. /\ Len(free[h]) \in Nat /\ DOMAIN free[h] = 1..Len(free[h])
      /\ \A i \in DOMAIN free[h] : free[h][i] \in Chunks
  BY <1>2
<1>4. \A c \in Chunks : c.at \in Nat /\ c.size \in Nat \ {0}
  BY DEF Chunks
<1>5. QED
  BY <1>1, <1>2, <1>3, <1>4 DEF FirstBlock, End

\* A list with a part replaced by one cell.
Splice(s, i, x, j) == SubSeq(s, 1, i) \o <<x>> \o SubSeq(s, j, Len(s))

\* Its cells: those up to i, the new one, those from j on.
LEMMA SpliceCells ==
  ASSUME NEW S, NEW s \in Seq(S), NEW x \in S, NEW i \in 0..Len(s), NEW j \in 1..(Len(s) + 1)
  PROVE  /\ Splice(s, i, x, j) \in Seq(S)
         /\ Len(Splice(s, i, x, j)) = i + 1 + (Len(s) - j + 1)
         /\ \A k \in 1..i : Splice(s, i, x, j)[k] = s[k]
         /\ Splice(s, i, x, j)[i + 1] = x
         /\ \A k \in 1..(Len(s) - j + 1) : Splice(s, i, x, j)[i + 1 + k] = s[j + k - 1]
<1>. DEFINE a == SubSeq(s, 1, i)
            b == SubSeq(s, j, Len(s))
            c == <<x>>
            d == a \o c
            r == d \o b
<1>0. Len(s) \in Nat /\ i \in Nat /\ j \in Nat
  OBVIOUS
<1>1. a \in Seq(S) /\ Len(a) = i /\ \A k \in 1..i : a[k] = s[k]
  BY PrefixCells
<1>2. /\ b \in Seq(S) /\ Len(b) = Len(s) - j + 1
      /\ \A k \in 1..(Len(s) - j + 1) : b[k] = s[j + k - 1]
  BY <1>0
<1>3. c \in Seq(S) /\ Len(c) = 1 /\ c[1] = x
  OBVIOUS
<1>. HIDE DEF a, b, c
<1>10. /\ d \in Seq(S) /\ Len(d) = Len(a) + Len(c)
       /\ \A k \in 1..(Len(a) + Len(c)) : d[k] = IF k <= Len(a) THEN a[k] ELSE c[k - Len(a)]
  BY <1>1, <1>3, ConcatCells
<1>. HIDE DEF d
<1>4. /\ d \in Seq(S) /\ Len(d) = i + 1
      /\ \A k \in 1..i : d[k] = s[k]
      /\ d[i + 1] = x
  BY <1>0, <1>1, <1>3, <1>10
<1>11. /\ r \in Seq(S) /\ Len(r) = Len(d) + Len(b)
       /\ \A k \in 1..(Len(d) + Len(b)) : r[k] = IF k <= Len(d) THEN d[k] ELSE b[k - Len(d)]
  BY <1>2, <1>4, ConcatCells
<1>. HIDE DEF r
<1>5. /\ r \in Seq(S) /\ Len(r) = i + 1 + (Len(s) - j + 1)
      /\ \A k \in 1..(i + 1 + (Len(s) - j + 1)) :
           r[k] = IF k <= i + 1 THEN d[k] ELSE b[k - (i + 1)]
  BY <1>0, <1>2, <1>4, <1>11
<1>12. Len(s) - j + 1 \in Nat
  BY <1>0
<1>6. ASSUME NEW k \in 1..i PROVE r[k] = s[k]
  <2>1. k \in 1..(i + 1 + (Len(s) - j + 1)) /\ k <= i + 1
    BY <1>0, <1>12
  <2>2. r[k] = d[k]
    BY <2>1, <1>5
  <2>3. QED
    BY <2>2, <1>4
<1>7. r[i + 1] = x
  <2>1. i + 1 \in 1..(i + 1 + (Len(s) - j + 1)) /\ i + 1 <= i + 1
    BY <1>0, <1>12
  <2>2. r[i + 1] = d[i + 1]
    BY <2>1, <1>5
  <2>3. QED
    BY <2>2, <1>4
<1>8. ASSUME NEW k \in 1..(Len(s) - j + 1) PROVE r[i + 1 + k] = s[j + k - 1]
  <2>. DEFINE l == i + 1 + k
  <2>1. l \in 1..(i + 1 + (Len(s) - j + 1)) /\ ~(l <= i + 1) /\ l - (i + 1) = k
    BY <1>0
  <2>. HIDE DEF l
  <2>2. r[l] = b[l - (i + 1)]
    BY <2>1, <1>5
  <2>3. QED
    BY <2>1, <2>2, <1>2 DEF l
<1>9. QED
  BY <1>5, <1>6, <1>7, <1>8 DEF a, b, c, d, r, Splice

-----------------------------------------------------------------------------
(* The layout: the first heap, steps that leave the blocks alone.          *)

\* The type of everything at the start.
LEMMA InitType == Init => TypeOK
<1>. SUFFICES ASSUME Init PROVE TypeOK
  OBVIOUS
<1>. DEFINE H == MakeHeap(0, HeapSize)
            C == Chunk(1, HeapSize - 1)
<1>1. H \in [base : Nat, size : Nat] /\ C \in Chunks
  BY HeapAssumption DEF MakeHeap, Chunk, Chunks
<1>. HIDE DEF H, C
<1>2. heaps = <<H>> /\ free = <<<<C>>>>
  BY DEF Init, H, C
<1>3. /\ heaps \in Seq([base : Nat, size : Nat]) /\ heaps # <<>> /\ DOMAIN heaps = {1}
      /\ Len(heaps) = 1
  BY <1>1, <1>2
<1>4. <<C>> \in Seq(Chunks)
  BY <1>1
<1>5. free \in Seq(Seq(Chunks)) /\ Len(free) = Len(heaps)
  BY <1>2, <1>3, <1>4
<1>6. Objects = {} /\ obj \in [Objects -> [kind : Kinds, fin : Nat, fields : Seq(Refs)]]
  BY DEF Init, Objects
<1>7. var \in [Vars -> Refs] /\ look \in Refs
  BY DEF Init, Refs
<1>8. NoRange \in Ranges /\ mstack \in Seq(Ranges)
  BY DEF Init, NoRange, Ranges
<1>9. next \in 1..(NumVars + 1)
  BY HeapAssumption DEF Init
<1>10. QED
  BY <1>3, <1>5, <1>6, <1>7, <1>8, <1>9 DEF Init, TypeOK

\* The first heap is one free chunk.
LEMMA InitLayout == Init => Layout /\ AtBlock
<1>. SUFFICES ASSUME Init PROVE Layout /\ AtBlock
  OBVIOUS
<1>0. TypeOK
  BY InitType
<1>1. /\ DOMAIN heaps = {1} /\ heaps[1].base = 0 /\ heaps[1].size = HeapSize
      /\ FirstBlock(1) = 1 /\ End(1) = HeapSize
      /\ DOMAIN free[1] = {1} /\ free[1][1].at = 1 /\ free[1][1].size = HeapSize - 1
  BY HeapAssumption DEF Init, MakeHeap, Chunk, FirstBlock, End
<1>2. Objects = {} /\ p = 1 /\ hi = 1 /\ HeapSize \in Nat /\ HeapSize >= 2
  BY HeapAssumption DEF Init, Objects
<1>3. Covered
  BY <1>1, <1>2 DEF Covered, InChunk
<1>4. HeapsApart /\ ChunksInside /\ ChunksApart
  BY <1>1, <1>2 DEF HeapsApart, ChunksInside, ChunksApart
<1>5. ObjectsInside /\ ObjectsApart /\ BlocksApart
  BY <1>2 DEF ObjectsInside, ObjectsApart, BlocksApart
<1>6. AtBlock
  BY <1>1, <1>2 DEF AtBlock, ScanInside
<1>7. QED
  BY <1>3, <1>4, <1>5, <1>6 DEF Layout

\* A step after which every block is where it was.
SameBlocks ==
  /\ heaps' = heaps /\ free' = free
  /\ DOMAIN obj' = DOMAIN obj
  /\ \A a \in Objects : obj'[a].kind = obj[a].kind

\* Such a step keeps the layout.
LEMMA SameBlocksLayout ==
  ASSUME TypeOK, Layout, SameBlocks
  PROVE  Layout' /\ \A a \in Objects : Row(a)' = Row(a)
<1>1. Objects' = Objects /\ \A a \in Objects : Row(a)' = Row(a)
  BY DEF SameBlocks, Objects, Row
<1>2. heaps' = heaps /\ free' = free
  BY DEF SameBlocks
<1>3. \A h : FirstBlock(h)' = FirstBlock(h) /\ End(h)' = End(h)
  BY <1>2 DEF FirstBlock, End
<1>4. HeapsApart' /\ ChunksInside' /\ ChunksApart'
  BY <1>2, <1>3 DEF Layout, HeapsApart, ChunksInside, ChunksApart
<1>5. ObjectsInside'
  BY <1>1, <1>2, <1>3 DEF Layout, ObjectsInside
<1>6. ObjectsApart'
  BY <1>1 DEF Layout, ObjectsApart
<1>7. BlocksApart'
  BY <1>1, <1>2 DEF Layout, BlocksApart
<1>8. \A u : InObject(u)' = InObject(u)
  BY <1>1 DEF InObject
<1>9. \A h, u : InChunk(h, u)' = InChunk(h, u)
  BY <1>2 DEF InChunk
<1>10. Covered'
  BY <1>2, <1>3, <1>8, <1>9 DEF Layout, Covered
<1>11. QED
  BY <1>1, <1>4, <1>5, <1>6, <1>7, <1>10 DEF Layout

-----------------------------------------------------------------------------
(* Allocation.                                                             *)

\* What sexp_try_alloc leaves of a free list: n units are gone from the front
\* of the chunk at i, and of nothing else.
LEMMA CarveCells ==
  ASSUME TypeOK, Layout, NEW h \in DOMAIN heaps, NEW i \in DOMAIN free[h],
         NEW n \in Nat \ {0}, free[h][i].size >= n
  PROVE  LET fl == free[h]
             r == Carve(h, i, n)
             rest == Chunk(fl[i].at + n, fl[i].size - n)
         IN  /\ r \in Seq(Chunks)
             /\ \A j \in DOMAIN r :
                  \/ r[j] = rest
                  \/ \E k \in DOMAIN fl : k # i /\ r[j] = fl[k]
             /\ \A j, k \in DOMAIN r : j < k => r[j].at + r[j].size < r[k].at
             /\ \A k \in DOMAIN fl : k # i => \E j \in DOMAIN r : r[j] = fl[k]
             /\ fl[i].size = n \/ \E j \in DOMAIN r : r[j] = rest
<1>. DEFINE fl == free[h]
            r == Carve(h, i, n)
            rest == Chunk(fl[i].at + n, fl[i].size - n)
<1>1. /\ fl \in Seq(Chunks) /\ Len(fl) \in Nat /\ DOMAIN fl = 1..Len(fl)
      /\ \A k \in DOMAIN fl : fl[k] \in Chunks /\ fl[k].at \in Nat /\ fl[k].size \in Nat \ {0}
  BY HeapFacts
<1>2. \A j, k \in DOMAIN fl : j < k => fl[j].at + fl[j].size < fl[k].at
  BY DEF Layout, ChunksApart
<1>3. i \in DOMAIN fl /\ fl[i].size >= n
  OBVIOUS
<1>4. rest.at = fl[i].at + n /\ rest.size = fl[i].size - n
  BY DEF Chunk
<1>5. r = IF fl[i].size >= n + 1 THEN [fl EXCEPT ![i] = rest] ELSE RemoveAt(fl, i)
  BY DEF Carve
<1>. HIDE DEF fl, r
<1>6. ASSUME fl[i].size >= n + 1 PROVE rest \in Chunks
  <2>1. fl[i].at + n \in Nat /\ fl[i].size - n \in Nat \ {0}
    BY <1>1, <1>3, <1>6
  <2>2. QED
    BY <2>1 DEF Chunk, Chunks
<1>. HIDE DEF rest
<1>7. CASE fl[i].size >= n + 1
  <2>1. r \in Seq(Chunks) /\ DOMAIN r = DOMAIN fl /\ \A j \in DOMAIN fl : r[j] = IF j = i THEN rest ELSE fl[j]
    BY <1>1, <1>3, <1>5, <1>6, <1>7
  <2>2. ASSUME NEW j \in DOMAIN r, NEW k \in DOMAIN r, j < k
        PROVE  r[j].at + r[j].size < r[k].at
    <3>1. /\ fl[j].at + fl[j].size < fl[k].at /\ fl[j].at \in Nat /\ fl[j].size \in Nat
          /\ fl[k].at \in Nat /\ fl[k].size \in Nat /\ j \in DOMAIN fl /\ k \in DOMAIN fl
      BY <2>1, <2>2, <1>1, <1>2
    <3>2. r[j].at + r[j].size = fl[j].at + fl[j].size
      BY <3>1, <2>1, <1>4
    <3>3. r[k].at >= fl[k].at /\ r[k].at \in Nat
      <4>1. CASE k = i
        <5>1. r[k].at = fl[k].at + n
          BY <4>1, <3>1, <2>1, <1>4
        <5>2. QED
          BY <5>1, <3>1
      <4>2. CASE k # i
        <5>1. r[k].at = fl[k].at
          BY <4>2, <3>1, <2>1
        <5>2. QED
          BY <5>1, <3>1
      <4>3. QED
        BY <4>1, <4>2
    <3>4. QED
      BY <3>1, <3>2, <3>3
  <2>3. QED
    BY <2>1, <2>2, <1>3 DEF fl, r, rest
<1>8. CASE ~(fl[i].size >= n + 1)
  <2>1. fl[i].size = n /\ r = RemoveAt(fl, i) /\ i \in 1..Len(fl)
    BY <1>1, <1>3, <1>5, <1>8
  <2>2. /\ r \in Seq(Chunks) /\ Len(r) = Len(fl) - 1
        /\ \A j \in 1..(Len(fl) - 1) : r[j] = IF j < i THEN fl[j] ELSE fl[j + 1]
    BY <2>1, <1>1, RemoveAtCells
  <2>3. DOMAIN r = 1..(Len(fl) - 1)
    BY <2>2
  <2>4. ASSUME NEW j \in DOMAIN r, NEW k \in DOMAIN r, j < k
        PROVE  r[j].at + r[j].size < r[k].at
    <3>. DEFINE jj == IF j < i THEN j ELSE j + 1
                kk == IF k < i THEN k ELSE k + 1
    <3>1. jj \in DOMAIN fl /\ kk \in DOMAIN fl /\ jj < kk /\ r[j] = fl[jj] /\ r[k] = fl[kk]
      BY <2>1, <2>2, <2>3, <2>4, <1>1
    <3>. HIDE DEF jj, kk
    <3>2. QED
      BY <3>1, <1>2
  <2>5. \A j \in DOMAIN r : \E k \in DOMAIN fl : k # i /\ r[j] = fl[k]
    <3>. TAKE j \in DOMAIN r
    <3>1. CASE j < i
      BY <3>1, <2>1, <2>2, <2>3, <1>1
    <3>2. CASE ~(j < i)
      <4>1. j + 1 \in DOMAIN fl /\ j + 1 # i /\ r[j] = fl[j + 1]
        BY <3>2, <2>1, <2>2, <2>3, <1>1
      <4>2. QED
        BY <4>1
    <3>3. QED
      BY <3>1, <3>2
  <2>6. ASSUME NEW k \in DOMAIN fl, k # i PROVE \E j \in DOMAIN r : r[j] = fl[k]
    <3>1. CASE k < i
      BY <3>1, <2>1, <2>2, <2>3, <2>6, <1>1
    <3>2. CASE ~(k < i)
      <4>1. k - 1 \in DOMAIN r /\ r[k - 1] = fl[k]
        BY <3>2, <2>1, <2>2, <2>3, <2>6, <1>1
      <4>2. QED
        BY <4>1
    <3>3. QED
      BY <3>1, <3>2
  <2>7. QED
    BY <2>1, <2>2, <2>4, <2>5, <2>6 DEF fl, r, rest
<1>9. QED
  BY <1>7, <1>8

\* Heaps do not overlap, so neither do blocks of two heaps.
LEMMA HeapsOrdered ==
  ASSUME TypeOK, Layout, NEW g \in DOMAIN heaps, NEW h \in DOMAIN heaps, g # h
  PROVE  End(g) < FirstBlock(h) \/ End(h) < FirstBlock(g)
<1>1. g < h \/ h < g
  BY DEF TypeOK
<1>2. FirstBlock(g) = heaps[g].base + 1 /\ FirstBlock(h) = heaps[h].base + 1
      /\ heaps[g].base \in Nat /\ heaps[h].base \in Nat /\ End(g) \in Nat /\ End(h) \in Nat
  BY HeapFacts
<1>3. (g < h => End(g) < heaps[h].base) /\ (h < g => End(h) < heaps[g].base)
  BY DEF Layout, HeapsApart
<1>4. QED
  BY <1>1, <1>2, <1>3

\* An object made at the front of the chunk at i of heap h keeps the layout.
LEMMA AllocLayout ==
  ASSUME TypeOK, Layout, NEW h \in DOMAIN heaps, NEW i \in DOMAIN free[h],
         NEW k \in Kinds, free[h][i].size >= Types[k].size,
         NEW N, N.kind = k, heaps' = heaps,
         free' = [free EXCEPT ![h] = Carve(h, i, Types[k].size)],
         obj' = [b \in Objects \cup {free[h][i].at} |-> IF b = free[h][i].at THEN N ELSE obj[b]]
  PROVE  Layout' /\ free[h][i].at \notin Objects /\ \A b \in Objects : Row(b)' = Row(b)
<1>. DEFINE n == Types[k].size
            fl == free[h]
            r == Carve(h, i, n)
            rest == Chunk(fl[i].at + n, fl[i].size - n)
            E(c) == c.at + c.size
<1>1. /\ fl \in Seq(Chunks)
      /\ \A j \in DOMAIN fl : fl[j] \in Chunks /\ fl[j].at \in Nat /\ fl[j].size \in Nat \ {0}
  BY HeapFacts
<1>24. n \in Nat \ {0} /\ fl[i].size >= n
  BY TypeFacts
<1>3. /\ r \in Seq(Chunks)
      /\ \A j \in DOMAIN r : r[j] = rest \/ \E l \in DOMAIN fl : l # i /\ r[j] = fl[l]
      /\ \A j, l \in DOMAIN r : j < l => E(r[j]) < r[l].at
      /\ \A l \in DOMAIN fl : l # i => \E j \in DOMAIN r : r[j] = fl[l]
      /\ fl[i].size = n \/ \E j \in DOMAIN r : r[j] = rest
  BY <1>24, CarveCells
<1>0. PICK a : a = free[h][i].at
  OBVIOUS
<1>2. n \in Nat \ {0} /\ fl[i].size >= n /\ a \in Nat /\ fl[i].size \in Nat \ {0}
  BY <1>0, <1>1, <1>24
<1>4. rest.at = a + n /\ rest.size = fl[i].size - n
  BY <1>0 DEF Chunk
<1>5. \A j, l \in DOMAIN fl : j < l => E(fl[j]) < fl[l].at
  BY DEF Layout, ChunksApart
<1>6. \A j \in DOMAIN fl : FirstBlock(h) <= fl[j].at /\ E(fl[j]) <= End(h)
  BY DEF Layout, ChunksInside
<1>7. FirstBlock(h) \in Nat /\ End(h) \in Nat
  BY HeapFacts
<1>25. a + n <= E(fl[i]) /\ FirstBlock(h) <= a /\ E(fl[i]) <= End(h) /\ E(fl[i]) \in Nat
  <2>1. fl[i].at = a /\ i \in DOMAIN fl
    BY <1>0
  <2>2. FirstBlock(h) <= a /\ E(fl[i]) <= End(h)
    BY <2>1, <1>6
  <2>3. a + n <= a + fl[i].size /\ a + fl[i].size \in Nat
    BY <1>2
  <2>4. QED
    BY <2>1, <2>2, <2>3
<1>8. h \in DOMAIN free /\ free'[h] = r /\ \A g \in DOMAIN heaps : g # h => free'[g] = free[g]
  <2>1. h \in DOMAIN free
    BY HeapFacts
  <2>2. QED
    BY <2>1, HeapFacts
<1>9. Objects' = Objects \cup {a} /\ obj'[a] = N /\ \A b \in Objects : b # a => obj'[b] = obj[b]
  BY <1>0 DEF Objects
<1>10. \A b \in Objects : b + Row(b).size <= a \/ E(fl[i]) <= b
  BY <1>0 DEF Layout, BlocksApart
<1>11. \A b \in Objects : b \in Nat /\ Row(b).size \in Nat \ {0}
  BY ObjectFacts
<1>12. a \notin Objects
  BY <1>0, <1>2, <1>10, <1>11
<1>13. Row(a)' = Types[k] /\ \A b \in Objects : Row(b)' = Row(b)
  BY <1>9, <1>12 DEF Row
<1>14. \A g : FirstBlock(g)' = FirstBlock(g) /\ End(g)' = End(g)
  BY DEF FirstBlock, End
<1>. HIDE DEF n, fl, r, rest
<1>15. ASSUME NEW j \in DOMAIN r
       PROVE  \E l \in DOMAIN fl : /\ fl[l].at <= r[j].at /\ E(r[j]) = E(fl[l])
                                   /\ a + n <= r[j].at \/ E(r[j]) <= a
                                   /\ r[j].at \in Nat /\ r[j].size \in Nat
  <2>1. CASE r[j] = rest
    <3>1. i \in DOMAIN fl
      BY DEF fl
    <3>2. fl[i].at = a
      BY <1>0 DEF fl
    <3>3. QED
      BY <3>1, <3>2, <2>1, <1>2, <1>4
  <2>2. CASE \E l \in DOMAIN fl : l # i /\ r[j] = fl[l]
    <3>1. PICK l \in DOMAIN fl : l # i /\ r[j] = fl[l]
      BY <2>2
    <3>2. l \in Nat /\ i \in Nat /\ i \in DOMAIN fl /\ fl[i].at = a
      BY <1>0, <1>1 DEF fl
    <3>3. E(fl[l]) < a \/ E(fl[i]) < fl[l].at
      BY <3>1, <3>2, <1>5
    <3>4. fl[l].at \in Nat /\ fl[l].size \in Nat
      BY <1>1
    <3>5. QED
      BY <3>1, <3>2, <3>3, <3>4, <1>2
  <2>3. QED
    BY <2>1, <2>2, <1>3
<1>16. HeapsApart'
  BY <1>14 DEF Layout, HeapsApart
<1>17. ChunksInside'
  <2>. SUFFICES ASSUME NEW g \in DOMAIN heaps, NEW j \in DOMAIN free'[g]
                PROVE  FirstBlock(g) <= free'[g][j].at /\ E(free'[g][j]) <= End(g)
    BY <1>14 DEF ChunksInside
  <2>1. CASE g # h
    BY <2>1, <1>8 DEF Layout, ChunksInside
  <2>2. CASE g = h
    BY <2>2, <1>1, <1>6, <1>7, <1>8, <1>15
  <2>3. QED
    BY <2>1, <2>2
<1>18. ChunksApart'
  BY <1>3, <1>8 DEF Layout, ChunksApart
<1>19. ObjectsInside'
  <2>. SUFFICES ASSUME NEW b \in Objects \cup {a}
                PROVE  \E g \in DOMAIN heaps : FirstBlock(g) <= b /\ b + Row(b)'.size <= End(g)
    BY <1>9, <1>14 DEF ObjectsInside
  <2>1. CASE b = a
    <3>2. FirstBlock(h) <= a /\ a + n <= End(h)
      BY <1>25, <1>2, <1>7
    <3>3. QED
      BY <3>2, <2>1, <1>13 DEF n
  <2>2. CASE b # a
    BY <2>2, <1>13 DEF Layout, ObjectsInside
  <2>3. QED
    BY <2>1, <2>2
<1>20. ObjectsApart'
  <2>. SUFFICES ASSUME NEW b \in Objects \cup {a}, NEW c \in Objects \cup {a}, b < c
                PROVE  b + Row(b)'.size <= c
    BY <1>9 DEF ObjectsApart
  <2>1. CASE b # a /\ c # a
    BY <2>1, <1>13 DEF Layout, ObjectsApart
  <2>2. CASE b = a /\ c # a
    <3>1. c + Row(c).size <= a \/ E(fl[i]) <= c
      BY <2>2, <1>10
    <3>2. a + n <= E(fl[i]) /\ E(fl[i]) \in Nat
      BY <1>25
    <3>3. c \in Nat /\ Row(c).size \in Nat \ {0}
      BY <2>2, <1>11
    <3>4. a + n <= c
      BY <3>1, <3>2, <3>3, <2>2, <1>2
    <3>5. QED
      BY <3>4, <2>2, <1>13 DEF n
  <2>3. CASE b # a /\ c = a
    <3>1. b + Row(b).size <= a \/ E(fl[i]) <= b
      BY <2>3, <1>10
    <3>2. a + n <= E(fl[i]) /\ E(fl[i]) \in Nat
      BY <1>25
    <3>4. b \in Nat /\ a \in Nat /\ n \in Nat /\ b < a
      BY <2>3, <1>2, <1>11
    <3>5. b + Row(b).size <= a
      BY <3>1, <3>2, <3>4
    <3>6. QED
      BY <3>5, <2>3, <1>13
  <2>4. QED
    BY <2>1, <2>2, <2>3, <1>2
<1>21. BlocksApart'
  <2>. SUFFICES ASSUME NEW b \in Objects \cup {a}, NEW g \in DOMAIN heaps, NEW j \in DOMAIN free'[g]
                PROVE  b + Row(b)'.size <= free'[g][j].at \/ E(free'[g][j]) <= b
    BY <1>9 DEF BlocksApart
  <2>1. CASE b = a /\ g = h
    BY <2>1, <1>8, <1>13, <1>15 DEF n
  <2>2. CASE b = a /\ g # h
    <3>1. free'[g][j] = free[g][j] /\ j \in DOMAIN free[g]
      BY <2>2, <1>8
    <3>2. /\ FirstBlock(g) <= free[g][j].at /\ E(free[g][j]) <= End(g)
          /\ FirstBlock(h) <= a /\ a + n <= End(h)
      <4>1. FirstBlock(g) <= free[g][j].at /\ E(free[g][j]) <= End(g)
        BY <3>1 DEF Layout, ChunksInside
      <4>3. FirstBlock(h) <= a /\ a + n <= End(h)
        BY <1>25, <1>2, <1>7
      <4>4. QED
        BY <4>1, <4>3
    <3>3. End(g) < FirstBlock(h) \/ End(h) < FirstBlock(g)
      BY <2>2, HeapsOrdered
    <3>4. free[g][j].at \in Nat /\ free[g][j].size \in Nat /\ FirstBlock(g) \in Nat /\ End(g) \in Nat
      BY <3>1, HeapFacts
    <3>5. a + n <= free[g][j].at \/ E(free[g][j]) <= a
      BY <3>2, <3>3, <3>4, <1>2, <1>7
    <3>6. QED
      BY <3>1, <3>5, <2>2, <1>13 DEF n
  <2>3. CASE b # a /\ g # h
    BY <2>3, <1>8, <1>13 DEF Layout, BlocksApart
  <2>4. CASE b # a /\ g = h
    <3>1. PICK l \in DOMAIN fl : /\ fl[l].at <= r[j].at /\ E(r[j]) = E(fl[l])
                                 /\ r[j].at \in Nat /\ r[j].size \in Nat
      BY <2>4, <1>8, <1>15
    <3>2. b + Row(b).size <= fl[l].at \/ E(fl[l]) <= b
      BY <2>4 DEF Layout, BlocksApart, fl
    <3>3. b \in Nat /\ Row(b).size \in Nat /\ fl[l].at \in Nat /\ fl[l].size \in Nat
      BY <2>4, <1>1, <1>11
    <3>4. QED
      BY <3>1, <3>2, <3>3, <2>4, <1>8, <1>13
  <2>5. QED
    BY <2>1, <2>2, <2>3, <2>4
<1>22. Covered'
  <2>. SUFFICES ASSUME NEW g \in DOMAIN heaps, NEW u \in FirstBlock(g)..(End(g) - 1)
                PROVE  InObject(u)' \/ InChunk(g, u)'
    BY <1>14 DEF Covered
  <2>0. u \in Int
    BY HeapFacts
  <2>1. CASE InObject(u)
    BY <2>1, <1>9, <1>13 DEF InObject
  <2>2. CASE InChunk(g, u) /\ g # h
    BY <2>2, <1>8 DEF InChunk
  <2>3. CASE InChunk(g, u) /\ g = h
    <3>1. PICK l \in DOMAIN fl : fl[l].at <= u /\ u < E(fl[l])
      BY <2>3 DEF InChunk, fl
    <3>2. CASE l # i
      BY <3>1, <3>2, <2>3, <1>3, <1>8 DEF InChunk
    <3>3. CASE l = i /\ u < a + n
      <4>1. a <= u /\ u < a + Row(a)'.size
        BY <1>0, <3>1, <3>3, <1>13 DEF n, fl
      <4>2. QED
        BY <4>1, <1>9 DEF InObject
    <3>4. CASE l = i /\ ~(u < a + n)
      <4>1. a <= u /\ u < a + fl[i].size
        BY <1>0, <3>1, <3>4 DEF fl
      <4>2. fl[i].size # n
        BY <4>1, <3>4
      <4>3. rest.at <= u /\ u < rest.at + rest.size
        BY <4>1, <3>4, <2>0, <1>2, <1>4
      <4>4. QED
        BY <4>2, <4>3, <2>3, <1>3, <1>8 DEF InChunk
    <3>5. QED
      BY <3>2, <3>3, <3>4
  <2>4. QED
    BY <2>1, <2>2, <2>3 DEF Layout, Covered
<1>23. QED
  BY <1>0, <1>12, <1>13, <1>16, <1>17, <1>18, <1>19, <1>20, <1>21, <1>22 DEF Layout

-----------------------------------------------------------------------------
(* The sweep frees a block.                                                *)

\* Before counts the chunks whose address is below a: they come first.
LEMMA BeforeCounts ==
  ASSUME TypeOK, Layout, NEW h \in DOMAIN heaps, NEW a \in Nat
  PROVE  /\ Before(h, a) \in 0..Len(free[h])
         /\ \A i \in DOMAIN free[h] : free[h][i].at < a <=> i <= Before(h, a)
<1>. DEFINE fl == free[h]
            S == {i \in DOMAIN fl : \A j \in 1..i : fl[j].at < a}
            T == {i \in 1..(Len(fl) + 1) : i \notin S}
            t == Min(T)
<1>1. /\ Len(fl) \in Nat /\ DOMAIN fl = 1..Len(fl)
      /\ \A i \in DOMAIN fl : fl[i].at \in Nat /\ fl[i].size \in Nat
  BY HeapFacts
<1>2. \A i, j \in DOMAIN fl : i < j => fl[i].at + fl[i].size < fl[j].at
  BY DEF Layout, ChunksApart
<1>. HIDE DEF fl
<1>3. \A i \in DOMAIN fl : i \in S <=> fl[i].at < a
  <2>. TAKE i \in DOMAIN fl
  <2>1. ASSUME fl[i].at < a, NEW j \in 1..i PROVE fl[j].at < a
    <3>1. j \in DOMAIN fl /\ i \in Nat /\ j \in Nat /\ j <= i
      BY <1>1
    <3>2. CASE j = i
      BY <3>2, <2>1
    <3>3. CASE j < i
      BY <3>1, <3>3, <2>1, <1>1, <1>2
    <3>4. QED
      BY <3>1, <3>2, <3>3
  <2>2. i \in 1..i
    BY <1>1
  <2>3. QED
    BY <2>1, <2>2
<1>4. S \subseteq 1..Len(fl)
  BY <1>1
<1>5. T \subseteq Nat /\ Len(fl) + 1 \in T
  BY <1>1, <1>4
<1>6. t \in T /\ \A i \in T : t <= i
  BY <1>5, MinInSet
<1>10. Before(h, a) = Cardinality(S)
  BY DEF Before, fl
<1>. HIDE DEF t
<1>7. t \in 1..(Len(fl) + 1) /\ t \notin S /\ t \in Nat
  BY <1>1, <1>6
<1>16. \A i \in 1..(Len(fl) + 1) : i < t => i \in S
  BY <1>1, <1>6, <1>7
<1>17. \A i \in S : i \in 1..Len(fl) /\ \A j \in 1..i : fl[j].at < a
  BY <1>1
<1>. HIDE DEF S, T
<1>8. ASSUME NEW i \in DOMAIN fl PROVE i \in S <=> i < t
  <2>1. i < t => i \in S
    BY <1>1, <1>16
  <2>2. ASSUME i \in S, ~(i < t) PROVE FALSE
    <3>1. t \in 1..i /\ t \in DOMAIN fl
      BY <2>2, <1>1, <1>7
    <3>2. fl[t].at < a
      BY <3>1, <2>2, <1>17
    <3>3. QED
      BY <3>1, <3>2, <1>3, <1>7
  <2>3. QED
    BY <2>1, <2>2
<1>9. S = 1..(t - 1)
  <2>1. ASSUME NEW i \in S PROVE i \in 1..(t - 1)
    <3>1. i \in 1..Len(fl) /\ i \in Nat
      BY <1>1, <1>17
    <3>2. i < t
      BY <3>1, <1>1, <1>8
    <3>3. QED
      BY <3>1, <3>2, <1>7
  <2>2. ASSUME NEW i \in 1..(t - 1) PROVE i \in S
    BY <1>1, <1>7, <1>16
  <2>3. QED
    BY <2>1, <2>2
<1>11. Cardinality(1..(t - 1)) = t - 1
  <2>1. 1 \in Int /\ t - 1 \in Int /\ ~(1 > t - 1) => Cardinality(1..(t - 1)) = t - 1 - 1 + 1
    BY FS_Interval
  <2>2. 1 > t - 1 => 1..(t - 1) = {}
    BY <1>7
  <2>3. Cardinality({}) = 0
    BY FS_EmptySet
  <2>4. QED
    BY <2>1, <2>2, <2>3, <1>1, <1>7
<1>12. Before(h, a) = t - 1
  BY <1>9, <1>10, <1>11
<1>13. Before(h, a) \in 0..Len(fl)
  BY <1>1, <1>7, <1>12
<1>14. \A i \in DOMAIN fl : fl[i].at < a <=> i <= Before(h, a)
  BY <1>1, <1>3, <1>7, <1>8, <1>12
<1>15. QED
  BY <1>13, <1>14 DEF fl

\* Chunks replaced by one that holds them keep a free list in order.
LEMMA SpliceOrder ==
  ASSUME NEW fl \in Seq(Chunks), NEW c \in Chunks,
         NEW lo \in 0..Len(fl), NEW up \in 1..(Len(fl) + 1), lo < up,
         \A k, l \in DOMAIN fl : k < l => fl[k].at + fl[k].size < fl[l].at,
         \A k \in DOMAIN fl : k <= lo => fl[k].at + fl[k].size < c.at,
         \A k \in DOMAIN fl : k >= up => c.at + c.size < fl[k].at,
         \A k \in DOMAIN fl : lo < k /\ k < up =>
           c.at <= fl[k].at /\ fl[k].at + fl[k].size <= c.at + c.size
  PROVE  LET r == Splice(fl, lo, c, up)
         IN  /\ r \in Seq(Chunks)
             /\ \A j \in DOMAIN r : r[j] = c \/ \E k \in DOMAIN fl : r[j] = fl[k]
             /\ \A j, k \in DOMAIN r : j < k => r[j].at + r[j].size < r[k].at
             /\ \E j \in DOMAIN r : r[j] = c
             /\ \A k \in DOMAIN fl :
                  \/ \E j \in DOMAIN r : r[j] = fl[k]
                  \/ c.at <= fl[k].at /\ fl[k].at + fl[k].size <= c.at + c.size
<1>. DEFINE r == Splice(fl, lo, c, up)
<1>2. /\ Len(fl) \in Nat /\ DOMAIN fl = 1..Len(fl)
      /\ \A k \in DOMAIN fl : fl[k] \in Chunks
  OBVIOUS
<1>15. /\ r \in Seq(Chunks) /\ Len(r) = lo + 1 + (Len(fl) - up + 1)
       /\ \A k \in 1..lo : r[k] = fl[k]
       /\ r[lo + 1] = c
       /\ \A k \in 1..(Len(fl) - up + 1) : r[lo + 1 + k] = fl[up + k - 1]
  <2>1. r \in Seq(Chunks) /\ Len(r) = lo + 1 + (Len(fl) - up + 1) /\ r[lo + 1] = c
    BY SpliceCells
  <2>2. \A k \in 1..lo : r[k] = fl[k]
    BY SpliceCells
  <2>3. \A k \in 1..(Len(fl) - up + 1) : r[lo + 1 + k] = fl[up + k - 1]
    BY SpliceCells
  <2>4. QED
    BY <2>1, <2>2, <2>3
<1>. HIDE DEF r
<1>16. /\ DOMAIN r = 1..(lo + 1 + (Len(fl) - up + 1)) /\ lo + 1 \in DOMAIN r
       /\ lo \in Nat /\ up \in Nat /\ up >= 1 /\ Len(fl) \in Nat
  BY <1>2, <1>15
<1>17. ASSUME NEW k \in DOMAIN r
       PROVE  \/ k \in DOMAIN fl /\ k <= lo /\ r[k] = fl[k]
              \/ k = lo + 1 /\ r[k] = c
              \/ \E l \in DOMAIN fl : l >= up /\ k > lo + 1 /\ l = k + up - lo - 2 /\ r[k] = fl[l]
  <2>1. CASE k <= lo
    BY <2>1, <1>2, <1>15, <1>16
  <2>2. CASE k = lo + 1
    BY <2>2, <1>15
  <2>3. CASE k > lo + 1
    <3>. DEFINE m == k - (lo + 1)
                l == up + m - 1
    <3>0. k \in Nat /\ k <= lo + 1 + (Len(fl) - up + 1)
      BY <1>16
    <3>4. Len(fl) \in Nat /\ DOMAIN fl = 1..Len(fl) /\ lo \in Nat /\ up \in Nat /\ up >= 1
      BY <1>2, <1>16
    <3>5. m \in 1..(Len(fl) - up + 1) /\ k = lo + 1 + m
      BY <3>0, <3>4, <2>3
    <3>6. l >= up /\ l = k + up - lo - 2 /\ l \in 1..Len(fl)
      <4>1. m \in Nat /\ m >= 1 /\ m <= Len(fl) - up + 1 /\ m = k - (lo + 1)
        BY <3>0, <3>4, <2>3
      <4>. HIDE DEF m
      <4>2. l >= up /\ l \in 1..Len(fl)
        BY <4>1, <3>4
      <4>3. l = k + up - lo - 2
        BY <4>1, <3>0, <3>4, SMTT(30)
      <4>4. QED
        BY <4>2, <4>3
    <3>1. m \in 1..(Len(fl) - up + 1) /\ k = lo + 1 + m /\ l \in DOMAIN fl /\ l >= up /\ l = k + up - lo - 2
      BY <3>4, <3>5, <3>6
    <3>2. r[k] = fl[l]
      BY <3>1, <1>15
    <3>. HIDE DEF l
    <3>3. QED
      BY <3>1, <3>2, <2>3
  <2>4. QED
    BY <2>1, <2>2, <2>3, <1>16
<1>18. ASSUME NEW k \in DOMAIN r, NEW l \in DOMAIN r, k < l
       PROVE  r[k].at + r[k].size < r[l].at
  <2>0. k \in Nat /\ l \in Nat
    BY <1>16
  <2>1. CASE k <= lo /\ l <= lo
    BY <2>0, <2>1, <1>16, <1>17, <1>18
  <2>2. CASE k <= lo /\ l = lo + 1
    BY <2>0, <2>2, <1>16, <1>17
  <2>3. CASE k <= lo /\ l > lo + 1
    <3>1. k \in DOMAIN fl /\ r[k] = fl[k]
      <4>1. ~(k = lo + 1) /\ ~(k > lo + 1)
        BY <2>0, <2>3, <1>16
      <4>2. QED
        BY <4>1, <1>17
    <3>2. PICK m \in DOMAIN fl : m >= up /\ r[l] = fl[m]
      BY <2>0, <2>3, <1>16, <1>17
    <3>3. k < m
      BY <3>2, <2>0, <2>3, <1>2, <1>16
    <3>4. QED
      BY <3>1, <3>2, <3>3
  <2>4. CASE k = lo + 1 /\ l > lo + 1
    <3>1. r[k] = c
      BY <2>4, <1>15
    <3>2. PICK m \in DOMAIN fl : m >= up /\ r[l] = fl[m]
      BY <2>0, <2>4, <1>16, <1>17
    <3>3. QED
      BY <3>1, <3>2
  <2>5. CASE k > lo + 1
    <3>1. PICK m \in DOMAIN fl : m = k + up - lo - 2 /\ r[k] = fl[m]
      BY <2>0, <2>5, <1>16, <1>17
    <3>0. l > lo + 1
      BY <2>0, <2>5, <1>16, <1>18
    <3>2. PICK o \in DOMAIN fl : o = l + up - lo - 2 /\ r[l] = fl[o]
      BY <3>0, <1>17
    <3>3. m < o
      BY <3>1, <3>2, <2>0, <1>16, <1>18
    <3>4. QED
      BY <3>1, <3>2, <3>3
  <2>6. QED
    BY <2>0, <2>1, <2>2, <2>3, <2>4, <2>5, <1>16, <1>18
<1>19. ASSUME NEW k \in DOMAIN fl
       PROVE  \/ \E l \in DOMAIN r : r[l] = fl[k]
              \/ c.at <= fl[k].at /\ fl[k].at + fl[k].size <= c.at + c.size
  <2>0. k \in Nat /\ k \in 1..Len(fl)
    BY <1>2
  <2>1. CASE k <= lo
    BY <2>0, <2>1, <1>15, <1>16
  <2>2. CASE lo < k /\ k < up
    BY <2>2
  <2>3. CASE k >= up
    <3>. DEFINE m == k - up + 1
                l == lo + 1 + m
    <3>1. m \in 1..(Len(fl) - up + 1) /\ up + m - 1 = k /\ l \in DOMAIN r
      BY <2>0, <2>3, <1>16
    <3>2. r[l] = fl[k]
      BY <3>1, <1>15
    <3>. HIDE DEF l
    <3>3. QED
      BY <3>1, <3>2
  <2>4. QED
    BY <2>0, <2>1, <2>2, <2>3, <1>16
<1>20. \A k \in DOMAIN r : r[k] = c \/ \E l \in DOMAIN fl : r[k] = fl[l]
  BY <1>17
<1>21. QED
  BY <1>15, <1>16, <1>18, <1>19, <1>20 DEF r

\* b is what becomes of the free list fl when the n units at a are freed: one
\* chunk holds them and the chunks that touch them, the others stay.
FreedInto(fl, a, n, b) ==
  LET r == b.list
      c == b.chunk
  IN  /\ r \in Seq(Chunks) /\ c \in Chunks /\ b.skip = c.at + c.size
      /\ \A j \in DOMAIN r : r[j] = c \/ \E k \in DOMAIN fl : r[j] = fl[k]
      /\ \A j, k \in DOMAIN r : j < k => r[j].at + r[j].size < r[k].at
      /\ \E j \in DOMAIN r : r[j] = c
      /\ \A k \in DOMAIN fl :
           \/ \E j \in DOMAIN r : r[j] = fl[k]
           \/ c.at <= fl[k].at /\ fl[k].at + fl[k].size <= c.at + c.size
      /\ c.at = a \/ \E k \in DOMAIN fl : c.at = fl[k].at /\ fl[k].at + fl[k].size = a
      /\ \/ c.at + c.size = a + n
         \/ \E k \in DOMAIN fl : fl[k].at = a + n /\ fl[k].at + fl[k].size = c.at + c.size

\* That is what sexp_sweep does to a free list.
LEMMA FreeBlockCells ==
  ASSUME TypeOK, Layout, NEW h \in DOMAIN heaps, NEW a \in Nat, NEW n \in Nat \ {0},
         \A i \in DOMAIN free[h] :
           a + n <= free[h][i].at \/ free[h][i].at + free[h][i].size <= a
  PROVE  FreedInto(free[h], a, n, FreeBlock(h, a, n))
<1>. DEFINE fl == free[h]
            q == Before(h, a)
            mergeQ == q > 0 /\ fl[q].at + fl[q].size = a
            mergeR == q < Len(fl) /\ fl[q + 1].at = a + n
            from == IF mergeQ THEN fl[q].at ELSE a
            to == IF mergeR THEN a + n + fl[q + 1].size ELSE a + n
            c == Chunk(from, to - from)
            lo == IF mergeQ THEN q - 1 ELSE q
            up == IF mergeR THEN q + 2 ELSE q + 1
            r == Splice(fl, lo, c, up)
            b == FreeBlock(h, a, n)
<1>1. b.list = r /\ b.chunk = c /\ b.skip = to
  BY DEF FreeBlock, Splice
<1>2. /\ fl \in Seq(Chunks) /\ Len(fl) \in Nat /\ DOMAIN fl = 1..Len(fl)
      /\ \A k \in DOMAIN fl : fl[k] \in Chunks /\ fl[k].at \in Nat /\ fl[k].size \in Nat \ {0}
  BY HeapFacts
<1>3. \A k, l \in DOMAIN fl : k < l => fl[k].at + fl[k].size < fl[l].at
  BY DEF Layout, ChunksApart
<1>4. q \in 0..Len(fl) /\ \A k \in DOMAIN fl : fl[k].at < a <=> k <= q
  BY BeforeCounts
<1>5. \A k \in DOMAIN fl : a + n <= fl[k].at \/ fl[k].at + fl[k].size <= a
  OBVIOUS
<1>. HIDE DEF fl, q, b
<1>6. \A k \in DOMAIN fl : IF k <= q THEN fl[k].at + fl[k].size <= a ELSE a + n <= fl[k].at
  BY <1>2, <1>4, <1>5
<1>7. /\ q \in Nat /\ (mergeQ => q \in DOMAIN fl) /\ (mergeR => q + 1 \in DOMAIN fl)
      /\ lo \in 0..Len(fl) /\ up \in 1..(Len(fl) + 1) /\ lo < up
  BY <1>2, <1>4
<1>8. from \in Nat /\ from <= a /\ to \in Nat /\ a + n <= to
  <2>1. from \in Nat /\ from <= a
    <3>1. CASE mergeQ
      <4>1. fl[q].at \in Nat /\ fl[q].size \in Nat /\ fl[q].at + fl[q].size = a
        BY <3>1, <1>2, <1>7
      <4>2. QED
        BY <3>1, <4>1
    <3>2. CASE ~mergeQ
      BY <3>2
    <3>3. QED
      BY <3>1, <3>2
  <2>2. to \in Nat /\ a + n <= to
    <3>1. CASE mergeR
      <4>1. fl[q + 1].size \in Nat
        BY <3>1, <1>2, <1>7
      <4>2. QED
        BY <3>1, <4>1
    <3>2. CASE ~mergeR
      BY <3>2
    <3>3. QED
      BY <3>1, <3>2
  <2>3. QED
    BY <2>1, <2>2
<1>9. c \in Chunks /\ c.at = from /\ c.size = to - from /\ c.at + c.size = to
  <2>1. to - from \in Nat \ {0}
    BY <1>8
  <2>. HIDE DEF from, to
  <2>2. QED
    BY <2>1, <1>8 DEF Chunk, Chunks
<1>10. from = a \/ \E k \in DOMAIN fl : from = fl[k].at /\ fl[k].at + fl[k].size = a
  BY <1>7
<1>11. to = a + n \/ \E k \in DOMAIN fl : fl[k].at = a + n /\ fl[k].at + fl[k].size = to
  BY <1>7
<1>12. ASSUME NEW k \in DOMAIN fl, k <= lo PROVE fl[k].at + fl[k].size < from
  <2>0. k \in Nat /\ fl[k].at \in Nat /\ fl[k].size \in Nat
    BY <1>2
  <2>1. CASE mergeQ
    <3>1. q \in DOMAIN fl /\ from = fl[q].at /\ k < q
      BY <2>0, <2>1, <1>7, <1>12
    <3>2. QED
      BY <3>1, <1>3
  <2>2. CASE ~mergeQ /\ k = q
    BY <2>0, <2>2, <1>2, <1>6
  <2>3. CASE ~mergeQ /\ k < q
    <3>1. q \in DOMAIN fl /\ fl[q].at < a /\ fl[q].at \in Nat
      BY <2>0, <2>3, <1>2, <1>4
    <3>2. QED
      BY <3>1, <2>0, <2>3, <1>3
  <2>4. QED
    BY <2>0, <2>1, <2>2, <2>3, <1>7, <1>12
<1>13. ASSUME NEW k \in DOMAIN fl, k >= up PROVE to < fl[k].at
  <2>0. k \in Nat /\ fl[k].at \in Nat /\ fl[k].size \in Nat
    BY <1>2
  <2>1. CASE mergeR
    <3>1. /\ q + 1 \in DOMAIN fl /\ fl[q + 1].at = a + n /\ fl[q + 1].size \in Nat
          /\ to = a + n + fl[q + 1].size /\ q + 1 < k
      BY <2>0, <2>1, <1>2, <1>7, <1>13
    <3>2. fl[q + 1].at + fl[q + 1].size < fl[k].at
      BY <3>1, <1>3
    <3>3. QED
      BY <3>1, <3>2
  <2>2. CASE ~mergeR /\ k = q + 1
    <3>1. k <= Len(fl) /\ fl[k].at # a + n /\ to = a + n
      BY <2>0, <2>2, <1>2, <1>7
    <3>2. a + n <= fl[k].at
      BY <2>0, <2>2, <1>6, <1>7
    <3>3. QED
      BY <3>1, <3>2, <2>0
  <2>3. CASE ~mergeR /\ k > q + 1
    <3>1. q + 1 \in DOMAIN fl /\ a + n <= fl[q + 1].at /\ fl[q + 1].at \in Nat /\ fl[q + 1].size \in Nat
      BY <2>0, <2>3, <1>2, <1>6, <1>7
    <3>2. fl[q + 1].at + fl[q + 1].size < fl[k].at
      BY <3>1, <2>0, <2>3, <1>3, <1>7
    <3>3. QED
      BY <3>1, <3>2, <2>0, <2>3
  <2>4. QED
    BY <2>0, <2>1, <2>2, <2>3, <1>7, <1>13
<1>14. ASSUME NEW k \in DOMAIN fl, lo < k, k < up
       PROVE  from <= fl[k].at /\ fl[k].at + fl[k].size <= to
  <2>0. k \in Nat /\ q \in Nat
    BY <1>2, <1>7
  <2>1. k = q \/ k = q + 1
    BY <2>0, <1>14
  <2>2. (k = q /\ mergeQ) \/ (k = q + 1 /\ mergeR)
    BY <2>0, <2>1, <1>14
  <2>3. CASE k = q /\ mergeQ
    BY <2>3, <1>2, <1>8
  <2>4. CASE k = q + 1 /\ mergeR
    BY <2>4, <1>2, <1>8
  <2>5. QED
    BY <2>2, <2>3, <2>4
<1>. HIDE DEF mergeQ, mergeR, from, to, c, lo, up
<1>15. /\ \A k \in DOMAIN fl : k <= lo => fl[k].at + fl[k].size < c.at
       /\ \A k \in DOMAIN fl : k >= up => c.at + c.size < fl[k].at
       /\ \A k \in DOMAIN fl : lo < k /\ k < up =>
            c.at <= fl[k].at /\ fl[k].at + fl[k].size <= c.at + c.size
  BY <1>9, <1>12, <1>13, <1>14
<1>16. /\ r \in Seq(Chunks)
       /\ \A k \in DOMAIN r : r[k] = c \/ \E l \in DOMAIN fl : r[k] = fl[l]
       /\ \A k, l \in DOMAIN r : k < l => r[k].at + r[k].size < r[l].at
       /\ \E k \in DOMAIN r : r[k] = c
       /\ \A k \in DOMAIN fl :
            \/ \E l \in DOMAIN r : r[l] = fl[k]
            \/ c.at <= fl[k].at /\ fl[k].at + fl[k].size <= c.at + c.size
  <2>1. fl \in Seq(Chunks) /\ c \in Chunks /\ lo \in 0..Len(fl) /\ up \in 1..(Len(fl) + 1) /\ lo < up
    BY <1>2, <1>7, <1>9
  <2>2. QED
    BY <2>1, <1>3, <1>15, SpliceOrder
<1>17. QED
  BY <1>1, <1>9, <1>10, <1>11, <1>16 DEF fl, b, FreedInto

\* Freeing the object at x, which lies in heap h, keeps the layout, and the
\* sweep goes on behind the chunk that x is now part of: no object is skipped.
LEMMA FreeLayout ==
  ASSUME TypeOK, Layout, NEW h \in DOMAIN heaps, NEW x \in Objects,
         FirstBlock(h) <= x, x + Row(x).size <= End(h), heaps' = heaps,
         free' = [free EXCEPT ![h] = FreeBlock(h, x, Row(x).size).list],
         obj' = [b \in Objects \ {x} |-> obj[b]]
  PROVE  /\ Layout' /\ \A b \in Objects \ {x} : Row(b)' = Row(b)
         /\ FreeBlock(h, x, Row(x).size).list \in Seq(Chunks)
         /\ FreeBlock(h, x, Row(x).size).chunk.size \in Nat
         /\ FreeBlock(h, x, Row(x).size).skip \in Nat
         /\ x + Row(x).size <= FreeBlock(h, x, Row(x).size).skip
         /\ FreeBlock(h, x, Row(x).size).skip <= End(h)
         /\ \A b \in Objects \ {x} :
              b + Row(b).size <= x \/ FreeBlock(h, x, Row(x).size).skip <= b
<1>. DEFINE fl == free[h]
            E(c) == c.at + c.size
<1>0. PICK n : n = Row(x).size
  OBVIOUS
<1>1. x \in Nat /\ n \in Nat \ {0} /\ \A b \in Objects : b \in Nat /\ Row(b).size \in Nat \ {0}
  BY <1>0, ObjectFacts
<1>2. \A i \in DOMAIN fl : x + n <= fl[i].at \/ E(fl[i]) <= x
  BY <1>0 DEF Layout, BlocksApart
<1>. DEFINE blk == FreeBlock(h, x, n)
            r == blk.list
            c == blk.chunk
<1>3. /\ r \in Seq(Chunks) /\ c \in Chunks /\ blk.skip = E(c)
      /\ \A j \in DOMAIN r : r[j] = c \/ \E k \in DOMAIN fl : r[j] = fl[k]
      /\ \A j, k \in DOMAIN r : j < k => E(r[j]) < r[k].at
      /\ \E j \in DOMAIN r : r[j] = c
      /\ \A k \in DOMAIN fl :
           (\E j \in DOMAIN r : r[j] = fl[k]) \/ (c.at <= fl[k].at /\ E(fl[k]) <= E(c))
      /\ c.at = x \/ \E k \in DOMAIN fl : c.at = fl[k].at /\ E(fl[k]) = x
      /\ E(c) = x + n \/ \E k \in DOMAIN fl : fl[k].at = x + n /\ E(fl[k]) = E(c)
  <2>1. FreedInto(fl, x, n, blk)
    BY <1>1, <1>2, FreeBlockCells
  <2>. HIDE DEF fl, blk
  <2>2. QED
    BY <2>1 DEF FreedInto
<1>4. /\ FirstBlock(h) \in Nat /\ End(h) \in Nat
      /\ \A j \in DOMAIN fl : fl[j].at \in Nat /\ fl[j].size \in Nat \ {0}
  BY HeapFacts
<1>5. \A j \in DOMAIN fl : FirstBlock(h) <= fl[j].at /\ E(fl[j]) <= End(h)
  BY DEF Layout, ChunksInside
<1>6. h \in DOMAIN free /\ free'[h] = r /\ \A g \in DOMAIN heaps : g # h => free'[g] = free[g]
  <2>1. h \in DOMAIN free
    BY HeapFacts
  <2>2. QED
    BY <2>1, <1>0, HeapFacts
<1>7. Objects' = Objects \ {x} /\ \A b \in Objects \ {x} : obj'[b] = obj[b]
  BY DEF Objects
<1>8. \A b \in Objects \ {x} : Row(b)' = Row(b)
  BY <1>7 DEF Row
<1>9. \A g : FirstBlock(g)' = FirstBlock(g) /\ End(g)' = End(g)
  BY DEF FirstBlock, End
<1>10. \A b \in Objects : \A k \in DOMAIN fl : b + Row(b).size <= fl[k].at \/ E(fl[k]) <= b
  BY DEF Layout, BlocksApart
<1>11. \A b \in Objects \ {x} : b + Row(b).size <= x \/ x + n <= b
  <2>. TAKE b \in Objects \ {x}
  <2>1. b < x \/ x < b
    BY <1>1
  <2>2. QED
    BY <2>1, <1>0 DEF Layout, ObjectsApart
<1>12. c.at \in Nat /\ c.size \in Nat \ {0} /\ E(c) \in Nat
  BY <1>3 DEF Chunks
<1>. HIDE DEF fl, blk, r, c
<1>13. FirstBlock(h) <= c.at /\ c.at <= x
  BY <1>0, <1>1, <1>3, <1>4, <1>5
<1>14. x + n <= E(c) /\ E(c) <= End(h)
  BY <1>0, <1>1, <1>3, <1>4, <1>5
<1>15. ASSUME NEW b \in Objects \ {x} PROVE b + Row(b).size <= c.at \/ E(c) <= b
  <2>1. b \in Nat /\ Row(b).size \in Nat \ {0}
    BY <1>1
  <2>2. CASE b + Row(b).size <= x
    <3>1. CASE c.at = x
      BY <3>1, <2>2
    <3>2. CASE \E k \in DOMAIN fl : c.at = fl[k].at /\ E(fl[k]) = x
      <4>1. PICK k \in DOMAIN fl : c.at = fl[k].at /\ E(fl[k]) = x
        BY <3>2
      <4>2. QED
        BY <4>1, <2>1, <2>2, <1>1, <1>4, <1>10
    <3>3. QED
      BY <3>1, <3>2, <1>3
  <2>3. CASE x + n <= b
    <3>1. CASE E(c) = x + n
      BY <3>1, <2>3
    <3>2. CASE \E k \in DOMAIN fl : fl[k].at = x + n /\ E(fl[k]) = E(c)
      <4>1. PICK k \in DOMAIN fl : fl[k].at = x + n /\ E(fl[k]) = E(c)
        BY <3>2
      <4>2. b + Row(b).size <= fl[k].at \/ E(fl[k]) <= b
        BY <1>10
      <4>3. QED
        BY <4>1, <4>2, <2>1, <2>3, <1>1, <1>4, <1>12
    <3>3. QED
      BY <3>1, <3>2, <1>3
  <2>4. QED
    BY <2>2, <2>3, <1>11
<1>16. HeapsApart'
  BY <1>9 DEF Layout, HeapsApart
<1>17. ChunksInside'
  <2>. SUFFICES ASSUME NEW g \in DOMAIN heaps, NEW j \in DOMAIN free'[g]
                PROVE  FirstBlock(g) <= free'[g][j].at /\ E(free'[g][j]) <= End(g)
    BY <1>9 DEF ChunksInside
  <2>1. CASE g # h
    BY <2>1, <1>6 DEF Layout, ChunksInside
  <2>2. CASE g = h
    BY <2>2, <1>3, <1>5, <1>6, <1>13, <1>14
  <2>3. QED
    BY <2>1, <2>2
<1>18. ChunksApart'
  BY <1>3, <1>6 DEF Layout, ChunksApart
<1>19. ObjectsInside'
  BY <1>7, <1>8, <1>9 DEF Layout, ObjectsInside
<1>20. ObjectsApart'
  BY <1>7, <1>8 DEF Layout, ObjectsApart
<1>21. BlocksApart'
  <2>. SUFFICES ASSUME NEW b \in Objects \ {x}, NEW g \in DOMAIN heaps, NEW j \in DOMAIN free'[g]
                PROVE  b + Row(b).size <= free'[g][j].at \/ E(free'[g][j]) <= b
    BY <1>7, <1>8 DEF BlocksApart
  <2>1. CASE g # h
    BY <2>1, <1>6 DEF Layout, BlocksApart
  <2>2. CASE g = h
    BY <2>2, <1>3, <1>6, <1>10, <1>15
  <2>3. QED
    BY <2>1, <2>2
<1>22. Covered'
  <2>. SUFFICES ASSUME NEW g \in DOMAIN heaps, NEW u \in FirstBlock(g)..(End(g) - 1)
                PROVE  InObject(u)' \/ InChunk(g, u)'
    BY <1>9 DEF Covered
  <2>0. u \in Int /\ FirstBlock(g) \in Nat /\ End(g) \in Nat /\ FirstBlock(g) <= u /\ u < End(g)
    BY HeapFacts, SMTT(30)
  <2>1. CASE \E b \in Objects \ {x} : b <= u /\ u < b + Row(b).size
    BY <2>1, <1>7, <1>8 DEF InObject
  <2>2. CASE x <= u /\ u < x + n
    <3>1. g = h
      <4>1. x + n <= End(h) /\ FirstBlock(h) <= x
        BY <1>0
      <4>2. g # h => End(g) < FirstBlock(h) \/ End(h) < FirstBlock(g)
        BY HeapsOrdered
      <4>3. QED
        BY <4>1, <4>2, <2>0, <2>2, <1>1, <1>4
    <3>2. c.at <= u /\ u < E(c)
      BY <2>0, <2>2, <1>1, <1>12, <1>13, <1>14
    <3>3. QED
      BY <3>1, <3>2, <1>3, <1>6 DEF InChunk
  <2>3. CASE InChunk(g, u) /\ g # h
    BY <2>3, <1>6 DEF InChunk
  <2>4. CASE InChunk(g, u) /\ g = h
    <3>1. PICK k \in DOMAIN fl : fl[k].at <= u /\ u < E(fl[k])
      BY <2>4 DEF InChunk, fl
    <3>2. CASE \E j \in DOMAIN r : r[j] = fl[k]
      BY <3>1, <3>2, <2>4, <1>6 DEF InChunk
    <3>3. CASE c.at <= fl[k].at /\ E(fl[k]) <= E(c)
      <4>1. c.at <= u /\ u < E(c)
        BY <3>1, <3>3, <2>0, <1>4, <1>12
      <4>2. QED
        BY <4>1, <2>4, <1>3, <1>6 DEF InChunk
    <3>4. QED
      BY <3>2, <3>3, <1>3
  <2>5. InObject(u) \/ InChunk(g, u)
    BY DEF Layout, Covered
  <2>6. QED
    BY <2>1, <2>2, <2>3, <2>4, <2>5, <1>0 DEF InObject
<1>23. Layout'
  BY <1>16, <1>17, <1>18, <1>19, <1>20, <1>21, <1>22 DEF Layout
<1>24. \A b \in Objects \ {x} : b + Row(b).size <= x \/ E(c) <= b
  BY <1>1, <1>12, <1>13, <1>15
<1>25. /\ blk.list \in Seq(Chunks) /\ blk.chunk.size \in Nat /\ blk.skip \in Nat
       /\ x + n <= blk.skip /\ blk.skip <= End(h)
       /\ \A b \in Objects \ {x} : b + Row(b).size <= x \/ blk.skip <= b
  BY <1>3, <1>12, <1>14, <1>24 DEF r, c
<1>26. QED
  BY <1>0, <1>8, <1>23, <1>25 DEF blk

-----------------------------------------------------------------------------
(* The heap grows.                                                         *)

\* The larger of two numbers.
LEMMA MaxOfTwo ==
  ASSUME NEW x \in Nat, NEW y \in Nat
  PROVE  Max({x, y}) \in {x, y} /\ Max({x, y}) >= x /\ Max({x, y}) >= y
<1>1. \E z \in {x, y} : \A w \in {x, y} : z >= w
  <2>1. CASE x >= y
    BY <2>1
  <2>2. CASE y >= x
    BY <2>2
  <2>3. QED
    BY <2>1, <2>2
<1>2. QED
  BY <1>1 DEF Max

\* sexp_grow_heap makes a heap of at least two units.
LEMMA GrowSize ==
  ASSUME TypeOK, Layout, NEW k \in Kinds
  PROVE  LET n == 2 * Max({heaps[Len(heaps)].size, Types[k].size})
         IN  n \in Nat /\ n >= 2 /\ Len(heaps) \in DOMAIN heaps
<1>1. Len(heaps) \in DOMAIN heaps
  BY DEF TypeOK
<1>2. heaps[Len(heaps)].size \in Nat /\ heaps[Len(heaps)].size >= 2
  BY <1>1, HeapFacts DEF Layout, HeapsApart
<1>3. Types[k].size \in Nat
  BY TypeFacts
<1>4. QED
  BY <1>1, <1>2, <1>3, MaxOfTwo

\* The step that adds a heap of size n.
GrowsBy(n) ==
  /\ heaps' = Append(heaps, MakeHeap(End(Len(heaps)) + 1, n))
  /\ free' = Append(free, <<Chunk(End(Len(heaps)) + 2, n - 1)>>)
  /\ obj' = obj

\* A heap with one free chunk behind the others keeps the layout.
LEMMA GrowLayout ==
  ASSUME TypeOK, Layout, NEW n \in Nat, n >= 2, GrowsBy(n)
  PROVE  /\ Layout' /\ heaps' \in Seq([base : Nat, size : Nat]) /\ heaps' # <<>>
         /\ free' \in Seq(Seq(Chunks)) /\ Len(free') = Len(heaps')
         /\ DOMAIN heaps \subseteq DOMAIN heaps'
         /\ \A h \in DOMAIN heaps : FirstBlock(h)' = FirstBlock(h) /\ End(h)' = End(h)
<1>26. PICK L : L = Len(heaps)
  OBVIOUS
<1>1. /\ heaps \in Seq([base : Nat, size : Nat]) /\ free \in Seq(Seq(Chunks)) /\ Len(free) = L
      /\ L \in Nat /\ L \in DOMAIN heaps /\ DOMAIN heaps = 1..L
  BY <1>26 DEF TypeOK
<1>28. End(L) \in Nat
  BY <1>1, HeapFacts
<1>27. PICK base : base = End(L) + 1
  OBVIOUS
<1>2. End(L) \in Nat /\ base \in Nat
  BY <1>28, <1>27
<1>. DEFINE H == MakeHeap(base, n)
            C == Chunk(base + 1, n - 1)
<1>3. /\ H \in [base : Nat, size : Nat] /\ H.base = base /\ H.size = n
  BY <1>2 DEF MakeHeap
<1>4. C \in Chunks /\ C.at = base + 1 /\ C.size = n - 1
  BY <1>2 DEF Chunk, Chunks
<1>5. heaps' = Append(heaps, H) /\ free' = Append(free, <<C>>) /\ obj' = obj
  <2>1. End(L) + 2 = base + 1
    BY <1>27, <1>2
  <2>2. QED
    BY <2>1, <1>26, <1>27 DEF GrowsBy
<1>. HIDE DEF H, C
<1>6. <<C>> \in Seq(Chunks) /\ DOMAIN <<C>> = {1} /\ <<C>>[1] = C
  BY <1>4
<1>7. /\ heaps' \in Seq([base : Nat, size : Nat]) /\ Len(heaps') = L + 1 /\ DOMAIN heaps' = 1..(L + 1)
      /\ \A h \in 1..L : heaps'[h] = heaps[h]
      /\ heaps'[L + 1] = H
  BY <1>1, <1>3, <1>5, <1>26, AppendCells
<1>8. /\ free' \in Seq(Seq(Chunks)) /\ Len(free') = L + 1
      /\ \A h \in 1..L : free'[h] = free[h]
      /\ free'[L + 1] = <<C>>
  BY <1>1, <1>5, <1>6, AppendCells
<1>9. DOMAIN heaps' = 1..(L + 1) /\ heaps' # <<>>
  <2>1. Len(heaps') # 0
    BY <1>1, <1>7
  <2>2. QED
    BY <2>1, <1>7
<1>10. \A h \in 1..L : FirstBlock(h)' = FirstBlock(h) /\ End(h)' = End(h)
  BY <1>7 DEF FirstBlock, End
<1>0. PICK m : m = L + 1
  OBVIOUS
<1>11. heaps'[m].base = base /\ heaps'[m].size = n /\ FirstBlock(m)' = base + 1 /\ End(m)' = base + n
  BY <1>0, <1>3, <1>7 DEF FirstBlock, End
<1>12. \A h \in 1..L : End(h) \in Nat /\ heaps[h].base \in Nat /\ heaps[h].size \in Nat
                       /\ End(h) = heaps[h].base + heaps[h].size
  BY <1>1, HeapFacts
<1>13. ASSUME NEW h \in 1..L PROVE End(h) < base
  <2>0. h \in DOMAIN heaps /\ (h = L \/ h < L)
    BY <1>1
  <2>1. h = L \/ End(h) < heaps[L].base
    BY <2>0, <1>1 DEF Layout, HeapsApart
  <2>2. End(h) \in Nat /\ heaps[L].base \in Nat /\ heaps[L].size \in Nat
        /\ End(L) = heaps[L].base + heaps[L].size /\ base = End(L) + 1
    BY <1>1, <1>12, <1>27
  <2>3. CASE h = L
    BY <2>2, <2>3
  <2>4. CASE End(h) < heaps[L].base
    BY <2>2, <2>4
  <2>5. QED
    BY <2>1, <2>3, <2>4
<1>14. Objects' = Objects /\ \A a : Row(a)' = Row(a)
  BY <1>5 DEF Objects, Row
<1>15. \A h \in DOMAIN heaps' : h \in 1..L \/ h = m
  BY <1>0, <1>1, <1>9
<1>16. m \notin 1..L /\ free'[m] = <<C>> /\ DOMAIN free'[m] = {1} /\ free'[m][1] = C
  BY <1>0, <1>1, <1>6, <1>8
<1>17. HeapsApart'
  <2>1. \A h \in DOMAIN heaps' : heaps'[h].size >= 2
    BY <1>1, <1>7, <1>11, <1>15 DEF Layout, HeapsApart
  <2>2. ASSUME NEW g \in DOMAIN heaps', NEW h \in DOMAIN heaps', g < h
        PROVE  End(g)' < heaps'[h].base
    <3>1. g \in 1..L
      BY <2>2, <1>0, <1>1, <1>9
    <3>2. CASE h = m
      BY <3>1, <3>2, <1>10, <1>11, <1>13
    <3>3. CASE h \in 1..L
      BY <3>1, <3>3, <2>2, <1>1, <1>7, <1>10 DEF Layout, HeapsApart
    <3>4. QED
      BY <3>2, <3>3, <1>15
  <2>3. QED
    BY <2>1, <2>2 DEF HeapsApart
<1>18. ChunksInside'
  <2>. SUFFICES ASSUME NEW h \in DOMAIN heaps', NEW i \in DOMAIN free'[h]
                PROVE  FirstBlock(h)' <= free'[h][i].at /\ free'[h][i].at + free'[h][i].size <= End(h)'
    BY DEF ChunksInside
  <2>1. CASE h \in 1..L
    BY <2>1, <1>1, <1>8, <1>10 DEF Layout, ChunksInside
  <2>2. CASE h = m
    BY <2>2, <1>2, <1>4, <1>11, <1>16
  <2>3. QED
    BY <2>1, <2>2, <1>15
<1>19. ChunksApart'
  <2>. SUFFICES ASSUME NEW h \in DOMAIN heaps', NEW i \in DOMAIN free'[h], NEW j \in DOMAIN free'[h], i < j
                PROVE  free'[h][i].at + free'[h][i].size < free'[h][j].at
    BY DEF ChunksApart
  <2>1. CASE h \in 1..L
    BY <2>1, <1>1, <1>8 DEF Layout, ChunksApart
  <2>2. CASE h = m
    BY <2>2, <1>16
  <2>3. QED
    BY <2>1, <2>2, <1>15
<1>20. DOMAIN heaps \subseteq DOMAIN heaps'
  BY <1>1, <1>9
<1>21. ObjectsInside'
  BY <1>1, <1>10, <1>14, <1>20 DEF Layout, ObjectsInside
<1>22. ObjectsApart'
  BY <1>14 DEF Layout, ObjectsApart
<1>23. BlocksApart'
  <2>. SUFFICES ASSUME NEW a \in Objects, NEW h \in DOMAIN heaps', NEW i \in DOMAIN free'[h]
                PROVE  a + Row(a).size <= free'[h][i].at \/ free'[h][i].at + free'[h][i].size <= a
    BY <1>14 DEF BlocksApart
  <2>1. CASE h \in 1..L
    BY <2>1, <1>1, <1>8 DEF Layout, BlocksApart
  <2>2. CASE h = m
    <3>1. PICK g \in 1..L : a + Row(a).size <= End(g)
      BY <1>1 DEF Layout, ObjectsInside
    <3>2. End(g) < base /\ End(g) \in Nat /\ a \in Nat /\ Row(a).size \in Nat
      BY <1>12, <1>13, ObjectFacts
    <3>3. QED
      BY <3>1, <3>2, <2>2, <1>2, <1>4, <1>16
  <2>3. QED
    BY <2>1, <2>2, <1>15
<1>24. Covered'
  <2>. SUFFICES ASSUME NEW h \in DOMAIN heaps', NEW u \in FirstBlock(h)'..(End(h)' - 1)
                PROVE  InObject(u)' \/ InChunk(h, u)'
    BY DEF Covered
  <2>1. CASE h \in 1..L
    <3>1. InObject(u) \/ InChunk(h, u)
      BY <2>1, <1>1, <1>10 DEF Layout, Covered
    <3>2. InObject(u) => InObject(u)'
      BY <1>14 DEF InObject
    <3>3. InChunk(h, u) => InChunk(h, u)'
      BY <2>1, <1>8 DEF InChunk
    <3>4. QED
      BY <3>1, <3>2, <3>3
  <2>2. CASE h = m
    BY <2>2, <1>2, <1>4, <1>11, <1>16 DEF InChunk
  <2>3. QED
    BY <2>1, <2>2, <1>15
<1>25. QED
  BY <1>1, <1>7, <1>8, <1>9, <1>10, <1>17, <1>18, <1>19, <1>20, <1>21, <1>22, <1>23, <1>24 DEF Layout

-----------------------------------------------------------------------------
(* The slots that the marker leaves out.                                   *)

\* The largest element of a set of indexes.
LEMMA MaxInRange ==
  ASSUME NEW n \in Nat, NEW S, S \subseteq 1..n, S # {}
  PROVE  Max(S) \in S /\ \A y \in S : Max(S) >= y
<1>. DEFINE T == {k \in Nat : n - k \in S}
<1>1. T # {}
  <2>1. PICK y \in S : TRUE
    OBVIOUS
  <2>2. n - y \in Nat /\ n - (n - y) = y
    OBVIOUS
  <2>3. n - y \in T
    BY <2>2
  <2>4. QED
    BY <2>3
<1>2. T \subseteq Nat
  OBVIOUS
<1>3. Min(T) \in T /\ \A k \in T : Min(T) <= k
  BY <1>1, <1>2, MinInSet
<1>4. PICK t \in T : \A k \in T : t <= k
  BY <1>3
<1>5. n - t \in S /\ t \in Nat
  OBVIOUS
<1>6. ASSUME NEW y \in S PROVE n - t >= y
  <2>1. y \in Nat /\ n - y \in Nat /\ n - (n - y) = y
    OBVIOUS
  <2>2. n - y \in T
    BY <2>1
  <2>3. t <= n - y
    BY <2>2, <1>4
  <2>4. QED
    BY <2>1, <2>3, <1>5
<1>. HIDE DEF T
<1>7. \E x \in S : \A y \in S : x >= y
  BY <1>5, <1>6
<1>8. QED
  BY <1>7 DEF Max

\* sexp_mark_one goes on with slot q: every slot behind it holds the same
\* value, an immediate, or an object that is marked already.
LEMMA LastSlot ==
  ASSUME NEW f, NEW n \in Nat \ {0}, NEW m
  PROVE  LET q == FirstRepeat(f, LastUnmarked(f, n, m))
         IN  q \in 1..n /\ \A i \in (q + 1)..n : f[i] \in m \cup {Nil, f[q]}
<1>. DEFINE U == {1} \cup {i \in 1..n : f[i] # Nil /\ f[i] \notin m}
<1>0. PICK l : l = LastUnmarked(f, n, m)
  OBVIOUS
<1>1. U \subseteq 1..n /\ U # {}
  OBVIOUS
<1>2. Max(U) \in U /\ \A y \in U : Max(U) >= y
  BY <1>1, MaxInRange
<1>3. l \in U /\ \A y \in U : l >= y
  BY <1>0, <1>2 DEF LastUnmarked
<1>4. l \in 1..n /\ l \in Nat
  BY <1>1, <1>3
<1>5. \A i \in (l + 1)..n : f[i] \in m \cup {Nil}
  <2>. TAKE i \in (l + 1)..n
  <2>1. i \in 1..n /\ ~(l >= i)
    BY <1>4
  <2>2. i \notin U
    BY <2>1, <1>3
  <2>3. QED
    BY <2>1, <2>2
<1>. DEFINE R == {j \in 1..l : \A i \in j..l : f[i] = f[l]}
<1>6. R \subseteq Nat /\ R # {}
  <2>1. l \in 1..l /\ \A i \in l..l : i = l
    BY <1>4
  <2>2. l \in R
    BY <2>1
  <2>3. QED
    BY <2>2, <1>4
<1>7. Min(R) \in R
  BY <1>6, MinInSet
<1>8. PICK q : q = FirstRepeat(f, l)
  OBVIOUS
<1>9. q \in R
  BY <1>7, <1>8 DEF FirstRepeat
<1>10. q \in 1..l /\ \A i \in q..l : f[i] = f[l]
  BY <1>9
<1>11. f[q] = f[l]
  BY <1>4, <1>10
<1>12. ASSUME NEW i \in (q + 1)..n PROVE f[i] \in m \cup {Nil, f[q]}
  <2>1. i \in q..l \/ i \in (l + 1)..n
    BY <1>4, <1>10
  <2>2. QED
    BY <2>1, <1>5, <1>10, <1>11
<1>13. QED
  BY <1>0, <1>4, <1>8, <1>10, <1>12

-----------------------------------------------------------------------------
(* The scans.                                                              *)

\* A step that leaves the blocks alone and does not begin or move a scan.
LEMMA SameScan ==
  ASSUME LayoutInv, SameBlocks, UNCHANGED scan, Scanning' => Scanning
  PROVE  AtBlock'
<1>1. Objects' = Objects /\ \A a \in Objects : Row(a)' = Row(a)
  BY DEF SameBlocks, Objects, Row
<1>2. p' = p /\ hi' = hi /\ FirstBlock(hi)' = FirstBlock(hi) /\ End(hi)' = End(hi)
  BY DEF SameBlocks, FirstBlock, End, scan
<1>3. QED
  BY <1>1, <1>2 DEF LayoutInv, AtBlock, ScanInside

\* A scan begins in front of all objects.
LEMMA ScanStart ==
  ASSUME LayoutInv, SameBlocks, Rescan
  PROVE  AtBlock' /\ hi' \in DOMAIN heaps /\ p' \in Nat /\ \A a \in Objects : p' <= a
<1>0. TypeOK /\ Layout
  BY DEF LayoutInv
<1>1. 1 \in DOMAIN heaps /\ hi' = 1 /\ p' = FirstBlock(1)
  BY <1>0 DEF TypeOK, Rescan
<1>2. FirstBlock(1)' = FirstBlock(1) /\ End(1)' = End(1)
  BY DEF SameBlocks, FirstBlock, End
<1>3. /\ FirstBlock(1) \in Nat /\ End(1) \in Nat /\ FirstBlock(1) = heaps[1].base + 1
      /\ End(1) = heaps[1].base + heaps[1].size /\ heaps[1].base \in Nat /\ heaps[1].size \in Nat
      /\ heaps[1].size >= 2
  BY <1>0, <1>1, HeapFacts DEF Layout, HeapsApart
<1>4. ASSUME NEW a \in Objects PROVE FirstBlock(1) <= a
  <2>1. PICK h \in DOMAIN heaps : FirstBlock(h) <= a
    BY <1>0 DEF Layout, ObjectsInside
  <2>2. a \in Nat /\ FirstBlock(h) \in Nat /\ End(h) \in Nat
    BY <1>0, HeapFacts, ObjectFacts
  <2>3. h = 1 \/ End(1) < FirstBlock(h)
    <3>1. h = 1 \/ 1 < h
      BY <1>0 DEF TypeOK
    <3>2. 1 < h => End(1) < heaps[h].base
      BY <1>0, <1>1 DEF Layout, HeapsApart
    <3>3. FirstBlock(h) = heaps[h].base + 1 /\ heaps[h].base \in Nat
      BY <1>0, HeapFacts
    <3>4. QED
      BY <3>1, <3>2, <3>3, <1>3
  <2>4. QED
    BY <2>1, <2>2, <2>3, <1>3
<1>5. Objects' = Objects
  BY DEF SameBlocks, Objects
<1>6. p' \in FirstBlock(1)'..End(1)'
  BY <1>1, <1>2, <1>3
<1>7. ScanInside'
  BY <1>1, <1>6 DEF ScanInside
<1>8. QED
  BY <1>1, <1>3, <1>4, <1>5, <1>7 DEF AtBlock

\* A scan ends behind all objects.
LEMMA ScanEnd ==
  ASSUME LayoutInv, NEW ph, ScanEnds(ph)
  PROVE  \A a \in Objects : a < p
<1>0. TypeOK /\ Layout
  BY DEF LayoutInv
<1>. TAKE a \in Objects
<1>1. PICK h \in DOMAIN heaps : a + Row(a).size <= End(h)
  BY <1>0 DEF Layout, ObjectsInside
<1>2. a \in Nat /\ Row(a).size \in Nat \ {0} /\ p \in Nat
  BY <1>0, ObjectFacts DEF TypeOK
<1>3. hi \in DOMAIN heaps /\ hi = Len(heaps) /\ p >= End(hi)
  BY <1>0 DEF ScanEnds, TypeOK
<1>4. /\ End(hi) \in Nat /\ End(h) \in Nat /\ heaps[hi].base \in Nat
      /\ End(hi) = heaps[hi].base + heaps[hi].size /\ heaps[hi].size \in Nat
  BY <1>0, <1>3, HeapFacts
<1>5. h = hi \/ h < hi
  BY <1>0, <1>3 DEF TypeOK
<1>6. h < hi => End(h) < heaps[hi].base
  BY <1>0, <1>3 DEF Layout, HeapsApart
<1>7. End(h) <= End(hi)
  BY <1>4, <1>5, <1>6
<1>8. QED
  BY <1>1, <1>2, <1>3, <1>4, <1>7

\* The object that a scan is at lies in the heap it is in, and passing it
\* passes nothing else.
LEMMA ScanObject ==
  ASSUME LayoutInv, Scanning, AtObject
  PROVE  /\ p \in Objects /\ hi \in DOMAIN heaps
         /\ FirstBlock(hi) <= p /\ p + Row(p).size <= End(hi)
         /\ \A a \in Objects : a + Row(a).size <= p \/ a = p \/ p + Row(p).size <= a
<1>0. TypeOK /\ Layout
  BY DEF LayoutInv
<1>1. p \in Objects /\ p < End(hi) /\ hi \in DOMAIN heaps /\ FirstBlock(hi) <= p
  BY <1>0 DEF AtObject, TypeOK, LayoutInv, AtBlock, ScanInside
<1>2. PICK h \in DOMAIN heaps : FirstBlock(h) <= p /\ p + Row(p).size <= End(h)
  BY <1>0, <1>1 DEF Layout, ObjectsInside
<1>3. p \in Nat /\ Row(p).size \in Nat \ {0}
  BY <1>0, <1>1, ObjectFacts
<1>4. FirstBlock(h) \in Nat /\ End(h) \in Nat /\ FirstBlock(hi) \in Nat /\ End(hi) \in Nat
  BY <1>0, <1>1, HeapFacts
<1>5. h # hi => End(h) < FirstBlock(hi) \/ End(hi) < FirstBlock(h)
  BY <1>0, <1>1, HeapsOrdered
<1>6. h = hi
  BY <1>1, <1>2, <1>3, <1>4, <1>5
<1>7. ASSUME NEW a \in Objects PROVE a + Row(a).size <= p \/ a = p \/ p + Row(p).size <= a
  <2>1. a \in Nat
    BY <1>0, ObjectFacts
  <2>2. a < p \/ a = p \/ p < a
    BY <2>1, <1>3
  <2>3. QED
    BY <2>2, <1>0, <1>1 DEF Layout, ObjectsApart
<1>8. QED
  BY <1>1, <1>2, <1>6, <1>7

\* Skipping a free chunk, or the end of a heap, passes no object.
LEMMA ScanMoves ==
  ASSUME LayoutInv, ScanSkip \/ ScanHeap
  PROVE  /\ hi' \in DOMAIN heaps /\ p' \in Nat /\ p' \in FirstBlock(hi')..End(hi') /\ p <= p'
         /\ \A a \in Objects : a + Row(a).size <= p \/ p' <= a
<1>0. TypeOK /\ Layout
  BY DEF LayoutInv
<1>1. /\ hi \in DOMAIN heaps /\ p \in Nat /\ p \in FirstBlock(hi)..End(hi)
      /\ \A a \in Objects : a + Row(a).size <= p \/ p <= a
  BY <1>0 DEF TypeOK, LayoutInv, AtBlock, ScanInside, ScanSkip, ScanHeap
<1>2. FirstBlock(hi) \in Nat /\ End(hi) \in Nat
  BY <1>0, <1>1, HeapFacts
<1>3. CASE ScanSkip
  <2>1. PICK i \in DOMAIN free[hi] : free[hi][i].at = p /\ p' = p + free[hi][i].size /\ hi' = hi
    BY <1>3 DEF ScanSkip, ChunkAt
  <2>2. free[hi][i].size \in Nat \ {0} /\ free[hi][i].at + free[hi][i].size <= End(hi)
    BY <1>0, <1>1, HeapFacts DEF Layout, ChunksInside
  <2>3. ASSUME NEW a \in Objects PROVE a + Row(a).size <= p \/ p' <= a
    <3>1. a + Row(a).size <= free[hi][i].at \/ free[hi][i].at + free[hi][i].size <= a
      BY <1>0, <1>1 DEF Layout, BlocksApart
    <3>2. QED
      BY <2>1, <3>1
  <2>4. QED
    BY <2>1, <2>2, <2>3, <1>1, <1>2
<1>4. CASE ScanHeap
  <2>1. hi < Len(heaps) /\ p >= End(hi) /\ hi' = hi + 1 /\ p' = FirstBlock(hi + 1)
    BY <1>4 DEF ScanHeap
  <2>0. PICK g : g = hi + 1
    OBVIOUS
  <2>2. g \in DOMAIN heaps /\ hi < g
    <3>1. DOMAIN heaps = 1..Len(heaps) /\ Len(heaps) \in Nat
      BY <1>0 DEF TypeOK
    <3>2. QED
      BY <3>1, <2>0, <2>1, <1>1
  <2>3. /\ FirstBlock(g) \in Nat /\ End(g) \in Nat /\ FirstBlock(g) = heaps[g].base + 1
        /\ End(g) = heaps[g].base + heaps[g].size /\ heaps[g].base \in Nat /\ heaps[g].size \in Nat
        /\ heaps[g].size >= 2 /\ End(hi) < heaps[g].base
    BY <2>2, <1>0, <1>1, HeapFacts DEF Layout, HeapsApart
  <2>4. ASSUME NEW a \in Objects PROVE a + Row(a).size <= p \/ FirstBlock(g) <= a
    <3>1. PICK h \in DOMAIN heaps : FirstBlock(h) <= a /\ a + Row(a).size <= End(h)
      BY <1>0 DEF Layout, ObjectsInside
    <3>2. /\ a \in Nat /\ Row(a).size \in Nat /\ FirstBlock(h) \in Nat /\ End(h) \in Nat
          /\ FirstBlock(h) = heaps[h].base + 1 /\ heaps[h].base \in Nat
      BY <1>0, HeapFacts, ObjectFacts
    <3>9. h \in Nat /\ hi \in Nat /\ g \in Nat
      <4>1. DOMAIN heaps = 1..Len(heaps) /\ Len(heaps) \in Nat
        BY <1>0 DEF TypeOK
      <4>2. QED
        BY <4>1, <2>2, <1>1
    <3>3. h < hi \/ h = hi \/ h = g \/ g < h
      BY <3>9, <2>0
    <3>4. CASE h < hi
      <4>1. FirstBlock(hi) = heaps[hi].base + 1 /\ heaps[hi].base \in Nat
        BY <1>0, <1>1, HeapFacts
      <4>2. End(h) < heaps[hi].base /\ FirstBlock(hi) = heaps[hi].base + 1 /\ heaps[hi].base \in Nat
        <5>1. \A x, y \in DOMAIN heaps : x < y => End(x) < heaps[y].base
          BY <1>0 DEF Layout, HeapsApart
        <5>2. QED
          BY <5>1, <3>4, <4>1, <1>1
      <4>3. FirstBlock(hi) <= p
        BY <1>1, <1>2
      <4>4. a + Row(a).size <= End(h) /\ End(h) < p
        BY <4>2, <4>3, <3>1, <3>2, <1>1
      <4>5. a + Row(a).size <= p
        BY <4>4, <3>2, <1>1
      <4>6. QED
        BY <4>5
    <3>5. CASE h = hi
      <4>1. a + Row(a).size <= End(hi) /\ End(hi) <= p
        BY <3>1, <3>5, <2>1
      <4>2. a + Row(a).size <= p
        BY <4>1, <3>2, <1>1, <1>2
      <4>3. QED
        BY <4>2
    <3>6. CASE h = g
      BY <3>1, <3>6
    <3>7. CASE g < h
      <4>1. End(g) < heaps[h].base
        BY <3>7, <2>2, <1>0 DEF Layout, HeapsApart
      <4>2. QED
        BY <4>1, <3>1, <3>2, <2>3
    <3>8. QED
      BY <3>3, <3>4, <3>5, <3>6, <3>7
  <2>5. p' = FirstBlock(g) /\ hi' = g
    BY <2>0, <2>1
  <2>6. p \in Nat /\ p <= End(hi)
    BY <1>1, <1>2
  <2>7. p <= p' /\ p' \in FirstBlock(g)..End(g)
    BY <2>3, <2>5, <2>6, <1>2
  <2>8. QED
    BY <2>2, <2>3, <2>4, <2>5, <2>7
<1>5. QED
  BY <1>3, <1>4

-----------------------------------------------------------------------------
(* Every step keeps the types and the layout.                              *)

\* The part of TypeOK about blocks.
BlocksType ==
  /\ heaps \in Seq([base : Nat, size : Nat]) /\ heaps # <<>>
  /\ free \in Seq(Seq(Chunks)) /\ Len(free) = Len(heaps)
  /\ Objects \subseteq Nat
  /\ obj \in [Objects -> [kind : Kinds, fin : Nat, fields : Seq(Refs)]]
  /\ \A a \in Objects : Len(obj[a].fields) = Row(a).len
  /\ marked \subseteq Objects

\* The rest of it.
StateType ==
  /\ var \in [Vars -> Refs]
  /\ phase \in {"run", "mark", "weak", "finalize", "sweep", "retry", "again", "dead"}
  /\ teardown \in 0..2 /\ next \in 1..(NumVars + 1)
  /\ look \in Refs /\ walk \in Ranges /\ mstack \in Seq(Ranges)
  /\ phase # "mark" => look = Nil /\ walk = NoRange /\ mstack = <<>>
  /\ hi \in DOMAIN heaps /\ p \in Nat
  /\ \/ req = NoReq
     \/ req.var \in Vars /\ req.kind \in Kinds /\ req.args \in Arguments(req.kind)
  /\ phase \in {"retry", "again"} => req # NoReq
  /\ maxFreed \in Nat /\ sumFreed \in Nat

\* They are its two halves.
LEMMA TypeParts ==
  /\ TypeOK => BlocksType /\ StateType
  /\ BlocksType' /\ StateType' => TypeOK'
BY DEF TypeOK, BlocksType, StateType

\* Steps that leave the blocks alone keep their types and the ranges.
LEMMA SameBlocksType ==
  ASSUME LayoutInv, heaps' = heaps, free' = free, obj' = obj, marked' = marked
  PROVE  BlocksType' /\ SameBlocks /\ Layout' /\ \A r : SlotsOf(r)' <=> SlotsOf(r)
<1>0. TypeOK /\ Layout /\ BlocksType
  BY TypeParts DEF LayoutInv
<1>1. SameBlocks
  BY DEF SameBlocks
<1>2. Layout'
  BY <1>0, <1>1, SameBlocksLayout
<1>3. Objects' = Objects /\ \A a : Row(a)' = Row(a)
  BY DEF Objects, Row
<1>4. BlocksType'
  BY <1>0, <1>3 DEF BlocksType
<1>5. \A r : SlotsOf(r)' <=> SlotsOf(r)
  BY <1>3 DEF SlotsOf
<1>6. QED
  BY <1>1, <1>2, <1>4, <1>5

\* A collection starts: (gc), a failed allocation, sexp_destroy_context.
LEMMA StartLayout ==
  ASSUME LayoutInv, phase = "run", StartGc,
         UNCHANGED <<heaps, free, obj, marked, var, walk, mstack, scan>>,
         teardown' \in 0..2,
         \/ req' = NoReq
         \/ req'.var \in Vars /\ req'.kind \in Kinds /\ req'.args \in Arguments(req'.kind)
  PROVE  LayoutInv'
<1>1. BlocksType' /\ SameBlocks /\ Layout' /\ \A r : SlotsOf(r)' <=> SlotsOf(r)
  BY SameBlocksType
<1>2. StateType
  BY TypeParts DEF LayoutInv
<1>3. StateType'
  <2>1. Nil \in Refs /\ 1 \in 1..(NumVars + 1)
    BY HeapAssumption DEF Refs
  <2>2. hi' = hi /\ p' = p
    BY DEF scan
  <2>3. QED
    BY <2>1, <2>2, <1>2 DEF StateType, StartGc
<1>4. AtBlock'
  <2>1. ~Scanning'
    BY DEF Scanning, StartGc
  <2>2. QED
    BY <2>1, <1>1, SameScan
<1>5. RangesOK'
  BY <1>1 DEF LayoutInv, RangesOK
<1>6. QED
  BY <1>1, <1>3, <1>4, <1>5, TypeParts DEF LayoutInv

\* The object a constructor makes.
LEMMA NewObjectType ==
  ASSUME TypeOK, NEW k \in Kinds, NEW args \in Arguments(k)
  PROVE  /\ NewObject(k, args) \in [kind : Kinds, fin : Nat, fields : Seq(Refs)]
         /\ NewObject(k, args).kind = k /\ NewObject(k, args).fin = 0
         /\ Len(NewObject(k, args).fields) = Types[k].len
         /\ \A i \in 1..Types[k].len :
              NewObject(k, args).fields[i] = IF args[i] = 0 THEN Nil ELSE var[args[i]]
         /\ \A i \in 1..Types[k].len : args[i] = 0 \/ args[i] \in Vars
<1>. DEFINE n == Types[k].len
            f == [i \in 1..n |-> IF args[i] = 0 THEN Nil ELSE var[args[i]]]
<1>1. n \in Nat
  BY TypeFacts
<1>2. args \in [1..n -> 0..NumVars]
  BY DEF Arguments
<1>3. \A i \in 1..n : args[i] = 0 \/ args[i] \in Vars
  BY <1>2, HeapAssumption DEF Vars
<1>4. \A i \in 1..n : f[i] \in Refs
  BY <1>3 DEF TypeOK, Refs
<1>5. f \in Seq(Refs) /\ Len(f) = n
  BY <1>1, <1>4
<1>6. NewObject(k, args) = [kind |-> k, fin |-> 0, fields |-> f]
  BY DEF NewObject
<1>7. \A i \in 1..n : f[i] = IF args[i] = 0 THEN Nil ELSE var[args[i]]
  OBVIOUS
<1>. HIDE DEF f, n
<1>8. QED
  BY <1>3, <1>5, <1>6, <1>7 DEF n

\* It is made at the front of the chunk at i of heap h.
PlacedAt(h, i, v, k, args) ==
  /\ free[h][i].size >= Types[k].size
  /\ free' = [free EXCEPT ![h] = Carve(h, i, Types[k].size)]
  /\ obj' = [b \in Objects \cup {free[h][i].at} |->
               IF b = free[h][i].at THEN NewObject(k, args) ELSE obj[b]]
  /\ var' = [var EXCEPT ![v] = free[h][i].at]

\* That is what sexp_try_alloc does.
LEMMA TryAllocPlace ==
  ASSUME TypeOK, NEW v, NEW k \in Kinds, NEW args, TryAlloc(v, k, args)
  PROVE  \E h \in DOMAIN heaps : \E i \in DOMAIN free[h] : PlacedAt(h, i, v, k, args)
<1>. DEFINE n == Types[k].size
            h == Min(Roomy(n))
            i == Min(Fitting(h, n))
<1>0. DOMAIN heaps \subseteq Nat
  BY DEF TypeOK
<1>1. Roomy(n) # {} /\ Roomy(n) \subseteq Nat
  BY <1>0 DEF TryAlloc, Roomy
<1>2. h \in Roomy(n)
  BY <1>1, MinInSet
<1>3. h \in DOMAIN heaps /\ Fitting(h, n) # {}
  BY <1>2 DEF Roomy
<1>4. Fitting(h, n) \subseteq Nat
  <2>1. DOMAIN free[h] = 1..Len(free[h]) /\ Len(free[h]) \in Nat
    BY <1>3, HeapFacts
  <2>2. QED
    BY <2>1 DEF Fitting
<1>5. i \in Fitting(h, n)
  BY <1>3, <1>4, MinInSet
<1>6. i \in DOMAIN free[h] /\ free[h][i].size >= n
  BY <1>5 DEF Fitting
<1>7. PlacedAt(h, i, v, k, args)
  BY <1>6 DEF TryAlloc, PlacedAt
<1>. HIDE DEF h, i
<1>8. QED
  BY <1>3, <1>6, <1>7

\* What sexp_try_alloc makes of the heap: a is the new object.
Allocated(a, v, k, args) ==
  /\ a \in Nat /\ a \notin Objects /\ Objects' = Objects \cup {a}
  /\ obj'[a] = NewObject(k, args) /\ \A b \in Objects : obj'[b] = obj[b]
  /\ \A b \in Objects : Row(b)' = Row(b)
  /\ Row(a)' = Types[k]
  /\ var' = [var EXCEPT ![v] = a]

\* It keeps the layout and its types.
LEMMA TryAllocLayout ==
  ASSUME LayoutInv, NEW v \in Vars, NEW k \in Kinds, NEW args \in Arguments(k),
         TryAlloc(v, k, args), heaps' = heaps, marked' = marked
  PROVE  BlocksType' /\ Layout' /\ var' \in [Vars -> Refs] /\ \E a : Allocated(a, v, k, args)
<1>0. TypeOK /\ Layout /\ BlocksType
  BY TypeParts DEF LayoutInv
<1>. DEFINE N == NewObject(k, args)
<1>1. N \in [kind : Kinds, fin : Nat, fields : Seq(Refs)] /\ N.kind = k /\ Len(N.fields) = Types[k].len
  BY <1>0, NewObjectType
<1>18. PICK h \in DOMAIN heaps : \E i \in DOMAIN free[h] : PlacedAt(h, i, v, k, args)
  BY <1>0, TryAllocPlace
<1>2. PICK i \in DOMAIN free[h] :
        /\ free[h][i].size >= Types[k].size
        /\ free' = [free EXCEPT ![h] = Carve(h, i, Types[k].size)]
        /\ obj' = [b \in Objects \cup {free[h][i].at} |-> IF b = free[h][i].at THEN N ELSE obj[b]]
        /\ var' = [var EXCEPT ![v] = free[h][i].at]
  BY <1>18 DEF PlacedAt
<1>13. PICK M : M = N
  OBVIOUS
<1>14. obj' = [b \in Objects \cup {free[h][i].at} |-> IF b = free[h][i].at THEN M ELSE obj[b]] /\ M.kind = k
  BY <1>1, <1>2, <1>13
<1>. HIDE DEF N
<1>3. Layout' /\ free[h][i].at \notin Objects /\ \A b \in Objects : Row(b)' = Row(b)
  BY <1>0, <1>2, <1>14, AllocLayout
<1>4. PICK a : a = free[h][i].at
  OBVIOUS
<1>5. a \in Nat /\ Types[k].size \in Nat \ {0}
  BY <1>0, <1>4, HeapFacts, TypeFacts
<1>6. Carve(h, i, Types[k].size) \in Seq(Chunks)
  BY <1>0, <1>2, <1>5, CarveCells
<1>7. free' \in Seq(Seq(Chunks)) /\ Len(free') = Len(free)
  <2>1. free \in Seq(Seq(Chunks)) /\ h \in DOMAIN free
    BY <1>0, HeapFacts DEF TypeOK
  <2>2. QED
    BY <2>1, <1>2, <1>6
<1>8. /\ Objects' = Objects \cup {a} /\ obj'[a] = N /\ \A b \in Objects : obj'[b] = obj[b]
      /\ obj' = [b \in Objects \cup {a} |-> IF b = a THEN N ELSE obj[b]] /\ a \notin Objects
  BY <1>2, <1>3, <1>4 DEF Objects
<1>9. obj' \in [Objects' -> [kind : Kinds, fin : Nat, fields : Seq(Refs)]]
  <2>1. obj \in [Objects -> [kind : Kinds, fin : Nat, fields : Seq(Refs)]]
    BY <1>0 DEF BlocksType
  <2>2. QED
    BY <2>1, <1>1, <1>8
<1>10. Row(a)' = Types[k]
  BY <1>1, <1>8 DEF Row
<1>11. \A b \in Objects' : Len(obj'[b].fields) = Row(b)'.len
  BY <1>0, <1>1, <1>3, <1>8, <1>10 DEF BlocksType
<1>12. var' \in [Vars -> Refs] /\ var' = [var EXCEPT ![v] = a]
  BY <1>0, <1>2, <1>4, <1>5 DEF TypeOK, Refs
<1>15. BlocksType'
  BY <1>0, <1>5, <1>7, <1>8, <1>9, <1>11 DEF BlocksType
<1>16. Allocated(a, v, k, args)
  BY <1>3, <1>5, <1>8, <1>10, <1>12 DEF Allocated, N
<1>17. QED
  BY <1>3, <1>12, <1>15, <1>16

\* sexp_alloc
LEMMA NewLayout ==
  ASSUME LayoutInv, NEW v \in Vars, NEW k \in Kinds, NEW args \in Arguments(k), New(v, k, args)
  PROVE  LayoutInv'
<1>0. TypeOK /\ StateType /\ phase = "run"
  BY TypeParts DEF LayoutInv, New
<1>1. CASE TryAlloc(v, k, args) /\ UNCHANGED <<phase, marking, req, freed>>
  <2>0. UNCHANGED <<heaps, marked, teardown, scan, phase, marking, req, freed>>
    BY <1>1 DEF New
  <2>1. BlocksType' /\ Layout' /\ var' \in [Vars -> Refs] /\ \E a : Allocated(a, v, k, args)
    BY <2>0, <1>1, TryAllocLayout
  <2>2. StateType'
    BY <2>0, <2>1, <1>0 DEF StateType, marking, freed, scan
  <2>3. AtBlock'
    <3>1. ~Scanning'
      BY <2>0, <1>0 DEF Scanning
    <3>2. p' = p /\ hi' = hi /\ FirstBlock(hi)' = FirstBlock(hi) /\ End(hi)' = End(hi)
      BY <2>0 DEF FirstBlock, End, scan
    <3>3. QED
      BY <3>1, <3>2 DEF LayoutInv, AtBlock, ScanInside
  <2>4. RangesOK'
    <3>1. walk' = NoRange /\ mstack' = <<>>
      BY <2>2, <2>0, <1>0 DEF StateType
    <3>2. QED
      BY <3>1 DEF RangesOK, SlotsOf, NoRange
  <2>5. QED
    BY <2>1, <2>2, <2>3, <2>4, TypeParts DEF LayoutInv
<1>2. CASE /\ StartGc /\ req' = [var |-> v, kind |-> k, args |-> args]
           /\ UNCHANGED <<free, obj, var, walk, mstack>>
  <2>1. UNCHANGED <<heaps, marked, teardown, scan>>
    BY DEF New
  <2>2. teardown' \in 0..2
    BY <2>1, <1>0 DEF StateType
  <2>3. req'.var \in Vars /\ req'.kind \in Kinds /\ req'.args \in Arguments(req'.kind)
    BY <1>2
  <2>4. QED
    BY <2>1, <2>2, <2>3, <1>0, <1>2, StartLayout
<1>3. QED
  BY <1>1, <1>2 DEF New

\* (gc) and sexp_destroy_context
LEMMA CollectLayout == ASSUME LayoutInv, Collect \/ Destroy PROVE LayoutInv'
<1>0. StateType
  BY TypeParts DEF LayoutInv
<1>1. /\ phase = "run" /\ StartGc /\ UNCHANGED <<heaps, free, obj, marked, var, walk, mstack, scan, req>>
      /\ teardown' \in 0..2
  BY <1>0 DEF Collect, Destroy, StateType
<1>2. \/ req' = NoReq
      \/ req'.var \in Vars /\ req'.kind \in Kinds /\ req'.args \in Arguments(req'.kind)
  BY <1>0, <1>1 DEF StateType
<1>3. QED
  BY <1>1, <1>2, StartLayout

\* Steps that change neither the blocks nor the scan.
LEMMA QuietLayout ==
  ASSUME LayoutInv, UNCHANGED <<heaps, free, obj, marked, scan>>,
         StateType', RangesOK', Scanning' => Scanning
  PROVE  LayoutInv'
<1>1. BlocksType' /\ SameBlocks /\ Layout'
  BY SameBlocksType
<1>2. AtBlock'
  BY <1>1, SameScan
<1>3. QED
  BY <1>1, <1>2, TypeParts DEF LayoutInv

\* Ranges that stay as they are, with the blocks.
LEMMA SameRanges ==
  ASSUME LayoutInv, UNCHANGED <<heaps, free, obj, marked, walk, mstack>>
  PROVE  RangesOK'
<1>1. \A r : SlotsOf(r)' <=> SlotsOf(r)
  BY SameBlocksType
<1>2. QED
  BY <1>1 DEF LayoutInv, RangesOK

\* Getters, and a variable that goes out of use.
LEMMA VariableLayout ==
  ASSUME LayoutInv, NEW v \in Vars,
         Drop(v) \/ \E w \in Vars, i \in FieldIndexes : GetField(v, w, i)
  PROVE  LayoutInv'
<1>0. TypeOK /\ StateType
  BY TypeParts DEF LayoutInv
<1>1. UNCHANGED <<heaps, free, obj, marked, phase, teardown, marking, scan, req, freed>>
  BY DEF Drop, GetField
<1>2. var' \in [Vars -> Refs]
  <2>1. CASE Drop(v)
    BY <2>1, <1>0 DEF Drop, StateType, Refs
  <2>2. CASE \E w \in Vars, i \in FieldIndexes : GetField(v, w, i)
    <3>1. PICK w \in Vars, i \in FieldIndexes : GetField(v, w, i)
      BY <2>2
    <3>2. PICK a : a = var[w]
      OBVIOUS
    <3>3. a \in Objects /\ i <= Row(a).len /\ var' = [var EXCEPT ![v] = obj[a].fields[i]]
      BY <3>1, <3>2 DEF GetField
    <3>4. i \in Nat \ {0}
      <4>1. \A k \in Kinds : Types[k].len \in Nat
        BY TypeFacts
      <4>2. QED
        BY <4>1 DEF FieldIndexes
    <3>5. obj[a].fields \in Seq(Refs) /\ Len(obj[a].fields) = Row(a).len /\ Row(a).len \in Nat
      BY <3>3, <1>0, ObjectFacts
    <3>6. obj[a].fields[i] \in Refs
      BY <3>3, <3>4, <3>5
    <3>7. QED
      BY <3>3, <3>6, <1>0 DEF StateType
  <2>3. QED
    BY <2>1, <2>2
<1>3. StateType'
  BY <1>0, <1>1, <1>2 DEF StateType, marking, scan, freed
<1>4. RangesOK'
  BY <1>1, SameRanges DEF marking
<1>5. QED
  BY <1>1, <1>3, <1>4, QuietLayout DEF Scanning

\* Steps that change the contents of one object.
LEMMA ContentsLayout ==
  ASSUME LayoutInv, NEW a \in Objects, NEW N \in [kind : Kinds, fin : Nat, fields : Seq(Refs)],
         N.kind = obj[a].kind, Len(N.fields) = Len(obj[a].fields),
         obj' = [obj EXCEPT ![a] = N], UNCHANGED <<heaps, free, marked, walk, mstack>>
  PROVE  BlocksType' /\ SameBlocks /\ Layout' /\ RangesOK'
         /\ \A b \in Objects : Row(b)' = Row(b)
<1>0. TypeOK /\ Layout /\ BlocksType
  BY TypeParts DEF LayoutInv
<1>1. obj \in [Objects -> [kind : Kinds, fin : Nat, fields : Seq(Refs)]]
  BY <1>0 DEF BlocksType
<1>2. /\ obj' \in [Objects -> [kind : Kinds, fin : Nat, fields : Seq(Refs)]]
      /\ obj'[a] = N /\ \A b \in Objects : b # a => obj'[b] = obj[b]
  BY <1>1
<1>3. Objects' = Objects
  BY <1>2 DEF Objects
<1>4. SameBlocks
  BY <1>2, <1>3 DEF SameBlocks, Objects
<1>5. Layout' /\ \A b \in Objects : Row(b)' = Row(b)
  BY <1>0, <1>4, SameBlocksLayout
<1>6. BlocksType'
  BY <1>0, <1>2, <1>3, <1>5 DEF BlocksType
<1>7. RangesOK'
  <2>1. marked \subseteq Objects
    BY <1>0 DEF BlocksType
  <2>2. \A r : SlotsOf(r) => SlotsOf(r)'
    BY <2>1, <1>5 DEF SlotsOf
  <2>3. QED
    BY <2>2 DEF LayoutInv, RangesOK
<1>8. QED
  BY <1>4, <1>5, <1>6, <1>7

\* What a setter changes.
LEMMA SetFieldObject ==
  ASSUME LayoutInv, NEW v \in Vars, NEW w \in Vars, NEW i \in FieldIndexes, SetField(v, i, w)
  PROVE  /\ var[v] \in Objects /\ i \in 1..Row(var[v]).slots /\ i \in 1..Row(var[v]).len
         /\ \E N \in [kind : Kinds, fin : Nat, fields : Seq(Refs)] :
              /\ N.kind = obj[var[v]].kind /\ N.fin = obj[var[v]].fin
              /\ Len(N.fields) = Len(obj[var[v]].fields)
              /\ N.fields = [obj[var[v]].fields EXCEPT ![i] = var[w]]
              /\ obj' = [obj EXCEPT ![var[v]] = N]
<1>0. TypeOK
  BY DEF LayoutInv
<1>1. PICK a : a = var[v]
  OBVIOUS
<1>2. a \in Objects /\ i <= Row(a).slots /\ obj' = [obj EXCEPT ![a].fields[i] = var[w]]
  BY <1>1 DEF SetField
<1>3. i \in Nat \ {0}
  <2>1. \A k \in Kinds : Types[k].len \in Nat
    BY TypeFacts
  <2>2. QED
    BY <2>1 DEF FieldIndexes
<1>4. /\ obj[a] \in [kind : Kinds, fin : Nat, fields : Seq(Refs)]
      /\ Len(obj[a].fields) = Row(a).len /\ Row(a).slots \in Nat /\ Row(a).len \in Nat
      /\ Row(a).slots <= Row(a).len
  BY <1>0, <1>2, ObjectFacts
<1>5. var[w] \in Refs
  BY <1>0 DEF TypeOK
<1>. DEFINE f == [obj[a].fields EXCEPT ![i] = var[w]]
            N == [obj[a] EXCEPT !.fields = f]
<1>6. f \in Seq(Refs) /\ Len(f) = Len(obj[a].fields)
  <2>1. PICK g : g = obj[a].fields
    OBVIOUS
  <2>2. PICK x : x = var[w]
    OBVIOUS
  <2>3. g \in Seq(Refs) /\ Len(g) \in Nat /\ i \in 1..Len(g) /\ x \in Refs
    BY <2>1, <2>2, <1>2, <1>3, <1>4, <1>5
  <2>4. [g EXCEPT ![i] = x] \in Seq(Refs) /\ Len([g EXCEPT ![i] = x]) = Len(g)
    BY <2>3
  <2>5. QED
    BY <2>1, <2>2, <2>4
<1>7. obj' = [obj EXCEPT ![a] = N]
  BY <1>2
<1>. HIDE DEF f
<1>8. /\ N \in [kind : Kinds, fin : Nat, fields : Seq(Refs)] /\ N.kind = obj[a].kind
      /\ N.fin = obj[a].fin /\ N.fields = f
  BY <1>4, <1>6
<1>. HIDE DEF N
<1>9. i \in 1..Row(a).slots /\ i \in 1..Row(a).len
  BY <1>2, <1>3, <1>4
<1>10. QED
  BY <1>1, <1>2, <1>6, <1>7, <1>8, <1>9 DEF f

\* A setter.
LEMMA SetFieldLayout ==
  ASSUME LayoutInv, NEW v \in Vars, NEW w \in Vars, NEW i \in FieldIndexes, SetField(v, i, w)
  PROVE  LayoutInv'
<1>0. StateType
  BY TypeParts DEF LayoutInv
<1>1. UNCHANGED <<heaps, free, marked, var, phase, teardown, marking, scan, req, freed>>
  BY DEF SetField
<1>2. /\ var[v] \in Objects
      /\ \E N \in [kind : Kinds, fin : Nat, fields : Seq(Refs)] :
           /\ N.kind = obj[var[v]].kind /\ Len(N.fields) = Len(obj[var[v]].fields)
           /\ obj' = [obj EXCEPT ![var[v]] = N]
  BY SetFieldObject, Zenon
<1>3. PICK a : a = var[v]
  OBVIOUS
<1>4. /\ a \in Objects
      /\ \E N \in [kind : Kinds, fin : Nat, fields : Seq(Refs)] :
           /\ N.kind = obj[a].kind /\ Len(N.fields) = Len(obj[a].fields)
           /\ obj' = [obj EXCEPT ![a] = N]
  BY <1>3, <1>2, Zenon
<1>5. BlocksType' /\ SameBlocks /\ Layout' /\ RangesOK'
  BY <1>1, <1>4, ContentsLayout DEF marking
<1>6. StateType'
  BY <1>0, <1>1 DEF StateType, marking, scan, freed
<1>7. AtBlock'
  BY <1>1, <1>5, SameScan DEF Scanning
<1>8. QED
  BY <1>5, <1>6, <1>7, TypeParts DEF LayoutInv

\* The variables that are marked from.
LEMMA LastVarFacts == LastVar \in 1..NumVars
BY HeapAssumption DEF LastVar

\* Steps of the marker that mark nothing.
LEMMA MarkVarLayout == ASSUME LayoutInv, MarkVar PROVE LayoutInv'
<1>0. StateType
  BY TypeParts DEF LayoutInv
<1>1. /\ phase = "mark" /\ look' = var[next] /\ next' = next + 1 /\ next <= LastVar
      /\ UNCHANGED <<heaps, free, obj, marked, var, teardown, req, freed, phase, walk, mstack, scan>>
  BY DEF MarkVar, markUnchanged
<1>2. next \in Vars /\ next' \in 1..(NumVars + 1)
  BY <1>0, <1>1, LastVarFacts, HeapAssumption DEF StateType, Vars
<1>3. look' \in Refs
  BY <1>0, <1>1, <1>2 DEF StateType
<1>4. StateType'
  BY <1>0, <1>1, <1>2, <1>3 DEF StateType, scan, freed
<1>5. RangesOK'
  BY <1>1, SameRanges
<1>6. QED
  BY <1>1, <1>4, <1>5, QuietLayout DEF Scanning

\* The slot that the marker looks at next.
LEMMA WalkSlot ==
  ASSUME LayoutInv, MarkWalk
  PROVE  /\ walk.obj \in marked /\ walk.obj \in Objects /\ walk.from \in 1..Row(walk.obj).slots
         /\ walk.to <= Row(walk.obj).slots
         /\ obj[walk.obj].fields[walk.from] \in Refs
<1>0. TypeOK
  BY DEF LayoutInv
<1>1. walk \in Ranges /\ marked \subseteq Objects
  BY <1>0 DEF TypeOK
<1>2. walk.from \in Nat /\ walk.to \in Nat
  BY <1>1 DEF Ranges
<1>3. walk.obj \in marked /\ 1 <= walk.from /\ walk.to <= Row(walk.obj).slots /\ walk.from < walk.to
  BY DEF LayoutInv, RangesOK, SlotsOf, MarkWalk
<1>4. walk.obj \in Objects
  BY <1>1, <1>3
<1>5. PICK a : a = walk.obj
  OBVIOUS
<1>6. /\ Row(a).slots \in Nat /\ Row(a).len \in Nat /\ Row(a).slots <= Row(a).len
      /\ obj[a].fields \in Seq(Refs) /\ Len(obj[a].fields) = Row(a).len
  BY <1>0, <1>4, <1>5, ObjectFacts
<1>7. walk.from \in 1..Row(a).slots /\ walk.from \in 1..Row(a).len
  BY <1>2, <1>3, <1>5, <1>6
<1>8. obj[a].fields[walk.from] \in Refs
  BY <1>6, <1>7
<1>9. QED
  BY <1>3, <1>4, <1>5, <1>7, <1>8

\* The marker looks at the next slot of its range.
LEMMA MarkWalkLayout == ASSUME LayoutInv, MarkWalk PROVE LayoutInv'
<1>0. StateType /\ RangesOK
  BY TypeParts DEF LayoutInv
<1>1. /\ phase = "mark" /\ look' = obj[walk.obj].fields[walk.from]
      /\ walk' = [walk EXCEPT !.from = @ + 1]
      /\ UNCHANGED <<heaps, free, obj, marked, var, teardown, req, freed, phase, next, mstack, scan>>
  BY DEF MarkWalk, markUnchanged
<1>2. look' \in Refs
  BY <1>1, WalkSlot
<1>3. /\ walk' \in Ranges /\ walk'.obj = walk.obj /\ walk'.to = walk.to /\ walk'.from = walk.from + 1
      /\ walk.from \in Nat /\ walk.to \in Nat
  BY <1>0, <1>1 DEF StateType, Ranges
<1>4. StateType'
  BY <1>0, <1>1, <1>2, <1>3 DEF StateType, scan, freed
<1>5. RangesOK'
  <2>1. \A r : SlotsOf(r)' <=> SlotsOf(r)
    BY <1>1, SameBlocksType
  <2>2. SlotsOf(walk)'
    <3>1. PICK w : w = walk'
      OBVIOUS
    <3>2. SlotsOf(w)
      <4>1. w.obj \in marked /\ 1 <= w.from /\ w.to <= Row(w.obj).slots
        BY <3>1, <1>3, WalkSlot
      <4>2. QED
        BY <4>1 DEF SlotsOf
    <3>3. SlotsOf(w)'
      BY <3>2, <2>1
    <3>4. QED
      BY <3>1, <3>3 DEF SlotsOf
  <2>3. \A i \in DOMAIN mstack : SlotsOf(mstack[i])'
    BY <2>1, <1>0, <1>1 DEF RangesOK, SlotsOf
  <2>4. QED
    BY <2>2, <2>3, <1>1 DEF RangesOK
<1>6. QED
  BY <1>1, <1>4, <1>5, QuietLayout DEF Scanning

\* The marker takes the next range.
LEMMA MarkPopLayout == ASSUME LayoutInv, MarkPop PROVE LayoutInv'
<1>0. StateType /\ RangesOK
  BY TypeParts DEF LayoutInv
<1>1. /\ phase = "mark" /\ mstack # <<>> /\ walk' = Last(mstack) /\ mstack' = Front(mstack)
      /\ UNCHANGED <<heaps, free, obj, marked, var, teardown, req, freed, phase, next, look, scan>>
  BY DEF MarkPop, markUnchanged
<1>9. mstack \in Seq(Ranges)
  BY <1>0 DEF StateType
<1>2. /\ Front(mstack) \in Seq(Ranges) /\ Len(Front(mstack)) = Len(mstack) - 1
      /\ Len(mstack) \in Nat \ {0}
      /\ \A i \in 1..(Len(mstack) - 1) : Front(mstack)[i] = mstack[i]
      /\ Last(mstack) = mstack[Len(mstack)] /\ Last(mstack) \in Ranges
  BY <1>1, <1>9, FrontCells
<1>3. walk' \in Ranges /\ mstack' \in Seq(Ranges)
  BY <1>1, <1>2
<1>4. StateType'
  BY <1>0, <1>1, <1>3 DEF StateType, scan, freed
<1>5. RangesOK'
  <2>0. UNCHANGED <<obj, marked>> /\ \A a : Row(a)' = Row(a)
    BY <1>1 DEF Row
  <2>1. Len(mstack) \in DOMAIN mstack /\ DOMAIN mstack = 1..Len(mstack)
    BY <1>2, <1>9
  <2>2. SlotsOf(mstack[Len(mstack)])
    BY <2>1, <1>0 DEF RangesOK
  <2>3. SlotsOf(walk)'
    BY <2>0, <2>2, <1>1, <1>2 DEF SlotsOf
  <2>4. \A i \in DOMAIN mstack' : i \in DOMAIN mstack /\ mstack'[i] = mstack[i]
    <3>1. DOMAIN mstack' = 1..(Len(mstack) - 1)
      BY <1>1, <1>2, <1>3
    <3>2. QED
      BY <3>1, <2>1, <1>1, <1>2
  <2>5. \A i \in DOMAIN mstack' : SlotsOf(mstack[i])'
    BY <2>0, <2>4, <1>0 DEF RangesOK, SlotsOf
  <2>6. QED
    BY <2>3, <2>5 DEF RangesOK
<1>6. QED
  BY <1>1, <1>4, <1>5, QuietLayout DEF Scanning

\* sexp_mark_one has nothing to go on with, or goes on with slot q.
MarkEnds ==
  /\ look \in marked \/ Row(look).slots = 0
  /\ look' = Nil /\ mstack' = mstack
MarkGoesOn(q) ==
  /\ look \notin marked /\ Row(look).slots \in Nat \ {0} /\ q \in 1..Row(look).slots
  /\ look' = obj[look].fields[q] /\ look' \in Refs
  /\ mstack' = IF q > 1 THEN Append(mstack, [obj |-> look, from |-> 1, to |-> q]) ELSE mstack
  /\ \A i \in (q + 1)..Row(look).slots :
       obj[look].fields[i] \in marked \cup {look, Nil, look'}

\* These are the steps of sexp_mark_one.
LEMMA MarkOneStep ==
  ASSUME LayoutInv, MarkOne
  PROVE  /\ look \in Objects /\ look \in Nat /\ marked' = marked \cup {look}
         /\ MarkEnds \/ \E q : MarkGoesOn(q)
<1>0. TypeOK
  BY DEF LayoutInv
<1>1. look \in Objects /\ marked' = marked \cup {look} /\ look \in Nat
  BY <1>0 DEF MarkOne, TypeOK
<1>2. CASE look \in marked \/ Row(look).slots = 0
  BY <1>1, <1>2 DEF MarkOne, MarkEnds
<1>3. CASE ~(look \in marked \/ Row(look).slots = 0)
  <2>1. PICK x : x = look
    OBVIOUS
  <2>2. PICK f : f = obj[x].fields
    OBVIOUS
  <2>3. /\ Row(x).slots \in Nat \ {0} /\ Row(x).slots <= Row(x).len /\ Row(x).len \in Nat
        /\ f \in Seq(Refs) /\ Len(f) = Row(x).len
    BY <2>1, <2>2, <1>0, <1>1, <1>3, ObjectFacts
  <2>4. PICK n : n = Row(x).slots
    OBVIOUS
  <2>5. PICK m : m = marked \cup {x}
    OBVIOUS
  <2>6. PICK q : q = FirstRepeat(f, LastUnmarked(f, n, m))
    OBVIOUS
  <2>7. q \in 1..n /\ \A i \in (q + 1)..n : f[i] \in m \cup {Nil, f[q]}
    <3>1. n \in Nat \ {0}
      BY <2>3, <2>4
    <3>2. QED
      BY <3>1, <2>6, LastSlot
  <2>8. /\ mstack' = IF q > 1 THEN Append(mstack, [obj |-> look, from |-> 1, to |-> q]) ELSE mstack
        /\ look' = f[q]
    BY <2>1, <2>2, <2>4, <2>5, <2>6, <1>3 DEF MarkOne
  <2>9. f[q] \in Refs
    BY <2>3, <2>4, <2>7
  <2>10. MarkGoesOn(q)
    BY <2>1, <2>2, <2>3, <2>4, <2>5, <2>7, <2>8, <2>9, <1>3 DEF MarkGoesOn
  <2>11. QED
    BY <2>10, <1>1
<1>4. QED
  BY <1>2, <1>3

\* The ranges on the stack after a step of sexp_mark_one.
LEMMA MarkOneStack ==
  ASSUME LayoutInv, look \in Nat, NEW q, MarkGoesOn(q)
  PROVE  /\ mstack' \in Seq(Ranges)
         /\ \A r \in Ranges : (\E i \in DOMAIN mstack : mstack[i] = r) => (\E i \in DOMAIN mstack' : mstack'[i] = r)
         /\ \A i \in DOMAIN mstack' : (\E j \in DOMAIN mstack : mstack'[i] = mstack[j])
              \/ (q > 1 /\ mstack'[i] = [obj |-> look, from |-> 1, to |-> q])
         /\ q > 1 => \E i \in DOMAIN mstack' : mstack'[i] = [obj |-> look, from |-> 1, to |-> q]
<1>0. mstack \in Seq(Ranges)
  BY DEF LayoutInv, TypeOK
<1>1. CASE q > 1
  <2>1. PICK r : r = [obj |-> look, from |-> 1, to |-> q]
    OBVIOUS
  <2>2. q \in Nat
    BY DEF MarkGoesOn
  <2>3. r \in Ranges
    BY <2>1, <2>2 DEF Ranges
  <2>4. mstack' = Append(mstack, r)
    BY <2>1, <1>1 DEF MarkGoesOn
  <2>5. /\ mstack' \in Seq(Ranges) /\ Len(mstack') = Len(mstack) + 1 /\ Len(mstack) \in Nat
        /\ \A i \in 1..Len(mstack) : mstack'[i] = mstack[i]
        /\ mstack'[Len(mstack) + 1] = r
    BY <2>3, <2>4, <1>0, AppendCells
  <2>6. DOMAIN mstack = 1..Len(mstack) /\ DOMAIN mstack' = 1..(Len(mstack) + 1)
    BY <2>5, <1>0
  <2>7. \A i \in DOMAIN mstack : i \in DOMAIN mstack' /\ mstack'[i] = mstack[i]
    BY <2>5, <2>6
  <2>8. \A i \in DOMAIN mstack' : i \in DOMAIN mstack \/ i = Len(mstack) + 1
    BY <2>5, <2>6
  <2>9. Len(mstack) + 1 \in DOMAIN mstack'
    BY <2>5, <2>6
  <2>10. QED
    BY <2>1, <2>5, <2>7, <2>8, <2>9, <1>1
<1>2. CASE ~(q > 1)
  <2>1. mstack' = mstack
    BY <1>2 DEF MarkGoesOn
  <2>2. QED
    BY <2>1, <1>0, <1>2
<1>3. QED
  BY <1>1, <1>2

\* A step of sexp_mark_one.
LEMMA MarkOneLayout == ASSUME LayoutInv, MarkOne PROVE LayoutInv'
<1>0. StateType /\ BlocksType /\ RangesOK
  BY TypeParts DEF LayoutInv
<1>1. /\ phase = "mark"
      /\ UNCHANGED <<heaps, free, obj, var, teardown, req, freed, phase, next, walk, scan>>
  BY DEF MarkOne, markUnchanged
<1>2. /\ look \in Objects /\ look \in Nat /\ marked' = marked \cup {look}
      /\ MarkEnds \/ \E q : MarkGoesOn(q)
  BY MarkOneStep
<1>3. SameBlocks
  BY <1>1 DEF SameBlocks
<1>4. Layout' /\ AtBlock'
  BY <1>1, <1>3, SameBlocksLayout, SameScan DEF LayoutInv, Scanning
<1>5. Objects' = Objects /\ \A a : Row(a)' = Row(a)
  BY <1>1 DEF Objects, Row
<1>6. BlocksType'
  BY <1>0, <1>1, <1>2, <1>5 DEF BlocksType
<1>7. \A r : SlotsOf(r) => SlotsOf(r)'
  BY <1>2, <1>5 DEF SlotsOf
<1>8. SlotsOf(walk)'
  BY <1>0, <1>1, <1>2, <1>5 DEF SlotsOf, RangesOK
<1>9. StateType' /\ RangesOK'
  <2>1. CASE MarkEnds
    <3>1. look' \in Refs /\ mstack' = mstack
      BY <2>1 DEF MarkEnds, Refs
    <3>2. StateType'
      BY <3>1, <1>0, <1>1 DEF StateType, scan, freed
    <3>3. \A i \in DOMAIN mstack : SlotsOf(mstack[i])'
      BY <3>1, <1>0, <1>2, <1>5 DEF RangesOK, SlotsOf
    <3>4. QED
      BY <3>1, <3>2, <3>3, <1>8 DEF RangesOK
  <2>2. CASE \E q : MarkGoesOn(q)
    <3>1. PICK q : MarkGoesOn(q)
      BY <2>2
    <3>2. /\ mstack' \in Seq(Ranges)
          /\ \A i \in DOMAIN mstack' : (\E j \in DOMAIN mstack : mstack'[i] = mstack[j])
               \/ (q > 1 /\ mstack'[i] = [obj |-> look, from |-> 1, to |-> q])
      BY <3>1, <1>2, MarkOneStack
    <3>3. look' \in Refs /\ q \in 1..Row(look).slots /\ Row(look).slots \in Nat
      BY <3>1 DEF MarkGoesOn
    <3>4. StateType'
      BY <3>2, <3>3, <1>0, <1>1 DEF StateType, scan, freed
    <3>5. ASSUME NEW i \in DOMAIN mstack' PROVE SlotsOf(mstack[i])'
      <4>1. PICK r : r = mstack'[i]
        OBVIOUS
      <4>2. CASE \E j \in DOMAIN mstack : r = mstack[j]
        <5>1. SlotsOf(r)
          BY <4>2, <1>0 DEF RangesOK, SlotsOf
        <5>2. QED
          BY <5>1, <4>1, <1>2, <1>5 DEF SlotsOf
      <4>3. CASE r = [obj |-> look, from |-> 1, to |-> q]
        <5>1. r.obj = look /\ r.from = 1 /\ r.to = q
          BY <4>3
        <5>2. QED
          BY <5>1, <4>1, <3>3, <1>2, <1>5 DEF SlotsOf
      <4>4. QED
        BY <4>1, <4>2, <4>3, <3>2
    <3>6. QED
      BY <3>4, <3>5, <1>8 DEF RangesOK
  <2>3. QED
    BY <2>1, <2>2, <1>2
<1>10. QED
  BY <1>4, <1>6, <1>9, TypeParts DEF LayoutInv

\* Marking ends.
LEMMA MarkDoneLayout == ASSUME LayoutInv, MarkDone PROVE LayoutInv'
<1>0. StateType
  BY TypeParts DEF LayoutInv
<1>1. /\ phase' \in {"finalize", "weak"} /\ next' = 1 /\ walk' = NoRange /\ Rescan
      /\ look = Nil /\ mstack = <<>>
      /\ UNCHANGED <<heaps, free, obj, marked, var, teardown, req, freed, look, mstack>>
  BY DEF MarkDone, markUnchanged
<1>2. BlocksType' /\ SameBlocks /\ Layout'
  BY <1>1, SameBlocksType
<1>3. AtBlock' /\ hi' \in DOMAIN heaps /\ p' \in Nat
  BY <1>1, <1>2, ScanStart
<1>4. NoRange \in Ranges /\ 1 \in 1..(NumVars + 1)
  BY HeapAssumption DEF NoRange, Ranges
<1>5. StateType'
  BY <1>0, <1>1, <1>3, <1>4 DEF StateType, freed
<1>6. RangesOK'
  BY <1>1 DEF RangesOK, SlotsOf, NoRange
<1>7. QED
  BY <1>2, <1>3, <1>5, <1>6, TypeParts DEF LayoutInv

\* Outside marking there are no ranges.
LEMMA NoRanges ==
  ASSUME walk' = NoRange, mstack' = <<>>
  PROVE  RangesOK'
BY DEF RangesOK, SlotsOf, NoRange

\* Steps of a scan that change no object.
LEMMA ScanSkipLayout == ASSUME LayoutInv, ScanSkip \/ ScanHeap PROVE LayoutInv'
<1>0. StateType
  BY TypeParts DEF LayoutInv
<1>1. Scanning /\ UNCHANGED <<heaps, free, obj, marked, var, phase, teardown, marking, req, freed>>
  BY DEF ScanSkip, ScanHeap
<1>2. BlocksType' /\ SameBlocks /\ Layout'
  BY <1>1, SameBlocksType
<1>3. /\ hi' \in DOMAIN heaps /\ p' \in Nat /\ p' \in FirstBlock(hi')..End(hi') /\ p <= p'
      /\ \A a \in Objects : a + Row(a).size <= p \/ p' <= a
  BY ScanMoves
<1>4. StateType'
  BY <1>0, <1>1, <1>3 DEF StateType, marking, freed
<1>5. AtBlock'
  <2>1. Objects' = Objects /\ \A a : Row(a)' = Row(a)
    BY <1>1 DEF Objects, Row
  <2>2. FirstBlock(hi)' = FirstBlock(hi') /\ End(hi)' = End(hi')
    BY <1>1 DEF FirstBlock, End
  <2>3. ScanInside'
    BY <2>2, <1>3 DEF ScanInside
  <2>4. ASSUME NEW a \in Objects PROVE a + Row(a).size <= p' \/ p' <= a
    <3>1. a \in Nat /\ Row(a).size \in Nat /\ p \in Nat
      BY <1>0, ObjectFacts DEF LayoutInv, StateType
    <3>2. QED
      BY <3>1, <1>3
  <2>5. QED
    BY <2>1, <2>3, <2>4 DEF AtBlock
<1>6. RangesOK'
  BY <1>1, SameRanges DEF marking
<1>7. QED
  BY <1>2, <1>4, <1>5, <1>6, TypeParts DEF LayoutInv

\* A scan passes an object: p is behind it and before the next.
LEMMA PassObject ==
  ASSUME LayoutInv, Scanning, AtObject, SameBlocks, hi' = hi, p' = p + Row(p).size
  PROVE  /\ AtBlock' /\ p' \in Nat
         /\ \A a \in Objects : a < p' <=> a < p \/ a = p
<1>0. TypeOK
  BY DEF LayoutInv
<1>1. /\ p \in Objects /\ hi \in DOMAIN heaps
      /\ FirstBlock(hi) <= p /\ p + Row(p).size <= End(hi)
      /\ \A a \in Objects : a + Row(a).size <= p \/ a = p \/ p + Row(p).size <= a
  BY ScanObject
<1>2. p \in Nat /\ Row(p).size \in Nat \ {0} /\ p' \in Nat
  BY <1>0, <1>1, ObjectFacts
<1>3. Objects' = Objects /\ \A a \in Objects : Row(a)' = Row(a)
  BY DEF SameBlocks, Objects, Row
<1>4. FirstBlock(hi)' = FirstBlock(hi) /\ End(hi)' = End(hi)
  BY DEF SameBlocks, FirstBlock, End
<1>5. FirstBlock(hi) \in Nat /\ End(hi) \in Nat
  BY <1>0, <1>1, HeapFacts
<1>6. ScanInside'
  <2>1. p' \in FirstBlock(hi)..End(hi)
    BY <1>1, <1>2, <1>5
  <2>2. QED
    BY <2>1, <1>4 DEF ScanInside
<1>7. ASSUME NEW a \in Objects
      PROVE  (a + Row(a).size <= p' \/ p' <= a) /\ (a < p' <=> a < p \/ a = p)
  <2>1. a \in Nat /\ Row(a).size \in Nat \ {0}
    BY <1>0, ObjectFacts
  <2>2. CASE a = p
    BY <2>2, <1>2
  <2>3. CASE a # p
    BY <2>1, <2>3, <1>1, <1>2
  <2>4. QED
    BY <2>2, <2>3
<1>8. \A a \in Objects' : a + Row(a)'.size <= p' \/ p' <= a
  BY <1>3, <1>7
<1>9. AtBlock'
  BY <1>6, <1>8 DEF AtBlock
<1>10. QED
  BY <1>2, <1>7, <1>9

\* The fields that sexp_reset_weak_references leaves.
LEMMA ResetType ==
  ASSUME TypeOK, NEW a \in Objects
  PROVE  /\ ResetWeak(a) \in Seq(Refs) /\ Len(ResetWeak(a)) = Row(a).len
         /\ \A i \in 1..Row(a).len : ResetWeak(a)[i] \in {obj[a].fields[i], Nil}
<1>. DEFINE f == obj[a].fields
            r == Row(a)
            gone == {i \in 1..r.weak : f[i] # Nil /\ f[i] \notin marked}
            reset == gone \cup IF gone = 1..r.weak THEN r.weak + 1 .. r.weak + r.extra ELSE {}
            g == [i \in 1..r.len |-> IF i \in reset THEN Nil ELSE f[i]]
<1>1. ResetWeak(a) = g
  BY DEF ResetWeak
<1>2. f \in Seq(Refs) /\ Len(f) = r.len /\ r.len \in Nat
  BY ObjectFacts
<1>. HIDE DEF reset, f, r
<1>6. Nil \in Refs /\ \A i \in 1..r.len : f[i] \in Refs
  <2>1. \A i \in 1..Len(f) : f[i] \in Refs
    BY <1>2
  <2>2. QED
    BY <2>1, <1>2 DEF Refs
<1>3. \A i \in 1..r.len : g[i] \in {f[i], Nil} /\ g[i] \in Refs
  BY <1>6
<1>4. g \in Seq(Refs) /\ Len(g) = r.len
  BY <1>2, <1>3
<1>5. QED
  BY <1>1, <1>3, <1>4 DEF f, r

\* The passes over weak references and finalizers change the object they are
\* at, or nothing.
LEMMA PassContents ==
  ASSUME LayoutInv, WeakObject \/ FinalizeObject
  PROVE  /\ Scanning /\ AtObject /\ hi' = hi /\ p' = p + Row(p).size
         /\ BlocksType' /\ SameBlocks /\ Layout' /\ RangesOK'
<1>0. TypeOK
  BY DEF LayoutInv
<1>1. /\ Scanning /\ AtObject /\ p' = p + Row(p).size
      /\ UNCHANGED <<heaps, free, marked, var, phase, teardown, marking, hi, req, freed>>
  BY DEF WeakObject, FinalizeObject, Scanning
<1>2. p \in Objects
  BY <1>1 DEF AtObject
<1>3. CASE obj' = obj
  <2>1. RangesOK'
    BY <1>1, <1>3, SameRanges DEF marking
  <2>2. BlocksType' /\ SameBlocks /\ Layout'
    BY <1>1, <1>3, SameBlocksType
  <2>3. QED
    BY <2>1, <2>2, <1>1
<1>4. CASE \E N \in [kind : Kinds, fin : Nat, fields : Seq(Refs)] :
             N.kind = obj[p].kind /\ Len(N.fields) = Len(obj[p].fields) /\ obj' = [obj EXCEPT ![p] = N]
  <2>1. PICK a : a = p
    OBVIOUS
  <2>2. a \in Objects
    BY <2>1, <1>2
  <2>3. BlocksType' /\ SameBlocks /\ Layout' /\ RangesOK'
    BY <2>1, <2>2, <1>1, <1>4, ContentsLayout DEF marking
  <2>4. QED
    BY <2>3, <1>1
<1>5. obj[p] \in [kind : Kinds, fin : Nat, fields : Seq(Refs)] /\ Len(obj[p].fields) = Row(p).len
  BY <1>0, <1>2, ObjectFacts
<1>6. CASE obj' = [obj EXCEPT ![p].fields = ResetWeak(p)]
  <2>1. PICK g : g = ResetWeak(p)
    OBVIOUS
  <2>2. g \in Seq(Refs) /\ Len(g) = Row(p).len
    BY <2>1, <1>0, <1>2, ResetType
  <2>3. PICK N : N = [obj[p] EXCEPT !.fields = g]
    OBVIOUS
  <2>4. N \in [kind : Kinds, fin : Nat, fields : Seq(Refs)] /\ N.kind = obj[p].kind /\ N.fields = g
    BY <2>2, <2>3, <1>5
  <2>5. obj' = [obj EXCEPT ![p] = N]
    BY <2>1, <2>3, <1>6
  <2>6. QED
    BY <2>2, <2>4, <2>5, <1>4, <1>5
<1>7. CASE obj' = [obj EXCEPT ![p].fin = @ + 1]
  <2>1. PICK N : N = [obj[p] EXCEPT !.fin = @ + 1]
    OBVIOUS
  <2>2. N \in [kind : Kinds, fin : Nat, fields : Seq(Refs)] /\ N.kind = obj[p].kind /\ N.fields = obj[p].fields
    BY <2>1, <1>5
  <2>3. obj' = [obj EXCEPT ![p] = N]
    BY <2>1, <1>7
  <2>4. QED
    BY <2>2, <2>3, <1>4, <1>5
<1>8. QED
  BY <1>3, <1>6, <1>7 DEF WeakObject, FinalizeObject

\* Those passes.
LEMMA PassLayout == ASSUME LayoutInv, WeakObject \/ FinalizeObject PROVE LayoutInv'
<1>0. StateType
  BY TypeParts DEF LayoutInv
<1>1. /\ Scanning /\ AtObject /\ hi' = hi /\ p' = p + Row(p).size
      /\ BlocksType' /\ SameBlocks /\ Layout' /\ RangesOK'
  BY PassContents
<1>2. AtBlock' /\ p' \in Nat
  BY <1>1, PassObject
<1>3. StateType'
  <2>1. UNCHANGED <<heaps, var, phase, teardown, marking, hi, req, freed>>
    BY DEF WeakObject, FinalizeObject
  <2>2. QED
    BY <2>1, <1>0, <1>2 DEF StateType, marking, freed
<1>4. QED
  BY <1>1, <1>2, <1>3, TypeParts DEF LayoutInv

\* One scan ends, and the next begins or the collector is done.
LEMMA DoneLayout == ASSUME LayoutInv, WeakDone \/ FinalizeDone \/ SweepDone PROVE LayoutInv'
<1>0. StateType
  BY TypeParts DEF LayoutInv
<1>1. /\ Rescan /\ phase' \in {"finalize", "dead", "sweep", "run", "retry"} /\ phase # "mark"
      /\ UNCHANGED <<heaps, free, obj, marked, var, marking, req>>
      /\ phase' = "retry" => req # NoReq
      /\ teardown' \in 0..2 /\ maxFreed' \in Nat /\ sumFreed' \in Nat
  BY <1>0 DEF WeakDone, FinalizeDone, SweepDone, ScanEnds, StateType, freed
<1>2. BlocksType' /\ SameBlocks /\ Layout'
  BY <1>1, SameBlocksType
<1>3. AtBlock' /\ hi' \in DOMAIN heaps /\ p' \in Nat
  BY <1>1, <1>2, ScanStart
<1>4. StateType'
  BY <1>0, <1>1, <1>3 DEF StateType, marking
<1>5. RangesOK'
  BY <1>1, SameRanges DEF marking
<1>6. QED
  BY <1>2, <1>3, <1>4, <1>5, TypeParts DEF LayoutInv

\* sexp_sweep frees the object that it is at.
LEMMA SweepFrees ==
  ASSUME LayoutInv, SweepObject, p \notin marked
  PROVE  /\ BlocksType' /\ Layout' /\ AtBlock' /\ p' \in Nat
         /\ Objects' = Objects \ {p} /\ \A a \in Objects \ {p} : obj'[a] = obj[a] /\ Row(a)' = Row(a)
         /\ \A a \in Objects \ {p} : a < p' <=> a < p
         /\ sumFreed' \in Nat /\ maxFreed' \in Nat
<1>0. TypeOK /\ BlocksType /\ StateType /\ Layout
  BY TypeParts DEF LayoutInv
<1>1. Scanning /\ AtObject
  BY DEF SweepObject, Scanning
<1>2. /\ p \in Objects /\ hi \in DOMAIN heaps
      /\ FirstBlock(hi) <= p /\ p + Row(p).size <= End(hi)
  BY <1>1, ScanObject
<1>3. PICK x : x = p
  OBVIOUS
<1>4. PICK h : h = hi
  OBVIOUS
<1>5. x \in Objects /\ h \in DOMAIN heaps /\ FirstBlock(h) <= x /\ x + Row(x).size <= End(h)
  BY <1>2, <1>3, <1>4
<1>. DEFINE b == FreeBlock(h, x, Row(x).size)
<1>6. /\ heaps' = heaps /\ free' = [free EXCEPT ![h] = b.list]
      /\ obj' = [a \in Objects \ {x} |-> obj[a]]
      /\ sumFreed' = sumFreed + Row(x).size
      /\ maxFreed' = IF b.chunk.size > maxFreed THEN b.chunk.size ELSE maxFreed
      /\ p' = b.skip /\ marked' = marked /\ hi' = h
  BY <1>3, <1>4 DEF SweepObject
<1>7. /\ Layout' /\ \A a \in Objects \ {x} : Row(a)' = Row(a)
      /\ b.list \in Seq(Chunks) /\ b.chunk.size \in Nat /\ b.skip \in Nat
      /\ x + Row(x).size <= b.skip /\ b.skip <= End(h)
      /\ \A a \in Objects \ {x} : a + Row(a).size <= x \/ b.skip <= a
  BY <1>0, <1>5, <1>6, FreeLayout
<1>. HIDE DEF b
<1>8. Objects' = Objects \ {x} /\ \A a \in Objects \ {x} : obj'[a] = obj[a]
  BY <1>6 DEF Objects
<1>9. free' \in Seq(Seq(Chunks)) /\ Len(free') = Len(free)
  <2>1. free \in Seq(Seq(Chunks)) /\ h \in DOMAIN free
    BY <1>0, <1>5, HeapFacts DEF TypeOK
  <2>2. QED
    BY <2>1, <1>6, <1>7
<1>10. obj' \in [Objects' -> [kind : Kinds, fin : Nat, fields : Seq(Refs)]]
  BY <1>0, <1>6, <1>8 DEF BlocksType
<1>11. marked' \subseteq Objects'
  BY <1>0, <1>3, <1>6, <1>8 DEF BlocksType
<1>12. \A a \in Objects' : Len(obj'[a].fields) = Row(a)'.len
  BY <1>0, <1>7, <1>8 DEF BlocksType
<1>13. BlocksType'
  BY <1>0, <1>6, <1>8, <1>9, <1>10, <1>11, <1>12 DEF BlocksType
<1>14. /\ x \in Nat /\ Row(x).size \in Nat \ {0} /\ FirstBlock(h) \in Nat /\ End(h) \in Nat
       /\ maxFreed \in Nat /\ sumFreed \in Nat
  BY <1>0, <1>5, ObjectFacts, HeapFacts DEF TypeOK
<1>15. sumFreed' \in Nat /\ maxFreed' \in Nat
  BY <1>6, <1>7, <1>14
<1>16. ScanInside'
  <2>1. p' \in FirstBlock(h)..End(h)
    BY <1>5, <1>6, <1>7, <1>14
  <2>2. FirstBlock(hi)' = FirstBlock(h) /\ End(hi)' = End(h)
    BY <1>6 DEF FirstBlock, End
  <2>3. QED
    BY <2>1, <2>2 DEF ScanInside
<1>17. ASSUME NEW a \in Objects \ {x}
       PROVE  (a + Row(a).size <= p' \/ p' <= a) /\ (a < p' <=> a < x)
  <2>1. a \in Nat /\ Row(a).size \in Nat \ {0}
    BY <1>0, ObjectFacts
  <2>2. a + Row(a).size <= x \/ b.skip <= a
    BY <1>7
  <2>3. p' = b.skip /\ b.skip \in Nat /\ x + Row(x).size <= b.skip
    BY <1>6, <1>7
  <2>4. QED
    BY <2>1, <2>2, <2>3, <1>14
<1>18. AtBlock'
  BY <1>7, <1>8, <1>16, <1>17 DEF AtBlock
<1>19. p' \in Nat
  BY <1>6, <1>7
<1>20. QED
  BY <1>3, <1>7, <1>8, <1>13, <1>15, <1>17, <1>18, <1>19

\* A step of sexp_sweep.
LEMMA SweepLayout == ASSUME LayoutInv, SweepObject PROVE LayoutInv'
<1>0. TypeOK /\ BlocksType /\ StateType /\ Layout
  BY TypeParts DEF LayoutInv
<1>1. /\ phase = "sweep" /\ Scanning /\ AtObject
      /\ UNCHANGED <<heaps, var, phase, teardown, marking, hi, req>>
  BY DEF SweepObject, Scanning
<1>2. RangesOK'
  BY <1>0, <1>1, NoRanges DEF StateType, marking
<1>3. CASE p \in marked
  <2>1. marked' = marked \ {p} /\ p' = p + Row(p).size /\ UNCHANGED <<free, obj, freed>>
    BY <1>3 DEF SweepObject
  <2>2. SameBlocks
    BY <2>1, <1>1 DEF SameBlocks
  <2>3. AtBlock' /\ p' \in Nat
    BY <2>1, <2>2, <1>1, PassObject
  <2>4. Layout'
    BY <2>2, <1>0, SameBlocksLayout
  <2>5. Objects' = Objects /\ \A a : Row(a)' = Row(a)
    BY <2>1 DEF Objects, Row
  <2>6. BlocksType'
    BY <2>1, <2>5, <1>0, <1>1 DEF BlocksType
  <2>7. StateType'
    BY <2>1, <2>3, <1>0, <1>1 DEF StateType, marking, freed
  <2>8. QED
    BY <2>3, <2>4, <2>6, <2>7, <1>2, TypeParts DEF LayoutInv
<1>4. CASE p \notin marked
  <2>1. BlocksType' /\ Layout' /\ AtBlock' /\ p' \in Nat /\ sumFreed' \in Nat /\ maxFreed' \in Nat
    BY <1>4, SweepFrees
  <2>2. StateType'
    BY <2>1, <1>0, <1>1 DEF StateType, marking
  <2>3. QED
    BY <2>1, <2>2, <1>2, TypeParts DEF LayoutInv
<1>5. QED
  BY <1>3, <1>4

\* sexp_grow_heap, or no growth.
LEMMA GrowStep == ASSUME LayoutInv, Grow \/ DontGrow PROVE LayoutInv'
<1>0. TypeOK /\ BlocksType /\ StateType /\ Layout
  BY TypeParts DEF LayoutInv
<1>1. /\ phase = "retry" /\ phase' = "again"
      /\ UNCHANGED <<obj, marked, var, teardown, marking, scan, req, freed>>
  BY DEF Grow, DontGrow
<1>2. CASE DontGrow
  <2>1. UNCHANGED <<heaps, free>>
    BY <1>2 DEF DontGrow
  <2>2. StateType'
    BY <2>1, <1>0, <1>1 DEF StateType, marking, scan, freed
  <2>3. RangesOK'
    BY <2>1, <1>1, SameRanges DEF marking
  <2>4. QED
    BY <2>1, <2>2, <2>3, <1>1, QuietLayout DEF Scanning
<1>3. CASE Grow
  <2>1. req.kind \in Kinds
    BY <1>0, <1>1 DEF StateType
  <2>2. PICK n : n = 2 * Max({heaps[Len(heaps)].size, Types[req.kind].size})
    OBVIOUS
  <2>3. n \in Nat /\ n >= 2 /\ Len(heaps) \in DOMAIN heaps
    BY <2>1, <2>2, <1>0, GrowSize
  <2>4. GrowsBy(n)
    <3>1. /\ heaps' = Append(heaps, MakeHeap(End(Len(heaps)) + 1, n))
          /\ free' = Append(free, <<Chunk(End(Len(heaps)) + 1 + 1, n - 1)>>)
      BY <2>2, <1>3 DEF Grow
    <3>2. End(Len(heaps)) \in Nat
      BY <2>3, <1>0, HeapFacts
    <3>3. End(Len(heaps)) + 1 + 1 = End(Len(heaps)) + 2
      BY <3>2
    <3>4. QED
      BY <3>1, <3>3, <1>1 DEF GrowsBy
  <2>5. /\ Layout' /\ heaps' \in Seq([base : Nat, size : Nat]) /\ heaps' # <<>>
        /\ free' \in Seq(Seq(Chunks)) /\ Len(free') = Len(heaps')
        /\ DOMAIN heaps \subseteq DOMAIN heaps'
        /\ \A h \in DOMAIN heaps : FirstBlock(h)' = FirstBlock(h) /\ End(h)' = End(h)
    BY <2>3, <2>4, <1>0, GrowLayout
  <2>6. Objects' = Objects /\ \A a : Row(a)' = Row(a)
    BY <1>1 DEF Objects, Row
  <2>7. BlocksType'
    BY <2>5, <2>6, <1>0, <1>1 DEF BlocksType
  <2>8. StateType'
    BY <2>5, <1>0, <1>1 DEF StateType, marking, scan, freed
  <2>9. AtBlock'
    <3>1. hi' = hi /\ p' = p /\ ~Scanning' /\ hi \in DOMAIN heaps
      BY <1>0, <1>1 DEF scan, Scanning, StateType
    <3>2. PICK h : h = hi
      OBVIOUS
    <3>3. FirstBlock(h)' = FirstBlock(h) /\ End(h)' = End(h)
      BY <3>1, <3>2, <2>5
    <3>4. FirstBlock(hi)' = FirstBlock(hi) /\ End(hi)' = End(hi)
      BY <3>1, <3>2, <3>3 DEF FirstBlock, End
    <3>5. QED
      BY <3>1, <3>4 DEF LayoutInv, AtBlock, ScanInside
  <2>10. RangesOK'
    BY <1>0, <1>1, NoRanges DEF StateType, marking
  <2>11. QED
    BY <2>5, <2>7, <2>8, <2>9, <2>10, TypeParts DEF LayoutInv
<1>4. QED
  BY <1>2, <1>3

\* The second attempt of sexp_alloc.
LEMMA RetryLayout == ASSUME LayoutInv, Retry PROVE LayoutInv'
<1>0. TypeOK /\ BlocksType /\ StateType /\ Layout
  BY TypeParts DEF LayoutInv
<1>1. /\ phase = "again" /\ phase' = "run" /\ req' = NoReq /\ maxFreed' = 0 /\ sumFreed' = 0
      /\ UNCHANGED <<heaps, marked, teardown, marking, scan>>
  BY DEF Retry
<1>2. req.var \in Vars /\ req.kind \in Kinds /\ req.args \in Arguments(req.kind)
  BY <1>0, <1>1 DEF StateType
<1>3. BlocksType' /\ Layout' /\ var' \in [Vars -> Refs]
  <2>1. CASE TryAlloc(req.var, req.kind, req.args)
    <3>1. PICK v, k, args : v = req.var /\ k = req.kind /\ args = req.args
      OBVIOUS
    <3>2. v \in Vars /\ k \in Kinds /\ args \in Arguments(k)
      BY <3>1, <1>2
    <3>3. TryAlloc(v, k, args)
      BY <3>1, <2>1
    <3>4. QED
      BY <3>2, <3>3, <1>1, TryAllocLayout
  <2>2. CASE var' = [var EXCEPT ![req.var] = Nil] /\ UNCHANGED <<free, obj>>
    <3>1. BlocksType' /\ Layout'
      BY <2>2, <1>1, SameBlocksType
    <3>2. var' \in [Vars -> Refs]
      BY <2>2, <1>0, <1>2 DEF StateType, Refs
    <3>3. QED
      BY <3>1, <3>2
  <2>3. QED
    BY <2>1, <2>2 DEF Retry
<1>4. StateType'
  BY <1>0, <1>1, <1>3 DEF StateType, marking, scan
<1>5. AtBlock'
  <2>1. ~Scanning' /\ p' = p /\ hi' = hi
    BY <1>1 DEF Scanning, scan
  <2>2. FirstBlock(hi)' = FirstBlock(hi) /\ End(hi)' = End(hi)
    BY <2>1, <1>1 DEF FirstBlock, End
  <2>3. QED
    BY <2>1, <2>2 DEF LayoutInv, AtBlock, ScanInside
<1>6. RangesOK'
  BY <1>0, <1>1, NoRanges DEF StateType, marking
<1>7. QED
  BY <1>3, <1>4, <1>5, <1>6, TypeParts DEF LayoutInv

\* A step in which nothing happens.
LEMMA StutterLayout == ASSUME LayoutInv, UNCHANGED vars PROVE LayoutInv'
<1>0. StateType
  BY TypeParts DEF LayoutInv
<1>1. StateType'
  BY <1>0 DEF StateType, vars, marking, scan, freed
<1>2. RangesOK'
  BY SameRanges DEF vars, marking
<1>3. QED
  BY <1>1, <1>2, QuietLayout DEF vars, marking, scan, Scanning

\* All steps.
LEMMA NextLayout == ASSUME LayoutInv, [Next]_vars PROVE LayoutInv'
<1>1. CASE Mutator
  BY <1>1, NewLayout, VariableLayout, SetFieldLayout, CollectLayout DEF Mutator
<1>2. CASE Mark
  BY <1>2, MarkVarLayout, MarkOneLayout, MarkWalkLayout, MarkPopLayout, MarkDoneLayout DEF Mark
<1>3. CASE Scan
  BY <1>3, ScanSkipLayout, PassLayout, DoneLayout, SweepLayout DEF Scan
<1>4. CASE Grow \/ DontGrow \/ Retry
  BY <1>4, GrowStep, RetryLayout
<1>5. CASE Dead \/ UNCHANGED vars
  BY <1>5, StutterLayout DEF Dead
<1>6. QED
  BY <1>1, <1>2, <1>3, <1>4, <1>5 DEF Next

\* The layout of the heap is as it should be in every state.
LEMMA LayoutAlways == Spec => []LayoutInv
<1>1. Init => LayoutInv
  <2>. SUFFICES ASSUME Init PROVE LayoutInv
    OBVIOUS
  <2>1. RangesOK
    BY DEF Init, RangesOK, SlotsOf, NoRange
  <2>2. QED
    BY <2>1, InitType, InitLayout DEF LayoutInv
<1>2. LayoutInv /\ [Next]_vars => LayoutInv'
  BY NextLayout
<1>3. QED
  BY <1>1, <1>2, PTL DEF Spec

-----------------------------------------------------------------------------
(* The theorems.                                                           *)

\* The state of the heap and of the collector always has its types: heaps and
\* free lists match, every object has the fields its type row says, mark bits
\* belong to objects, and a request that waits is one that sexp_alloc got.
THEOREM HeapTypeCorrect == Spec => []TypeOK
<1>1. LayoutInv => TypeOK
  BY DEF LayoutInv
<1>2. QED
  BY <1>1, LayoutAlways, PTL

\* The free lists are ordered by address and no two chunks touch, in every
\* state: sexp_sweep merges each block it frees with both neighbours, and
\* sexp_try_alloc leaves a smaller chunk where it carved one.
THEOREM AlwaysCoalesced == Spec => []Coalesced
<1>1. LayoutInv => Coalesced
  <2>. SUFFICES ASSUME LayoutInv, NEW h \in DOMAIN heaps, NEW i \in 1..(Len(free[h]) - 1)
                PROVE  free[h][i].at + free[h][i].size < free[h][i + 1].at
    BY DEF Coalesced
  <2>1. Len(free[h]) \in Nat /\ DOMAIN free[h] = 1..Len(free[h])
    BY HeapFacts DEF LayoutInv
  <2>2. i \in DOMAIN free[h] /\ i + 1 \in DOMAIN free[h] /\ i < i + 1
    BY <2>1
  <2>3. QED
    BY <2>2 DEF LayoutInv, Layout, ChunksApart
<1>2. QED
  BY <1>1, LayoutAlways, PTL

\* Objects and free chunks tile every heap in every state, also between the
\* steps of sexp_sweep and after sexp_grow_heap: no unit is lost and none
\* belongs to two blocks.
THEOREM AlwaysTiled == Spec => []Tiled
<1>1. LayoutInv => Tiled
  <2>. SUFFICES ASSUME LayoutInv, NEW h \in DOMAIN heaps, NEW u \in FirstBlock(h)..(End(h) - 1)
                PROVE  Cardinality({a \in Objects : a <= u /\ u < a + Row(a).size})
                         + Cardinality({i \in DOMAIN free[h] : free[h][i].at <= u
                                          /\ u < free[h][i].at + free[h][i].size}) = 1
    BY DEF Tiled
  <2>. DEFINE A == {a \in Objects : a <= u /\ u < a + Row(a).size}
              C == {i \in DOMAIN free[h] : free[h][i].at <= u
                                             /\ u < free[h][i].at + free[h][i].size}
  <2>0. /\ FirstBlock(h) \in Nat /\ End(h) \in Nat /\ u \in Nat
        /\ \A i \in DOMAIN free[h] : free[h][i].at \in Nat /\ free[h][i].size \in Nat
        /\ DOMAIN free[h] = 1..Len(free[h]) /\ Len(free[h]) \in Nat
    BY HeapFacts DEF LayoutInv
  <2>1. \A a \in Objects : a \in Nat /\ Row(a).size \in Nat
    BY ObjectFacts DEF LayoutInv
  <2>2. Layout
    BY DEF LayoutInv
  <2>3. \A a, b \in A : a = b
    <3>. SUFFICES ASSUME NEW a \in A, NEW b \in A PROVE a = b
      OBVIOUS
    <3>1. ~(a < b) /\ ~(b < a)
      BY <2>0, <2>1, <2>2 DEF Layout, ObjectsApart
    <3>2. QED
      BY <3>1, <2>1
  <2>4. \A i, j \in C : i = j
    <3>. SUFFICES ASSUME NEW i \in C, NEW j \in C PROVE i = j
      OBVIOUS
    <3>0. /\ i \in DOMAIN free[h] /\ j \in DOMAIN free[h]
          /\ free[h][i].at <= u /\ u < free[h][i].at + free[h][i].size
          /\ free[h][j].at <= u /\ u < free[h][j].at + free[h][j].size
      OBVIOUS
    <3>4. \A k, l \in DOMAIN free[h] : k < l => free[h][k].at + free[h][k].size < free[h][l].at
      BY <2>2 DEF Layout, ChunksApart
    <3>5. /\ free[h][i].at \in Nat /\ free[h][i].size \in Nat
          /\ free[h][j].at \in Nat /\ free[h][j].size \in Nat
      BY <3>0, <2>0
    <3>8. u \in Nat
      BY <2>0
    <3>9. \A m, k, n \in Nat : n <= u /\ u < m + k => ~(m + k < n)
      BY <3>8
    <3>. HIDE DEF C
    <3>6. ASSUME i < j PROVE FALSE
      <4>1. free[h][i].at + free[h][i].size < free[h][j].at
        BY <3>0, <3>4, <3>6
      <4>2. QED
        BY <4>1, <3>0, <3>5, <3>9
    <3>7. ASSUME j < i PROVE FALSE
      <4>1. free[h][j].at + free[h][j].size < free[h][i].at
        BY <3>0, <3>4, <3>7
      <4>2. QED
        BY <4>1, <3>0, <3>5, <3>9
    <3>1. ~(i < j) /\ ~(j < i)
      BY <3>6, <3>7
    <3>10. i \in Nat /\ j \in Nat
      BY <3>0, <2>0
    <3>2. QED
      BY <3>1, <3>10
  <2>5. A = {} \/ C = {}
    <3>. SUFFICES ASSUME NEW a \in A, NEW i \in C PROVE FALSE
      OBVIOUS
    <3>0. /\ a \in Objects /\ i \in DOMAIN free[h] /\ a <= u /\ u < a + Row(a).size
          /\ free[h][i].at <= u /\ u < free[h][i].at + free[h][i].size
      OBVIOUS
    <3>1. a + Row(a).size <= free[h][i].at \/ free[h][i].at + free[h][i].size <= a
      BY <3>0, <2>2 DEF Layout, BlocksApart
    <3>2. /\ a \in Nat /\ Row(a).size \in Nat
          /\ free[h][i].at \in Nat /\ free[h][i].size \in Nat
      BY <3>0, <2>0, <2>1
    <3>3. ASSUME NEW c \in Nat, NEW n \in Nat, NEW d \in Nat, NEW m \in Nat, NEW w \in Nat,
                 c <= w, w < c + n, d <= w, w < d + m
          PROVE  ~(c + n <= d) /\ ~(d + m <= c)
      BY <3>3
    <3>4. u \in Nat
      BY <2>0
    <3>. HIDE DEF A, C
    <3>5. QED
      BY <3>0, <3>1, <3>2, <3>3, <3>4
  <2>6. A # {} \/ C # {}
    <3>1. InObject(u) \/ InChunk(h, u)
      BY <2>2 DEF Layout, Covered
    <3>2. QED
      BY <3>1 DEF InObject, InChunk
  <2>7. \A x : Cardinality({x}) = 1
    BY FS_Singleton
  <2>8. Cardinality({}) = 0
    BY FS_EmptySet
  <2>9. CASE A = {}
    <3>1. PICK i \in C : C = {i}
      BY <2>9, <2>6, <2>4
    <3>2. Cardinality(A) = 0 /\ Cardinality(C) = 1
      BY <3>1, <2>9, <2>7, <2>8
    <3>3. QED
      BY <3>2
  <2>10. CASE C = {}
    <3>1. PICK a \in A : A = {a}
      BY <2>10, <2>6, <2>3
    <3>2. Cardinality(A) = 1 /\ Cardinality(C) = 0
      BY <3>1, <2>10, <2>7, <2>8
    <3>3. QED
      BY <3>2
  <2>11. QED
    BY <2>5, <2>9, <2>10
<1>2. QED
  BY <1>1, LayoutAlways, PTL


-----------------------------------------------------------------------------
-----------------------------------------------------------------------------
(* The inductive invariants.                                               *)

\* Mark bits are clear while the mutator runs, and behind the sweep; a context
\* that is destroyed is marked from, finalized and swept once.
PhasesOK ==
  /\ phase \in {"run", "retry", "again"} => marked = {} /\ teardown = 0
  /\ phase = "weak" => teardown = 0
  /\ phase \in {"mark", "sweep"} => teardown \in {0, 1}
  /\ phase = "sweep" => \A a \in marked : p <= a

\* Slot i of object a waits to be looked at.
InRange(r, a, i) == r.obj = a /\ r.from <= i /\ i < r.to
Pending(a, i) == InRange(walk, a, i) \/ \E j \in DOMAIN mstack : InRange(mstack[j], a, i)

\* What the marker has passed is marked, or in its hands.
Found == marked \cup {Nil, look}
VarsFound == \A v \in 1..LastVar : v < next => var[v] \in Found
SlotsFound ==
  \A a \in marked : \A i \in 1..Row(a).slots : obj[a].fields[i] \in Found \/ Pending(a, i)

MarkInv ==
  /\ PhasesOK
  /\ phase = "mark" => VarsFound /\ SlotsFound
  /\ MarkComplete

\* The objects that the collection under way keeps.
Live == {a \in Objects : a \in marked \/ (phase = "sweep" /\ a < p)}

\* The fields of object a are in S.
FieldsIn(a, S) == \A i \in 1..Row(a).len : obj[a].fields[i] \in S \cup {Nil}
VarsIn(S) == \A v \in Vars : var[v] \in S \cup {Nil}

\* Fields that are neither marked nor weak hold immediates.
ExtraNil ==
  \A a \in Objects : \A i \in 1..Row(a).len :
    i > Row(a).slots /\ i > Row(a).weak => obj[a].fields[i] = Nil

\* Every reference is to an object.
AllRefsValid == ExtraNil /\ VarsIn(Objects) /\ \A a \in Objects : FieldsIn(a, Objects)

\* Until marking ends every reference is to an object.  The pass over weak
\* references leaves only live ones behind it, and the sweep keeps them so.
RefsInv ==
  /\ ExtraNil
  /\ phase \in {"run", "retry", "again", "mark"} => AllRefsValid
  /\ phase = "weak" => \A a \in marked : a < p => FieldsIn(a, marked)
  /\ phase = "finalize" /\ teardown = 0 => \A a \in marked : FieldsIn(a, marked)
  /\ phase = "sweep" /\ teardown = 0 => VarsIn(Live) /\ \A a \in Live : FieldsIn(a, Live)

\* How often object a has been finalized.
Garbage(a) == a \notin marked /\ Row(a).finalizer
FinCount(a) ==
  IF Garbage(a) /\ (\/ phase = "finalize" /\ a < p
                    \/ phase = "sweep" /\ p <= a) THEN 1 ELSE 0
FinInv ==
  phase # "dead" /\ teardown # 2 => \A a \in Objects : obj[a].fin = FinCount(a)

\* What is marked, and what the sweep has passed, can be reached.
ReachInv ==
  /\ phase \in {"mark", "weak", "finalize", "sweep"} /\ teardown = 0 => Live \subseteq Reachable
  /\ phase = "mark" /\ teardown = 0 /\ look \in Objects => look \in Reachable

-----------------------------------------------------------------------------
(* The phases of a collection.                                             *)

\* Scanning on passes no object.
LEMMA ScanPasses ==
  ASSUME LayoutInv, ScanSkip \/ ScanHeap
  PROVE  \A a \in Objects : a < p' <=> a < p
<1>. SUFFICES ASSUME NEW a \in Objects PROVE a < p' <=> a < p
  OBVIOUS
<1>1. p' \in Nat /\ p <= p' /\ (a + Row(a).size <= p \/ p' <= a)
  BY ScanMoves
<1>2. a \in Nat /\ Row(a).size \in Nat \ {0} /\ p \in Nat
  BY ObjectFacts DEF LayoutInv, TypeOK
<1>3. QED
  BY <1>1, <1>2

\* Sweeping passes the object it is at.
LEMMA SweepPasses ==
  ASSUME LayoutInv, SweepObject
  PROVE  /\ p \in Objects /\ p' \in Nat
         /\ p \in marked => /\ obj' = obj /\ marked' = marked \ {p}
                            /\ \A a \in Objects : a < p' <=> a < p \/ a = p
         /\ p \notin marked => /\ Objects' = Objects \ {p} /\ marked' = marked
                               /\ \A a \in Objects \ {p} : obj'[a] = obj[a] /\ Row(a)' = Row(a)
                               /\ \A a \in Objects \ {p} : a < p' <=> a < p
<1>1. p \in Objects /\ AtObject /\ Scanning
  BY DEF SweepObject, AtObject, Scanning
<1>2. CASE p \in marked
  <2>1. /\ heaps' = heaps /\ free' = free /\ obj' = obj /\ marked' = marked \ {p} /\ hi' = hi
        /\ p' = p + Row(p).size
    BY <1>2 DEF SweepObject
  <2>2. SameBlocks
    BY <2>1 DEF SameBlocks
  <2>3. p' \in Nat /\ \A a \in Objects : a < p' <=> a < p \/ a = p
    BY <1>1, <2>1, <2>2, PassObject
  <2>4. QED
    BY <1>1, <1>2, <2>1, <2>3
<1>3. CASE p \notin marked
  BY <1>1, <1>3, SweepFrees DEF SweepObject
<1>4. QED
  BY <1>2, <1>3

\* The marks behind a sweep are clear, so that none is left when it ends.
LEMMA SweepEnds ==
  ASSUME LayoutInv, PhasesOK, SweepDone
  PROVE  marked = {} /\ (\A a \in Objects : a < p) /\ obj' = obj /\ marked' = {}
<1>1. /\ ScanEnds("sweep") /\ phase = "sweep" /\ obj' = obj /\ marked' = marked
  BY DEF SweepDone, ScanEnds
<1>2. \A a \in Objects : a < p
  BY <1>1, ScanEnd
<1>3. \A a \in marked : a \in Objects /\ a \in Nat /\ p \in Nat /\ p <= a
  BY <1>1 DEF LayoutInv, TypeOK, PhasesOK
<1>4. marked = {}
  BY <1>2, <1>3
<1>5. QED
  BY <1>1, <1>2, <1>4

\* The phases follow each other as they should.
LEMMA PhasesStep == ASSUME LayoutInv, PhasesOK, [Next]_vars PROVE PhasesOK'
<1>0. /\ marked \subseteq Objects /\ p \in Nat /\ Objects \subseteq Nat
      /\ phase \in {"run", "mark", "weak", "finalize", "sweep", "retry", "again", "dead"}
      /\ teardown \in {0, 1, 2}
  BY DEF LayoutInv, TypeOK
<1>1. CASE Mutator
  BY <1>1 DEF Mutator, New, SetField, GetField, Drop, Collect, Destroy, StartGc, PhasesOK
<1>2. CASE Mark
  BY <1>2, <1>0 DEF Mark, MarkVar, MarkOne, MarkWalk, MarkPop, MarkDone, markUnchanged, PhasesOK
<1>3. CASE ScanSkip \/ ScanHeap
  <2>1. /\ phase' = phase /\ marked' = marked /\ teardown' = teardown
    BY <1>3 DEF ScanSkip, ScanHeap
  <2>2. p' \in Nat /\ \A a \in Objects : a < p' <=> a < p
    BY <1>3, ScanMoves, ScanPasses
  <2>3. QED
    BY <2>1, <2>2, <1>0 DEF PhasesOK
<1>4. CASE WeakObject \/ FinalizeObject \/ WeakDone
  BY <1>4 DEF WeakObject, FinalizeObject, WeakDone, ScanEnds, PhasesOK
<1>5. CASE FinalizeDone
  <2>1. /\ SameBlocks /\ Rescan /\ marked' = marked /\ teardown' = teardown
        /\ phase' = IF teardown = 2 THEN "dead" ELSE "sweep"
    BY <1>5 DEF FinalizeDone, SameBlocks
  <2>2. \A a \in Objects : p' <= a
    BY <2>1, ScanStart
  <2>3. QED
    BY <2>1, <2>2, <1>0 DEF PhasesOK
<1>6. CASE SweepObject
  <2>1. phase = "sweep" /\ phase' = phase /\ teardown' = teardown
    BY <1>6 DEF SweepObject
  <2>2. \A a \in marked' : a \in Nat /\ ~(a < p') /\ p' \in Nat
    <3>. SUFFICES ASSUME NEW a \in marked' PROVE a \in Nat /\ ~(a < p') /\ p' \in Nat
      OBVIOUS
    <3>1. a \in marked /\ a # p
      BY <1>6, SweepPasses
    <3>2. a \in Objects \ {p} /\ a \in Nat /\ p <= a
      BY <3>1, <2>1, <1>0 DEF PhasesOK
    <3>3. (a < p' <=> a < p) /\ p' \in Nat
      BY <3>2, <1>6, SweepPasses
    <3>4. QED
      BY <3>2, <3>3, <1>0
  <2>3. QED
    BY <2>1, <2>2 DEF PhasesOK
<1>7. CASE SweepDone
  <2>1. marked' = {}
    BY <1>7, SweepEnds
  <2>2. QED
    BY <1>7, <2>1, <1>0 DEF SweepDone, ScanEnds, PhasesOK
<1>8. CASE Grow \/ DontGrow \/ Retry
  BY <1>8 DEF Grow, DontGrow, Retry, PhasesOK
<1>9. CASE Dead \/ UNCHANGED vars
  BY <1>9 DEF Dead, vars, scan, PhasesOK
<1>10. QED
  BY <1>1, <1>2, <1>3, <1>4, <1>5, <1>6, <1>7, <1>8, <1>9 DEF Next, Scan

-----------------------------------------------------------------------------
(* Marking is complete.                                                    *)

\* A collection begins with nothing marked.
LEMMA StartFound ==
  ASSUME marked' = {}, next' = 1
  PROVE  VarsFound' /\ SlotsFound'
BY DEF VarsFound, SlotsFound

\* MarkVar takes the next variable in hand.
LEMMA MarkVarFound ==
  ASSUME LayoutInv, VarsFound, SlotsFound, MarkVar
  PROVE  VarsFound' /\ SlotsFound'
<1>1. /\ look = Nil /\ look' = var[next] /\ next' = next + 1 /\ marked' = marked /\ var' = var
      /\ obj' = obj /\ walk' = walk /\ mstack' = mstack /\ teardown' = teardown
  BY DEF MarkVar, markUnchanged
<1>2. Found \subseteq Found' /\ look' \in Found'
  BY <1>1 DEF Found
<1>3. VarsFound'
  <2>1. LastVar' = LastVar /\ LastVar \in Nat /\ next \in Nat
    BY <1>1, LastVarFacts, HeapAssumption DEF LastVar, LayoutInv, TypeOK
  <2>2. QED
    BY <1>1, <1>2, <2>1 DEF VarsFound
<1>4. SlotsFound'
  <2>1. \A a, i : Pending(a, i)' <=> Pending(a, i)
    BY <1>1 DEF Pending
  <2>2. \A a : Row(a)' = Row(a)
    BY <1>1 DEF Row
  <2>3. QED
    BY <1>1, <1>2, <2>1, <2>2 DEF SlotsFound
<1>5. QED
  BY <1>3, <1>4

\* sexp_mark_one leaves the slots of x on the stack that it does not go on
\* with, but for those that need no visit.
LEMMA MarkOneFound ==
  ASSUME LayoutInv, VarsFound, SlotsFound, MarkOne
  PROVE  VarsFound' /\ SlotsFound'
<1>1. /\ next' = next /\ var' = var /\ obj' = obj /\ walk' = walk /\ teardown' = teardown
      /\ look \in Objects /\ marked' = marked \cup {look} /\ look \in Nat
      /\ mstack \in Seq(Ranges) /\ walk \in Ranges
      /\ MarkEnds \/ \E q : MarkGoesOn(q)
  BY MarkOneStep DEF MarkOne, markUnchanged, LayoutInv, TypeOK
<1>2. Found \subseteq Found' /\ look' \in Found' /\ Found' = marked \cup {look, Nil, look'}
  BY <1>1 DEF Found
<1>3. VarsFound'
  BY <1>1, <1>2 DEF VarsFound, LastVar
<1>4. \A a : Row(a)' = Row(a)
  BY <1>1 DEF Row
<1>5. ASSUME NEW a, NEW i, Pending(a, i) PROVE Pending(a, i)'
  <2>1. CASE InRange(walk, a, i)
    BY <2>1, <1>1 DEF Pending
  <2>2. CASE \E j \in DOMAIN mstack : InRange(mstack[j], a, i)
    <3>1. PICK j \in DOMAIN mstack : InRange(mstack[j], a, i)
      BY <2>2
    <3>2. mstack[j] \in Ranges
      BY <1>1, <3>1
    <3>3. \E k \in DOMAIN mstack' : mstack'[k] = mstack[j]
      <4>1. CASE MarkEnds
        BY <4>1, <3>1 DEF MarkEnds
      <4>2. CASE \E q : MarkGoesOn(q)
        BY <4>2, <1>1, <3>1, <3>2, MarkOneStack
      <4>3. QED
        BY <4>1, <4>2, <1>1
    <3>4. QED
      BY <3>1, <3>3 DEF Pending, InRange
  <2>3. QED
    BY <1>5, <2>1, <2>2 DEF Pending
<1>6. SlotsFound'
  <2>. SUFFICES ASSUME NEW a \in marked', NEW i \in 1..Row(a).slots
                PROVE  obj[a].fields[i] \in Found' \/ Pending(a, i)'
    BY <1>1, <1>4 DEF SlotsFound
  <2>1. CASE a \in marked
    BY <2>1, <1>2, <1>5 DEF SlotsFound
  <2>2. CASE a = look /\ look \notin marked
    <3>1. CASE MarkEnds
      BY <2>2, <3>1 DEF MarkEnds
    <3>2. CASE \E q : MarkGoesOn(q)
      <4>1. PICK q : MarkGoesOn(q)
        BY <3>2
      <4>2. /\ Row(look).slots \in Nat /\ q \in 1..Row(look).slots /\ i \in 1..Row(look).slots
            /\ look' = obj[look].fields[q]
            /\ \A j \in (q + 1)..Row(look).slots :
                 obj[look].fields[j] \in marked \cup {look, Nil, look'}
        BY <4>1, <2>2 DEF MarkGoesOn
      <4>3. CASE i > q
        BY <4>2, <4>3, <1>2, <2>2
      <4>4. CASE i = q
        BY <4>2, <4>4, <1>2, <2>2
      <4>5. CASE i < q
        <5>1. q > 1
          BY <4>2, <4>5
        <5>2. PICK j \in DOMAIN mstack' : mstack'[j] = [obj |-> look, from |-> 1, to |-> q]
          BY <5>1, <4>1, <1>1, MarkOneStack
        <5>3. InRange(mstack'[j], a, i)
          BY <5>2, <4>2, <4>5, <2>2 DEF InRange
        <5>4. QED
          BY <5>3 DEF Pending, InRange
      <4>6. QED
        BY <4>2, <4>3, <4>4, <4>5
    <3>3. QED
      BY <3>1, <3>2, <1>1
  <2>3. QED
    BY <2>1, <2>2, <1>1
<1>7. QED
  BY <1>3, <1>6

\* sexp_mark_one_start takes the next slot of its range in hand.
LEMMA MarkWalkFound ==
  ASSUME LayoutInv, VarsFound, SlotsFound, MarkWalk
  PROVE  VarsFound' /\ SlotsFound'
<1>1. /\ next' = next /\ var' = var /\ obj' = obj /\ mstack' = mstack /\ teardown' = teardown
      /\ marked' = marked /\ look = Nil /\ walk \in Ranges /\ walk.from < walk.to
      /\ look' = obj[walk.obj].fields[walk.from] /\ walk' = [walk EXCEPT !.from = @ + 1]
  BY DEF MarkWalk, markUnchanged, LayoutInv, TypeOK
<1>2. Found \subseteq Found' /\ look' \in Found'
  BY <1>1 DEF Found
<1>3. VarsFound'
  BY <1>1, <1>2 DEF VarsFound, LastVar
<1>4. \A a : Row(a)' = Row(a)
  BY <1>1 DEF Row
<1>5. walk.from \in Nat /\ walk'.obj = walk.obj /\ walk'.from = walk.from + 1 /\ walk'.to = walk.to
  BY <1>1 DEF Ranges
<1>6. ASSUME NEW a, NEW i \in Nat, Pending(a, i)
      PROVE  Pending(a, i)' \/ (a = walk.obj /\ i = walk.from)
  BY <1>1, <1>5, <1>6 DEF Pending, InRange
<1>7. SlotsFound'
  <2>. SUFFICES ASSUME NEW a \in marked, NEW i \in 1..Row(a).slots
                PROVE  obj[a].fields[i] \in Found' \/ Pending(a, i)'
    BY <1>1, <1>4 DEF SlotsFound
  <2>0. i \in Nat
    BY ObjectFacts DEF LayoutInv, TypeOK
  <2>1. CASE Pending(a, i)
    BY <2>0, <2>1, <1>1, <1>2, <1>6
  <2>2. CASE obj[a].fields[i] \in Found
    BY <2>2, <1>2
  <2>3. QED
    BY <2>1, <2>2 DEF SlotsFound
<1>8. QED
  BY <1>3, <1>7

\* It takes the next range from the stack.
LEMMA MarkPopFound ==
  ASSUME LayoutInv, VarsFound, SlotsFound, MarkPop
  PROVE  VarsFound' /\ SlotsFound'
<1>1. /\ next' = next /\ var' = var /\ obj' = obj /\ teardown' = teardown
      /\ marked' = marked /\ look' = look /\ walk \in Ranges /\ ~(walk.from < walk.to)
      /\ mstack \in Seq(Ranges) /\ mstack # <<>>
      /\ walk' = Last(mstack) /\ mstack' = Front(mstack)
  BY DEF MarkPop, markUnchanged, LayoutInv, TypeOK, Ranges
<1>2. Found' = Found
  BY <1>1 DEF Found
<1>3. VarsFound'
  BY <1>1, <1>2 DEF VarsFound, LastVar
<1>4. \A a : Row(a)' = Row(a)
  BY <1>1 DEF Row
<1>5. /\ walk' = mstack[Len(mstack)] /\ Len(mstack) \in Nat /\ DOMAIN mstack = 1..Len(mstack)
      /\ DOMAIN mstack' = 1..(Len(mstack) - 1)
      /\ \A j \in DOMAIN mstack' : mstack'[j] = mstack[j]
  BY <1>1 DEF Last, Front
<1>6. ASSUME NEW a, NEW i \in Nat, Pending(a, i) PROVE Pending(a, i)'
  <2>1. ~InRange(walk, a, i)
    BY <1>1 DEF InRange, Ranges
  <2>2. PICK j \in DOMAIN mstack : InRange(mstack[j], a, i)
    BY <1>6, <2>1 DEF Pending
  <2>3. CASE j = Len(mstack)
    BY <2>2, <2>3, <1>5 DEF Pending, InRange
  <2>4. CASE j # Len(mstack)
    <3>1. j \in DOMAIN mstack'
      BY <2>2, <2>4, <1>5
    <3>2. QED
      BY <2>2, <3>1, <1>5 DEF Pending, InRange
  <2>5. QED
    BY <2>3, <2>4
<1>7. SlotsFound'
  <2>. SUFFICES ASSUME NEW a \in marked, NEW i \in 1..Row(a).slots
                PROVE  obj[a].fields[i] \in Found \/ Pending(a, i)'
    BY <1>1, <1>2, <1>4 DEF SlotsFound
  <2>0. i \in Nat
    BY ObjectFacts DEF LayoutInv, TypeOK
  <2>1. QED
    BY <2>0, <1>6 DEF SlotsFound
<1>8. QED
  BY <1>3, <1>7

\* With nothing left to look at, what is marked is closed.
LEMMA MarkDoneComplete ==
  ASSUME LayoutInv, VarsFound, SlotsFound, MarkDone
  PROVE  MarkComplete'
<1>1. /\ var' = var /\ obj' = obj /\ marked' = marked /\ look = Nil /\ teardown' = teardown
      /\ walk \in Ranges /\ ~(walk.from < walk.to) /\ mstack = <<>> /\ next > LastVar
  BY DEF MarkDone, markUnchanged, LayoutInv, TypeOK, Ranges
<1>2. Found = marked \cup {Nil} /\ LastVar' = LastVar /\ \A a : Row(a)' = Row(a)
  BY <1>1 DEF Found, LastVar, Row
<1>3. \A a : \A i \in Nat : ~Pending(a, i)
  BY <1>1 DEF Pending, InRange, Ranges
<1>4. \A v \in 1..LastVar : var[v] \in marked \cup {Nil}
  <2>1. LastVar \in Nat /\ next \in Nat
    BY LastVarFacts, HeapAssumption DEF LayoutInv, TypeOK
  <2>2. QED
    BY <1>1, <1>2, <2>1 DEF VarsFound
<1>5. \A a \in marked : \A i \in 1..Row(a).slots : obj[a].fields[i] \in marked \cup {Nil}
  <2>1. \A a \in marked : Row(a).slots \in Nat
    BY ObjectFacts DEF LayoutInv, TypeOK
  <2>2. QED
    BY <2>1, <1>2, <1>3 DEF SlotsFound
<1>6. QED
  BY <1>1, <1>2, <1>4, <1>5 DEF MarkComplete, StrongFields

\* What the pass over weak references does to the objects.
LEMMA WeakPass ==
  ASSUME LayoutInv, WeakObject
  PROVE  /\ p \in Objects /\ Objects' = Objects /\ marked' = marked /\ var' = var
         /\ phase = "weak" /\ phase' = phase /\ teardown' = teardown
         /\ \A a \in Objects : a < p' <=> a < p \/ a = p
         /\ \A a \in Objects : Row(a)' = Row(a) /\ obj'[a].fin = obj[a].fin
         /\ \A a \in Objects : a # p \/ a \notin marked \/ Row(a).weak = 0 => obj'[a] = obj[a]
         /\ p \in marked /\ Row(p).weak > 0 => obj'[p].fields = ResetWeak(p)
<1>1. /\ p \in Objects /\ AtObject /\ Scanning /\ hi' = hi /\ p' = p + Row(p).size /\ SameBlocks
      /\ TypeOK /\ Layout
  BY PassContents DEF AtObject, LayoutInv
<1>0. Objects' = Objects
  BY <1>1 DEF SameBlocks, Objects
<1>2. Objects' = Objects /\ \A a \in Objects : Row(a)' = Row(a)
  BY <1>0, <1>1, SameBlocksLayout
<1>3. \A a \in Objects : a < p' <=> a < p \/ a = p
  BY <1>1, PassObject
<1>4. /\ marked' = marked /\ var' = var /\ phase = "weak" /\ phase' = phase /\ teardown' = teardown
      /\ obj' = IF p \in marked /\ Row(p).weak > 0
                THEN [obj EXCEPT ![p].fields = ResetWeak(p)] ELSE obj
  BY DEF WeakObject
<1>5. obj \in [Objects -> [kind : Kinds, fin : Nat, fields : Seq(Refs)]]
  BY <1>1 DEF TypeOK
<1>6. \A a \in Objects : Row(a).weak \in Nat
  BY <1>1, ObjectFacts
<1>7. \A a \in Objects : obj'[a].fin = obj[a].fin
  BY <1>1, <1>4, <1>5
<1>8. \A a \in Objects : a # p \/ a \notin marked \/ Row(a).weak = 0 => obj'[a] = obj[a]
  BY <1>1, <1>4, <1>5, <1>6
<1>9. p \in marked /\ Row(p).weak > 0 => obj'[p].fields = ResetWeak(p)
  BY <1>1, <1>4, <1>5
<1>10. QED
  BY <1>1, <1>2, <1>3, <1>4, <1>7, <1>8, <1>9

\* What sexp_finalize does to the objects.
LEMMA FinalPass ==
  ASSUME LayoutInv, FinalizeObject
  PROVE  /\ p \in Objects /\ Objects' = Objects /\ marked' = marked /\ var' = var
         /\ phase = "finalize" /\ phase' = phase /\ teardown' = teardown
         /\ \A a \in Objects : a < p' <=> a < p \/ a = p
         /\ \A a \in Objects : Row(a)' = Row(a) /\ obj'[a].fields = obj[a].fields
         /\ \A a \in Objects : obj'[a].fin =
              IF a = p /\ p \notin marked /\ Row(p).finalizer /\ obj[p].kind # Dl
              THEN obj[a].fin + 1 ELSE obj[a].fin
<1>1. /\ p \in Objects /\ AtObject /\ Scanning /\ hi' = hi /\ p' = p + Row(p).size /\ SameBlocks
      /\ TypeOK /\ Layout
  BY PassContents DEF AtObject, LayoutInv
<1>0. Objects' = Objects
  BY <1>1 DEF SameBlocks, Objects
<1>2. Objects' = Objects /\ \A a \in Objects : Row(a)' = Row(a)
  BY <1>0, <1>1, SameBlocksLayout
<1>3. \A a \in Objects : a < p' <=> a < p \/ a = p
  BY <1>1, PassObject
<1>4. /\ marked' = marked /\ var' = var /\ phase = "finalize" /\ phase' = phase
      /\ teardown' = teardown
      /\ obj' = IF p \notin marked /\ Row(p).finalizer /\ obj[p].kind # Dl
                THEN [obj EXCEPT ![p].fin = @ + 1] ELSE obj
  BY DEF FinalizeObject
<1>5. obj \in [Objects -> [kind : Kinds, fin : Nat, fields : Seq(Refs)]]
  BY <1>1 DEF TypeOK
<1>6. \A a \in Objects : obj'[a].fields = obj[a].fields
  BY <1>1, <1>4, <1>5
<1>7. \A a \in Objects : obj'[a].fin =
        IF a = p /\ p \notin marked /\ Row(p).finalizer /\ obj[p].kind # Dl
        THEN obj[a].fin + 1 ELSE obj[a].fin
  BY <1>1, <1>4, <1>5
<1>8. QED
  BY <1>1, <1>2, <1>3, <1>4, <1>6, <1>7

\* Marking stays complete during the passes that follow it.
LEMMA PassComplete ==
  ASSUME LayoutInv, MarkComplete, WeakObject \/ FinalizeObject
  PROVE  MarkComplete'
<1>1. /\ Objects' = Objects /\ marked' = marked /\ var' = var /\ marked \subseteq Objects /\ TypeOK
      /\ phase \in {"weak", "finalize"} /\ phase' = phase /\ teardown' = teardown
      /\ \A a \in Objects : Row(a)' = Row(a)
  BY WeakPass, FinalPass DEF LayoutInv, TypeOK
<1>2. \A a \in Objects : Row(a).slots \in Nat /\ Row(a).len \in Nat /\ Row(a).slots <= Row(a).len
  BY <1>1, ObjectFacts
<1>3. \A a \in Objects : \A i \in 1..Row(a).slots :
        obj'[a].fields[i] \in {obj[a].fields[i], Nil}
  <2>. SUFFICES ASSUME NEW a \in Objects, NEW i \in 1..Row(a).slots
                PROVE  obj'[a].fields[i] \in {obj[a].fields[i], Nil}
    OBVIOUS
  <2>1. obj'[a].fields \in {obj[a].fields, ResetWeak(a)}
    <3>1. CASE FinalizeObject
      BY <3>1, FinalPass
    <3>2. CASE WeakObject
      <4>1. a # p \/ a \notin marked \/ Row(a).weak = 0 => obj'[a] = obj[a]
        BY <3>2, WeakPass
      <4>2. p \in marked /\ Row(p).weak > 0 => obj'[p].fields = ResetWeak(p)
        BY <3>2, WeakPass
      <4>3. Row(a).weak \in Nat
        BY <1>1, ObjectFacts
      <4>4. QED
        BY <4>1, <4>2, <4>3
    <3>3. QED
      BY <3>1, <3>2
  <2>2. i \in 1..Row(a).len
    BY <1>2
  <2>3. QED
    BY <2>1, <2>2, <1>1, ResetType
<1>4. CASE ~(phase \in {"weak", "finalize"} /\ teardown # 2)
  BY <1>4, <1>1 DEF MarkComplete
<1>5. CASE phase \in {"weak", "finalize"} /\ teardown # 2
  <2>1. /\ \A v \in 1..LastVar : var[v] \in marked \cup {Nil}
        /\ \A a \in marked : \A i \in 1..Row(a).slots : obj[a].fields[i] \in marked \cup {Nil}
    BY <1>5 DEF MarkComplete, StrongFields
  <2>2. LastVar' = LastVar
    BY <1>1 DEF LastVar
  <2>3. \A a \in marked : StrongFields(a)' \subseteq marked \cup {Nil}
    BY <2>1, <1>1, <1>3 DEF StrongFields
  <2>4. QED
    BY <2>1, <2>2, <2>3, <1>1 DEF MarkComplete
<1>6. QED
  BY <1>4, <1>5

\* All steps keep what is known of marking.
LEMMA MarkStep == ASSUME LayoutInv, MarkInv, [Next]_vars PROVE MarkInv'
<1>0. PhasesOK'
  BY PhasesStep DEF MarkInv
<1>1. ASSUME UNCHANGED <<obj, marked, var, teardown>>, phase' \in {"weak", "finalize"},
             phase \in {"weak", "finalize"}
      PROVE  MarkInv'
  <2>1. LastVar' = LastVar /\ \A a : StrongFields(a)' = StrongFields(a)
    BY <1>1 DEF LastVar, StrongFields, Row
  <2>2. QED
    BY <1>0, <1>1, <2>1 DEF MarkInv, MarkComplete
<1>2. ASSUME phase' \notin {"mark", "weak", "finalize"} PROVE MarkInv'
  BY <1>0, <1>2 DEF MarkInv, MarkComplete
<1>3. ASSUME phase' = "mark", VarsFound', SlotsFound' PROVE MarkInv'
  BY <1>0, <1>3 DEF MarkInv, MarkComplete
<1>4. CASE Mutator
  <2>1. phase = "run" /\ marked' = marked /\ phase' \in {"run", "mark"} /\ (phase' = "mark" => next' = 1)
    BY <1>4 DEF Mutator, New, SetField, GetField, Drop, Collect, Destroy, StartGc
  <2>2. marked' = {}
    BY <2>1 DEF MarkInv, PhasesOK
  <2>3. QED
    BY <2>1, <2>2, <1>2, <1>3, StartFound
<1>5. CASE Mark
  <2>1. phase = "mark" /\ VarsFound /\ SlotsFound
    BY <1>5 DEF Mark, MarkVar, MarkOne, MarkWalk, MarkPop, MarkDone, MarkInv
  <2>2. CASE MarkDone
    <3>1. phase' # "mark"
      BY <2>2 DEF MarkDone
    <3>2. QED
      BY <1>0, <2>1, <2>2, <3>1, MarkDoneComplete DEF MarkInv
  <2>3. CASE ~MarkDone
    <3>1. phase' = "mark"
      BY <1>5, <2>3 DEF Mark, MarkVar, MarkOne, MarkWalk, MarkPop
    <3>2. VarsFound' /\ SlotsFound'
      BY <1>5, <2>1, <2>3, MarkVarFound, MarkOneFound, MarkWalkFound, MarkPopFound DEF Mark
    <3>3. QED
      BY <3>1, <3>2, <1>3
  <2>4. QED
    BY <2>2, <2>3
<1>6. CASE ScanSkip \/ ScanHeap \/ WeakDone
  <2>1. /\ UNCHANGED <<obj, marked, var, teardown>> /\ phase \in {"weak", "finalize", "sweep"}
        /\ phase' = phase \/ (phase = "weak" /\ phase' = "finalize")
    BY <1>6 DEF ScanSkip, ScanHeap, WeakDone, ScanEnds, Scanning
  <2>2. QED
    BY <2>1, <1>1, <1>2
<1>7. CASE WeakObject \/ FinalizeObject
  <2>1. phase' # "mark"
    BY <1>7, WeakPass, FinalPass
  <2>2. QED
    BY <1>0, <1>7, <2>1, PassComplete DEF MarkInv
<1>8. CASE FinalizeDone \/ SweepObject
  <2>1. phase' \in {"dead", "sweep"}
    BY <1>8 DEF FinalizeDone, SweepObject
  <2>2. QED
    BY <2>1, <1>2
<1>9. CASE SweepDone
  <2>1. phase' \in {"run", "retry"} \/ (phase' = "finalize" /\ teardown' = 2)
    BY <1>9 DEF SweepDone
  <2>2. QED
    BY <1>0, <2>1 DEF MarkInv, MarkComplete
<1>10. CASE Grow \/ DontGrow \/ Retry \/ Dead
  <2>1. phase' \in {"again", "run", "dead"}
    BY <1>10 DEF Grow, DontGrow, Retry, Dead, vars
  <2>2. QED
    BY <2>1, <1>2
<1>11. CASE UNCHANGED vars
  <2>1. /\ UNCHANGED <<obj, marked, var, phase, teardown, next, look, walk, mstack>>
    BY <1>11 DEF vars, marking
  <2>2. CASE phase = "mark"
    <3>1. VarsFound' /\ SlotsFound'
      BY <2>1, <2>2 DEF MarkInv, VarsFound, SlotsFound, Found, Pending, LastVar, Row
    <3>2. QED
      BY <3>1, <2>1, <2>2, <1>3
  <2>3. CASE phase # "mark"
    BY <2>1, <2>3, <1>1, <1>2
  <2>4. QED
    BY <2>2, <2>3
<1>12. QED
  BY <1>4, <1>5, <1>6, <1>7, <1>8, <1>9, <1>10, <1>11 DEF Next, Scan

\* The marker's invariant holds in every state, together with the layout.
LEMMA MarkAlways == Spec => [](LayoutInv /\ MarkInv)
<1>1. Init => MarkInv
  BY DEF Init, MarkInv, PhasesOK, MarkComplete
<1>2. LayoutInv /\ MarkInv /\ [Next]_vars => MarkInv'
  BY MarkStep
<1>3. QED
  BY <1>1, <1>2, LayoutAlways, PTL DEF Spec

\* When sexp_mark is done, whatever the context refers to is marked, and what
\* a marked object refers to is marked, too: neither the ranges left on the
\* mark stack nor the slots skipped as repeated or already marked lose one.
THEOREM MarkAlwaysComplete == Spec => []MarkComplete
<1>1. MarkInv => MarkComplete
  BY DEF MarkInv
<1>2. QED
  BY <1>1, MarkAlways, PTL

-----------------------------------------------------------------------------
(* References.                                                             *)

\* Every field of a new object holds an object or an immediate...
LEMMA NewFields ==
  ASSUME TypeOK, VarsIn(Objects), NEW k \in Kinds, NEW args \in Arguments(k),
         NEW i \in 1..Types[k].len
  PROVE  NewObject(k, args).fields[i] \in Objects \cup {Nil}
BY NewObjectType DEF VarsIn

\* ...and an immediate if it goes with weak ones and is not marked.
LEMMA NewExtra ==
  ASSUME TypeOK, ~ValueRefs, NEW k \in Kinds, NEW args \in Arguments(k),
         NEW i \in 1..Types[k].len, i > Types[k].slots, i > Types[k].weak
  PROVE  NewObject(k, args).fields[i] = Nil
<1>1. i <= Types[k].weak + Types[k].extra
  BY TypeFacts
<1>2. args[i] = 0
  BY <1>1 DEF Arguments
<1>3. QED
  BY <1>2, NewObjectType

\* Allocation keeps references valid.
LEMMA AllocRefs ==
  ASSUME LayoutInv, ~ValueRefs, NEW v \in Vars, NEW k \in Kinds, NEW args \in Arguments(k),
         AllRefsValid,
         NEW b, Allocated(b, v, k, args)
  PROVE  AllRefsValid'
<1>1. /\ Objects' = Objects \cup {b} /\ b \notin Objects
      /\ obj'[b] = NewObject(k, args) /\ Row(b)' = Types[k]
      /\ \A a \in Objects : obj'[a] = obj[a] /\ Row(a)' = Row(a)
      /\ var' = [var EXCEPT ![v] = b] /\ TypeOK
  BY DEF Allocated, LayoutInv
<1>0. ExtraNil /\ VarsIn(Objects) /\ \A a \in Objects : FieldsIn(a, Objects)
  BY DEF AllRefsValid
<1>2. ExtraNil'
  BY <1>0, <1>1, NewExtra DEF ExtraNil
<1>3. VarsIn(Objects)'
  <2>1. var \in [Vars -> Refs]
    BY <1>1 DEF TypeOK
  <2>2. QED
    BY <1>0, <1>1, <2>1 DEF VarsIn
<1>4. ASSUME NEW a \in Objects' PROVE FieldsIn(a, Objects)'
  <2>1. CASE a \in Objects
    BY <1>0, <2>1, <1>1 DEF FieldsIn
  <2>2. CASE a = b
    BY <1>0, <2>2, <1>1, NewFields DEF FieldsIn
  <2>3. QED
    BY <1>4, <2>1, <2>2, <1>1
<1>5. QED
  BY <1>2, <1>3, <1>4 DEF AllRefsValid

\* So does the mutator.
LEMMA MutatorRefs ==
  ASSUME LayoutInv, ~ValueRefs, RefsInv, Mutator
  PROVE  /\ phase = "run" /\ phase' \in {"run", "mark"}
         /\ AllRefsValid'
<1>1. phase = "run" /\ phase' \in {"run", "mark"}
  BY DEF Mutator, New, SetField, GetField, Drop, Collect, Destroy, StartGc
<1>2. ExtraNil /\ VarsIn(Objects) /\ (\A a \in Objects : FieldsIn(a, Objects)) /\ TypeOK
      /\ var \in [Vars -> Refs]
  BY <1>1 DEF RefsInv, AllRefsValid, LayoutInv, TypeOK
<1>11. AllRefsValid
  BY <1>2 DEF AllRefsValid
<1>3. ASSUME obj' = obj, VarsIn(Objects)'
      PROVE  AllRefsValid'
  <2>1. Objects' = Objects /\ \A a : Row(a)' = Row(a)
    BY <1>3 DEF Objects, Row
  <2>2. QED
    BY <1>2, <1>3, <2>1 DEF AllRefsValid, ExtraNil, FieldsIn
<1>4. ASSUME obj' = obj, var' = var
      PROVE  AllRefsValid'
  <2>1. VarsIn(Objects)'
    BY <1>2, <1>4 DEF VarsIn, Objects
  <2>2. QED
    BY <2>1, <1>3, <1>4
<1>5. ASSUME NEW v \in Vars, NEW k \in Kinds, NEW args \in Arguments(k), New(v, k, args)
      PROVE  AllRefsValid'
  <2>1. CASE TryAlloc(v, k, args)
    <3>1. heaps' = heaps /\ marked' = marked
      BY <1>5 DEF New
    <3>2. \E a : Allocated(a, v, k, args)
      BY <2>1, <3>1, TryAllocLayout
    <3>3. PICK a : Allocated(a, v, k, args)
      BY <3>2
    <3>4. QED
      BY <3>3, <1>11, AllocRefs
  <2>2. CASE ~TryAlloc(v, k, args)
    <3>1. obj' = obj /\ var' = var
      BY <1>5, <2>2 DEF New
    <3>2. QED
      BY <3>1, <1>4
  <2>3. QED
    BY <2>1, <2>2
<1>6. ASSUME NEW v \in Vars, NEW w \in Vars, NEW i \in FieldIndexes, SetField(v, i, w)
      PROVE  AllRefsValid'
  <2>1. PICK c : c = var[v]
    OBVIOUS
  <2>2. PICK x : x = var[w]
    OBVIOUS
  <2>3. /\ c \in Objects /\ i \in 1..Row(c).slots
    BY <1>6, <2>1, SetFieldObject
  <2>4. \E N \in [kind : Kinds, fin : Nat, fields : Seq(Refs)] :
          /\ N.kind = obj[c].kind /\ Len(N.fields) = Len(obj[c].fields)
          /\ N.fields = [obj[c].fields EXCEPT ![i] = x]
          /\ obj' = [obj EXCEPT ![c] = N]
    BY <1>6, <2>1, <2>2, SetFieldObject
  <2>5. PICK N \in [kind : Kinds, fin : Nat, fields : Seq(Refs)] :
          /\ N.kind = obj[c].kind /\ Len(N.fields) = Len(obj[c].fields)
          /\ N.fields = [obj[c].fields EXCEPT ![i] = x]
          /\ obj' = [obj EXCEPT ![c] = N]
    BY <2>4
  <2>6. /\ Objects' = Objects /\ \A a \in Objects : a # c => obj'[a] = obj[a]
        /\ obj'[c] = N /\ \A a \in Objects : Row(a)' = Row(a)
    <3>1. obj \in [Objects -> [kind : Kinds, fin : Nat, fields : Seq(Refs)]]
      BY <1>2 DEF TypeOK
    <3>2. QED
      BY <3>1, <2>3, <2>5 DEF Objects, Row
  <2>7. /\ obj[c].fields \in Seq(Refs) /\ Len(obj[c].fields) = Row(c).len
        /\ Row(c).slots \in Nat /\ Row(c).len \in Nat /\ Row(c).slots <= Row(c).len
    BY <2>3, <1>2, ObjectFacts
  <2>8. \A j \in 1..Row(c).len : N.fields[j] = IF j = i THEN x ELSE obj[c].fields[j]
    BY <2>3, <2>5, <2>7
  <2>9. var' = var /\ x \in Objects \cup {Nil} /\ VarsIn(Objects)'
    BY <1>6, <1>2, <2>2, <2>6 DEF SetField, VarsIn
  <2>10. ExtraNil'
    <3>1. \A j \in 1..Row(c).len : j > Row(c).slots => N.fields[j] = obj[c].fields[j]
      BY <2>3, <2>7, <2>8
    <3>2. QED
      BY <3>1, <2>3, <2>6, <1>2 DEF ExtraNil
  <2>11. ASSUME NEW a \in Objects PROVE FieldsIn(a, Objects)'
    <3>1. CASE a = c
      BY <3>1, <2>3, <2>6, <2>8, <2>9, <1>2 DEF FieldsIn
    <3>2. CASE a # c
      BY <3>2, <2>6, <1>2 DEF FieldsIn
    <3>3. QED
      BY <3>1, <3>2
  <2>12. QED
    BY <2>6, <2>9, <2>10, <2>11 DEF AllRefsValid
<1>7. ASSUME NEW v \in Vars, NEW w \in Vars, NEW i \in FieldIndexes, GetField(v, w, i)
      PROVE  AllRefsValid'
  <2>1. /\ obj' = obj /\ var[w] \in Objects /\ i <= Row(var[w]).len
        /\ var' = [var EXCEPT ![v] = obj[var[w]].fields[i]]
    BY <1>7 DEF GetField
  <2>2. Row(var[w]).len \in Nat /\ i \in Nat \ {0}
    <3>1. Row(var[w]).len \in Nat
      BY <2>1, <1>2, ObjectFacts
    <3>2. \A k \in Kinds : \A j \in 1..Types[k].len : j \in Nat \ {0}
      BY TypeFacts
    <3>3. QED
      BY <3>1, <3>2 DEF FieldIndexes
  <2>3. obj[var[w]].fields[i] \in Objects \cup {Nil}
    BY <2>1, <2>2, <1>2 DEF FieldsIn
  <2>4. VarsIn(Objects)'
    BY <2>1, <2>3, <1>2 DEF VarsIn, Objects
  <2>5. QED
    BY <2>1, <2>4, <1>3
<1>8. ASSUME NEW v \in Vars, Drop(v)
      PROVE  AllRefsValid'
  <2>1. obj' = obj /\ var' = [var EXCEPT ![v] = Nil]
    BY <1>8 DEF Drop
  <2>2. VarsIn(Objects)'
    BY <2>1, <1>2 DEF VarsIn, Objects
  <2>3. QED
    BY <2>1, <2>2, <1>3
<1>9. CASE Collect \/ Destroy
  BY <1>1, <1>4, <1>9 DEF Collect, Destroy
<1>10. QED
  BY <1>1, <1>5, <1>6, <1>7, <1>8, <1>9 DEF Mutator

\* The pass over weak references leaves only references to marked objects in
\* the object it is at.
LEMMA ResetLive ==
  ASSUME LayoutInv, MarkInv, ExtraNil, WeakObject, NEW c \in marked, c = p
  PROVE  FieldsIn(c, marked)'
<1>1. /\ c \in Objects /\ Row(c)' = Row(c) /\ marked' = marked /\ TypeOK
      /\ phase = "weak" /\ teardown = 0
  BY WeakPass DEF LayoutInv, MarkInv, PhasesOK
<1>2. /\ Row(c).slots \in Nat /\ Row(c).weak \in Nat /\ Row(c).extra \in Nat /\ Row(c).len \in Nat
  BY <1>1, ObjectFacts
<1>3. \A i \in 1..Row(c).slots : obj[c].fields[i] \in marked \cup {Nil}
  BY <1>1 DEF MarkInv, MarkComplete, StrongFields
<1>4. \A i \in 1..Row(c).len : i > Row(c).slots /\ i > Row(c).weak => obj[c].fields[i] = Nil
  BY <1>1 DEF ExtraNil
<1>. SUFFICES ASSUME NEW i \in 1..Row(c).len PROVE obj'[c].fields[i] \in marked \cup {Nil}
  BY <1>1 DEF FieldsIn
<1>5. CASE Row(c).weak = 0
  <2>1. obj'[c] = obj[c]
    BY <1>1, <1>5, WeakPass
  <2>2. QED
    BY <2>1, <1>2, <1>3, <1>4, <1>5
<1>6. CASE Row(c).weak > 0
  <2>1. obj'[c].fields = ResetWeak(c)
    BY <1>6, WeakPass
  <2>2. ResetWeak(c)[i] \in {obj[c].fields[i], Nil}
    BY <1>1, ResetType
  <2>3. CASE i <= Row(c).slots
    BY <2>1, <2>2, <2>3, <1>2, <1>3
  <2>4. CASE i > Row(c).slots /\ i > Row(c).weak
    BY <2>1, <2>2, <2>4, <1>4
  <2>5. CASE i <= Row(c).weak
    <3>1. i \in 1..Row(c).weak
      BY <2>5, <1>2
    <3>2. ResetWeak(c)[i] = IF obj[c].fields[i] # Nil /\ obj[c].fields[i] \notin marked
                            THEN Nil ELSE obj[c].fields[i]
      BY <3>1, <1>2 DEF ResetWeak
    <3>3. QED
      BY <2>1, <3>2
  <2>6. QED
    BY <2>3, <2>4, <2>5, <1>2
<1>7. QED
  BY <1>2, <1>5, <1>6

\* Fields that are neither marked nor weak keep their immediates.
LEMMA PassExtra ==
  ASSUME LayoutInv, ExtraNil, WeakObject \/ FinalizeObject
  PROVE  ExtraNil'
<1>. SUFFICES ASSUME NEW a \in Objects', NEW i \in (1..Row(a).len)',
                     (i > Row(a).slots /\ i > Row(a).weak)'
              PROVE  obj'[a].fields[i] = Nil
  BY DEF ExtraNil
<1>1. a \in Objects /\ Row(a)' = Row(a) /\ TypeOK
  BY WeakPass, FinalPass DEF LayoutInv
<1>2. obj[a].fields[i] = Nil
  BY <1>1 DEF ExtraNil
<1>3. CASE FinalizeObject
  BY <1>1, <1>2, <1>3, FinalPass
<1>4. CASE WeakObject
  <2>1. a # p \/ a \notin marked \/ Row(a).weak = 0 => obj'[a] = obj[a]
    BY <1>1, <1>4, WeakPass
  <2>2. p \in marked /\ Row(p).weak > 0 => obj'[p].fields = ResetWeak(p)
    BY <1>4, WeakPass
  <2>3. Row(a).weak \in Nat /\ ResetWeak(a)[i] \in {obj[a].fields[i], Nil}
    BY <1>1, ObjectFacts, ResetType
  <2>4. QED
    BY <2>1, <2>2, <2>3, <1>2
<1>5. QED
  BY <1>3, <1>4

\* A sweep begins with what is marked...
LEMMA SweepBegins ==
  ASSUME LayoutInv, FinalizeDone
  PROVE  phase' = "sweep" => Live' = marked
<1>1. /\ obj' = obj /\ marked' = marked /\ SameBlocks /\ Rescan
  BY DEF FinalizeDone, SameBlocks
<1>2. marked \subseteq Objects /\ Objects \subseteq Nat /\ Objects' = Objects
  BY <1>1 DEF LayoutInv, TypeOK, Objects
<1>3. (\A a \in Objects : p' <= a) /\ p' \in Nat
  BY <1>1, ScanStart
<1>4. \A a \in Objects : ~(a < p')
  BY <1>2, <1>3
<1>5. QED
  BY <1>1, <1>2, <1>4 DEF Live

\* ...and keeps it and nothing else.
LEMMA SweepLive ==
  ASSUME LayoutInv, SweepObject
  PROVE  /\ Live' = Live /\ Live \subseteq Objects' /\ Objects' \subseteq Objects
         /\ \A a \in Objects' : obj'[a] = obj[a] /\ Row(a)' = Row(a)
<1>0. phase = "sweep" /\ phase' = phase /\ p \in Nat
  BY DEF SweepObject, LayoutInv, TypeOK
<1>1. CASE p \in marked
  <2>1. /\ p \in Objects /\ obj' = obj /\ marked' = marked \ {p}
        /\ \A a \in Objects : a < p' <=> a < p \/ a = p
    BY <1>1, SweepPasses
  <2>2. Objects' = Objects /\ \A a : Row(a)' = Row(a)
    BY <2>1 DEF Objects, Row
  <2>3. Live' = Live
    BY <2>1, <2>2, <1>0, <1>1 DEF Live
  <2>4. QED
    BY <2>1, <2>2, <2>3 DEF Live
<1>2. CASE p \notin marked
  <2>1. /\ p \in Objects /\ Objects' = Objects \ {p} /\ marked' = marked
        /\ \A a \in Objects \ {p} : obj'[a] = obj[a] /\ Row(a)' = Row(a)
        /\ \A a \in Objects \ {p} : a < p' <=> a < p
    BY <1>2, SweepPasses
  <2>2. ~(p < p)
    BY <1>0
  <2>3. Live' = Live
    BY <2>1, <2>2, <1>0, <1>2 DEF Live
  <2>4. QED
    BY <2>1, <2>2, <2>3, <1>0, <1>2 DEF Live
<1>3. QED
  BY <1>1, <1>2

\* Marking and the passes over the heap keep references valid.
LEMMA RefsStep ==
  ASSUME ~ValueRefs, LayoutInv, MarkInv, RefsInv, [Next]_vars
  PROVE  RefsInv'
<1>0. ExtraNil /\ TypeOK /\ marked \subseteq Objects /\ Objects \subseteq Nat /\ PhasesOK /\ p \in Nat
  BY DEF RefsInv, LayoutInv, TypeOK, MarkInv
<1>1. ASSUME obj' = obj PROVE ExtraNil' /\ Objects' = Objects /\ \A a : Row(a)' = Row(a)
  BY <1>0, <1>1 DEF ExtraNil, Objects, Row
<1>2. ASSUME obj' = obj, var' = var, AllRefsValid, phase' \in {"run", "retry", "again", "mark"}
      PROVE  RefsInv'
  <2>1. AllRefsValid'
    BY <1>1, <1>2 DEF AllRefsValid, VarsIn, FieldsIn
  <2>2. QED
    BY <2>1, <1>2 DEF RefsInv, AllRefsValid
<1>3. CASE Mutator
  <2>1. phase' \in {"run", "mark"} /\ AllRefsValid'
    BY <1>3, MutatorRefs
  <2>2. QED
    BY <2>1 DEF RefsInv, AllRefsValid
<1>4. CASE Mark
  <2>1. obj' = obj /\ var' = var /\ phase = "mark" /\ teardown' = teardown
    BY <1>4 DEF Mark, MarkVar, MarkOne, MarkWalk, MarkPop, MarkDone, markUnchanged
  <2>2. AllRefsValid
    BY <2>1 DEF RefsInv
  <2>3. CASE phase' = "mark"
    BY <2>1, <2>2, <2>3, <1>2
  <2>4. CASE phase' # "mark"
    <3>1. MarkDone
      BY <1>4, <2>4, <2>1 DEF Mark, MarkVar, MarkOne, MarkWalk, MarkPop
    <3>2. /\ marked' = marked /\ Rescan /\ SameBlocks
          /\ phase' = IF teardown = 1 THEN "finalize" ELSE "weak"
      BY <3>1, <2>1 DEF MarkDone, SameBlocks, markUnchanged
    <3>3. \A a \in Objects : p' <= a
      BY <3>2, ScanStart
    <3>4. p' \in Nat
      BY <3>2, ScanStart
    <3>5. \A a \in marked' : ~(a < p')
      BY <3>2, <3>3, <3>4, <1>0
    <3>6. teardown' = 1 \/ phase' = "weak"
      BY <3>2, <2>1
    <3>7. phase' \in {"weak", "finalize"} /\ ExtraNil'
      BY <3>2, <2>1, <1>1
    <3>8. QED
      BY <3>5, <3>6, <3>7 DEF RefsInv
  <2>5. QED
    BY <2>3, <2>4
<1>5. CASE ScanSkip \/ ScanHeap
  <2>1. /\ UNCHANGED <<obj, marked, var, phase, teardown>> /\ Scanning
    BY <1>5 DEF ScanSkip, ScanHeap
  <2>2. \A a \in Objects : a < p' <=> a < p
    BY <1>5, ScanPasses
  <2>3. Live' = Live /\ Objects' = Objects /\ \A a : Row(a)' = Row(a)
    BY <1>1, <2>1, <2>2 DEF Live
  <2>4. /\ \A a \in Objects : FieldsIn(a, marked)' <=> FieldsIn(a, marked)
        /\ \A a \in Objects : FieldsIn(a, Live)' <=> FieldsIn(a, Live)
        /\ VarsIn(Live)' <=> VarsIn(Live)
    BY <2>1, <2>3 DEF FieldsIn, VarsIn
  <2>5. Live \subseteq Objects
    BY DEF Live
  <2>6. QED
    BY <2>1, <2>2, <2>3, <2>4, <2>5, <1>0, <1>1 DEF RefsInv, Scanning
<1>6. CASE WeakObject
  <2>1. /\ p \in Objects /\ Objects' = Objects /\ marked' = marked
        /\ phase = "weak" /\ phase' = phase
        /\ \A a \in Objects : a < p' <=> a < p \/ a = p
        /\ \A a \in Objects : Row(a)' = Row(a)
        /\ \A a \in Objects : a # p => obj'[a] = obj[a]
    BY <1>6, WeakPass
  <2>2. ASSUME NEW a \in marked', a < p' PROVE FieldsIn(a, marked)'
    <3>1. CASE a = p
      <4>1. a \in marked
        BY <2>1, <2>2
      <4>2. QED
        BY <3>1, <4>1, <1>0, <1>6, ResetLive
    <3>2. CASE a # p
      <4>1. a \in marked /\ a \in Objects /\ a < p /\ obj'[a] = obj[a] /\ Row(a)' = Row(a)
        BY <3>2, <2>1, <2>2, <1>0
      <4>2. FieldsIn(a, marked)
        BY <4>1, <2>1 DEF RefsInv
      <4>3. QED
        BY <4>1, <4>2, <2>1 DEF FieldsIn
    <3>3. QED
      BY <3>1, <3>2
  <2>3. ExtraNil'
    BY <1>0, <1>6, PassExtra
  <2>4. QED
    BY <2>1, <2>2, <2>3 DEF RefsInv
<1>7. CASE WeakDone
  <2>1. /\ ScanEnds("weak") /\ phase = "weak" /\ phase' = "finalize"
        /\ obj' = obj /\ marked' = marked
    BY <1>7 DEF WeakDone, ScanEnds
  <2>2. \A a \in Objects : a < p
    BY <2>1, ScanEnd
  <2>3. \A a \in marked : FieldsIn(a, marked)
    BY <2>1, <2>2, <1>0 DEF RefsInv
  <2>4. \A a \in marked' : FieldsIn(a, marked)'
    BY <2>1, <2>3, <1>1 DEF FieldsIn
  <2>5. QED
    BY <2>1, <2>4, <1>1 DEF RefsInv
<1>8. CASE FinalizeObject
  <2>1. /\ Objects' = Objects /\ marked' = marked
        /\ phase = "finalize" /\ phase' = phase /\ teardown' = teardown
        /\ \A a \in Objects : Row(a)' = Row(a) /\ obj'[a].fields = obj[a].fields
    BY <1>8, FinalPass
  <2>2. \A a \in Objects : FieldsIn(a, marked)' <=> FieldsIn(a, marked)
    BY <2>1 DEF FieldsIn
  <2>3. ExtraNil'
    BY <1>0, <1>8, PassExtra
  <2>4. QED
    BY <2>1, <2>2, <2>3, <1>0 DEF RefsInv
<1>9. CASE FinalizeDone
  <2>1. /\ phase = "finalize" /\ obj' = obj /\ marked' = marked /\ var' = var
        /\ teardown' = teardown /\ SameBlocks /\ Rescan /\ phase' \in {"dead", "sweep"}
    BY <1>9 DEF FinalizeDone, ScanEnds, SameBlocks
  <2>3. phase' = "sweep" => Live' = marked
    BY <1>9, SweepBegins
  <2>4. ASSUME phase' = "sweep", teardown' = 0
        PROVE  VarsIn(Live)' /\ \A a \in Live' : FieldsIn(a, Live)'
    <3>1. teardown = 0 /\ LastVar = NumVars
      BY <2>1, <2>4 DEF LastVar
    <3>2. VarsIn(marked)
      BY <2>1, <3>1 DEF MarkInv, MarkComplete, VarsIn, Vars
    <3>3. \A a \in marked : FieldsIn(a, marked)
      BY <2>1, <3>1 DEF RefsInv
    <3>4. QED
      BY <2>1, <2>3, <2>4, <3>2, <3>3, <1>1 DEF VarsIn, FieldsIn
  <2>5. QED
    BY <2>1, <2>4, <1>1 DEF RefsInv
<1>10. CASE SweepObject
  <2>1. phase = "sweep" /\ phase' = phase /\ teardown' = teardown /\ var' = var
    BY <1>10 DEF SweepObject
  <2>2. /\ Live' = Live /\ Live \subseteq Objects' /\ Objects' \subseteq Objects
        /\ \A a \in Objects' : obj'[a] = obj[a] /\ Row(a)' = Row(a)
    BY <1>10, SweepLive
  <2>3. ExtraNil'
    BY <2>2, <1>0 DEF ExtraNil
  <2>4. ASSUME teardown = 0 PROVE VarsIn(Live)' /\ \A a \in Live' : FieldsIn(a, Live)'
    BY <2>1, <2>2, <2>4 DEF RefsInv, VarsIn, FieldsIn
  <2>5. QED
    BY <2>1, <2>3, <2>4 DEF RefsInv
<1>11. CASE SweepDone
  <2>1. /\ obj' = obj /\ var' = var /\ phase = "sweep"
        /\ phase' = IF teardown = 1 THEN "finalize" ELSE IF req = NoReq THEN "run" ELSE "retry"
        /\ teardown' = IF teardown = 1 THEN 2 ELSE 0
    BY <1>11 DEF SweepDone, ScanEnds
  <2>2. \A a \in Objects : a < p
    BY <1>0, <1>11, SweepEnds
  <2>3. CASE teardown = 1
    BY <2>1, <2>3, <1>1 DEF RefsInv
  <2>4. CASE teardown # 1
    <3>1. teardown = 0
      BY <2>1, <2>4, <1>0 DEF PhasesOK
    <3>2. Live = Objects
      BY <2>1, <2>2 DEF Live
    <3>3. AllRefsValid
      BY <2>1, <3>1, <3>2, <1>0 DEF RefsInv, AllRefsValid
    <3>4. QED
      BY <2>1, <2>4, <3>3, <1>2
  <2>5. QED
    BY <2>3, <2>4
<1>12. CASE Grow \/ DontGrow
  <2>1. obj' = obj /\ var' = var /\ phase = "retry" /\ phase' = "again"
    BY <1>12 DEF Grow, DontGrow
  <2>2. QED
    BY <2>1, <1>2 DEF RefsInv
<1>13. CASE Retry
  <2>1. phase = "again" /\ phase' = "run" /\ heaps' = heaps /\ marked' = marked
    BY <1>13 DEF Retry
  <2>2. AllRefsValid /\ var \in [Vars -> Refs]
    BY <2>1 DEF RefsInv, LayoutInv, TypeOK
  <2>3. req.var \in Vars /\ req.kind \in Kinds /\ req.args \in Arguments(req.kind)
    BY <2>1, <1>0 DEF TypeOK
  <2>4. CASE TryAlloc(req.var, req.kind, req.args)
    <3>1. \E a : Allocated(a, req.var, req.kind, req.args)
      BY <2>1, <2>3, <2>4, TryAllocLayout
    <3>2. PICK a : Allocated(a, req.var, req.kind, req.args)
      BY <3>1
    <3>3. AllRefsValid'
      BY <3>2, <2>2, <2>3, AllocRefs
    <3>4. QED
      BY <3>3, <2>1 DEF RefsInv, AllRefsValid
  <2>5. CASE ~TryAlloc(req.var, req.kind, req.args)
    <3>1. obj' = obj /\ var' = [var EXCEPT ![req.var] = Nil]
      BY <1>13, <2>5 DEF Retry
    <3>2. AllRefsValid'
      BY <3>1, <2>2, <1>1 DEF AllRefsValid, VarsIn, FieldsIn
    <3>3. QED
      BY <3>2, <2>1 DEF RefsInv, AllRefsValid
  <2>6. QED
    BY <2>4, <2>5
<1>14. CASE Dead \/ UNCHANGED vars
  <2>1. UNCHANGED <<obj, marked, var, phase, teardown, p>>
    BY <1>14 DEF Dead, vars, scan
  <2>2. QED
    BY <2>1, <1>1 DEF RefsInv, AllRefsValid, ExtraNil, VarsIn, FieldsIn, Live
<1>15. QED
  BY <1>3, <1>4, <1>5, <1>6, <1>7, <1>8, <1>9, <1>10, <1>11, <1>12, <1>13, <1>14 DEF Next, Scan

\* References stay valid, as long as no ephemeron's value is one that only
\* the ephemeron holds.
LEMMA RefsAlways == ASSUME ~ValueRefs PROVE Spec => []RefsInv
<1>1. Init => RefsInv
  BY DEF Init, RefsInv, AllRefsValid, ExtraNil, VarsIn, FieldsIn, Objects, Vars
<1>2. LayoutInv /\ MarkInv /\ RefsInv /\ [Next]_vars => RefsInv'
  BY RefsStep
<1>3. QED
  BY <1>1, <1>2, MarkAlways, PTL DEF Spec

\* The collector never frees what the mutator can reach: whenever the mutator
\* runs, its variables and the marked slots of all objects hold objects that
\* are still allocated, whatever was collected in between and wherever the
\* memory was used again.
THEOREM NeverDangling == ASSUME ~ValueRefs PROVE Spec => []NoDangling
<1>1. LayoutInv /\ RefsInv => NoDangling
  <2>. SUFFICES ASSUME LayoutInv, RefsInv, phase = "run"
                PROVE  /\ \A v \in Vars : var[v] \in Values
                       /\ \A a \in Objects : StrongFields(a) \subseteq Values
    BY DEF NoDangling
  <2>1. VarsIn(Objects) /\ \A a \in Objects : FieldsIn(a, Objects)
    BY DEF RefsInv, AllRefsValid
  <2>2. \A a \in Objects : Row(a).slots \in Nat /\ Row(a).len \in Nat /\ Row(a).slots <= Row(a).len
    BY ObjectFacts DEF LayoutInv
  <2>3. QED
    BY <2>1, <2>2 DEF VarsIn, FieldsIn, Values, StrongFields
<1>2. QED
  BY <1>1, RefsAlways, LayoutAlways, PTL

\* Whenever the mutator runs, a weak reference is broken or its object is still
\* allocated: sexp_reset_weak_references misses none that the sweep frees.
THEOREM WeakRefsAlwaysValid == ASSUME ~ValueRefs PROVE Spec => []WeakRefsValid
<1>1. LayoutInv /\ RefsInv => WeakRefsValid
  <2>. SUFFICES ASSUME LayoutInv, RefsInv, phase = "run"
                PROVE  \A a \in Objects : \A i \in 1..Row(a).weak : obj[a].fields[i] \in Values
    BY DEF WeakRefsValid
  <2>1. \A a \in Objects : FieldsIn(a, Objects)
    BY DEF RefsInv, AllRefsValid
  <2>2. \A a \in Objects : /\ Row(a).weak \in Nat /\ Row(a).extra \in Nat /\ Row(a).len \in Nat
                           /\ Row(a).weak + Row(a).extra <= Row(a).len
    BY ObjectFacts DEF LayoutInv
  <2>3. QED
    BY <2>1, <2>2 DEF FieldsIn, Values
<1>2. QED
  BY <1>1, RefsAlways, LayoutAlways, PTL

-----------------------------------------------------------------------------
(* Finalizers.                                                             *)

\* No kind of object is left to the second pass of sexp_finalize.
DlHasNone == \A k \in Kinds : Types[k].finalizer => k # Dl

\* Steps that change no object, and neither marks nor the scan, keep the count.
LEMMA SameFin ==
  ASSUME LayoutInv, FinInv, UNCHANGED <<obj, marked, phase, teardown>>,
         \A a \in Objects : a < p' <=> a < p, p' \in Nat
  PROVE  FinInv'
<1>1. Objects' = Objects /\ (\A a : Row(a)' = Row(a)) /\ Objects \subseteq Nat /\ p \in Nat
  BY DEF Objects, Row, LayoutInv, TypeOK
<1>2. \A a \in Objects : p' <= a <=> p <= a
  BY <1>1
<1>3. \A a \in Objects : FinCount(a)' = FinCount(a)
  BY <1>1, <1>2 DEF FinCount, Garbage
<1>4. QED
  BY <1>1, <1>3 DEF FinInv

\* Outside of the pass and of the sweep nothing counts as finalized.
LEMMA NoFin ==
  ASSUME phase' \in {"run", "mark", "weak", "retry", "again"},
         \A a \in Objects' : obj'[a].fin = 0
  PROVE  FinInv'
BY DEF FinInv, FinCount

\* Allocation.
LEMMA AllocFin ==
  ASSUME LayoutInv, NEW v \in Vars, NEW k \in Kinds, NEW args \in Arguments(k),
         TryAlloc(v, k, args), heaps' = heaps, marked' = marked,
         \A a \in Objects : obj[a].fin = 0
  PROVE  \A a \in Objects' : obj'[a].fin = 0
<1>1. \E b : Allocated(b, v, k, args)
  BY TryAllocLayout
<1>2. PICK b : Allocated(b, v, k, args)
  BY <1>1
<1>3. /\ Objects' = Objects \cup {b} /\ obj'[b] = NewObject(k, args)
      /\ \A a \in Objects : obj'[a] = obj[a]
  BY <1>2 DEF Allocated
<1>4. NewObject(k, args).fin = 0
  BY NewObjectType DEF LayoutInv
<1>5. QED
  BY <1>3, <1>4

\* A garbage object is finalized by the pass, and freed by the sweep, once.
LEMMA FinStep ==
  ASSUME DlHasNone, LayoutInv, MarkInv, FinInv, [Next]_vars
  PROVE  FinInv'
<1>0. /\ marked \subseteq Objects /\ Objects \subseteq Nat /\ p \in Nat /\ TypeOK /\ PhasesOK
  BY DEF LayoutInv, TypeOK, MarkInv
<1>1. ASSUME phase \in {"run", "mark", "weak", "retry", "again"}
      PROVE  /\ teardown # 2 => \A a \in Objects : obj[a].fin = 0
             /\ teardown # 2
  BY <1>0, <1>1 DEF FinInv, FinCount, PhasesOK
<1>2. ASSUME phase \in {"run", "mark", "weak", "retry", "again"},
             phase' \in {"run", "mark", "weak", "retry", "again"}, obj' = obj
      PROVE  FinInv'
  BY <1>1, <1>2, NoFin DEF Objects
<1>3. CASE Mutator
  <2>0. phase = "run" /\ phase' \in {"run", "mark"} /\ \A a \in Objects : obj[a].fin = 0
    BY <1>1, <1>3 DEF Mutator, New, SetField, GetField, Drop, Collect, Destroy, StartGc
  <2>1. ASSUME NEW v \in Vars, NEW k \in Kinds, NEW args \in Arguments(k), New(v, k, args)
        PROVE  FinInv'
    <3>1. CASE TryAlloc(v, k, args)
      <4>1. heaps' = heaps /\ marked' = marked
        BY <2>1 DEF New
      <4>2. \A a \in Objects' : obj'[a].fin = 0
        BY <3>1, <4>1, <2>0, AllocFin
      <4>3. QED
        BY <2>0, <4>2, NoFin
    <3>2. CASE ~TryAlloc(v, k, args)
      <4>1. obj' = obj
        BY <2>1, <3>2 DEF New
      <4>2. QED
        BY <4>1, <2>0, <1>2
    <3>3. QED
      BY <3>1, <3>2
  <2>2. ASSUME NEW v \in Vars, NEW w \in Vars, NEW i \in FieldIndexes, SetField(v, i, w)
        PROVE  FinInv'
    <3>1. PICK c : c = var[v]
      OBVIOUS
    <3>2. \E N \in [kind : Kinds, fin : Nat, fields : Seq(Refs)] :
            c \in Objects /\ N.fin = obj[c].fin /\ obj' = [obj EXCEPT ![c] = N]
      BY <2>2, <3>1, SetFieldObject
    <3>3. \A a \in Objects' : obj'[a].fin = 0
      BY <3>2, <2>0 DEF Objects
    <3>4. QED
      BY <2>0, <3>3, NoFin
  <2>3. CASE Collect \/ Destroy \/ (\E v \in Vars : Drop(v))
               \/ (\E v, w \in Vars, i \in FieldIndexes : GetField(v, w, i))
    BY <2>0, <2>3, <1>2 DEF Collect, Destroy, Drop, GetField
  <2>4. QED
    BY <1>3, <2>1, <2>2, <2>3 DEF Mutator
<1>4. CASE Mark
  <2>1. obj' = obj /\ phase = "mark" /\ phase' \in {"mark", "weak", "finalize"}
    BY <1>4 DEF Mark, MarkVar, MarkOne, MarkWalk, MarkPop, MarkDone, markUnchanged
  <2>2. CASE phase' # "finalize"
    BY <2>1, <2>2, <1>2
  <2>3. CASE phase' = "finalize"
    <3>1. MarkDone
      BY <1>4, <2>1, <2>3 DEF Mark, MarkVar, MarkOne, MarkWalk, MarkPop
    <3>2. Rescan /\ SameBlocks
      BY <3>1 DEF MarkDone, SameBlocks, markUnchanged
    <3>3. (\A a \in Objects : p' <= a) /\ p' \in Nat
      BY <3>2, ScanStart
    <3>4. \A a \in Objects : ~(a < p')
      BY <3>3, <1>0
    <3>5. QED
      BY <2>1, <2>3, <3>4, <1>1 DEF FinInv, FinCount, Objects
  <2>4. QED
    BY <2>2, <2>3
<1>5. CASE ScanSkip \/ ScanHeap
  <2>1. UNCHANGED <<obj, marked, phase, teardown>>
    BY <1>5 DEF ScanSkip, ScanHeap
  <2>2. (\A a \in Objects : a < p' <=> a < p) /\ p' \in Nat
    BY <1>5, ScanPasses, ScanMoves
  <2>3. QED
    BY <2>1, <2>2, SameFin
<1>6. CASE WeakObject
  <2>1. /\ Objects' = Objects /\ phase = "weak" /\ phase' = phase
        /\ \A a \in Objects : obj'[a].fin = obj[a].fin
    BY <1>6, WeakPass
  <2>2. QED
    BY <2>1, <1>1, NoFin
<1>7. CASE WeakDone
  <2>1. phase = "weak" /\ phase' = "finalize" /\ obj' = obj /\ Rescan /\ SameBlocks
    BY <1>7 DEF WeakDone, ScanEnds, SameBlocks
  <2>2. (\A a \in Objects : p' <= a) /\ p' \in Nat
    BY <2>1, ScanStart
  <2>3. \A a \in Objects : ~(a < p')
    BY <2>2, <1>0
  <2>4. QED
    BY <2>1, <2>3, <1>1 DEF FinInv, FinCount, Objects
<1>8. CASE FinalizeObject
  <2>1. /\ p \in Objects /\ Objects' = Objects /\ marked' = marked
        /\ phase = "finalize" /\ phase' = phase /\ teardown' = teardown
        /\ \A a \in Objects : a < p' <=> a < p \/ a = p
        /\ \A a \in Objects : Row(a)' = Row(a)
        /\ \A a \in Objects : obj'[a].fin =
             IF a = p /\ p \notin marked /\ Row(p).finalizer /\ obj[p].kind # Dl
             THEN obj[a].fin + 1 ELSE obj[a].fin
    BY <1>8, FinalPass
  <2>2. Row(p).finalizer => obj[p].kind # Dl
    <3>1. obj[p].kind \in Kinds
      BY <2>1, <1>0, ObjectFacts
    <3>2. QED
      BY <3>1 DEF DlHasNone, Row
  <2>3. ASSUME teardown # 2, NEW a \in Objects PROVE obj'[a].fin = FinCount(a)'
    <3>1. obj[a].fin = FinCount(a)
      BY <2>1, <2>3 DEF FinInv
    <3>2. FinCount(a)' = IF Garbage(a) /\ (a < p \/ a = p) THEN 1 ELSE 0
      BY <2>1 DEF FinCount, Garbage
    <3>3. FinCount(a) = IF Garbage(a) /\ a < p THEN 1 ELSE 0
      BY <2>1 DEF FinCount
    <3>4. CASE a = p
      <4>1. ~(a < p)
        BY <3>4, <1>0
      <4>2. QED
        BY <3>1, <3>2, <3>3, <3>4, <4>1, <2>1, <2>2 DEF Garbage
    <3>5. CASE a # p
      BY <3>1, <3>2, <3>3, <3>5, <2>1
    <3>6. QED
      BY <3>4, <3>5
  <2>4. QED
    BY <2>1, <2>3 DEF FinInv
<1>9. CASE FinalizeDone
  <2>1. /\ ScanEnds("finalize") /\ phase = "finalize" /\ obj' = obj /\ marked' = marked
        /\ teardown' = teardown /\ SameBlocks /\ Rescan /\ phase' \in {"dead", "sweep"}
    BY <1>9 DEF FinalizeDone, ScanEnds, SameBlocks
  <2>2. (\A a \in Objects : p' <= a) /\ p' \in Nat /\ \A a \in Objects : a < p
    BY <2>1, ScanStart, ScanEnd
  <2>3. Objects' = Objects /\ \A a : Row(a)' = Row(a)
    BY <2>1 DEF Objects, Row
  <2>4. ASSUME phase' = "sweep", teardown # 2, NEW a \in Objects
        PROVE  obj'[a].fin = FinCount(a)'
    <3>1. obj[a].fin = FinCount(a)
      BY <2>1, <2>4 DEF FinInv
    <3>2. QED
      BY <3>1, <2>1, <2>2, <2>3, <2>4 DEF FinCount, Garbage
  <2>5. QED
    BY <2>1, <2>3, <2>4 DEF FinInv
<1>10. CASE SweepObject
  <2>1. phase = "sweep" /\ phase' = phase /\ teardown' = teardown /\ p' \in Nat /\ p \in Objects
    BY <1>10, SweepPasses DEF SweepObject
  <2>2. ASSUME teardown # 2, NEW a \in Objects' PROVE obj'[a].fin = FinCount(a)'
    <3>1. CASE p \in marked
      <4>1. /\ obj' = obj /\ marked' = marked \ {p} /\ \A b \in Objects : b < p' <=> b < p \/ b = p
        BY <1>10, <3>1, SweepPasses
      <4>2. a \in Objects /\ a \in Nat /\ Row(a)' = Row(a) /\ obj'[a] = obj[a]
        BY <4>1, <2>2, <1>0 DEF Objects, Row
      <4>3. obj[a].fin = FinCount(a)
        BY <2>1, <2>2, <4>2 DEF FinInv
      <4>4. p' <= a <=> p <= a /\ a # p
        BY <4>1, <4>2, <2>1, <1>0
      <4>5. QED
        BY <3>1, <4>1, <4>2, <4>3, <4>4, <2>1 DEF FinCount, Garbage
    <3>2. CASE p \notin marked
      <4>1. /\ Objects' = Objects \ {p} /\ marked' = marked
            /\ \A b \in Objects \ {p} : obj'[b] = obj[b] /\ Row(b)' = Row(b)
            /\ \A b \in Objects \ {p} : b < p' <=> b < p
        BY <1>10, <3>2, SweepPasses
      <4>2. a \in Objects \ {p} /\ a \in Nat /\ Row(a)' = Row(a) /\ obj'[a] = obj[a]
        BY <4>1, <2>2, <1>0
      <4>3. obj[a].fin = FinCount(a)
        BY <2>1, <2>2, <4>2 DEF FinInv
      <4>4. p' <= a <=> p <= a
        BY <4>1, <4>2, <2>1, <1>0
      <4>5. QED
        BY <4>1, <4>2, <4>3, <4>4, <2>1 DEF FinCount, Garbage
    <3>3. QED
      BY <3>1, <3>2
  <2>3. QED
    BY <2>1, <2>2 DEF FinInv
<1>11. CASE SweepDone
  <2>1. /\ obj' = obj /\ phase = "sweep" /\ teardown # 2
        /\ phase' = IF teardown = 1 THEN "finalize" ELSE IF req = NoReq THEN "run" ELSE "retry"
        /\ teardown' = IF teardown = 1 THEN 2 ELSE 0
    BY <1>11, <1>0 DEF SweepDone, ScanEnds, PhasesOK
  <2>2. \A a \in Objects : a < p
    BY <1>0, <1>11, SweepEnds
  <2>3. \A a \in Objects : ~(p <= a)
    BY <2>2, <1>0
  <2>4. \A a \in Objects : obj[a].fin = 0
    BY <2>1, <2>3 DEF FinInv, FinCount
  <2>5. CASE teardown = 1
    BY <2>1, <2>5 DEF FinInv
  <2>6. CASE teardown # 1
    BY <2>1, <2>4, <2>6, NoFin DEF Objects
  <2>7. QED
    BY <2>5, <2>6
<1>12. CASE Grow \/ DontGrow
  <2>1. obj' = obj /\ phase = "retry" /\ phase' = "again"
    BY <1>12 DEF Grow, DontGrow
  <2>2. QED
    BY <2>1, <1>2
<1>13. CASE Retry
  <2>1. phase = "again" /\ phase' = "run" /\ heaps' = heaps /\ marked' = marked
    BY <1>13 DEF Retry
  <2>2. req.var \in Vars /\ req.kind \in Kinds /\ req.args \in Arguments(req.kind)
    BY <2>1, <1>0 DEF TypeOK
  <2>3. CASE TryAlloc(req.var, req.kind, req.args)
    <3>1. \A a \in Objects : obj[a].fin = 0
      BY <2>1, <1>1
    <3>2. \A a \in Objects' : obj'[a].fin = 0
      BY <2>1, <2>2, <2>3, <3>1, AllocFin
    <3>3. QED
      BY <3>2, <2>1, NoFin
  <2>4. CASE ~TryAlloc(req.var, req.kind, req.args)
    <3>1. obj' = obj
      BY <1>13, <2>4 DEF Retry
    <3>2. QED
      BY <3>1, <2>1, <1>2
  <2>5. QED
    BY <2>3, <2>4
<1>14. CASE Dead \/ UNCHANGED vars
  <2>1. UNCHANGED <<obj, marked, phase, teardown, p>>
    BY <1>14 DEF Dead, vars, scan
  <2>2. QED
    BY <2>1, <1>0, SameFin
<1>15. QED
  BY <1>3, <1>4, <1>5, <1>6, <1>7, <1>8, <1>9, <1>10, <1>11, <1>12, <1>13, <1>14 DEF Next, Scan

\* Only the sweep frees an object.
LEMMA OnlySweepFrees ==
  ASSUME LayoutInv, [Next]_vars, ~SweepObject
  PROVE  Objects \subseteq DOMAIN obj'
<1>0. TypeOK
  BY DEF LayoutInv
<1>1. ASSUME NEW v, NEW k, NEW args, TryAlloc(v, k, args) PROVE Objects \subseteq DOMAIN obj'
  BY <1>1 DEF TryAlloc
<1>2. CASE \E v \in Vars, k \in Kinds : \E args \in Arguments(k) : New(v, k, args)
  <2>1. PICK v \in Vars, k \in Kinds : \E args \in Arguments(k) : New(v, k, args)
    BY <1>2
  <2>2. PICK args \in Arguments(k) : New(v, k, args)
    BY <2>1
  <2>3. CASE TryAlloc(v, k, args)
    BY <2>3, <1>1
  <2>4. CASE ~TryAlloc(v, k, args)
    BY <2>2, <2>4 DEF New, Objects
  <2>5. QED
    BY <2>3, <2>4
<1>3. CASE \E v, w \in Vars, i \in FieldIndexes : SetField(v, i, w) \/ GetField(v, w, i)
  BY <1>3 DEF SetField, GetField, Objects
<1>4. CASE (\E v \in Vars : Drop(v)) \/ Collect \/ Destroy
  BY <1>4 DEF Drop, Collect, Destroy, Objects
<1>5. CASE Mark
  BY <1>5 DEF Mark, MarkVar, MarkOne, MarkWalk, MarkPop, MarkDone, markUnchanged, Objects
<1>6. CASE ScanSkip \/ ScanHeap \/ WeakDone \/ FinalizeDone \/ SweepDone
  BY <1>6 DEF ScanSkip, ScanHeap, WeakDone, FinalizeDone, SweepDone, Objects
<1>7. CASE WeakObject \/ FinalizeObject
  BY <1>7, WeakPass, FinalPass DEF Objects
<1>8. CASE Grow \/ DontGrow \/ Dead \/ UNCHANGED vars
  BY <1>8 DEF Grow, DontGrow, Dead, vars, Objects
<1>9. CASE Retry
  <2>1. CASE TryAlloc(req.var, req.kind, req.args)
    BY <2>1, <1>1
  <2>2. CASE ~TryAlloc(req.var, req.kind, req.args)
    BY <1>9, <2>2 DEF Retry, Objects
  <2>3. QED
    BY <2>1, <2>2
<1>10. QED
  BY <1>2, <1>3, <1>4, <1>5, <1>6, <1>7, <1>8, <1>9 DEF Next, Mutator, Scan

\* An object whose type has a finalizer is finalized exactly once before the
\* sweep frees it, and no finalizer has run of an object the mutator can use.
\* Shared libraries, which sexp_finalize leaves to a second pass, are excepted.
THEOREM AlwaysFinalizedOnce == ASSUME DlHasNone PROVE Spec => FinalizedOnce
<1>1. Init => FinInv
  BY DEF Init, FinInv, Objects
<1>2. LayoutInv /\ MarkInv /\ FinInv /\ [Next]_vars => FinInv'
  BY FinStep
<1>3. LayoutInv /\ MarkInv /\ FinInv /\ [Next]_vars
        => [/\ \A a \in Objects \ DOMAIN obj' : Row(a).finalizer => obj[a].fin = 1
            /\ phase = "run" => \A a \in Objects : obj[a].fin = 0]_vars
  <2>. SUFFICES ASSUME LayoutInv, MarkInv, FinInv, [Next]_vars
                PROVE  /\ \A a \in Objects \ DOMAIN obj' : Row(a).finalizer => obj[a].fin = 1
                       /\ phase = "run" => \A a \in Objects : obj[a].fin = 0
    OBVIOUS
  <2>1. phase = "run" => \A a \in Objects : obj[a].fin = 0
    BY DEF FinInv, FinCount, MarkInv, PhasesOK
  <2>2. CASE SweepObject
    <3>1. phase = "sweep" /\ teardown # 2 /\ p \in Nat
      BY <2>2 DEF SweepObject, MarkInv, PhasesOK, LayoutInv, TypeOK
    <3>2. CASE p \in marked
      BY <2>1, <2>2, <3>2, SweepPasses DEF Objects
    <3>3. CASE p \notin marked
      <4>1. p \in Objects /\ Objects' = Objects \ {p}
        BY <2>2, <3>3, SweepPasses
      <4>2. obj[p].fin = FinCount(p)
        BY <3>1, <4>1 DEF FinInv
      <4>3. Row(p).finalizer => obj[p].fin = 1
        BY <3>1, <3>3, <4>2 DEF FinCount, Garbage
      <4>4. QED
        BY <2>1, <4>1, <4>3 DEF Objects
    <3>4. QED
      BY <2>1, <3>2, <3>3
  <2>3. CASE ~SweepObject
    BY <2>1, <2>3, OnlySweepFrees
  <2>4. QED
    BY <2>2, <2>3
<1>4. QED
  BY <1>1, <1>2, <1>3, MarkAlways, PTL DEF Spec, FinalizedOnce

-----------------------------------------------------------------------------
(* What is left after a collection.                                        *)

\* S holds the variables' objects and is closed under strong fields.
Closed(S) ==
  /\ \A v \in Vars : var[v] # Nil => var[v] \in S
  /\ \A b \in S : StrongFields(b) \ {Nil} \subseteq S

\* A reachable object stays so when garbage is freed.
LEMMA ReachStays ==
  ASSUME Objects' \subseteq Objects, var' = var,
         \A b \in Objects' : StrongFields(b)' = StrongFields(b)
  PROVE  \A a \in Objects' : a \in Reachable => a \in Reachable'
<1>. SUFFICES ASSUME NEW a \in Objects', a \in Reachable,
                     NEW S \in SUBSET Objects', Closed(S)'
              PROVE  a \in S
  BY DEF Reachable, Closed
<1>1. S \in SUBSET Objects /\ Closed(S)
  BY DEF Closed
<1>2. QED
  BY <1>1 DEF Reachable, Closed

\* What the variables hold is reachable...
LEMMA ReachVar ==
  ASSUME NEW v \in Vars, var[v] \in Objects, Nil \notin Objects
  PROVE  var[v] \in Reachable
<1>. SUFFICES ASSUME NEW S \in SUBSET Objects, Closed(S) PROVE var[v] \in S
  BY DEF Reachable, Closed
<1>1. QED
  BY DEF Closed

\* ...and what a reachable object holds.
LEMMA ReachField ==
  ASSUME NEW a \in Reachable, NEW i \in 1..Row(a).slots, obj[a].fields[i] \in Objects,
         Nil \notin Objects
  PROVE  obj[a].fields[i] \in Reachable
<1>. SUFFICES ASSUME NEW S \in SUBSET Objects, Closed(S) PROVE obj[a].fields[i] \in S
  BY DEF Reachable, Closed
<1>1. a \in S
  BY DEF Reachable, Closed
<1>2. obj[a].fields[i] \in StrongFields(a)
  BY DEF StrongFields
<1>3. QED
  BY <1>1, <1>2 DEF Closed

\* Weak references are never among the marked slots that are reset.
LEMMA WeakKeepsStrong ==
  ASSUME LayoutInv, MarkInv, WeakObject
  PROVE  \A a \in Objects : StrongFields(a)' = StrongFields(a)
<1>. SUFFICES ASSUME NEW a \in Objects PROVE StrongFields(a)' = StrongFields(a)
  OBVIOUS
<1>1. /\ Row(a)' = Row(a) /\ TypeOK /\ phase = "weak" /\ teardown = 0
      /\ a # p \/ a \notin marked \/ Row(a).weak = 0 => obj'[a] = obj[a]
      /\ p \in marked /\ Row(p).weak > 0 => obj'[p].fields = ResetWeak(p)
  BY WeakPass DEF LayoutInv, MarkInv, PhasesOK
<1>2. /\ Row(a).slots \in Nat /\ Row(a).weak \in Nat /\ Row(a).extra \in Nat /\ Row(a).len \in Nat
      /\ Row(a).slots <= Row(a).len /\ Row(a).weak + Row(a).extra <= Row(a).len
  BY <1>1, ObjectFacts
<1>3. CASE obj'[a] = obj[a]
  BY <1>1, <1>3 DEF StrongFields
<1>4. CASE a = p /\ a \in marked /\ Row(a).weak > 0
  <2>1. obj'[a].fields = ResetWeak(a)
    BY <1>1, <1>4
  <2>2. \A i \in 1..Row(a).slots : obj[a].fields[i] \in marked \cup {Nil}
    BY <1>1, <1>4 DEF MarkInv, MarkComplete, StrongFields
  <2>3. ASSUME NEW i \in 1..Row(a).slots PROVE ResetWeak(a)[i] = obj[a].fields[i]
    <3>. DEFINE gone == {j \in 1..Row(a).weak : obj[a].fields[j] # Nil /\ obj[a].fields[j] \notin marked}
                reset == gone \cup IF gone = 1..Row(a).weak
                                   THEN Row(a).weak + 1 .. Row(a).weak + Row(a).extra ELSE {}
    <3>1. i \in 1..Row(a).len /\ i \in Nat
      BY <1>2
    <3>2. ResetWeak(a)[i] = IF i \in reset THEN Nil ELSE obj[a].fields[i]
      BY <3>1 DEF ResetWeak
    <3>3. 1 \in 1..Row(a).weak /\ 1 \in 1..Row(a).slots
      BY <1>2, <1>4
    <3>4. 1 \notin gone /\ i \notin gone
      BY <2>2, <3>3
    <3>5. gone # 1..Row(a).weak
      BY <3>3, <3>4
    <3>6. reset = gone
      BY <3>5
    <3>7. QED
      BY <3>2, <3>4, <3>6
  <2>4. QED
    BY <2>1, <2>3, <1>1 DEF StrongFields
<1>5. QED
  BY <1>1, <1>2, <1>3, <1>4

\* All steps keep what is known of the reachable objects.
LEMMA ReachStep == ASSUME LayoutInv, MarkInv, ReachInv, [Next]_vars PROVE ReachInv'
<1>0. /\ TypeOK /\ PhasesOK /\ marked \subseteq Objects /\ Nil \notin Objects /\ Nil \notin Objects'
  <2>1. LayoutInv'
    BY NextLayout
  <2>2. QED
    BY <2>1, HeapAssumption DEF LayoutInv, TypeOK, MarkInv
<1>1. ASSUME phase' \in {"run", "retry", "again", "dead"} \/ teardown' # 0 PROVE ReachInv'
  BY <1>1 DEF ReachInv
<1>2. ASSUME obj' = obj, var' = var
      PROVE  Reachable' = Reachable /\ Objects' = Objects
  BY <1>2 DEF Reachable, Objects, StrongFields, Row
<1>3. CASE Mutator
  <2>1. phase = "run" /\ marked' = marked /\ phase' \in {"run", "mark"} /\ (phase' = "mark" => look' = Nil)
    BY <1>3 DEF Mutator, New, SetField, GetField, Drop, Collect, Destroy, StartGc
  <2>2. marked' = {}
    BY <2>1, <1>0 DEF PhasesOK
  <2>3. phase' = "mark" => Live' = {}
    BY <2>1, <2>2 DEF Live
  <2>4. QED
    BY <2>1, <2>3, <1>0, <1>1 DEF ReachInv
<1>4. CASE Mark
  <2>1. /\ obj' = obj /\ var' = var /\ phase = "mark" /\ teardown' = teardown
        /\ phase' \in {"mark", "weak", "finalize"}
    BY <1>4 DEF Mark, MarkVar, MarkOne, MarkWalk, MarkPop, MarkDone, markUnchanged
  <2>2. Live = marked /\ Live' = marked' \cap Objects
    BY <2>1, <1>0, <1>2 DEF Live
  <2>3. CASE teardown # 0
    BY <2>1, <2>3, <1>1
  <2>4. CASE teardown = 0
    <3>1. marked \subseteq Reachable /\ (look \in Objects => look \in Reachable)
      BY <2>1, <2>2, <2>4 DEF ReachInv
    <3>2. SUFFICES /\ marked' \subseteq Reachable
                   /\ phase' = "mark" /\ look' \in Objects => look' \in Reachable
      BY <2>1, <2>2, <1>2 DEF ReachInv
    <3>3. CASE MarkVar
      <4>1. marked' = marked /\ look' = var[next] /\ next <= LastVar
        BY <3>3 DEF MarkVar
      <4>2. next \in Vars
        BY <4>1, <1>0, LastVarFacts, HeapAssumption DEF TypeOK, Vars
      <4>3. QED
        BY <4>1, <4>2, <3>1, <1>0, ReachVar
    <3>4. CASE MarkOne
      <4>1. /\ look \in Objects /\ marked' = marked \cup {look}
            /\ MarkEnds \/ \E q : MarkGoesOn(q)
        BY <3>4, MarkOneStep
      <4>2. CASE MarkEnds
        BY <4>1, <4>2, <3>1, <1>0 DEF MarkEnds
      <4>3. CASE \E q : MarkGoesOn(q)
        <5>1. PICK q : MarkGoesOn(q)
          BY <4>3
        <5>2. q \in 1..Row(look).slots /\ look' = obj[look].fields[q]
          BY <5>1 DEF MarkGoesOn
        <5>3. look' \in Objects => look' \in Reachable
          BY <5>2, <4>1, <3>1, <1>0, ReachField
        <5>4. QED
          BY <5>3, <4>1, <3>1
      <4>4. QED
        BY <4>1, <4>2, <4>3
    <3>5. CASE MarkWalk
      <4>1. /\ marked' = marked /\ look' = obj[walk.obj].fields[walk.from]
            /\ walk.obj \in marked /\ walk.from \in 1..Row(walk.obj).slots
        BY <3>5, WalkSlot DEF MarkWalk
      <4>2. look' \in Objects => look' \in Reachable
        BY <4>1, <3>1, <1>0, ReachField
      <4>3. QED
        BY <4>1, <4>2, <3>1
    <3>6. CASE MarkPop \/ MarkDone
      BY <3>1, <3>6 DEF MarkPop, MarkDone
    <3>7. QED
      BY <1>4, <3>3, <3>4, <3>5, <3>6 DEF Mark
  <2>5. QED
    BY <2>3, <2>4
<1>5. CASE ScanSkip \/ ScanHeap
  <2>1. UNCHANGED <<obj, marked, var, phase, teardown>> /\ Scanning
    BY <1>5 DEF ScanSkip, ScanHeap
  <2>2. \A a \in Objects : a < p' <=> a < p
    BY <1>5, ScanPasses
  <2>3. Live' = Live
    BY <2>1, <2>2, <1>2 DEF Live
  <2>4. QED
    BY <2>1, <2>3, <1>2 DEF ReachInv, Scanning
<1>6. CASE WeakObject
  <2>1. /\ Objects' = Objects /\ marked' = marked /\ var' = var /\ phase = "weak" /\ phase' = phase
        /\ teardown' = teardown
    BY <1>6, WeakPass
  <2>2. \A a \in Objects' : a \in Reachable => a \in Reachable'
    BY <2>1, <1>6, WeakKeepsStrong, ReachStays
  <2>3. Live' = Live
    BY <2>1 DEF Live
  <2>4. QED
    BY <2>1, <2>2, <2>3 DEF ReachInv, Live
<1>7. CASE WeakDone
  <2>1. /\ UNCHANGED <<obj, marked, var, teardown>> /\ phase = "weak" /\ phase' = "finalize"
    BY <1>7 DEF WeakDone, ScanEnds
  <2>2. Live' = Live
    BY <2>1, <1>2 DEF Live
  <2>3. QED
    BY <2>1, <2>2, <1>2 DEF ReachInv
<1>8. CASE FinalizeObject
  <2>1. /\ Objects' = Objects /\ marked' = marked /\ var' = var /\ phase = "finalize" /\ phase' = phase
        /\ teardown' = teardown
        /\ \A a \in Objects : Row(a)' = Row(a) /\ obj'[a].fields = obj[a].fields
    BY <1>8, FinalPass
  <2>2. \A a \in Objects' : StrongFields(a)' = StrongFields(a)
    BY <2>1 DEF StrongFields
  <2>3. \A a \in Objects' : a \in Reachable => a \in Reachable'
    BY <2>1, <2>2, ReachStays
  <2>4. Live' = Live
    BY <2>1 DEF Live
  <2>5. QED
    BY <2>1, <2>3, <2>4 DEF ReachInv, Live
<1>9. CASE FinalizeDone
  <2>1. /\ UNCHANGED <<obj, marked, var, teardown>> /\ phase = "finalize" /\ phase' \in {"dead", "sweep"}
    BY <1>9 DEF FinalizeDone, ScanEnds
  <2>2. phase' = "sweep" => Live' = marked
    BY <1>9, SweepBegins
  <2>3. Live = marked
    BY <2>1, <1>0 DEF Live
  <2>4. QED
    BY <2>1, <2>2, <2>3, <1>1, <1>2 DEF ReachInv
<1>10. CASE SweepObject
  <2>1. phase = "sweep" /\ phase' = phase /\ teardown' = teardown /\ var' = var
    BY <1>10 DEF SweepObject
  <2>2. /\ Live' = Live /\ Live \subseteq Objects' /\ Objects' \subseteq Objects
        /\ \A a \in Objects' : obj'[a] = obj[a] /\ Row(a)' = Row(a)
    BY <1>10, SweepLive
  <2>3. \A a \in Objects' : StrongFields(a)' = StrongFields(a)
    BY <2>2 DEF StrongFields
  <2>4. \A a \in Objects' : a \in Reachable => a \in Reachable'
    BY <2>1, <2>2, <2>3, ReachStays
  <2>5. QED
    BY <2>1, <2>2, <2>4 DEF ReachInv
<1>11. CASE SweepDone
  <2>1. phase' \in {"run", "retry"} \/ teardown' # 0
    BY <1>11 DEF SweepDone
  <2>2. QED
    BY <2>1, <1>1
<1>12. CASE Grow \/ DontGrow \/ Retry \/ Dead
  <2>1. phase' \in {"run", "again", "dead"}
    BY <1>12 DEF Grow, DontGrow, Retry, Dead, vars
  <2>2. QED
    BY <2>1, <1>1
<1>13. CASE UNCHANGED vars
  <2>1. UNCHANGED <<obj, marked, var, phase, teardown, p, look>>
    BY <1>13 DEF vars, scan, marking
  <2>2. Live' = Live
    BY <2>1, <1>2 DEF Live
  <2>3. QED
    BY <2>1, <2>2, <1>2 DEF ReachInv
<1>14. QED
  BY <1>3, <1>4, <1>5, <1>6, <1>7, <1>8, <1>9, <1>10, <1>11, <1>12, <1>13 DEF Next, Scan

\* When a sweep ends, exactly the objects that can be reached from the
\* variables through marked slots are left: no garbage outlives a collection.
THEOREM LeavesOnlyReachable == Spec => OnlyReachableLeft
<1>1. Init => ReachInv
  BY DEF Init, ReachInv
<1>2. LayoutInv /\ MarkInv /\ ReachInv /\ [Next]_vars => ReachInv'
  BY ReachStep
<1>3. LayoutInv /\ MarkInv /\ ReachInv /\ [Next]_vars
        => [phase = "sweep" /\ phase' \in {"run", "retry"} => Objects = Reachable]_vars
  <2>. SUFFICES ASSUME LayoutInv, MarkInv, ReachInv, [Next]_vars,
                       phase = "sweep", phase' \in {"run", "retry"}
                PROVE  Objects = Reachable
    OBVIOUS
  <2>1. SweepDone
    BY DEF Next, Mutator, Mark, Scan, New, SetField, GetField, Drop, Collect, Destroy,
           MarkVar, MarkOne, MarkWalk, MarkPop, MarkDone, ScanSkip, ScanHeap, WeakObject,
           WeakDone, FinalizeObject, FinalizeDone, ScanEnds, SweepObject, Grow, DontGrow,
           Retry, Dead, vars
  <2>2. teardown = 0
    BY <2>1 DEF SweepDone, MarkInv, PhasesOK
  <2>3. \A a \in Objects : a < p
    BY <2>1, SweepEnds DEF MarkInv
  <2>4. Live = Objects
    BY <2>3 DEF Live
  <2>5. QED
    BY <2>2, <2>4 DEF ReachInv, Reachable
<1>4. QED
  BY <1>1, <1>2, <1>3, MarkAlways, PTL DEF Spec, OnlyReachableLeft

\* sexp_reset_weak_references breaks a weak reference only if its object
\* cannot be reached from the variables through marked slots.
THEOREM WeakRefsAlwaysKept == Spec => WeakRefsKept
<1>1. LayoutInv /\ MarkInv /\ [Next]_vars
        => [phase = "weak" => \A a \in Objects : \A i \in 1..Row(a).weak :
              obj'[a].fields[i] # obj[a].fields[i] => obj[a].fields[i] \notin Reachable]_vars
  <2>. SUFFICES ASSUME LayoutInv, MarkInv, [Next]_vars, phase = "weak",
                       NEW a \in Objects, NEW i \in 1..Row(a).weak,
                       obj'[a].fields[i] # obj[a].fields[i]
                PROVE  obj[a].fields[i] \notin Reachable
    OBVIOUS
  <2>1. WeakObject
    BY DEF Next, Mutator, Mark, Scan, New, SetField, GetField, Drop, Collect, Destroy,
           MarkVar, MarkOne, MarkWalk, MarkPop, MarkDone, ScanSkip, ScanHeap,
           WeakDone, FinalizeObject, FinalizeDone, ScanEnds, SweepObject, SweepDone, Grow, DontGrow,
           Retry, Dead, vars
  <2>2. /\ a # p \/ a \notin marked \/ Row(a).weak = 0 => obj'[a] = obj[a]
        /\ p \in marked /\ Row(p).weak > 0 => obj'[p].fields = ResetWeak(p)
    BY <2>1, WeakPass
  <2>3. /\ TypeOK /\ Row(a).weak \in Nat /\ Row(a).extra \in Nat /\ Row(a).len \in Nat
        /\ Row(a).weak + Row(a).extra <= Row(a).len
    BY ObjectFacts DEF LayoutInv
  <2>4. obj'[a].fields = ResetWeak(a)
    BY <2>2, <2>3
  <2>5. ResetWeak(a)[i] = IF obj[a].fields[i] # Nil /\ obj[a].fields[i] \notin marked
                          THEN Nil ELSE obj[a].fields[i]
    BY <2>3 DEF ResetWeak
  <2>6. obj[a].fields[i] \notin marked
    BY <2>4, <2>5
  <2>7. Closed(marked) /\ marked \in SUBSET Objects
    <3>1. teardown = 0 /\ LastVar = NumVars
      BY DEF MarkInv, PhasesOK, LastVar
    <3>2. /\ \A v \in Vars : var[v] \in marked \cup {Nil}
          /\ \A b \in marked : StrongFields(b) \subseteq marked \cup {Nil}
      BY <3>1 DEF MarkInv, MarkComplete, Vars
    <3>3. QED
      BY <3>2, <2>3 DEF Closed, TypeOK
  <2>8. Reachable \subseteq marked
    BY <2>7 DEF Reachable, Closed
  <2>9. QED
    BY <2>6, <2>8
<1>2. QED
  BY <1>1, MarkAlways, PTL DEF Spec, WeakRefsKept

=============================================================================
