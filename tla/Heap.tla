-------------------------------- MODULE Heap --------------------------------
(***************************************************************************)
(* The heap of chibi-scheme and its mark and sweep collector (gc.c): first *)
(* fit allocation from address-ordered free lists, marking with an explicit*)
(* stack of slot ranges, weak references, finalizers, the sweep that merges*)
(* neighbouring chunks, the growing of the heap, and the destruction of a  *)
(* context (sexp.c).                                                       *)
(*                                                                         *)
(* Sizes and addresses count units of sexp_heap_align(1) bytes.  A heap's  *)
(* first unit is the head of its free list.  Immediates and NULL are Nil.  *)
(* The mutator is a client that keeps what it uses in the variables it has *)
(* preserved with sexp_gc_preserve.                                        *)
(***************************************************************************)
EXTENDS Integers, SequencesExt

CONSTANTS
  Kinds,      \* the types of the objects the mutator makes
  Types,      \* their rows of the type table: size (in units), len (fields),
              \* slots (those the collector marks), weak, extra, finalizer
  Dl,         \* the type of shared libraries (in Kinds or not)
  NumVars,    \* the preserved variables are 1..NumVars; the first one stands
              \* for SEXP_G_TYPES when a context is destroyed
  ValueRefs,  \* whether the mutator keeps references in an ephemeron's value
  HeapSize,   \* size of the first heap
  MaxSize,    \* max_size of the heaps, 0 for none
  MaxHeaps,   \* bound: malloc fails for more heaps than that
  MaxObjs,    \* bound: no more objects than that
  Nil

TypeRows == [size : Nat \ {0}, len : Nat, slots : Nat, weak : Nat, extra : Nat,
             finalizer : BOOLEAN]

ASSUME HeapAssumption ==
  /\ Types \in [Kinds -> TypeRows]
  /\ \A k \in Kinds : Types[k].slots <= Types[k].len
                      /\ Types[k].weak + Types[k].extra <= Types[k].len
                      \* a field is marked, weak, or goes with the weak ones
                      /\ Types[k].len \in {Types[k].slots, Types[k].weak + Types[k].extra}
  /\ NumVars \in Nat \ {0} /\ ValueRefs \in BOOLEAN
  /\ HeapSize \in Nat \ {0, 1} /\ MaxSize \in Nat
  /\ MaxHeaps \in Nat /\ MaxObjs \in Nat
  /\ Nil \notin Nat

VARIABLES
  heaps,      \* the chain of heaps: base address and size of each
  free,       \* each heap's free list after its head: chunks [at, size]
  obj,        \* the allocated objects by address: kind, fields, and how often
              \* the finalizer was called
  marked,     \* the objects whose mark bit is set
  var,        \* the values of the preserved variables
  phase,      \* run, mark, weak, finalize, sweep, retry, dead
  teardown,   \* sexp_destroy_context: 0 not called, 1 until its sweep is done, 2 then
  next,       \* mark: the next variable to mark from
  look,       \* mark: x in sexp_mark_one
  walk,       \* mark: the slot range that sexp_mark_one_start goes through
  mstack,     \* mark: the stack of slot ranges
  hi, p,      \* the scan of the heaps: index of h, and p
  req,        \* the allocation that waits for the collector
  maxFreed, sumFreed

scan == <<hi, p>>
marking == <<next, look, walk, mstack>>
freed == <<maxFreed, sumFreed>>
vars == <<heaps, free, obj, marked, var, phase, teardown, marking, scan, req, freed>>

Vars == 1..NumVars
Objects == DOMAIN obj
Row(a) == Types[obj[a].kind]
NoReq == [var |-> 0]
NoRange == [obj |-> 0, from |-> 1, to |-> 1]

-----------------------------------------------------------------------------
(* Free lists.                                                             *)

Chunk(a, n) == [at |-> a, size |-> n]

\* sexp_make_heap: one chunk after the head.
MakeHeap(base, n) == [base |-> base, size |-> n]
FirstBlock(h) == heaps[h].base + 1
End(h) == heaps[h].base + heaps[h].size

\* Where sexp_try_alloc finds room for n units: the first heap with a chunk
\* that is large enough, and the first such chunk in it.
Fitting(h, n) == {i \in DOMAIN free[h] : free[h][i].size >= n}
Roomy(n) == {h \in DOMAIN heaps : Fitting(h, n) # {}}

\* What is left of heap h's free list when n units are taken from chunk i.
Carve(h, i, n) ==
  LET c == free[h][i]
  IN  IF c.size >= n + 1 THEN [free[h] EXCEPT ![i] = Chunk(c.at + n, c.size - n)]
      ELSE RemoveAt(free[h], i)

\* A new object of kind k whose fields are the values of the variables args.
NewObject(k, args) ==
  [kind |-> k, fin |-> 0,
   fields |-> [i \in 1..Types[k].len |-> IF args[i] = 0 THEN Nil ELSE var[args[i]]]]

\* sexp_try_alloc succeeds: the object is made in the chunk found and kept in v.
TryAlloc(v, k, args) ==
  LET n == Types[k].size
      h == Min(Roomy(n))
      i == Min(Fitting(h, n))
      a == free[h][i].at
  IN  /\ Roomy(n) # {}
      /\ free' = [free EXCEPT ![h] = Carve(h, i, n)]
      /\ obj' = [b \in Objects \cup {a} |-> IF b = a THEN NewObject(k, args) ELSE obj[b]]
      /\ var' = [var EXCEPT ![v] = a]

-----------------------------------------------------------------------------
(* The mutator.                                                            *)

Init ==
  /\ heaps = <<MakeHeap(0, HeapSize)>>
  /\ free = <<<<Chunk(1, HeapSize - 1)>>>>
  /\ obj = [a \in {} |-> {}] /\ marked = {}
  /\ var = [v \in Vars |-> Nil]
  /\ phase = "run" /\ teardown = 0
  /\ next = 1 /\ look = Nil /\ walk = NoRange /\ mstack = <<>>
  /\ hi = 1 /\ p = 1
  /\ req = NoReq /\ maxFreed = 0 /\ sumFreed = 0

\* sexp_gc begins: mark from the context.
StartGc ==
  /\ phase' = "mark"
  /\ next' = 1 /\ look' = Nil
  /\ maxFreed' = 0 /\ sumFreed' = 0

\* The arguments a constructor of kind k may get: variables, or 0 for an
\* immediate.  make-ephemeron's value is an immediate unless ValueRefs.
Arguments(k) ==
  {args \in [1..Types[k].len -> 0..NumVars] :
     \A i \in 1..Types[k].len :
       i > Types[k].weak /\ i <= Types[k].weak + Types[k].extra => args[i] = 0 \/ ValueRefs}

\* sexp_alloc, called by a constructor: try, else collect first.
New(v, k, args) ==
  /\ phase = "run" /\ Cardinality(Objects) < MaxObjs
  /\ \/ /\ TryAlloc(v, k, args)
        /\ UNCHANGED <<phase, marking, req, freed>>
     \/ /\ Roomy(Types[k].size) = {}
        /\ StartGc
        /\ req' = [var |-> v, kind |-> k, args |-> args]
        /\ UNCHANGED <<free, obj, var, walk, mstack>>
  /\ UNCHANGED <<heaps, marked, teardown, scan>>

\* (gc)
Collect ==
  /\ phase = "run" /\ Objects # {}
  /\ StartGc
  /\ UNCHANGED <<heaps, free, obj, marked, var, teardown, walk, mstack, scan, req>>

\* A setter such as set-car!.
SetField(v, i, w) ==
  /\ phase = "run" /\ var[v] \in Objects /\ i <= Row(var[v]).slots
  /\ obj' = [obj EXCEPT ![var[v]].fields[i] = var[w]]
  /\ UNCHANGED <<heaps, free, marked, var, phase, teardown, marking, scan, req, freed>>

\* A getter such as car or ephemeron-key.
GetField(v, w, i) ==
  /\ phase = "run" /\ var[w] \in Objects /\ i <= Row(var[w]).len
  /\ var' = [var EXCEPT ![v] = obj[var[w]].fields[i]]
  /\ UNCHANGED <<heaps, free, obj, marked, phase, teardown, marking, scan, req, freed>>

\* A variable goes out of use.
Drop(v) ==
  /\ phase = "run" /\ var[v] # Nil
  /\ var' = [var EXCEPT ![v] = Nil]
  /\ UNCHANGED <<heaps, free, obj, marked, phase, teardown, marking, scan, req, freed>>

\* sexp_destroy_context: mark from the types only, then finalize and sweep.
Destroy ==
  /\ phase = "run"
  /\ StartGc
  /\ teardown' = 1
  /\ UNCHANGED <<heaps, free, obj, marked, var, walk, mstack, scan, req>>

-----------------------------------------------------------------------------
(* Marking.                                                                *)

markUnchanged == <<heaps, free, obj, var, teardown, req, freed>>

\* A variant with a bug: the last variable is not marked from.
LastVarMissed == IF teardown = 1 THEN 1 ELSE NumVars - 1

\* The variables to mark from: all, or the types when the context goes.
LastVar == IF teardown = 1 THEN 1 ELSE NumVars

\* The next of the context's saves.
MarkVar ==
  /\ phase = "mark" /\ look = Nil /\ next <= LastVar
  /\ look' = var[next] /\ next' = next + 1
  /\ UNCHANGED <<markUnchanged, marked, phase, walk, mstack, scan>>

\* The last slot of x to mark: behind it are immediates and marked objects...
LastUnmarked(f, n, m) == Max({1} \cup {i \in 1..n : f[i] # Nil /\ f[i] \notin m})

\* A variant with a bug: back to the first slot with the same value.
FirstEqual(f, q) == Min({j \in 1..q : f[j] = f[q]})

\* ...and slots that repeat it.
FirstRepeat(f, q) == Min({j \in 1..q : \A i \in j..q : f[i] = f[q]})

\* sexp_mark_one: mark x, leave all slots but the last on the stack, and go on
\* with the last.
MarkOne ==
  /\ phase = "mark" /\ look # Nil /\ look \in Objects
  /\ IF look \in marked \/ Row(look).slots = 0
     THEN look' = Nil /\ UNCHANGED mstack
     ELSE LET f == obj[look].fields
              q == FirstRepeat(f, LastUnmarked(f, Row(look).slots, marked \cup {look}))
          IN  /\ mstack' = IF q > 1 THEN Append(mstack, [obj |-> look, from |-> 1, to |-> q])
                           ELSE mstack
              /\ look' = f[q]
  /\ marked' = marked \cup {look}
  /\ UNCHANGED <<markUnchanged, phase, next, walk, scan>>

\* sexp_mark_one_start: the next slot of the range in hand...
MarkWalk ==
  /\ phase = "mark" /\ look = Nil /\ next > LastVar /\ walk.from < walk.to
  /\ look' = obj[walk.obj].fields[walk.from]
  /\ walk' = [walk EXCEPT !.from = @ + 1]
  /\ UNCHANGED <<markUnchanged, marked, phase, next, mstack, scan>>

\* ...or the next range.
MarkPop ==
  /\ phase = "mark" /\ look = Nil /\ next > LastVar /\ walk.from >= walk.to
  /\ mstack # <<>>
  /\ walk' = Last(mstack) /\ mstack' = Front(mstack)
  /\ UNCHANGED <<markUnchanged, marked, phase, next, look, scan>>

\* A scan of the whole heap begins.
Rescan == hi' = 1 /\ p' = FirstBlock(1)

\* Everything is marked.  A context that is destroyed keeps its weak references.
MarkDone ==
  /\ phase = "mark" /\ look = Nil /\ next > LastVar /\ walk.from >= walk.to
  /\ mstack = <<>>
  /\ phase' = IF teardown = 1 THEN "finalize" ELSE "weak"
  /\ next' = 1 /\ walk' = NoRange /\ Rescan
  /\ UNCHANGED <<markUnchanged, marked, look, mstack>>

-----------------------------------------------------------------------------
(* The scans of the whole heap: weak references, finalizers, sweep.        *)

Scanning == phase \in {"weak", "finalize", "sweep"}
ChunkAt(h, a) == {i \in DOMAIN free[h] : free[h][i].at = a}
AtObject == hi <= Len(heaps) /\ p < End(hi) /\ ChunkAt(hi, p) = {} /\ p \in Objects

\* p is at a free block: skip it.
ScanSkip ==
  /\ Scanning /\ hi <= Len(heaps) /\ p < End(hi)
  /\ \E i \in ChunkAt(hi, p) : p' = p + free[hi][i].size
  /\ UNCHANGED <<heaps, free, obj, marked, var, phase, teardown, marking, hi, req, freed>>

\* The end of one heap: on to the next.
ScanHeap ==
  /\ Scanning /\ hi < Len(heaps) /\ p >= End(hi)
  /\ hi' = hi + 1 /\ p' = FirstBlock(hi')
  /\ UNCHANGED <<heaps, free, obj, marked, var, phase, teardown, marking, req, freed>>

ScanEnds(ph) == phase = ph /\ hi = Len(heaps) /\ p >= End(hi)

\* Variants with a bug: weak references are never, or always, broken.
ResetNone(a) == obj[a].fields
ResetAll(a) == [i \in 1..Row(a).len |-> Nil]

\* sexp_reset_weak_references: the fields of a marked object after it.
ResetWeak(a) ==
  LET f == obj[a].fields
      r == Row(a)
      gone == {i \in 1..r.weak : f[i] # Nil /\ f[i] \notin marked}
      reset == gone \cup IF gone = 1..r.weak THEN r.weak + 1 .. r.weak + r.extra ELSE {}
  IN  [i \in 1..r.len |-> IF i \in reset THEN Nil ELSE f[i]]

WeakObject ==
  /\ phase = "weak" /\ AtObject
  /\ p' = p + Row(p).size
  /\ obj' = IF p \in marked /\ Row(p).weak > 0
            THEN [obj EXCEPT ![p].fields = ResetWeak(p)] ELSE obj
  /\ UNCHANGED <<heaps, free, marked, var, phase, teardown, marking, hi, req, freed>>

WeakDone ==
  /\ ScanEnds("weak")
  /\ phase' = "finalize" /\ Rescan
  /\ UNCHANGED <<heaps, free, obj, marked, var, teardown, marking, req, freed>>

\* A variant with a bug: the mark is not looked at.
FinalizeAny ==
  /\ phase = "finalize" /\ AtObject
  /\ p' = p + Row(p).size
  /\ obj' = IF Row(p).finalizer THEN [obj EXCEPT ![p].fin = @ + 1] ELSE obj
  /\ UNCHANGED <<heaps, free, marked, var, phase, teardown, marking, hi, req, freed>>

\* sexp_finalize.  Shared libraries are left to a second pass, which starts
\* from h = NULL and so visits no heap.
FinalizeObject ==
  /\ phase = "finalize" /\ AtObject
  /\ p' = p + Row(p).size
  /\ obj' = IF p \notin marked /\ Row(p).finalizer /\ obj[p].kind # Dl
            THEN [obj EXCEPT ![p].fin = @ + 1] ELSE obj
  /\ UNCHANGED <<heaps, free, marked, var, phase, teardown, marking, hi, req, freed>>

\* When a context is destroyed the second sexp_finalize, after the sweep has
\* cleared the marks, is the last thing to happen.
FinalizeDone ==
  /\ ScanEnds("finalize")
  /\ phase' = IF teardown = 2 THEN "dead" ELSE "sweep"
  /\ Rescan
  /\ UNCHANGED <<heaps, free, obj, marked, var, teardown, marking, req, freed>>

\* The number of free chunks before address a.
Before(h, a) == Cardinality({i \in DOMAIN free[h] : \A j \in 1..i : free[h][j].at < a})

\* Variants with a bug: the chunk that follows is unlinked and its size
\* forgotten; the chunk before is not looked at; the sweep goes on behind as
\* many units as the merged chunk has, counted from the block.
FreeBlockShort(h, a, n) ==
  LET q == Before(h, a)
      follows == q < Len(free[h]) /\ free[h][q + 1].at = a + n
  IN  [chunk |-> Chunk(a, n),
       list  |-> SubSeq(free[h], 1, q) \o <<Chunk(a, n)>>
                   \o SubSeq(free[h], IF follows THEN q + 2 ELSE q + 1, Len(free[h])),
       skip  |-> a + n + IF follows THEN free[h][q + 1].size ELSE 0]
FreeBlockApart(h, a, n) ==
  LET q == Before(h, a)
  IN  [chunk |-> Chunk(a, n),
       list  |-> SubSeq(free[h], 1, q) \o <<Chunk(a, n)>> \o SubSeq(free[h], q + 1, Len(free[h])),
       skip  |-> a + n]
FreeBlockSkips(h, a, n) ==
  LET q == Before(h, a)
      mergeQ == q > 0 /\ free[h][q].at + free[h][q].size = a
      mergeR == q < Len(free[h]) /\ free[h][q + 1].at = a + n
      from == IF mergeQ THEN free[h][q].at ELSE a
      to == IF mergeR THEN a + n + free[h][q + 1].size ELSE a + n
  IN  [chunk |-> Chunk(from, to - from),
       list  |-> SubSeq(free[h], 1, IF mergeQ THEN q - 1 ELSE q) \o <<Chunk(from, to - from)>>
                   \o SubSeq(free[h], IF mergeR THEN q + 2 ELSE q + 1, Len(free[h])),
       skip  |-> a + to - from]

\* The free list of heap h after the block of n units at a is freed: q is the
\* chunk before it (0 for the head), and r = q + 1 the one behind it.
FreeBlock(h, a, n) ==
  LET fl == free[h]
      q == Before(h, a)
      mergeQ == q > 0 /\ fl[q].at + fl[q].size = a
      mergeR == q < Len(fl) /\ fl[q + 1].at = a + n
      from == IF mergeQ THEN fl[q].at ELSE a
      to == IF mergeR THEN a + n + fl[q + 1].size ELSE a + n
  IN  [chunk |-> Chunk(from, to - from),
       list  |-> SubSeq(fl, 1, IF mergeQ THEN q - 1 ELSE q) \o <<Chunk(from, to - from)>>
                   \o SubSeq(fl, IF mergeR THEN q + 2 ELSE q + 1, Len(fl)),
       skip  |-> to]

\* sexp_sweep
SweepObject ==
  /\ phase = "sweep" /\ AtObject
  /\ IF p \in marked
     THEN /\ marked' = marked \ {p}
          /\ p' = p + Row(p).size
          /\ UNCHANGED <<free, obj, freed>>
     ELSE LET b == FreeBlock(hi, p, Row(p).size)
          IN  /\ free' = [free EXCEPT ![hi] = b.list]
              /\ obj' = [a \in Objects \ {p} |-> obj[a]]
              /\ sumFreed' = sumFreed + Row(p).size
              /\ maxFreed' = IF b.chunk.size > maxFreed THEN b.chunk.size ELSE maxFreed
              /\ p' = b.skip
              /\ UNCHANGED marked
  /\ UNCHANGED <<heaps, var, phase, teardown, marking, hi, req>>

SweepDone ==
  /\ ScanEnds("sweep")
  /\ phase' = IF teardown = 1 THEN "finalize" ELSE IF req = NoReq THEN "run" ELSE "retry"
  /\ teardown' = IF teardown = 1 THEN 2 ELSE 0
  /\ IF phase' = "run" THEN maxFreed' = 0 /\ sumFreed' = 0 ELSE UNCHANGED freed
  /\ Rescan
  /\ UNCHANGED <<heaps, free, obj, marked, var, marking, req>>

-----------------------------------------------------------------------------
(* The rest of sexp_alloc, after the collection.                           *)

TotalSize == FoldFunction(LAMBDA h, n : h.size + n, 0, heaps)

\* Grow when no chunk freed is large enough or three quarters stay in use.
WantsToGrow ==
  LET n == Types[req.kind].size
  IN  /\ \/ maxFreed < n
         \/ TotalSize > sumFreed /\ 4 * (TotalSize - sumFreed) > 3 * TotalSize
      /\ MaxSize = 0 \/ TotalSize < MaxSize

\* sexp_grow_heap: a heap twice the size of the last one or of the request.
Grow ==
  /\ phase = "retry" /\ WantsToGrow /\ Len(heaps) < MaxHeaps
  /\ LET n == 2 * Max({heaps[Len(heaps)].size, Types[req.kind].size})
         base == End(Len(heaps)) + 1
     IN  /\ heaps' = Append(heaps, MakeHeap(base, n))
         /\ free' = Append(free, <<Chunk(base + 1, n - 1)>>)
  /\ phase' = "again"
  /\ UNCHANGED <<obj, marked, var, teardown, marking, scan, req, freed>>

\* The heap need not grow, or malloc fails.
DontGrow ==
  /\ phase = "retry"
  /\ phase' = "again"
  /\ UNCHANGED <<heaps, free, obj, marked, var, teardown, marking, scan, req, freed>>

\* The second sexp_try_alloc, or the out of memory error.
Retry ==
  /\ phase = "again"
  /\ \/ TryAlloc(req.var, req.kind, req.args)
     \/ /\ Roomy(Types[req.kind].size) = {}
        /\ var' = [var EXCEPT ![req.var] = Nil]
        /\ UNCHANGED <<free, obj>>
  /\ phase' = "run" /\ req' = NoReq /\ maxFreed' = 0 /\ sumFreed' = 0
  /\ UNCHANGED <<heaps, marked, teardown, marking, scan>>

-----------------------------------------------------------------------------

Dead == phase = "dead" /\ UNCHANGED vars

FieldIndexes == UNION {1..Types[k].len : k \in Kinds}

Mutator ==
  \/ \E v \in Vars, k \in Kinds : \E args \in Arguments(k) : New(v, k, args)
  \/ \E v, w \in Vars, i \in FieldIndexes : SetField(v, i, w) \/ GetField(v, w, i)
  \/ \E v \in Vars : Drop(v)
  \/ Collect \/ Destroy

Mark == MarkVar \/ MarkOne \/ MarkWalk \/ MarkPop \/ MarkDone
Scan ==
  \/ ScanSkip \/ ScanHeap \/ WeakObject \/ WeakDone \/ FinalizeObject \/ FinalizeDone
  \/ SweepObject \/ SweepDone

Next == Mutator \/ Mark \/ Scan \/ Grow \/ DontGrow \/ Retry \/ Dead

Spec == Init /\ [][Next]_vars
-----------------------------------------------------------------------------
(* Properties.                                                             *)

Values == Objects \cup {Nil}
StrongFields(a) == {obj[a].fields[i] : i \in 1..Row(a).slots}

Refs == Nat \cup {Nil}
Chunks == [at : Nat, size : Nat \ {0}]
Ranges == [obj : Nat, from : Nat, to : Nat]

\* The heap chain and the free lists match, objects have the fields that their
\* type says, the mark bits belong to objects, and the marker's state is that
\* of a collection only while one is under way.
TypeOK ==
  /\ heaps \in Seq([base : Nat, size : Nat]) /\ heaps # <<>>
  /\ free \in Seq(Seq(Chunks)) /\ Len(free) = Len(heaps)
  /\ Objects \subseteq Nat
  /\ obj \in [Objects -> [kind : Kinds, fin : Nat, fields : Seq(Refs)]]
  /\ \A a \in Objects : Len(obj[a].fields) = Row(a).len
  /\ marked \subseteq Objects
  /\ var \in [Vars -> Refs]
  /\ phase \in {"run", "mark", "weak", "finalize", "sweep", "retry", "again", "dead"}
  /\ teardown \in 0..2 /\ next \in 1..(NumVars + 1)
  /\ look \in Refs /\ walk \in Ranges /\ mstack \in Seq(Ranges)
  /\ phase # "mark" => look = Nil /\ walk = NoRange /\ mstack = <<>>
  /\ hi \in DOMAIN heaps /\ p \in Nat
  /\ \/ req = NoReq
     \/ req.var \in Vars /\ req.kind \in Kinds /\ req.args \in Arguments(req.kind)
  /\ phase \in {"retry", "again"} => req # NoReq
  /\ maxFreed \in Nat /\ sumFreed \in Nat

\* At all times, also between the steps of a sweep, objects and free chunks
\* tile every heap: no unit is lost and none belongs to two blocks.
Tiled ==
  \A h \in DOMAIN heaps : \A u \in FirstBlock(h)..(End(h) - 1) :
    Cardinality({a \in Objects : a <= u /\ u < a + Row(a).size})
      + Cardinality({i \in DOMAIN free[h] :
                       free[h][i].at <= u /\ u < free[h][i].at + free[h][i].size}) = 1

\* The free lists are ordered by address and no two chunks touch: freeing
\* merges a block with its neighbours on both sides.
Coalesced ==
  \A h \in DOMAIN heaps : \A i \in 1..(Len(free[h]) - 1) :
    free[h][i].at + free[h][i].size < free[h][i + 1].at

\* Whenever the mutator runs, what it can reach is there: the variables and
\* the marked slots of every object hold objects that are still allocated.
NoDangling ==
  phase = "run" =>
    /\ \A v \in Vars : var[v] \in Values
    /\ \A a \in Objects : StrongFields(a) \subseteq Values

\* When marking ends, the marked objects include what the context refers to
\* and are closed under the slots that the collector follows.
MarkComplete ==
  phase \in {"weak", "finalize"} /\ teardown # 2 =>
    /\ \A v \in 1..LastVar : var[v] \in marked \cup {Nil}
    /\ \A a \in marked : StrongFields(a) \subseteq marked \cup {Nil}

\* The least set of objects that is closed under strong fields and holds the
\* variables' objects.
Reachable ==
  {a \in Objects : \A S \in SUBSET Objects :
     /\ \A v \in Vars : var[v] # Nil => var[v] \in S
     /\ \A b \in S : StrongFields(b) \ {Nil} \subseteq S
     => a \in S}

\* A collection frees everything that cannot be reached, and nothing else.
OnlyReachableLeft ==
  [][phase = "sweep" /\ phase' \in {"run", "retry"} => Objects = Reachable]_vars

\* Whenever the mutator runs, a weak reference is broken or its object is
\* still there.
WeakRefsValid ==
  phase = "run" =>
    \A a \in Objects : \A i \in 1..Row(a).weak : obj[a].fields[i] \in Values

\* The collector breaks a weak reference only if its object cannot be reached
\* in any other way.
WeakRefsKept ==
  [][phase = "weak" => \A a \in Objects : \A i \in 1..Row(a).weak :
       obj'[a].fields[i] # obj[a].fields[i] => obj[a].fields[i] \notin Reachable]_vars

\* A finalizer runs once, before the object is freed, and only for garbage.
FinalizedOnce ==
  [][/\ \A a \in Objects \ DOMAIN obj' : Row(a).finalizer => obj[a].fin = 1
     /\ phase = "run" => \A a \in Objects : obj[a].fin = 0]_vars

\* lib/chibi/weak.sld:6 says of an ephemeron that its value will be traced if
\* the key is referenced, so while the key is there the value is, too.
EphemeronKeepsValue ==
  phase = "run" =>
    \A a \in Objects : Row(a).weak = 1 /\ Row(a).extra = 1 /\ obj[a].fields[1] # Nil
                         => obj[a].fields[2] \in Values
=============================================================================
