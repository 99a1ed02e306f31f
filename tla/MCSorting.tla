----------------------------- MODULE MCSorting -----------------------------
(***************************************************************************)
(* Every call of sort! on a short vector or list.  With the built-in order *)
(* ("basic", and "inverse" for >) the elements are objects; with another   *)
(* procedure ("proc") they are numbered, and the comparison goes by their  *)
(* keys and raises when the keys 1 and 3 meet.                             *)
(***************************************************************************)
EXTENDS Sorting, FiniteSets, TLC

CONSTANT MaxSort    \* bound: the elements sorted

VARIABLES job,      \* the argument, and how it is to be sorted
          sorted    \* <<>>, or what the call made of it

sortvars == <<job, sorted>>

Pool == {FixObj(1), FixObj(2), VecObj(<<>>), VecObj(<<FixObj(1)>>), VecObj(<<FixObj(2)>>),
         PairOf(FixObj(1), EmptyList)}
Numbered(s) == [i \in DOMAIN s |-> [k |-> s[i], id |-> i]]
Upto(n, S) == UNION {[1 .. k -> S] : k \in 0 .. n}

KeyLess(s) ==
  [p \in Range(s) \X Range(s) |->
     IF {p[1].k, p[2].k} = {1, 3} THEN "raise" ELSE IF p[1].k < p[2].k THEN "yes" ELSE "no"]

Jobs == [seq : Upto(MaxSort, Pool), listp : BOOLEAN, how : {"basic", "inverse"}]
        \cup {[seq |-> Numbered(s), listp |-> l, how |-> "proc"] :
                 s \in Upto(MaxSort + 1, {1, 2, 3}), l \in BOOLEAN}

SortInit == job \in Jobs /\ sorted = <<>>
SortIdle == job = [seq |-> <<>>, listp |-> TRUE, how |-> "basic"] /\ sorted = <<>>

Sort ==
  LET less == IF job.how = "proc" THEN KeyLess(job.seq) ELSE ObjectLess(Range(job.seq))
  IN  /\ sorted = <<>>
      /\ sorted' = <<sort_x(job.seq, job.listp, job.how, less)>>
      /\ UNCHANGED job

----------------------------------------------------------------------------
Count(s, e) == Cardinality({i \in DOMAIN s : s[i] = e})
SameElements(s, r) == Len(s) = Len(r) /\ \A e \in Range(s) : Count(s, e) = Count(r, e)

\* The order of the objects without pairs: numbers first, then vectors by
\* their length and their elements.
Ahead(a, b) ==
  \/ a.t = "fix" /\ (b.t = "vec" \/ a.v < b.v)
  \/ a.t = "vec" /\ b.t = "vec" /\ IF Len(a.data) = 1 /\ Len(b.data) = 1 THEN a.data[1].v < b.data[1].v
                                   ELSE Len(a.data) < Len(b.data)
NoPairs == \A i \in DOMAIN job.seq : job.seq[i].t # "pair"

(* A call of sort! that returns has put the elements in order: the merge     *)
(* neither loses nor repeats one, a procedure's order is stable, and the     *)
(* result is the sorted sequence.  Two things the code gets wrong are left   *)
(* out: for lists object-cmp is no order, so only the elements are compared; *)
(* and the result for a vector of two or three elements and a procedure is   *)
(* the scratch vector, which sort_few never fills.                           *)
Sorted ==
  sorted # <<>> /\ ~sorted[1].exn =>
    LET r == sorted[1].seq
    IN  /\ SameElements(job.seq, r)
        /\ \A i \in 1 .. Len(r) - 1 :
             CASE job.how = "proc" -> r[i].k < r[i + 1].k \/ (r[i].k = r[i + 1].k /\ r[i].id < r[i + 1].id)
               [] job.how = "basic" -> NoPairs => ~Ahead(r[i + 1], r[i])
               [] job.how = "inverse" -> NoPairs => ~Ahead(r[i], r[i + 1])
        /\ ~(job.how = "proc" /\ ~job.listp /\ Len(r) \in {2, 3}) => sorted[1].res = r

(* When the comparison raises in the middle of a merge, a vector still       *)
(* holds every element once, and a list is as it was.                        *)
RaiseKeepsElements ==
  sorted # <<>> /\ sorted[1].exn =>
    IF job.listp THEN sorted[1].seq = job.seq ELSE SameElements(job.seq, sorted[1].seq)

(* However a call of sort! ends, it has not lost or repeated an element.     *)
SortSafe == Sorted /\ RaiseKeepsElements
=============================================================================
