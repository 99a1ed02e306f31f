------------------------------ MODULE Sorting ------------------------------
(***************************************************************************)
(* sort! and object-cmp of SRFI 95 (lib/srfi/95/qsort.c).                  *)
(*                                                                         *)
(* A sort works on the vector vec and on scratch, of the same length.  The *)
(* comparison is a function from pairs of elements to "yes", "no" or       *)
(* "raise", a call that raises an exception; the key function is part of   *)
(* it.  The elements are numbered from 1.                                  *)
(***************************************************************************)
EXTENDS Integers, Sequences, SequencesExt

Unset == [t |-> "void"]              \* SEXP_VOID, what make_vector fills with

(***************************************************************************)
(* The merge sort.                                                         *)
(***************************************************************************)

SwapAt(v, i, j) == [v EXCEPT ![i] = v[j], ![j] = v[i]]

\* if_is_less (i, j) swap: after an exception nothing more is done.
swap_if_less(s, less, i, j) ==
  LET r == less[<<s.vec[i], s.vec[j]>>]
  IN  CASE s.exn -> s
        [] ~s.exn /\ r = "raise" -> [s EXCEPT !.exn = TRUE]
        [] ~s.exn /\ r = "yes" -> [s EXCEPT !.vec = SwapAt(@, i, j)]
        [] OTHER -> s

\* Two or three elements are sorted in vec alone.
sort_few(s, less, lo, hi) ==
  LET s1 == IF hi - lo = 2 THEN swap_if_less(s, less, hi, hi - 1) ELSE s
      first == ~s1.exn /\ less[<<s1.vec[lo + 1], s1.vec[lo]>>] = "yes"
      s2 == swap_if_less(s1, less, lo + 1, lo)
  IN  IF first /\ hi - lo > 1 THEN swap_if_less(s2, less, lo + 2, lo + 1) ELSE s2

\* Merges vec[i .. mid] and vec[j .. hi] into scratch[k .. hi].
RECURSIVE merge_loop(_, _, _, _, _, _, _)
merge_loop(s, less, k, i, j, mid, hi) ==
  LET r == less[<<s.vec[j], s.vec[i]>>]
      take(n) == [s EXCEPT !.scratch[k] = s.vec[n]]
      right == merge_loop(take(j), less, k + 1, i, j + 1, mid, hi)
      left  == merge_loop(take(i), less, k + 1, i + 1, j, mid, hi)
  IN  CASE k > hi -> s
        [] k <= hi /\ i > mid -> right
        [] k <= hi /\ i <= mid /\ j > hi -> left
        [] OTHER -> CASE r = "raise" -> [s EXCEPT !.exn = TRUE]
                      [] r = "yes" -> right
                      [] r = "no" -> left

\* A variant with a bug: an exception does not stop it.
copy_back_always(s, lo, hi) ==
  [s EXCEPT !.vec = [n \in DOMAIN s.vec |-> IF n \in lo .. hi THEN s.scratch[n] ELSE @[n]]]

\* The range lo .. hi of vec, copied back from scratch when all went well.
copy_back(s, lo, hi) ==
  IF s.exn THEN s
  ELSE [s EXCEPT !.vec = [n \in DOMAIN s.vec |-> IF n \in lo .. hi THEN s.scratch[n] ELSE @[n]]]

RECURSIVE merge_sort_less(_, _, _, _)
merge_sort_less(s, less, lo, hi) ==
  LET mid == (hi + lo) \div 2
      s1 == merge_sort_less(s, less, lo, mid)
      s2 == merge_sort_less(s1, less, mid + 1, hi)
  IN  CASE hi - lo = 0 -> [s EXCEPT !.scratch[lo] = s.vec[lo]]
        [] hi - lo \in {1, 2} -> sort_few(s, less, lo, hi)
        [] OTHER -> CASE s1.exn -> s1
                      [] ~s1.exn /\ s2.exn -> s2
                      [] OTHER -> copy_back(merge_loop(s2, less, lo, lo, mid + 1, mid, hi), lo, hi)

(***************************************************************************)
(* object-cmp on fixnums ("fix"), vectors ("vec") and lists ("nil",        *)
(* "pair"): negative, zero or positive.  Chains end in () and have no      *)
(* cycle.                                                                  *)
(***************************************************************************)

COMPARE_DEPTH == 5

FixObj(n) == [t |-> "fix", v |-> n]
EmptyList == [t |-> "nil"]
PairOf(a, d) == [t |-> "pair", car |-> a, cdr |-> d]
VecObj(s) == [t |-> "vec", data |-> s]

IsPointer(a) == a.t \in {"pair", "vec"}
IsPair(a) == a.t = "pair"
Tag(a) == CASE a.t = "pair" -> 6 [] a.t = "vec" -> 10
Immediate(a) == CASE a.t = "fix" -> 2 * a.v + 1 [] a.t = "nil" -> 526

RECURSIVE object_compare(_, _, _)

\* The vectors of the same length: the first elements that differ decide.
vector_compare(a, b, depth) ==
  LET D == {i \in DOMAIN a : object_compare(a[i], b[i], depth - 1) # 0}
      first == CHOOSE i \in D : \A j \in D : i <= j
  IN  IF D = {} THEN 0 ELSE object_compare(a[first], b[first], depth - 1)

\* ls2 runs ahead of ls1 to notice a cycle; its position, not that of ls1,
\* decides which list is the longer, whatever the elements said.
RECURSIVE pair_loop(_, _, _, _, _)
pair_loop(res, ls1, ls2, b, depth) ==
  LET next2 == IF IsPair(ls2) /\ IsPair(ls2.cdr) THEN ls2.cdr ELSE EmptyList
  IN  IF res = 0 /\ ls1 # ls2 /\ IsPair(ls1) /\ IsPair(b)
        THEN pair_loop(object_compare(ls1.car, b.car, depth - 1), ls1.cdr, next2, b.cdr, depth)
        ELSE CASE IsPair(ls2) /\ ~IsPair(b) -> 1
               [] IsPair(b) /\ ~IsPair(ls2) -> -1
               [] ls1 = EmptyList /\ b = EmptyList -> 0
               [] OTHER -> IF res = 0 THEN object_compare(ls1, b, depth - 1) ELSE res

object_compare(a, b, depth) ==
  CASE a = b -> 0
    [] a # b /\ IsPointer(a) /\ IsPointer(b) ->
         CASE a.t # b.t -> Tag(a) - Tag(b)
           [] a.t = b.t /\ depth <= 0 -> 0
           [] a.t = b.t /\ depth > 0 /\ IsPair(a) -> pair_loop(0, a, a.cdr, b, depth)
           [] OTHER -> IF Len(a.data) # Len(b.data) THEN Len(a.data) - Len(b.data)
                                                   ELSE vector_compare(a.data, b.data, depth)
    [] IsPointer(a) /\ ~IsPointer(b) -> 1
    [] ~IsPointer(a) /\ IsPointer(b) -> -1
    [] OTHER -> Immediate(a) - Immediate(b)

ObjectLess(S) ==
  [p \in S \X S |-> IF object_compare(p[1], p[2], COMPARE_DEPTH) < 0 THEN "yes" ELSE "no"]

(***************************************************************************)
(* sort!                                                                   *)
(***************************************************************************)

vector_nreverse(v) == Reverse(v)

\* how is "basic" for no comparison or <, "inverse" for >, and "proc" for any
\* other procedure.  The result is the vector or list to return, unless exn says
\* that an exception is, and what the argument holds after the call.
sort_x(seq, listp, how, less) ==
  LET s0 == [vec |-> seq, scratch |-> [i \in DOMAIN seq |-> Unset], exn |-> FALSE]
      s  == merge_sort_less(s0, less, 1, Len(seq))
      v  == IF how = "inverse" THEN vector_nreverse(s.vec) ELSE s.vec
      Done(res, after) == [exn |-> FALSE, res |-> res, seq |-> after]
  IN  CASE seq = <<>> -> Done(seq, seq)
        [] seq # <<>> /\ s.exn ->
             [exn |-> TRUE, res |-> <<>>, seq |-> IF listp THEN seq ELSE s.vec]
        [] seq # <<>> /\ ~s.exn /\ listp -> Done(v, v)
        [] OTHER -> Done(IF how = "proc" THEN s.scratch ELSE v, v)
=============================================================================
