------------------------------- MODULE Lists -------------------------------
(***************************************************************************)
(* Pairs, vectors and the list utilities of sexp.c over a small heap: the  *)
(* heap is a sequence of objects, a value is the index of an object or a   *)
(* number that is not positive (the empty list, symbols, the reader's      *)
(* marks).  Structures may share parts and may be cyclic.                  *)
(***************************************************************************)
EXTENDS Integers, Sequences, SequencesExt

Null == 0
False == -1

Pair(a, d) == [t |-> "pair", e |-> <<a, d>>]
Vector(elts) == [t |-> "vector", e |-> elts]

pointerp(v) == v > 0
pairp(h, v) == v > 0 /\ h[v].t = "pair"
car(h, v) == h[v].e[1]
cdr(h, v) == h[v].e[2]

\* an allocation: the heap and the index of the new object
cons(h, a, d) == [h |-> Append(h, Pair(a, d)), v |-> Len(h) + 1]
set_cdr(h, v, d) == [h EXCEPT ![v].e = <<@[1], d>>]

\* sexp_listp_op: the hare goes two pairs for one of the turtle
RECURSIVE race(_, _, _)
race(h, hare, turtle) ==
  IF ~pairp(h, hare) THEN hare = Null
  ELSE IF hare = turtle THEN FALSE
  ELSE LET x == cdr(h, hare)
       IN  race(h, IF pairp(h, x) THEN cdr(h, x) ELSE x, cdr(h, turtle))

\* A variant with a bug: hare and turtle start at the same pair.
listp_level(h, v) == IF ~pairp(h, v) THEN v = Null ELSE race(h, v, v)

listp(h, v) == IF ~pairp(h, v) THEN v = Null ELSE race(h, cdr(h, v), v)

\* sexp_length_op: #f for a cycle, and an improper tail does not count
RECURSIVE length_from(_, _, _, _)
length_from(h, ls1, ls2, n) ==
  IF pairp(h, ls2) /\ pairp(h, cdr(h, ls2))
  THEN IF ls1 = ls2 THEN False
       ELSE length_from(h, cdr(h, ls1), cdr(h, cdr(h, ls2)), n + 2)
  ELSE n + (IF pairp(h, ls2) THEN 1 ELSE 0)

length(h, v) == IF ~pairp(h, v) THEN 0 ELSE length_from(h, v, cdr(h, v), 1)

RECURSIVE memq(_, _, _)
memq(h, x, ls) ==
  IF ~pairp(h, ls) THEN False
  ELSE IF car(h, ls) = x THEN ls ELSE memq(h, x, cdr(h, ls))

RECURSIVE assq(_, _, _)
assq(h, x, ls) ==
  IF ~pairp(h, ls) THEN False
  ELSE IF pairp(h, car(h, ls)) /\ car(h, car(h, ls)) = x THEN car(h, ls)
  ELSE assq(h, x, cdr(h, ls))

\* conses the elements of ls, from the first, onto r.v
RECURSIVE reverse_onto(_, _)
reverse_onto(r, ls) ==
  IF ~pairp(r.h, ls) THEN r
  ELSE reverse_onto(cons(r.h, car(r.h, ls), r.v), cdr(r.h, ls))

reverse(h, ls) == reverse_onto([h |-> h, v |-> Null], ls)

append2(h, a, b) ==
  LET a1 == reverse(h, a) IN reverse_onto([h |-> a1.h, v |-> b], a1.v)

\* the loop of sexp_nreverse_op: b is the part that is turned already
RECURSIVE nreverse_loop(_, _, _)
nreverse_loop(h, b, a) ==
  IF ~pairp(h, a) THEN [h |-> h, v |-> b]
  ELSE nreverse_loop(set_cdr(h, a, b), a, cdr(h, a))

nreverse(h, ls) ==
  IF ls = Null THEN [h |-> h, v |-> ls]
  ELSE nreverse_loop(set_cdr(h, ls, Null), ls, cdr(h, ls))

\* the loop of sexp_copy_list_op: the last pair of the copy is extended
RECURSIVE copy_loop(_, _, _)
copy_loop(h, tmp, ls) ==
  IF ~pairp(h, ls) THEN h
  ELSE LET c == cons(h, car(h, ls), cdr(h, ls))
       IN  copy_loop(set_cdr(c.h, tmp, c.v), c.v, cdr(h, ls))

copy_list(h, ls) ==
  IF ~pairp(h, ls) THEN [h |-> h, v |-> ls]
  ELSE LET c == cons(h, car(h, ls), cdr(h, ls))
       IN  [h |-> copy_loop(c.h, c.v, cdr(h, ls)), v |-> c.v]

list_to_vector(h, ls) ==
  LET elts == [i \in 1..length(h, ls) |->
                 LET at[k \in 1..i] == IF k = 1 THEN ls ELSE cdr(h, at[k - 1]) IN car(h, at[i])]
  IN  [h |-> Append(h, Vector(elts)), v |-> Len(h) + 1]

(***************************************************************************)
(* sexp_equalp_bound: the result is what is left of the bound, or NotEqual. *)
(* The slots that are eq at the end of both objects are skipped, the ones   *)
(* before the last are compared one level deeper, and the last one on this  *)
(* level.  When a limit is exceeded the parts in question count as equal.   *)
(***************************************************************************)
NotEqual == -100

same_kind(h, a, b) == pointerp(a) /\ pointerp(b) /\ h[a].t = h[b].t

RECURSIVE equalp_bound(_, _, _, _, _), equal_slots(_, _, _, _, _, _, _)
equalp_bound(h, a, b, depth, bound) ==
  IF a = b THEN bound
  ELSE IF ~same_kind(h, a, b) THEN NotEqual
  ELSE IF bound < 0 \/ depth < 0 THEN bound
  ELSE IF Len(h[a].e) # Len(h[b].e) THEN NotEqual
  ELSE LET p == h[a].e
           q == h[b].e
           differ == {i \in 2..Len(p) : p[i] # q[i]}
           last == IF differ = {} THEN 1 ELSE CHOOSE i \in differ : \A j \in differ : j <= i
       IN  IF p = <<>> THEN bound - 1
           ELSE IF last > 1 /\ ~same_kind(h, p[last], q[last]) THEN NotEqual
           ELSE equal_slots(h, p, q, 1, last, depth, bound - 1)

equal_slots(h, p, q, i, last, depth, bound) ==
  IF i = last THEN equalp_bound(h, p[i], q[i], depth, bound)
  ELSE LET r == equalp_bound(h, p[i], q[i], depth - 1, bound)
       IN  IF r = NotEqual THEN NotEqual ELSE equal_slots(h, p, q, i + 1, last, depth, r)

equalp(h, a, b, depth, bound) == equalp_bound(h, a, b, depth, bound) # NotEqual
=============================================================================
