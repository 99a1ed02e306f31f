------------------------------- MODULE Scheme -------------------------------
(***************************************************************************)
(* What a program means: a direct evaluator of the source language of      *)
(* Compiler, with environments, a store, and operands evaluated from right *)
(* to left.  It is what the compiled code is compared with.                *)
(*                                                                         *)
(* A state st has the store cells, the globals, whether all went well so   *)
(* far, the steps that are left (fuel), and the largest number of calls    *)
(* that were ever pending (deep).  An evaluation gives <<value, state>>.   *)
(***************************************************************************)
EXTENDS Compiler

Wrong(st) == <<Void, [st EXCEPT !.ok = FALSE]>>

\* The definitions of a body, also in a (begin ...).
RECURSIVE BodyDefs(_)
BodyDefs(es) ==
  FlattenSeq([i \in DOMAIN es |-> CASE es[i][1] = "define" -> <<es[i][2]>>
                                    [] es[i][1] = "begin" -> BodyDefs(es[i][2])
                                    [] OTHER -> <<>>])

\* An environment with new cells for the names xs, which hold vs.
Bind(xs, vs, env, st) ==
  LET n == Len(st.cells)
  IN  <<[x \in DOMAIN env \cup ToSet(xs) |->
           IF x \in ToSet(xs) THEN n + IndexOf(x, xs) ELSE env[x]],
        [st EXCEPT !.cells = @ \o vs]>>

ListOf(vs) == FoldRight(LAMBDA v, l : <<"pair", v, l>>, vs, <<"null">>)

\* e in tail position with k calls pending, or with tail = FALSE elsewhere.
RECURSIVE Ev(_, _, _, _, _)

\* The values of es, the last one first.
EvList(es, env, k, st) ==
  FoldRight(LAMBDA e, r : LET v == Ev(e, env, FALSE, k, r[2]) IN <<<<v[1]>> \o r[1], v[2]>>,
            es, <<<<>>, st>>)

EvBody(es, env, tail, k, st) ==
  LET r == FoldLeft(LAMBDA s, e : Ev(e, env, FALSE, k, s)[2], st, Front(es))
  IN  Ev(Last(es), env, tail, k, r)

Assign(x, v, env, st) ==
  IF x \in DOMAIN env THEN [st EXCEPT !.cells[env[x]] = v] ELSE [st EXCEPT !.globals[x] = v]

Lookup(x, env, st) == IF x \in DOMAIN env THEN st.cells[env[x]] ELSE st.globals[x]

EvApply(f, vs, k, st) ==
  LET n == Len(f[2])
      xs == f[2] \o (IF f[3] = NoRest THEN <<>> ELSE <<f[3]>>)
      vals == SubSeq(vs, 1, n)
                \o (IF f[3] = NoRest THEN <<>> ELSE <<ListOf(SubSeq(vs, n + 1, Len(vs)))>>)
      defs == BodyDefs(f[4])
      b == Bind(xs \o defs, vals \o [i \in DOMAIN defs |-> Undef], f[5], st)
  IN  IF f[1] # "closure" \/ Len(vs) < n \/ (f[3] = NoRest /\ Len(vs) > n) THEN Wrong(st)
      ELSE EvBody(f[4], b[1], TRUE, k, [b[2] EXCEPT !.deep = Max({@, k})])

EvPrim(op, vs, st) ==
  LET ints == \A i \in DOMAIN vs : vs[i][1] = "int"
  IN  CASE op = "add" /\ ints -> <<Fixnum(FoldLeft(LAMBDA n, v : n + v[2], 0, vs)), st>>
        [] op = "lt" /\ ints ->
             <<Boolean(\A i \in 1..(Len(vs) - 1) : vs[i][2] < vs[i + 1][2]), st>>
        [] op = "cons" -> <<<<"pair", vs[1], vs[2]>>, st>>
        [] op = "car" /\ vs[1][1] = "pair" -> <<vs[1][2], st>>
        [] op = "cdr" /\ vs[1][1] = "pair" -> <<vs[1][3], st>>
        [] OTHER -> Wrong(st)

EvCase(x, env, tail, k, st) ==
  CASE x[1] = "const" -> <<x[2], st>>
    [] x[1] = "var" -> IF Lookup(x[2], env, st) = Undef THEN Wrong(st)
                       ELSE <<Lookup(x[2], env, st), st>>
    [] x[1] \in {"set!", "define"} ->
         LET v == Ev(x[3], env, FALSE, k, st)
         IN  IF x[1] = "set!" /\ Lookup(x[2], env, v[2]) = Undef THEN Wrong(v[2])
             ELSE <<Void, Assign(x[2], v[1], env, v[2])>>
    [] x[1] = "if" -> LET t == Ev(x[2], env, FALSE, k, st)
                      IN  Ev(IF t[1] = Boolean(FALSE) THEN x[4] ELSE x[3], env, tail, k, t[2])
    [] x[1] = "begin" -> EvBody(x[2], env, tail, k, st)
    [] x[1] = "lambda" -> <<<<"closure", x[2], x[3], x[4], env>>, st>>
    [] x[1] = "app" -> LET r == EvList(Tail(x[2]), env, k, st)
                           f == Ev(Head(x[2]), env, FALSE, k, r[2])
                       IN  IF ~f[2].ok THEN f
                           ELSE EvApply(f[1], r[1], IF tail THEN k ELSE k + 1, f[2])
    [] x[1] = "prim" -> LET r == EvList(x[3], env, k, st)
                        IN  IF ~r[2].ok THEN Wrong(r[2]) ELSE EvPrim(x[2], r[1], r[2])

Ev(x, env, tail, k, st) ==
  IF ~st.ok \/ st.fuel = 0 THEN Wrong(st)
  ELSE EvCase(x, env, tail, k, [st EXCEPT !.fuel = @ - 1])

\* A value without its identity.
RECURSIVE Shown(_)
Shown(v) ==
  CASE v[1] = "closure" -> <<"procedure">>
    [] v[1] = "pair" -> <<"pair", Shown(v[2]), Shown(v[3])>>
    [] OTHER -> v

\* What the forms of a program give, at most fuel steps for all.
Meaning(forms, names, fuel) ==
  LET st == [cells |-> <<>>, globals |-> [x \in names |-> Undef], ok |-> TRUE,
             fuel |-> fuel, deep |-> 1]
      r == FoldLeft(LAMBDA s, x : Ev(x, [y \in {} |-> 0], TRUE, 1, s[2]), <<Void, st>>, forms)
  IN  [ok |-> r[2].ok, value |-> Shown(r[1]), deep |-> r[2].deep,
       globals |-> [x \in names |-> Shown(r[2].globals[x])]]
=============================================================================
