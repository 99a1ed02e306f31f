-------------------------------- MODULE MCVM --------------------------------
(***************************************************************************)
(* Families of programs for VM, and its properties: the results are those  *)
(* of the evaluator of module Scheme.                                      *)
(***************************************************************************)
EXTENDS VM, Scheme

CONSTANT Fuel  \* bound: programs that take more steps have no meaning here

-----------------------------------------------------------------------------
(* Source programs.                                                        *)

V(x) == <<"var", x>>
K(n) == <<"const", Fixnum(n)>>
False == <<"const", Boolean(FALSE)>>
Let(x, e) == <<"set!", x, e>>
If(c, a, b) == <<"if", c, a, b>>
Begin(es) == <<"begin", es>>
Lambda(xs, body) == <<"lambda", xs, NoRest, body>>
LambdaRest(xs, r, body) == <<"lambda", xs, r, body>>
Define(x, e) == <<"define", x, e>>
App(es) == <<"app", es>>
Plus(es) == <<"prim", "add", es>>
Less(es) == <<"prim", "lt", es>>
Pair(a, b) == <<"prim", "cons", <<a, b>>>>
CarOf(e) == <<"prim", "car", <<e>>>>
CdrOf(e) == <<"prim", "cdr", <<e>>>>

\* Expressions over the variables xs: atoms, and one level above them.
Atoms(xs) == {K(1)} \cup {V(x) : x \in xs}
Sets(xs) == {Let(x, Plus(<<V(x), a>>)) : x \in xs, a \in Atoms(xs)}
Small(xs) ==
  Atoms(xs) \cup Sets(xs) \cup {Plus(<<a, b>>) : a, b \in Atoms(xs)}
    \cup {If(Less(<<a, b>>), V(y), Let(x, b)) : a, b \in Atoms(xs), x, y \in xs}

\* A closure over x and a global variable, called twice: what one call assigns
\* the next one sees.
Counters ==
  {<<Define("g", K(4)),
     Define("m", Lambda(<<"x">>, <<Lambda(<<"y">>, <<Let(v, Plus(<<V(v), V("y")>>)), e>>)>>)),
     Define("c", App(<<V("m"), K(2)>>)),
     App(<<V("c"), K(3)>>),
     Pair(App(<<V("c"), K(1)>>), App(<<V("c"), V("g")>>))>> :
   v \in {"x", "y", "g"}, e \in Small({"x", "y", "g"})}

\* (let ((x a) (y b)) s e) in a procedure: constants take the place of
\* variables that are not assigned, and the body may have another let with a
\* variable of the same name.
Lets ==
  {<<Define("m", Lambda(<<"z">>,
       <<App(<<Lambda(<<"x", "y">>, <<Let(v, Plus(<<V(v), K(1)>>)), e>>), a, b>>)>>)),
     App(<<V("m"), K(7)>>)>> :
   v \in {"x", "y", "z"}, a \in {K(1), V("z"), False}, b \in {K(2), V("z")},
   e \in Small({"x", "z"}) \cup {App(<<Lambda(<<"x">>, <<t, Pair(V("x"), V("y"))>>), K(5)>>) :
                                 t \in Sets({"x", "y"})}}

\* Rest parameters, used or not, with too few, enough and more arguments.
\* (One that is assigned and not used otherwise is left out.)
UsesOfRest == {V("r"), Pair(V("x"), V("r")),
               App(<<Lambda(<<"q">>, <<Pair(V("q"), V("r"))>>), V("x")>>)}
RestBodies ==
  {<<s, e>> : s \in {K(0), Let("x", Plus(<<V("x"), K(1)>>)), Let("y", V("x"))},
              e \in UsesOfRest \cup {V("x"), V("y"), K(3)}}
    \cup {<<Let("r", Pair(V("x"), V("r"))), e>> : e \in UsesOfRest}
Rests ==
  {<<Define("m", LambdaRest(ps, "r", body)),
     Define("w", Lambda(<<"z">>, <<Pair(App(<<V("m")>> \o args), V("z"))>>)),
     App(<<V("w"), K(9)>>)>> :
   ps \in {<<>>, <<"x">>, <<"x", "y">>}, body \in RestBodies,
   args \in {<<>>, <<K(1)>>, <<K(1), K(2)>>, <<K(1), K(2), V("z")>>}}

\* A procedure with a rest parameter applied where it stands, so that its
\* parameters may be replaced by constants.
LetRests ==
  {<<Define("m", Lambda(<<"z">>, <<Pair(App(<<LambdaRest(ps, "r", body)>> \o args), V("z"))>>)),
     App(<<V("m"), K(9)>>)>> :
   ps \in {<<>>, <<"x">>, <<"x", "y">>}, body \in RestBodies,
   args \in {<<>>, <<K(1)>>, <<K(1), K(2)>>, <<V("z"), K(2)>>, <<K(1), K(2), V("z")>>}}

\* Definitions in a body that refer to each other, and loops by tail calls.
Even(e, o) ==
  <<Define("e", Lambda(<<"n">>, <<If(Less(<<V("n"), K(1)>>), e, App(<<V("o"), Plus(<<V("n"), K(-1)>>)>>))>>)),
    Define("o", Lambda(<<"n">>, <<If(Less(<<V("n"), K(1)>>), o, App(<<V("e"), Plus(<<V("n"), K(-1)>>)>>))>>))>>
Loops ==
  {<<Define("m", Lambda(<<"x">>, Even(e, o) \o <<s, App(<<V("e"), K(n)>>)>>)),
     Plus(<<App(<<V("m"), K(5)>>), K(1)>>)>> :
   e \in {K(10), V("x"), App(<<V("o"), K(0)>>)}, o \in {K(20), Begin(<<Let("x", K(8)), V("x")>>)},
   s \in {Let("x", K(6)), Begin(<<K(1), Let("x", Plus(<<V("x"), K(1)>>))>>)}, n \in {2, 5}}

\* Recursion that is not a tail call, with work before and after it.
Recursions ==
  {<<Define("m", Lambda(<<"n">>, <<If(Less(<<V("n"), K(1)>>), e, Plus(ls))>>)),
     App(<<V("m"), K(n)>>)>> :
   e \in {K(0), V("n"), Less(<<K(0), V("n"), K(1)>>)},
   ls \in {<<a, App(<<V("m"), Plus(<<V("n"), K(-1)>>)>>), b>> : a, b \in {K(1), V("n")}}
          \cup {<<App(<<V("m"), Plus(<<V("n"), K(-1)>>)>>)>> \o [i \in 1..8 |-> b] : b \in {K(1), V("n")}},
   n \in {0, 3, 6}}

\* Comparisons of several numbers and folded sums, at toplevel.
Chains ==
  {<<Define("g", K(2)), If(Less(ns), Plus(ms), Pair(V("g"), K(0)))>> :
   ns \in UNION {[1..n -> {K(1), V("g"), K(3)}] : n \in 2..4},
   ms \in {<<>>, <<K(1), K(2)>>, <<V("g"), K(5), K(6)>>}}

\* Calls for their effects only, on the elements of a list.
Elements == {CarOf(V("r")), CarOf(CdrOf(V("r"))), CarOf(CdrOf(CdrOf(V("r")))), CarOf(K(1))}
Lists ==
  {<<Define("g", K(0)),
     Define("c", Lambda(<<"y">>, <<Let("g", Plus(<<V("g"), V("y")>>)), V("y")>>)),
     Define("m", LambdaRest(<<>>, "r", <<App(<<V("c"), e>>), App(<<V("c"), K(3)>>), Pair(V("g"), e)>>)),
     App(<<V("m"), K(1), K(2)>>)>> : e \in Elements}

\* Calls of a global procedure for their effects, some with global variables as
\* arguments, in every run or in the last one only, then j operands on the stack
\* around a recursive call: what is not counted goes from one to far more than
\* the slack.
DriftBody(effects, always, j) ==
  LET again == Plus(<<App(<<V("m"), Plus(<<V("n"), K(-1)>>)>>)>> \o [i \in 1..j |-> V("n")])
      last  == Less(<<V("n"), K(1)>>)
  IN  IF always THEN effects \o <<If(last, K(0), again)>>
      ELSE <<If(last, Begin(Append(effects, K(0))), again)>>
Drifts ==
  {<<Define("g", K(1)),
     Define("c", LambdaRest(<<>>, "r", <<K(0)>>)),
     Define("m", Lambda(<<"n">>, DriftBody([i \in 1..k |-> App(<<V("c")>> \o args)], always, j))),
     App(<<V("m"), K(n)>>)>> :
   k \in {1, 3, 5}, args \in {<<>>, <<V("g")>>, <<V("g"), V("g")>>}, always \in BOOLEAN,
   j \in {4, 6, 8, 10, 12, 16}, n \in {1, 5}}

AllPrograms ==
  Lists \cup Counters \cup Lets \cup Rests \cup LetRests \cup Loops \cup Recursions \cup Chains \cup Drifts
Names == {"g", "m", "c", "w", "x", "y"}

Meanings == [prog \in AllPrograms |-> Meaning(prog, Names, Fuel)]

-----------------------------------------------------------------------------
(* Properties.                                                             *)

\* A value as the evaluator shows it.
RECURSIVE ShownHere(_)
ShownHere(v) ==
  CASE v[1] = "proc" -> <<"procedure">>
    [] v[1] = "ptr" -> <<"pair", ShownHere(heap[v[2]][1]), ShownHere(heap[v[2]][2])>>
    [] OTHER -> v

\* A program that has a meaning ends with it, and leaves the same values in
\* the global variables: boxes, closures, inlined constants and the order of
\* the instructions make no difference.
ResultAgrees ==
  phase \in {"end", "error"} /\ Meanings[program].ok =>
    /\ phase = "end"
    /\ ShownHere(result) = Meanings[program].value
    /\ \A x \in Globals : ShownHere(globals[x]) = Meanings[program].globals[x]

\* What the generator does not count when it adds up the depth of a procedure:
\* a call takes operands off the depth that were never added, so this can be one
\* for every reference to a global variable, and for every operand that a
\* comparison or the making of a closure copies from the stack.
Uncounted(bc) ==
  Cardinality({i \in DOMAIN bc.code : bc.code[i][1] \in {"global_ref", "global_known_ref", "stack_ref"}})

\* Only calls check the stack.  What is pushed after that, the frame, the locals
\* and all operands, fits in the length ensured there as long as the frame and
\* what the procedure leaves uncounted fit in the slack, and else is longer by
\* no more than what is left over.  (Doubling suffices for procedures that need
\* no more than the first stack has.)
StackFits ==
  LET bc == bcs[self[2]]
      over == Uncounted(bc) + 4 - Slack
  IN  phase = "run" /\ bc.max + Slack <= StackSize => Len(stack) < size + Max({0, over})

\* The frames on the stack, from the current one outward.
RECURSIVE Frames(_)
Frames(f) == IF f < 1 THEN 0 ELSE 1 + Frames(stack[f + 3][2])

\* Calls in tail position do not pile up: there are never more frames than
\* calls that the program itself has pending.  (Only calls make frames, so it
\* is enough to look at the first instruction of a procedure.)
TailCallsFlat ==
  phase = "run" /\ ip = 1 =>
    ~Meanings[program].ok \/ Frames(fp) <= Meanings[program].deep
=============================================================================
