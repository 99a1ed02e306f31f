------------------------------ MODULE Compiler ------------------------------
(***************************************************************************)
(* From source to bytecode: analyze and sexp_free_vars (eval.c), simplify  *)
(* (simplify.c) and sexp_generate (vm.c), as functions.  What the C code   *)
(* keeps in a context or changes in a lambda object is passed along: a is  *)
(* the sequence of the lambdas of a form, g the code generator's context.  *)
(* Macros, syntactic closures and source information are left out.         *)
(*                                                                         *)
(* Source: <<"const", v>> <<"var", x>> <<"set!", x, e>> <<"if", e, e, e>>  *)
(*         <<"begin", es>> <<"lambda", params, rest, body>>                *)
(*         <<"define", x, e>> <<"app", es>> <<"prim", op, es>>             *)
(* AST:    <<"lit", v>> <<"ref", x, loc>> <<"set", x, loc, value>>         *)
(*         <<"cnd", test, pass, fail>> <<"seq", ls>> <<"lambda", i>>       *)
(*         <<"app", ls>> <<"opcode", op, ls>>                              *)
(* where loc is the lambda that binds x, 0 for a global variable.          *)
(***************************************************************************)
EXTENDS Integers, SequencesExt

NoRest == "no rest parameter"
Void == <<"void">>
Undef == <<"undef">>
Fixnum(n) == <<"int", n>>
Boolean(b) == <<"bool", b>>
Lit(v) == <<"lit", v>>
IsLit(x) == x[1] = "lit"

-----------------------------------------------------------------------------
(* analyze                                                                 *)

NewLambda(params, rest) ==
  [params |-> params, rest |-> rest, locals |-> <<>>, sv |-> <<>>, fv |-> <<>>,
   defs |-> <<>>, body |-> Lit(Void)]

Bound(l) == ToSet(l.params) \cup ToSet(l.locals) \cup ({l.rest} \ {NoRest})

\* The lambda that binds x: env has the lambdas around, the innermost first.
Loc(x, env, a) ==
  LET in == {i \in DOMAIN env : x \in Bound(a[env[i]])}
  IN  IF in = {} THEN 0 ELSE env[Min(in)]

\* sexp_insert: add x to a list unless it is there.
Insert(x, ls) == IF x \in ToSet(ls) THEN ls ELSE <<x>> \o ls

RECURSIVE Analyze(_, _, _)

AnalyzeList(es, env, a) ==
  FoldLeft(LAMBDA r, e : LET n == Analyze(e, env, r[2]) IN <<Append(r[1], n[1]), n[2]>>,
           <<<<>>, a>>, es)

AnalyzeSeq(es, env, a) ==
  CASE Len(es) = 0 -> <<Lit(Void), a>>
    [] Len(es) = 1 -> Analyze(es[1], env, a)
    [] OTHER -> LET r == AnalyzeList(es, env, a) IN <<<<"seq", r[1]>>, r[2]>>

\* Assignment: the variable is remembered, to be boxed.
AnalyzeSet(x, env, a) ==
  LET loc == Loc(x[2], env, a)
      r == Analyze(x[3], env, IF loc = 0 THEN a ELSE [a EXCEPT ![loc].sv = Insert(x[2], @)])
  IN  <<<<"set", x[2], loc, r[1]>>, r[2]>>

\* A definition in a body is put off, one at toplevel is an assignment.
AnalyzeDefine(x, env, a) ==
  IF env = <<>>
  THEN LET r == Analyze(x[3], env, a) IN <<<<"set", x[2], 0, r[1]>>, r[2]>>
  ELSE <<Lit(Void), [a EXCEPT ![env[1]].locals = <<x[2]>> \o @,
                              ![env[1]].defs = <<x>> \o @]>>

\* The body, then the definitions found in it, which come first when it runs.
AnalyzeLambda(x, env, a) ==
  LET i == Len(a) + 1
      inner == <<i>> \o env
      b == AnalyzeSeq(x[4], inner, Append(a, NewLambda(x[2], x[3])))
      ds == FoldLeft(LAMBDA r, d :
                       LET v == Analyze(d[3], inner, r[2])
                       IN  <<<<<<"set", d[2], i, v[1]>>>> \o r[1],
                             [v[2] EXCEPT ![i].sv = Insert(d[2], @)]>>,
                     <<<<>>, b[2]>>, b[2][i].defs)
      ls == IF b[1][1] = "seq" THEN b[1][2] ELSE <<b[1]>>
      body == IF ds[1] = <<>> THEN b[1] ELSE <<"seq", ds[1] \o ls>>
  IN  <<<<"lambda", i>>, [ds[2] EXCEPT ![i].body = body]>>

AnalyzeIf(x, env, a) ==
  LET r == AnalyzeList(Tail(x), env, a) IN <<<<"cnd">> \o r[1], r[2]>>

AnalyzeApp(x, env, a) ==
  LET r == AnalyzeList(x[2], env, a) IN <<<<"app", r[1]>>, r[2]>>

Analyze(x, env, a) ==
  CASE x[1] = "const" -> <<Lit(x[2]), a>>
    [] x[1] = "var" -> <<<<"ref", x[2], Loc(x[2], env, a)>>, a>>
    [] x[1] = "set!" -> AnalyzeSet(x, env, a)
    [] x[1] = "if" -> AnalyzeIf(x, env, a)
    [] x[1] = "begin" -> AnalyzeSeq(x[2], env, a)
    [] x[1] = "lambda" -> AnalyzeLambda(x, env, a)
    [] x[1] = "define" -> AnalyzeDefine(x, env, a)
    [] x[1] = "app" -> AnalyzeApp(x, env, a)
    [] x[1] = "prim" -> LET r == AnalyzeList(x[3], env, a)
                        IN  <<<<"opcode", x[2], r[1]>>, r[2]>>

-----------------------------------------------------------------------------
(* simplify: substs holds the constants to put in place of parameters,     *)
(* lambda is the lambda around, 0 at toplevel.                             *)

RECURSIVE Simplify(_, _, _, _)

SimplifyList(ls, substs, lambda, a) ==
  FoldLeft(LAMBDA r, x : LET n == Simplify(x, substs, lambda, r[2])
                         IN  <<Append(r[1], n[1]), n[2]>>,
           <<<<>>, a>>, ls)

\* (+ 1 2): the only opcode whose constant arguments are folded.
SimplifyOpcode(x, substs, lambda, a) ==
  LET r == SimplifyList(x[3], substs, lambda, a)
      foldable == x[2] = "add" /\ \A i \in DOMAIN r[1] : IsLit(r[1][i]) /\ r[1][i][2][1] = "int"
      sum == FoldLeft(LAMBDA n, l : n + l[2][2], 0, r[1])
  IN  <<IF foldable THEN Lit(Fixnum(sum)) ELSE <<"opcode", x[2], r[1]>>, r[2]>>

\* ((lambda (x y) ...) 1 e): parameters that are never set and get a constant
\* are replaced by it, in the parameters, the arguments and the body.  With a
\* rest parameter this is done if it stands for no arguments.
SimplifyLet(x, substs, lambda, a) ==
  LET i == x[2][1][2]
      args == SimplifyList(Tail(x[2]), substs, lambda, a)
      l == args[2][i]
      match == Len(l.params) = Len(args[1])
      inlined == {k \in DOMAIN args[1] : /\ match /\ IsLit(args[1][k])
                                         /\ l.params[k] \notin ToSet(l.sv)}
      Kept(s) == [n \in 1..(Len(s) - Cardinality(inlined)) |->
                    s[CHOOSE k \in DOMAIN s \ inlined :
                        Cardinality({j \in 1..k : j \notin inlined}) = n]]
      new == {<<l.params[k], i, args[1][k]>> : k \in inlined}
      a1 == IF match THEN [args[2] EXCEPT ![i].params = Kept(l.params)] ELSE args[2]
      b == Simplify(l.body, substs \cup new, i, a1)
  IN  <<<<"app", <<x[2][1]>> \o (IF match THEN Kept(args[1]) ELSE args[1])>>,
        [b[2] EXCEPT ![i].body = b[1]]>>

\* An application; at toplevel its operator is left alone if it is a lambda.
SimplifyApp(x, substs, lambda, a) ==
  CASE x[2][1][1] # "lambda" ->
         LET r == SimplifyList(x[2], substs, lambda, a) IN <<<<"app", r[1]>>, r[2]>>
    [] lambda = 0 ->
         LET r == SimplifyList(Tail(x[2]), substs, lambda, a)
         IN  <<<<"app", <<x[2][1]>> \o r[1]>>, r[2]>>
    [] OTHER -> SimplifyLet(x, substs, lambda, a)

SimplifyCnd(x, substs, lambda, a) ==
  LET t == Simplify(x[2], substs, lambda, a)
      r == SimplifyList(<<x[3], x[4]>>, substs, lambda, t[2])
  IN  IF IsLit(t[1])
      THEN Simplify(IF t[1][2] = Boolean(FALSE) THEN x[4] ELSE x[3], substs, lambda, t[2])
      ELSE <<<<"cnd", t[1]>> \o r[1], r[2]>>

\* A sequence loses what has no effect, except its last expression.
SimplifySeq(x, substs, lambda, a) ==
  LET r == SimplifyList(x[2], substs, lambda, a)
      kept == SelectSeq(Front(r[1]), LAMBDA y : y[1] \notin {"lit", "ref", "lambda"})
  IN  <<IF kept = <<>> THEN Last(r[1]) ELSE <<"seq", Append(kept, Last(r[1]))>>, r[2]>>

Simplify(x, substs, lambda, a) ==
  CASE x[1] = "lit" -> <<x, a>>
    [] x[1] = "ref" ->
         LET s == {t \in substs : t[1] = x[2] /\ t[2] = x[3]}
         IN  <<IF s = {} THEN x ELSE (CHOOSE t \in s : TRUE)[3], a>>
    [] x[1] = "set" -> LET r == Simplify(x[4], substs, lambda, a)
                       IN  <<[x EXCEPT ![4] = r[1]], r[2]>>
    [] x[1] = "cnd" -> SimplifyCnd(x, substs, lambda, a)
    [] x[1] = "seq" -> SimplifySeq(x, substs, lambda, a)
    [] x[1] = "lambda" -> LET r == Simplify(a[x[2]].body, substs, x[2], a)
                          IN  <<x, [r[2] EXCEPT ![x[2]].body = r[1]]>>
    [] x[1] = "app" -> SimplifyApp(x, substs, lambda, a)
    [] x[1] = "opcode" -> SimplifyOpcode(x, substs, lambda, a)

-----------------------------------------------------------------------------
(* sexp_free_vars: fv has the free variables found so far, as <<x, loc>>.  *)

UnionFreeVars(fv1, fv2) ==
  IF fv2 = <<>> THEN fv1 ELSE FoldLeft(LAMBDA r, x : Insert(x, r), fv2, fv1)

DiffFreeVars(i, fv, a) ==
  Reverse(SelectSeq(fv, LAMBDA x : x[2] # i \/ x[1] \notin Bound(a[i])))

RECURSIVE FreeVars(_, _, _)

FreeVarsList(ls, fv, a) == FoldLeft(LAMBDA r, x : FreeVars(x, r[1], r[2]), <<fv, a>>, ls)

FreeVars(x, fv, a) ==
  CASE x[1] = "lit" -> <<fv, a>>
    [] x[1] = "ref" -> <<IF x[3] = 0 THEN fv ELSE Insert(<<x[2], x[3]>>, fv), a>>
    [] x[1] = "set" -> LET r == FreeVars(x[4], fv, a)
                       IN  FreeVars(<<"ref", x[2], x[3]>>, r[1], r[2])
    [] x[1] = "cnd" -> FreeVarsList(Tail(x), fv, a)
    [] x[1] \in {"seq", "app"} -> FreeVarsList(x[2], fv, a)
    [] x[1] = "opcode" -> FreeVarsList(x[3], fv, a)
    [] x[1] = "lambda" ->
         LET r == FreeVars(a[x[2]].body, <<>>, a)
             own == DiffFreeVars(x[2], r[1], r[2])
         IN  <<UnionFreeVars(own, fv), [r[2] EXCEPT ![x[2]].fv = own]>>

-----------------------------------------------------------------------------
(* sexp_generate.  c is what is fixed in a context: the lambdas a, the     *)
(* lambda around, the values of the globals and the number of the first    *)
(* bytecode.  g changes: the code, the depth of the stack as far as the    *)
(* generator counts it, its maximum, and the bytecodes of the lambdas.     *)

Emit(g, op) == [g EXCEPT !.code = Append(@, op)]
EmitAll(g, ops) == [g EXCEPT !.code = @ \o ops]

\* A variant with a bug: the maximum is not kept.
IncDepthOnly(g, n) == [g EXCEPT !.depth = @ + n]

\* sexp_inc_context_depth
IncDepth(g, n) ==
  [g EXCEPT !.depth = @ + n, !.max = IF g.depth + n > @ THEN g.depth + n ELSE @]

EmitPush(g, v) == IncDepth(Emit(g, <<"push", v>>), 1)

\* Let the jump at label go to the next instruction.
PatchLabel(g, label) == [g EXCEPT !.code[label][2] = Len(g.code) + 1 - label]

IndexOf(x, ls) == SelectInSeq(ls, LAMBDA y : y = x)

\* Arguments count down from the frame, locals up from behind it.
ParamIndex(l, x) ==
  CASE x \in ToSet(l.params) -> IndexOf(x, l.params) - 1
    [] x = l.rest -> Len(l.params)
    [] OTHER -> -IndexOf(x, l.locals) - 4

RECURSIVE Generate(_, _, _, _)

GenerateList(ls, c, g) == FoldLeft(LAMBDA r, x : Generate(x, FALSE, c, r), g, ls)

\* The value of x is not used; an assignment ends in a push that is taken back.
DropPrev(x, g) ==
  IF x[1] = "set" THEN [g EXCEPT !.code = Front(@)] ELSE Emit(g, <<"drop">>)

\* A variant with a bug: the last expression is not in tail position.
GenerateSeqNoTail(ls, tailp, c, g) ==
  LET effects == SelectSeq(Front(ls), LAMBDA x : ~IsLit(x))
      Effect(r, x) == IncDepth(DropPrev(x, Generate(x, FALSE, c, r)), -1)
  IN  Generate(Last(ls), FALSE, c, FoldLeft(Effect, g, effects))

GenerateSeq(ls, tailp, c, g) ==
  LET effects == SelectSeq(Front(ls), LAMBDA x : ~IsLit(x))
      Effect(r, x) == IncDepth(DropPrev(x, Generate(x, FALSE, c, r)), -1)
  IN  Generate(Last(ls), tailp, c, FoldLeft(Effect, g, effects))

GenerateCnd(x, tailp, c, g) ==
  LET test == IncDepth(Emit(Generate(x[2], FALSE, c, g), <<"jump_unless", 0>>), -1)
      pass == IncDepth(Emit(Generate(x[3], tailp, c, test), <<"jump", 0>>), -1)
      fail == Generate(x[4], tailp, c, PatchLabel(pass, Len(test.code)))
  IN  PatchLabel(fail, Len(pass.code))

GenerateNonGlobalRef(x, loc, unboxp, c, g) ==
  LET fv == IF c.lambda = 0 THEN <<>> ELSE c.a[c.lambda].fv
      ref == IF loc = c.lambda
             THEN Emit(g, <<"local_ref", ParamIndex(c.a[loc], x)>>)
             ELSE Emit(g, <<"closure_ref", IndexOf(<<x, loc>>, fv) - 1>>)
  IN  IncDepth(IF unboxp /\ x \in ToSet(c.a[loc].sv) THEN Emit(ref, <<"cdr">>) ELSE ref, 1)

GenerateRef(x, loc, unboxp, c, g) ==
  CASE loc # 0 -> GenerateNonGlobalRef(x, loc, unboxp, c, g)
    [] loc = 0 /\ unboxp ->
         Emit(g, <<IF c.globals[x] = Undef THEN "global_ref" ELSE "global_known_ref", x>>)
    [] loc = 0 /\ ~unboxp -> EmitPush(g, <<"cell", x>>)

\* Variables that are set are boxed, so a cell is what is changed.
GenerateSet(x, c, g) ==
  LET value == Generate(x[4], FALSE, c, g)
      check == IF x[3] = 0 /\ c.globals[x[2]] = Undef
               THEN Emit(GenerateRef(x[2], 0, TRUE, c, value), <<"drop">>) ELSE value
      set == Emit(GenerateRef(x[2], x[3], FALSE, c, check), <<"set_cdr">>)
  IN  IncDepth(EmitPush(set, Void), 1)

\* (< x y z): each step replaces two operands by whether all is well so far.
CompareOps(n) ==
  IF n <= 2 THEN <<<<"lt">>>>
  ELSE LET Pair(k) == <<<<"stack_ref", k>>, <<"stack_ref", k>>, <<"lt">>, <<"and">>>>
       IN  Pair(2) \o FlattenSeq([i \in 1..(n - 2) |-> Pair(3) \o <<<<"and">>>>]) \o <<<<"and">>>>

GenerateOpcodeApp(x, c, g) ==
  LET op == x[2]
      dflt == IF op = "add" /\ x[3] = <<>> THEN IncDepth(EmitPush(g, Fixnum(0)), 1) ELSE g
      n == IF op = "add" /\ x[3] = <<>> THEN 1 ELSE Len(x[3])
      args == GenerateList(Reverse(x[3]), c, dflt)
      ops == CASE op = "add" -> [i \in 1..(n - 1) |-> <<"add">>]
               [] op = "lt" -> CompareOps(n)
               [] OTHER -> <<<<op>>>>
  IN  IncDepth(EmitAll(args, ops), -(n - 1))

GenerateGeneralApp(ls, tailp, c, g) ==
  LET args == GenerateList(Reverse(Tail(ls)), c, g)
      n == Len(ls) - 1
      call == Emit(Generate(Head(ls), FALSE, c, args), <<IF tailp THEN "tail_call" ELSE "call", n>>)
  IN  IncDepth(call, -n)

\* Whether variable x of lambda i is referred to: what an assignment to x does
\* not count.
RECURSIVE Usedp(_, _, _, _)
Usedp(i, x, y, a) ==
  LET InSome(ls) == \E k \in DOMAIN ls : Usedp(i, x, ls[k], a)
  IN  CASE y[1] = "lit" -> FALSE
        [] y[1] = "ref" -> y[2] = x /\ y[3] = i
        [] y[1] = "set" -> Usedp(i, x, y[4], a)
        [] y[1] = "lambda" -> Usedp(i, x, a[y[2]].body, a)
        [] y[1] = "cnd" -> InSome(Tail(y))
        [] y[1] \in {"seq", "app"} -> InSome(y[2])
        [] y[1] = "opcode" -> InSome(y[3])

RestUnusedp(i, a) == a[i].rest # NoRest /\ ~Usedp(i, a[i].rest, a[i].body, a)

\* sexp_complete_bytecode, with the fields of the procedure.
Bytecode(g, num, variadic, unused) ==
  [code |-> Append(g.code, <<"ret">>), max |-> g.max, num |-> num,
   variadic |-> variadic, unused |-> unused]

\* The code of lambda i: room for the locals, boxes for what is set, the body.
LambdaCode(i, c, g) ==
  LET l == c.a[i]
      locals == FoldLeft(LAMBDA r, x : EmitPush(r, Undef),
                         [g EXCEPT !.code = <<>>, !.depth = 0, !.max = 0], l.locals)
      Box(r, x) == EmitAll(EmitPush(Emit(r, <<"local_ref", ParamIndex(l, x)>>), <<"sym", x>>),
                           <<<<"cons">>, <<"local_set", ParamIndex(l, x)>>>>)
  IN  Generate(l.body, TRUE, [c EXCEPT !.lambda = i], FoldLeft(Box, locals, l.sv))

\* Variable k of fv goes to the vector of a closure, with its box if it has one.
\* A variant with a bug takes the value out of the box.
CloseVar(unboxp, fv, c, g, k) ==
  IncDepth(EmitAll(EmitPush(GenerateNonGlobalRef(fv[k][1], fv[k][2], unboxp, c, g), Fixnum(k - 1)),
                   <<<<"stack_ref", 3>>, <<"vector_set">>>>), -1)
CloseOverValue(fv, c, g, k) == CloseVar(TRUE, fv, c, g, k)
CloseOver(fv, c, g, k) == CloseVar(FALSE, fv, c, g, k)

\* A lambda with free variables makes a closure: the variables are copied to a
\* vector.
GenerateLambda(i, c, g) ==
  LET l == c.a[i]
      inner == LambdaCode(i, c, g)
      bc == Bytecode(inner, Len(l.params), l.rest # NoRest, RestUnusedp(i, c.a))
      g1 == [g EXCEPT !.bcs = [inner.bcs EXCEPT ![i] = bc]]
      vec == IncDepth(Emit(EmitPush(EmitPush(g1, Void), Fixnum(Len(l.fv))), <<"make_vector">>), -1)
  IN  IF l.fv = <<>>
      THEN EmitPush(g1, <<"proc", c.base + i, 0>>)
      ELSE Emit(FoldLeft(LAMBDA r, k : CloseOver(l.fv, c, r, k), vec, [k \in DOMAIN l.fv |-> k]),
                <<"make_procedure", c.base + i>>)

Generate(x, tailp, c, g) ==
  CASE x[1] = "lit" -> EmitPush(g, x[2])
    [] x[1] = "ref" -> GenerateRef(x[2], x[3], TRUE, c, g)
    [] x[1] = "set" -> GenerateSet(x, c, g)
    [] x[1] = "cnd" -> GenerateCnd(x, tailp, c, g)
    [] x[1] = "seq" -> GenerateSeq(x[2], tailp, c, g)
    [] x[1] = "lambda" -> GenerateLambda(x[2], c, g)
    [] x[1] = "app" -> GenerateGeneralApp(x[2], tailp, c, g)
    [] x[1] = "opcode" -> GenerateOpcodeApp(x, c, g)

-----------------------------------------------------------------------------

\* The global variables that a form defines get the value void when it is
\* analyzed, before it runs.
RECURSIVE Defines(_)
Defines(x) ==
  CASE x[1] = "define" -> {x[2]}
    [] x[1] = "begin" -> UNION {Defines(x[2][i]) : i \in DOMAIN x[2]}
    [] OTHER -> {}

GlobalsAfter(x, globals) ==
  [y \in DOMAIN globals |-> IF y \in Defines(x) THEN Void ELSE globals[y]]

\* sexp_compile_op: the bytecodes of a form, that of its toplevel last.
Compile(x, base, globals) ==
  LET an == Analyze(x, <<>>, <<>>)
      si == Simplify(an[1], {}, 0, an[2])
      fr == FreeVars(si[1], <<>>, si[2])
      none == [code |-> <<>>, depth |-> 0, max |-> 0, bcs |-> [i \in DOMAIN fr[2] |-> 0]]
      g == Generate(si[1], TRUE,
                    [a |-> fr[2], lambda |-> 0, globals |-> globals, base |-> base], none)
  IN  Append(g.bcs, Bytecode(g, 0, FALSE, FALSE))
=============================================================================
