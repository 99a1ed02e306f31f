--------------------------------- MODULE VM ---------------------------------
(***************************************************************************)
(* The virtual machine of chibi-scheme: sexp_apply (vm.c) runs the code    *)
(* that Compiler makes of a sequence of toplevel forms, as sexp_eval_op    *)
(* does one by one.                                                        *)
(*                                                                         *)
(* Values: <<"int", n>> <<"bool", b>> <<"sym", x>> <<"null">> <<"void">>   *)
(* <<"undef">>, <<"ptr", a>> for the pair or vector at heap[a], <<"proc",  *)
(* bytecode, vars>>, and <<"cell", x>> for the cell of a global variable.  *)
(* The top of the stack is the last element of the sequence stack.  A frame*)
(* is: the arguments, the first one on top, their number, the return       *)
(* address, the caller's procedure and the caller's fp; fp is the index of *)
(* the number.                                                             *)
(***************************************************************************)
EXTENDS Compiler

CONSTANTS
  Programs,   \* the programs to run, as sequences of toplevel forms
  Globals,    \* the names of their global variables
  StackSize,  \* SEXP_INIT_STACK_SIZE
  MaxStack,   \* SEXP_MAX_STACK_SIZE
  Slack       \* what is kept free beyond the depth of a procedure: 64

ASSUME VMAssumption ==
  /\ \A prog \in Programs : Len(prog) > 0
  /\ StackSize \in Nat /\ MaxStack \in Nat /\ Slack \in Nat

VARIABLES
  program,    \* the program
  forms,      \* the forms that are left
  globals,    \* the values of the global variables
  bcs,        \* the bytecodes made so far
  heap,       \* pairs <<car, cdr>> and vectors
  stack, size, fp, self, ip,
  phase,      \* eval: before a form; run; end; error
  result      \* the value of the last form that was evaluated

registers == <<stack, size, fp, self, ip>>
vars == <<program, forms, globals, bcs, heap, registers, phase, result>>

Null == <<"null">>
Proc(bc, v) == <<"proc", bc, v>>

\* SEXP_G_FINAL_RESUMER
FinalResumer == Proc(1, 0)
Resumer == [code |-> <<<<"done">>>>, max |-> 0, num |-> 0, variadic |-> FALSE, unused |-> FALSE]

Init ==
  /\ program \in Programs /\ forms = program
  /\ globals = [x \in Globals |-> Undef]
  /\ bcs = <<Resumer>> /\ heap = <<>>
  /\ stack = <<>> /\ size = StackSize /\ fp = -3 /\ self = FinalResumer /\ ip = 1
  /\ phase = "eval" /\ result = Void

-----------------------------------------------------------------------------
(* Calls.                                                                  *)

Arg(s, n) == s[Len(s) + 1 - n]
Pop(s, n) == SubSeq(s, 1, Len(s) - n)

\* sexp_ensure_stack and sexp_grow_stack, for n more than top on a stack of a
\* given length.
Short(length, top, n) == top + n >= length
OutOfStack(length, top, n) == Short(length, top, n) /\ length = MaxStack
Ensured(length, top, n) ==
  IF Short(length, top, n) THEN Min({MaxStack, Max({2 * length, n})}) ELSE length

Fail ==
  /\ phase' = "error"
  /\ UNCHANGED <<program, forms, globals, bcs, heap, registers, result>>

\* The list of the extra arguments: cells are added to the heap from the last
\* argument, at the bottom of the sequence, to the first.
ConsAll(args) ==
  heap \o [k \in DOMAIN args |-> <<args[k], IF k = 1 THEN Null ELSE <<"ptr", Len(heap) + k - 1>>>>]

\* make_call: s holds n arguments and proc, retself and so on are what the
\* frame keeps.  Extra arguments make a list unless the rest parameter is not
\* used; they stay on the stack then.
MakeCall(s, n, retself, retip, retfp) ==
  LET proc == Arg(s, 1)
      bc == bcs[proc[2]]
      extra == n - bc.num
      need == bc.max + Slack
      rest == bc.variadic /\ ~bc.unused
      args == SubSeq(s, Len(s) - n, Len(s) - 1)
      below == Pop(s, n + 1)
      i == IF rest THEN bc.num + 1 ELSE n
  IN  IF \/ proc[1] # "proc"
         \/ extra < 0
         \/ OutOfStack(size, Len(s), need)
         \/ extra > 0 /\ ~bc.variadic
      THEN Fail
      ELSE /\ size' = Ensured(size, Len(s), need)
           /\ heap' = IF rest THEN ConsAll(SubSeq(args, 1, extra)) ELSE heap
           /\ stack' = below
                \o (IF rest THEN <<IF extra = 0 THEN Null ELSE <<"ptr", Len(heap')>>>> ELSE <<>>)
                \o (IF rest THEN SubSeq(args, extra + 1, n) ELSE args)
                \o <<Fixnum(i), Fixnum(retip), retself, Fixnum(retfp)>>
           /\ fp' = Len(stack') - 3 /\ self' = proc /\ ip' = 1
           /\ phase' = "run"
           /\ UNCHANGED <<program, globals, result>>

\* sexp_eval_op: compile the next form and apply the procedure to no arguments
\* on the stack of a new context, which is ensured by sexp_apply and, with the
\* procedure on it, by make_call.
Eval ==
  /\ phase = "eval" /\ forms # <<>>
  /\ globals' = GlobalsAfter(Head(forms), globals)
  /\ bcs' = bcs \o Compile(Head(forms), Len(bcs), globals')
  /\ forms' = Tail(forms)
  /\ LET need == Last(bcs').max + Slack
         first == Ensured(StackSize, 0, need)
     IN  IF OutOfStack(StackSize, 0, need) \/ OutOfStack(first, 1, need)
         THEN phase' = "error" /\ UNCHANGED registers
         ELSE /\ size' = Ensured(first, 1, need)
              /\ stack' = <<Fixnum(0), Fixnum(1), FinalResumer, Fixnum(-3)>>
              /\ fp' = 1 /\ self' = Proc(Len(bcs'), 0) /\ ip' = 1
              /\ phase' = "run"
  /\ UNCHANGED <<program, heap, result>>

-----------------------------------------------------------------------------
(* Instructions.                                                           *)

Code == bcs[self[2]].code
Op == Code[ip]
At(name) == phase = "run" /\ Op[1] = name

\* The instruction at ip leaves the stack s behind and goes on.
Leave(s) ==
  /\ stack' = s /\ ip' = ip + 1
  /\ UNCHANGED <<program, forms, bcs, size, fp, self, phase, result>>

Push(v) == Leave(Append(stack, v)) /\ UNCHANGED <<globals, heap>>
Replace(n, v) == Leave(Append(Pop(stack, n), v)) /\ UNCHANGED <<globals, heap>>

Call == At("call") /\ MakeCall(stack, Op[2], self, ip + 1, fp) /\ UNCHANGED <<forms, bcs>>

\* The new arguments are moved over those of the frame, which is left.
TailCall ==
  /\ At("tail_call")
  /\ LET n == Op[2]
         s == SubSeq(stack, 1, fp - 1 - stack[fp][2]) \o SubSeq(stack, Len(stack) - n, Len(stack))
     IN  MakeCall(s, n, stack[fp + 2], stack[fp + 1][2], stack[fp + 3][2])
  /\ UNCHANGED <<forms, bcs>>

Ret ==
  /\ At("ret")
  /\ stack' = Append(SubSeq(stack, 1, fp - 1 - stack[fp][2]), Arg(stack, 1))
  /\ self' = stack[fp + 2] /\ ip' = stack[fp + 1][2] /\ fp' = stack[fp + 3][2]
  /\ UNCHANGED <<program, forms, globals, bcs, heap, size, phase, result>>

Done ==
  /\ At("done")
  /\ result' = Arg(stack, 1)
  /\ phase' = IF forms = <<>> THEN "end" ELSE "eval"
  /\ UNCHANGED <<program, forms, globals, bcs, heap, registers>>

Jump ==
  /\ At("jump")
  /\ ip' = ip + Op[2]
  /\ UNCHANGED <<program, forms, globals, bcs, heap, stack, size, fp, self, phase, result>>

JumpUnless ==
  /\ At("jump_unless")
  /\ ip' = IF Arg(stack, 1) = Boolean(FALSE) THEN ip + Op[2] ELSE ip + 1
  /\ stack' = Pop(stack, 1)
  /\ UNCHANGED <<program, forms, globals, bcs, heap, size, fp, self, phase, result>>

PushOp == At("push") /\ Push(Op[2])
Drop == At("drop") /\ Leave(Pop(stack, 1)) /\ UNCHANGED <<globals, heap>>
GlobalRef == At("global_ref") /\ IF globals[Op[2]] = Undef THEN Fail ELSE Push(globals[Op[2]])
GlobalKnownRef == At("global_known_ref") /\ Push(globals[Op[2]])
StackRef == At("stack_ref") /\ Push(Arg(stack, Op[2]))
LocalRef == At("local_ref") /\ Push(stack[fp - 1 - Op[2]])
LocalSet ==
  /\ At("local_set")
  /\ Leave(Pop([stack EXCEPT ![fp - 1 - Op[2]] = Arg(stack, 1)], 1))
  /\ UNCHANGED <<globals, heap>>
ClosureRef == At("closure_ref") /\ Push(heap[self[3]][Op[2] + 1])

\* Pairs and vectors are told apart by the compiler only: source programs
\* have no vectors.
IsPair(v) == v[1] = "ptr"

Car == At("car") /\ IF IsPair(Arg(stack, 1)) THEN Replace(1, heap[Arg(stack, 1)[2]][1]) ELSE Fail
Cdr == At("cdr") /\ IF IsPair(Arg(stack, 1)) THEN Replace(1, heap[Arg(stack, 1)[2]][2]) ELSE Fail

\* The pair is a box, or the cell of a global variable.
SetCdr ==
  /\ At("set_cdr")
  /\ LET box == Arg(stack, 1)
     IN  CASE box[1] = "cell" -> /\ globals' = [globals EXCEPT ![box[2]] = Arg(stack, 2)]
                                 /\ Leave(Pop(stack, 2)) /\ UNCHANGED heap
           [] IsPair(box) -> /\ heap' = [heap EXCEPT ![box[2]][2] = Arg(stack, 2)]
                             /\ Leave(Pop(stack, 2)) /\ UNCHANGED globals
           [] OTHER -> Fail

Alloc(block, n) ==
  /\ heap' = Append(heap, block)
  /\ Leave(Append(Pop(stack, n), <<"ptr", Len(heap')>>))
  /\ UNCHANGED globals

ConsOp == At("cons") /\ Alloc(<<Arg(stack, 1), Arg(stack, 2)>>, 2)
MakeVector == At("make_vector") /\ Alloc([k \in 1..Arg(stack, 1)[2] |-> Arg(stack, 2)], 2)
VectorSet ==
  /\ At("vector_set")
  /\ heap' = [heap EXCEPT ![Arg(stack, 1)[2]][Arg(stack, 2)[2] + 1] = Arg(stack, 3)]
  /\ Leave(Pop(stack, 3)) /\ UNCHANGED globals
MakeProcedure == At("make_procedure") /\ Replace(1, Proc(Op[2], Arg(stack, 1)[2]))

Ints == Arg(stack, 1)[1] = "int" /\ Arg(stack, 2)[1] = "int"
Add ==
  /\ At("add")
  /\ IF Ints THEN Replace(2, Fixnum(Arg(stack, 1)[2] + Arg(stack, 2)[2])) ELSE Fail
Lt ==
  /\ At("lt")
  /\ IF Ints THEN Replace(2, Boolean(Arg(stack, 1)[2] < Arg(stack, 2)[2])) ELSE Fail
And ==
  /\ At("and")
  /\ Replace(2, Boolean(Arg(stack, 1) # Boolean(FALSE) /\ Arg(stack, 2) # Boolean(FALSE)))

Finished == phase \in {"end", "error"} /\ UNCHANGED vars

Control == Call \/ TailCall \/ Ret \/ Done \/ Jump \/ JumpUnless
Refs == PushOp \/ Drop \/ GlobalRef \/ GlobalKnownRef \/ StackRef \/ LocalRef \/ LocalSet \/ ClosureRef
Data == Car \/ Cdr \/ SetCdr \/ ConsOp \/ MakeVector \/ VectorSet \/ MakeProcedure \/ Add \/ Lt \/ And

Next == Eval \/ Control \/ Refs \/ Data \/ Finished

Spec == Init /\ [][Next]_vars
=============================================================================
