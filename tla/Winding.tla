------------------------------- MODULE Winding -------------------------------
(***************************************************************************)
(* dynamic-wind, continuations and exception handlers (lib/init-7.scm).    *)
(*                                                                         *)
(* dynamic-wind keeps the tree of dynamic extents as points, %dk is the    *)
(* point where a thread is, and a continuation travels from point to point *)
(* through the tree.  An exception handler is in force during an extent    *)
(* whose in and out thunks set the thread's parameters.  A continuation    *)
(* restores the VM stack, here the dynamic-wind calls still to return.     *)
(* Handlers stand for all parameters.  In and out thunks do not escape.    *)
(***************************************************************************)
EXTENDS Integers, SequencesExt

CONSTANTS
  NumThreads,   \* threads are 1..NumThreads
  Crossing,     \* whether a thread may call another thread's continuation
  MaxPoints,    \* bound: points made, the roots of the threads included
  MaxConts      \* bound: continuations captured

ASSUME WindingAssumption ==
  /\ NumThreads \in Nat \ {0} /\ Crossing \in BOOLEAN
  /\ MaxPoints \in Nat /\ MaxConts \in Nat

Threads == 1..NumThreads
NoHandler == 0

VARIABLES
  point,      \* the points: depth and parent; whether in and out set the handler,
              \* to what (in) and back to what (out); the handler called, if any.
              \* Without sets, new and old are the handler that stays in force
  dk,         \* each thread's %dk
  stack,      \* the calls of dynamic-wind that have not returned: the local
              \* variable here, and the point made
  handler,    \* the current exception handler: the point that installed it
  conts,      \* the continuations: saved stack and point
  phase,      \* run, travel, end (uncaught exception), error
  trip,       \* travel-to-point!: here, target, the points to wind in on the way
              \* back from the recursion, and the continuation
  path,       \* history: the extents around each point, itself included
  active      \* history: the calls of in thunks (q) and out thunks (-q) so far,
              \* without the pairs that match

vars == <<point, dk, stack, handler, conts, phase, trip, path, active>>

Root == [depth |-> 0, parent |-> 0, sets |-> FALSE, new |-> NoHandler, old |-> NoHandler,
         runs |-> NoHandler]
NoTrip == [here |-> 0, target |-> 0, ins |-> <<>>, cont |-> 0]

\* Point t is the root of thread t: root-point for the first one, and a vector
\* of sexp_make_thread's for each of the others.
Init ==
  /\ point = [t \in Threads |-> Root]
  /\ dk = [t \in Threads |-> t]
  /\ stack = [t \in Threads |-> <<>>]
  /\ handler = [t \in Threads |-> NoHandler]
  /\ conts = <<>>
  /\ phase = [t \in Threads |-> "run"]
  /\ trip = [t \in Threads |-> NoTrip]
  /\ path = [t \in Threads |-> <<>>]
  /\ active = [t \in Threads |-> <<>>]

Running(t) == phase[t] = "run"

\* The effects of calling the in and the out thunk of point q.
RunIn(t, q) ==
  /\ active' = [active EXCEPT ![t] = Append(@, q)]
  /\ handler' = IF point'[q].sets THEN [handler EXCEPT ![t] = point'[q].new] ELSE handler
RunOut(t, q) ==
  /\ active' = [active EXCEPT ![t] = IF @ # <<>> /\ Last(@) = q THEN Front(@) ELSE Append(@, -q)]
  /\ handler' = IF point[q].sets THEN [handler EXCEPT ![t] = point[q].old] ELSE handler

\* dynamic-wind up to the call of its body.
Enter(t, sets, new, runs) ==
  LET q == Len(point) + 1
  IN  /\ Running(t) /\ q <= MaxPoints
      /\ point' = Append(point, [depth |-> point[dk[t]].depth + 1, parent |-> dk[t],
                                 sets |-> sets, new |-> new, old |-> handler[t],
                                 runs |-> runs])
      /\ path' = Append(path, Append(path[dk[t]], q))
      /\ RunIn(t, q)
      /\ dk' = [dk EXCEPT ![t] = q]
      /\ stack' = [stack EXCEPT ![t] = Append(@, [here |-> dk[t], point |-> q])]
      /\ UNCHANGED <<conts, phase, trip>>

DynamicWind(t) == Enter(t, FALSE, handler[t], NoHandler)

\* with-exception-handler installs a handler...
WithExceptionHandler(t) == Enter(t, TRUE, Len(point) + 1, NoHandler)

\* A variant with a bug: the handler stays in force while it runs.
RaiseInside(t) ==
  handler[t] # NoHandler /\ Enter(t, TRUE, handler[t], handler[t])

\* ...and raise calls it with the handler that was in force when it was
\* installed.  If it returns that is the value of raise-continuable; the error
\* after raise is another raise.
Raise(t) ==
  handler[t] # NoHandler /\ Enter(t, TRUE, point[handler[t]].old, handler[t])

\* No handler: the thread ends.
Uncaught(t) ==
  /\ Running(t) /\ handler[t] = NoHandler
  /\ phase' = [phase EXCEPT ![t] = "end"]
  /\ UNCHANGED <<point, dk, stack, handler, conts, trip, path, active>>

\* The body of the innermost dynamic-wind returns.
Return(t) ==
  LET f == Last(stack[t])
  IN  /\ Running(t) /\ stack[t] # <<>>
      /\ dk' = [dk EXCEPT ![t] = f.here]
      /\ RunOut(t, f.point)
      /\ stack' = [stack EXCEPT ![t] = Front(@)]
      /\ UNCHANGED <<point, conts, phase, trip, path>>

\* call-with-current-continuation
CallCC(t) ==
  /\ Running(t) /\ Len(conts) < MaxConts
  /\ conts' = Append(conts, [stack |-> stack[t], point |-> dk[t], thread |-> t])
  /\ UNCHANGED <<point, dk, stack, handler, phase, trip, path, active>>

-----------------------------------------------------------------------------
(* A continuation is called: continuation->procedure, travel-to-point!.    *)

Throw(t, k) ==
  /\ Running(t) /\ (Crossing \/ conts[k].thread = t)
  /\ phase' = [phase EXCEPT ![t] = "travel"]
  /\ trip' = [trip EXCEPT ![t] =
                [here |-> dk[t], target |-> conts[k].point, ins |-> <<>>, cont |-> k]]
  /\ UNCHANGED <<point, dk, stack, handler, conts, path, active>>

Here(t) == trip[t].here
Target(t) == trip[t].target
Deeper(t) == point[Here(t)].depth < point[Target(t)].depth

\* The target is deeper: first travel to its parent.
TravelToParent(t) ==
  /\ phase[t] = "travel" /\ Deeper(t)
  /\ trip' = [trip EXCEPT ![t].target = point[@].parent, ![t].ins = Append(@, Target(t))]
  /\ UNCHANGED <<point, dk, stack, handler, conts, phase, path, active>>

\* Variants with a bug: only a deeper point is left; the parent's out thunk is called first.
TravelOutDeeper(t) ==
  /\ phase[t] = "travel" /\ point[Here(t)].depth > point[Target(t)].depth
  /\ RunOut(t, Here(t))
  /\ trip' = [trip EXCEPT ![t].here = point[@].parent]
  /\ UNCHANGED <<point, dk, stack, conts, phase, path>>
TravelOutParent(t) ==
  /\ phase[t] = "travel" /\ Here(t) # Target(t) /\ ~Deeper(t)
  /\ LET up == point[Here(t)].parent
     IN  /\ RunOut(t, IF up > NumThreads THEN up ELSE Here(t))
         /\ trip' = [trip EXCEPT ![t].here = up]
  /\ UNCHANGED <<point, dk, stack, conts, phase, path>>

\* Otherwise leave here.  A root has no extent to leave.
TravelOut(t) ==
  /\ phase[t] = "travel" /\ Here(t) # Target(t) /\ ~Deeper(t)
  /\ IF Here(t) \in Threads
     THEN /\ phase' = [phase EXCEPT ![t] = "error"]
          /\ UNCHANGED <<active, handler, trip>>
     ELSE /\ RunOut(t, Here(t))
          /\ trip' = [trip EXCEPT ![t].here = point[@].parent]
          /\ UNCHANGED phase
  /\ UNCHANGED <<point, dk, stack, conts, path>>

\* Back from the recursion: the in thunk of the target.
TravelIn(t) ==
  /\ phase[t] = "travel" /\ Here(t) = Target(t) /\ trip[t].ins # <<>>
  /\ UNCHANGED point
  /\ RunIn(t, Last(trip[t].ins))
  /\ trip' = [trip EXCEPT ![t].here = Last(trip[t].ins), ![t].target = Last(trip[t].ins),
                          ![t].ins = Front(@)]
  /\ UNCHANGED <<dk, stack, conts, phase, path>>

\* A variant with a bug: %dk is left where it was.
ArriveWithoutDk(t) ==
  /\ phase[t] = "travel" /\ Here(t) = Target(t) /\ trip[t].ins = <<>>
  /\ stack' = [stack EXCEPT ![t] = conts[trip[t].cont].stack]
  /\ phase' = [phase EXCEPT ![t] = "run"]
  /\ trip' = [trip EXCEPT ![t] = NoTrip]
  /\ UNCHANGED <<point, dk, handler, conts, path, active>>

\* The point is reached: %dk is set and the stack restored.
Arrive(t) ==
  /\ phase[t] = "travel" /\ Here(t) = Target(t) /\ trip[t].ins = <<>>
  /\ dk' = [dk EXCEPT ![t] = conts[trip[t].cont].point]
  /\ stack' = [stack EXCEPT ![t] = conts[trip[t].cont].stack]
  /\ phase' = [phase EXCEPT ![t] = "run"]
  /\ trip' = [trip EXCEPT ![t] = NoTrip]
  /\ UNCHANGED <<point, handler, conts, path, active>>

-----------------------------------------------------------------------------

Travel(t) == TravelToParent(t) \/ TravelOut(t) \/ TravelIn(t) \/ Arrive(t)

Next ==
  \E t \in Threads :
    \/ DynamicWind(t) \/ WithExceptionHandler(t) \/ Raise(t) \/ Uncaught(t) \/ Return(t)
    \/ CallCC(t) \/ (\E k \in DOMAIN conts : Throw(t, k)) \/ Travel(t)

Spec == Init /\ [][Next]_vars
FairSpec == Spec /\ \A t \in Threads : WF_vars(Travel(t))
-----------------------------------------------------------------------------
(* Properties.                                                             *)

PointRecs == [depth : Nat, parent : Nat, sets : BOOLEAN, new : Nat, old : Nat, runs : Nat]
Frames == [here : Nat, point : Nat]

\* The points, stacks, continuations and trips of the threads.
TypeOK ==
  /\ point \in Seq(PointRecs) /\ path \in Seq(Seq(Nat)) /\ Len(path) = Len(point)
  /\ Len(point) >= NumThreads
  /\ dk \in [Threads -> 1..Len(point)]
  /\ stack \in [Threads -> Seq(Frames)]
  /\ handler \in [Threads -> Nat]
  /\ conts \in Seq([stack : Seq(Frames), point : Nat, thread : Threads])
  /\ phase \in [Threads -> {"run", "travel", "end", "error"}]
  /\ trip \in [Threads -> [here : Nat, target : Nat, ins : Seq(Nat), cont : Nat]]
  /\ active \in [Threads -> Seq(Int)]

\* The extents that a thread is in are the dynamic-wind calls that have still
\* to return, and %dk is the innermost: however continuations jump, every in
\* thunk has been matched by its out thunk.
ExtentsMatchStack ==
  \A t \in Threads : phase[t] \in {"run", "end"} =>
    /\ active[t] = [i \in DOMAIN stack[t] |-> stack[t][i].point]
    /\ dk[t] \in IF stack[t] = <<>> THEN Threads ELSE {Last(active[t])}

\* Extents nest: one is left only while it is the innermost, and entered only
\* from the extent around it.
ExtentsNest ==
  [][\A t \in Threads :
       \/ active'[t] = active[t]
       \/ active[t] # <<>> /\ active'[t] = Front(active[t])
       \/ /\ active'[t] = Append(active[t], Last(active'[t])) /\ Last(active'[t]) > 0
          /\ point'[Last(active'[t])].parent
               \in IF active[t] = <<>> THEN Threads ELSE {Last(active[t])}]_vars

\* The handler in force was installed by an extent that the thread is in, and
\* it is not running: an exception in a handler goes further out.
HandlerInForce ==
  \A t \in Threads : Running(t) /\ handler[t] # NoHandler =>
    /\ handler[t] \in ToSet(active[t])
    /\ \A q \in ToSet(active[t]) : point[q].runs # handler[t]

\* A continuation that its own thread calls is reached.
TravelEnds ==
  \A t \in Threads :
    phase[t] = "travel" /\ conts[trip[t].cont].thread = t ~> phase[t] = "run"
=============================================================================
