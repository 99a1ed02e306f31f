------------------------- MODULE GreenThreadsProofs -------------------------
(***************************************************************************)
(* Proofs, for any number of threads, mutexes, descriptors and signals,    *)
(* that GreenThreads keeps its types and never loses a live thread, and of *)
(* what its scheduler relies on: the order of the paused list, the         *)
(* deadlines of those it wakes, and that a wake-up is not lost.            *)
(***************************************************************************)
EXTENDS GreenThreads, ListLemmas

\* sexp_delete_list keeps every other thread on the list.
LEMMA DeleteListSet ==
  ASSUME NEW S, NEW q \in Seq(S), NEW x
  PROVE  /\ DeleteList(q, x) \in Seq(S)
         /\ ToSet(q) \ {x} \subseteq ToSet(DeleteList(q, x))
         /\ ToSet(DeleteList(q, x)) \subseteq ToSet(q)
<1>. DEFINE at == {i \in DOMAIN q : q[i] = x}
<1>1. CASE at = {}
  BY <1>1 DEF DeleteList
<1>2. CASE at # {}
  <2>1. at \subseteq Nat /\ \A i \in at : i \in 1..Len(q) /\ q[i] = x
    OBVIOUS
  <2>2. Min(at) \in 1..Len(q) /\ q[Min(at)] = x
    BY <1>2, <2>1, MinInSet
  <2>3. DeleteList(q, x) = RemoveAt(q, Min(at))
    BY <1>2 DEF DeleteList
  <2>. QED
    BY <2>2, <2>3, RemoveAtCells, RemoveAtSet
<1>. QED
  BY <1>1, <1>2

\* sexp_insert_timed puts the thread on the list and drops no other one.
LEMMA InsertTimedSet ==
  ASSUME NEW S, NEW q \in Seq(S), NEW t \in S, NEW tvs
  PROVE  /\ InsertTimed(q, t, tvs) \in Seq(S)
         /\ ToSet(q) \cup {t} \subseteq ToSet(InsertTimed(q, t, tvs))
<1>. DEFINE rest == DeleteList(q, t)
            stops == {i \in 1..(Len(rest) + 1) :
                        i <= Len(rest) => ~WalksPast(tvs, t, rest[i])}
<1>1. rest \in Seq(S) /\ ToSet(q) \ {t} \subseteq ToSet(rest)
  BY DeleteListSet
<1>. HIDE DEF rest
<1>2. Len(rest) + 1 \in stops /\ stops \subseteq Nat
  BY <1>1
<1>3. Min(stops) \in 1..(Len(rest) + 1)
  BY <1>2, MinInSet
<1>4. InsertTimed(q, t, tvs) = InsertAt(rest, Min(stops), t)
  BY DEF InsertTimed, rest
<1>. HIDE DEF stops
<1>5. InsertAt(rest, Min(stops), t) \in Seq(S)
  BY <1>1, <1>3, InsertAtCells
<1>6. ToSet(InsertAt(rest, Min(stops), t)) = ToSet(rest) \cup {t}
  BY <1>1, <1>3, InsertAtSet
<1>. QED
  BY <1>1, <1>4, <1>5, <1>6

\* The place of the first paused thread that waits for e.
LEMMA FirstWaiter ==
  ASSUME TypeOK, NEW e, WaitersAt(e) # {}
  PROVE  Min(WaitersAt(e)) \in 1..Len(paused)
<1>1. WaitersAt(e) \subseteq 1..Len(paused) /\ WaitersAt(e) \subseteq Nat
  BY DEF WaitersAt, TypeOK
<1>. QED
  BY <1>1, MinInSet

\* Waking the first waiter for e moves it from one list to the other.
LEMMA WakeFirst ==
  ASSUME TypeOK, NEW e
  PROVE  /\ FrontWith(e) \in Seq(Threads)
         /\ PausedWithout(e) \in Seq(Threads)
         /\ ToSet(front) \cup ToSet(paused)
              \subseteq ToSet(FrontWith(e)) \cup ToSet(PausedWithout(e))
<1>1. CASE WaitersAt(e) = {}
  BY <1>1 DEF FrontWith, PausedWithout, TypeOK
<1>2. CASE WaitersAt(e) # {}
  <2>. DEFINE i == Min(WaitersAt(e))
  <2>1. i \in 1..Len(paused)
    BY <1>2, FirstWaiter
  <2>2. /\ paused \in Seq(Threads) /\ front \in Seq(Threads)
        /\ paused[i] \in Threads
    BY <2>1 DEF TypeOK
  <2>3. FrontWith(e) = <<paused[i]>> \o front /\ PausedWithout(e) = RemoveAt(paused, i)
    BY <1>2 DEF FrontWith, PausedWithout
  <2>. HIDE DEF i
  <2>4. /\ FrontWith(e) \in Seq(Threads)
        /\ ToSet(FrontWith(e)) = {paused[i]} \cup ToSet(front)
    BY <2>2, <2>3, ConsSet
  <2>5. /\ PausedWithout(e) \in Seq(Threads)
        /\ ToSet(paused) \ {paused[i]} \subseteq ToSet(PausedWithout(e))
    BY <2>1, <2>2, <2>3, RemoveAtCells, RemoveAtSet
  <2>. QED
    BY <2>4, <2>5
<1>. QED
  BY <1>1, <1>2

\* The timeout check finds a prefix of the paused list.
LEMMA NumDueInList == TypeOK => NumDue \in 0..Len(paused)
<1>. SUFFICES ASSUME TypeOK PROVE NumDue \in 0..Len(paused)
  OBVIOUS
<1>. DEFINE N == {n \in 0..Len(paused) :
                    n < Len(paused) => ~Before(timeval, paused[n + 1], now)}
<1>1. Len(paused) \in N /\ N \subseteq Nat
  BY DEF TypeOK
<1>. QED
  BY <1>1, MinInSet DEF NumDue

\* The deadline stored for a client's timeout is a time of the model's clock.
LEMMA DeadlineType ==
  ASSUME TypeOK, NEW d \in Delays \cup {Forever}
  PROVE  Deadline(d) \in 0..MaxTime
BY ConstantsAssumption DEF TypeOK, Deadline

-----------------------------------------------------------------------------
(* Type correctness, one step per action.                                  *)

\* What Pause writes is well typed.
LEMMA PauseType ==
  ASSUME TypeOK, NEW q \in Seq(Threads), NEW e \in Events,
         NEW d \in Delays \cup {Forever}, NEW c \in Calls, Pause(q, e, d, c)
  PROVE  /\ waitp' \in [Threads -> {0, 1}] /\ event' \in [Threads -> Events]
         /\ timeval' \in [Threads -> 0..MaxTime] /\ paused' \in Seq(Threads)
         /\ call' \in [Threads -> Calls] /\ pc' \in [Threads -> PCs]
<1>1. timeval' \in [Threads -> 0..MaxTime]
  BY DeadlineType DEF TypeOK, Pause
<1>2. paused' \in Seq(Threads)
  BY InsertTimedSet DEF TypeOK, Pause
<1>. QED
  BY <1>1, <1>2 DEF TypeOK, Pause, PCs

\* The records that describe pending calls.
LEMMA CallType ==
  /\ NoCall \in Calls
  /\ \A op \in OpNames \cup {"runner"}, e \in Events, d \in Delays \cup {Forever} :
       (op = "block" => e \in Fds) => Call(op, e, d) \in Calls
BY DEF NoCall, Call, Calls, Events

\* The initial state has the types of TypeOK.
LEMMA InitType == Init => TypeOK
<1>. SUFFICES ASSUME Init PROVE TypeOK
  OBVIOUS
<1>1. call \in [Threads -> Calls]
  BY CallType DEF Init
<1>2. event \in [Threads -> Events]
  BY DEF Init, Events
<1>3. now \in 1..MaxTime /\ napUntil \in 0..MaxTime /\ timeval \in [Threads -> 0..MaxTime]
  BY ConstantsAssumption DEF Init
<1>4. pc \in [Threads -> PCs] /\ result \in [Threads -> Results] /\ phase \in Phases
  BY DEF Init, PCs, Results, Phases
<1>5. cur \in Threads /\ front \in Seq(Threads) /\ paused \in Seq(Threads)
  BY ConstantsAssumption DEF Init
<1>. QED
  BY <1>1, <1>2, <1>3, <1>4, <1>5 DEF Init, TypeOK

\* ThreadStart keeps the types of TypeOK.
LEMMA ThreadStartType ==
  ASSUME TypeOK, NEW t \in Threads, ThreadStart(t) PROVE TypeOK'
<1>1. front' \in Seq(Threads)
  BY AppendSet DEF TypeOK, ThreadStart
<1>. QED
  BY <1>1 DEF TypeOK, ThreadStart, PCs, world

\* ThreadTerminate keeps the types of TypeOK.
LEMMA ThreadTerminateType ==
  ASSUME TypeOK, NEW t \in Threads, ThreadTerminate(t) PROVE TypeOK'
<1>1. front' \in Seq(Threads) /\ paused' \in Seq(Threads) /\ errorp' \in [Threads -> {0, 1}]
  <2>1. CASE t \in ToSet(paused)
    <3>1. DeleteList(paused, t) \in Seq(Threads)
      BY DeleteListSet DEF TypeOK
    <3>2. Append(front, t) \in Seq(Threads)
      BY DEF TypeOK
    <3>. QED
      BY <2>1, <3>1, <3>2 DEF TypeOK, ThreadTerminate
  <2>2. CASE t \notin ToSet(paused)
    BY <2>2 DEF TypeOK, ThreadTerminate, queues
  <2>. QED
    BY <2>1, <2>2
<1>. QED
  BY <1>1 DEF TypeOK, ThreadTerminate, PCs, Results, world

\* A primitive that returns at once keeps the types.
LEMMA ReturnType ==
  ASSUME TypeOK, Return, UNCHANGED <<queues, cur, phase, stale, fields, lockp, world>>
  PROVE  TypeOK'
<1>1. pc' \in [Threads -> PCs] /\ call' \in [Threads -> Calls]
  BY CallType DEF TypeOK, Return, PCs
<1>. QED
  BY <1>1 DEF TypeOK, queues, fields, world

\* Join keeps the types of TypeOK.
LEMMA JoinType ==
  ASSUME TypeOK, NEW t \in Events, NEW d \in Delays \cup {Forever}, Join(t, d)
  PROVE TypeOK'
<1>1. CASE refuel[t] = 0
  BY <1>1, ReturnType DEF Join
<1>2. CASE refuel[t] # 0
  <2>1. Call("join", t, d) \in Calls /\ t \in Events /\ paused \in Seq(Threads)
    BY CallType DEF Events, OpNames, TypeOK
  <2>2. Pause(paused, t, d, Call("join", t, d))
    BY <1>2 DEF Join
  <2>. QED
    BY <1>2, <2>1, <2>2, PauseType DEF TypeOK, Join, world
<1>. QED
  BY <1>1, <1>2

\* ThreadJoinAgain keeps the types of TypeOK.
LEMMA ThreadJoinAgainType ==
  ASSUME TypeOK, ThreadJoinAgain PROVE TypeOK'
<1>. DEFINE c == call[cur]
<1>1. c.on \in Events /\ c.delay \in Delays \cup {Forever}
  BY DEF TypeOK, Calls
<1>2. CASE c.delay # Forever /\ timeoutp[cur] = 1
  BY <1>2, ReturnType DEF ThreadJoinAgain
<1>3. CASE ~(c.delay # Forever /\ timeoutp[cur] = 1)
  <2>1. Join(c.on, c.delay)
    BY <1>3 DEF ThreadJoinAgain
  <2>. QED
    BY <2>1, <1>1, JoinType
<1>. QED
  BY <1>2, <1>3

\* ThreadSleep keeps the types of TypeOK.
LEMMA ThreadSleepType ==
  ASSUME TypeOK, NEW d \in Delays, ThreadSleep(d) PROVE TypeOK'
<1>1. Call("sleep", NoEvent, d) \in Calls /\ NoEvent \in Events /\ paused \in Seq(Threads)
  BY CallType DEF Events, OpNames, TypeOK
<1>2. Pause(paused, NoEvent, d, Call("sleep", NoEvent, d))
  BY DEF ThreadSleep
<1>. QED
  BY <1>1, <1>2, PauseType DEF TypeOK, ThreadSleep, world

\* Lock keeps the types of TypeOK.
LEMMA LockType ==
  ASSUME TypeOK, NEW m \in Events, NEW d \in Delays \cup {Forever}, Lock(m, d)
  PROVE  TypeOK'
<1>1. CASE /\ lockp' = [lockp EXCEPT ![m] = 1]
           /\ Return
           /\ UNCHANGED <<queues, cur, phase, stale, fields, world>>
  <2>1. pc' \in [Threads -> PCs] /\ call' \in [Threads -> Calls]
    BY <1>1, CallType DEF TypeOK, Return, PCs
  <2>. QED
    BY <1>1, <2>1 DEF TypeOK, queues, fields, world
<1>2. CASE /\ Pause(paused, m, d, Call("lock", m, d))
           /\ UNCHANGED <<front, cur, phase, stale, refuel, timeoutp, errorp, result,
                          lockp, world>>
  <2>1. Call("lock", m, d) \in Calls /\ paused \in Seq(Threads)
    BY CallType DEF OpNames, TypeOK
  <2>. QED
    BY <1>2, <2>1, PauseType DEF TypeOK, world
<1>. QED
  BY <1>1, <1>2 DEF Lock

\* MutexLockAgain keeps the types of TypeOK.
LEMMA MutexLockAgainType ==
  ASSUME TypeOK, MutexLockAgain PROVE TypeOK'
<1>. DEFINE c == call[cur]
<1>1. c.on \in Events /\ c.delay \in Delays \cup {Forever}
  BY DEF TypeOK, Calls
<1>2. CASE timeoutp[cur] = 1
  BY <1>2, ReturnType DEF MutexLockAgain
<1>3. CASE timeoutp[cur] # 1
  <2>1. Lock(c.on, c.delay)
    BY <1>3 DEF MutexLockAgain
  <2>. QED
    BY <2>1, <1>1, LockType
<1>. QED
  BY <1>2, <1>3

\* Clearing a flag of some threads leaves a flag for each.
LEMMA ClearedType ==
  ASSUME NEW f \in [Threads -> {0, 1}], NEW T
  PROVE  Cleared(f, T) \in [Threads -> {0, 1}]
BY DEF Cleared

\* MutexUnlock keeps the types of TypeOK.
LEMMA MutexUnlockType ==
  ASSUME TypeOK, NEW m \in Mutexes, MutexUnlock(m) PROVE TypeOK'
<1>1. /\ front' \in Seq(Threads) /\ paused' \in Seq(Threads)
      /\ waitp' \in [Threads -> {0, 1}] /\ timeoutp' \in [Threads -> {0, 1}]
  <2>1. CASE lockp[m] = 1
    <3>1. FrontWith(m) \in Seq(Threads) /\ PausedWithout(m) \in Seq(Threads)
      BY WakeFirst
    <3>2. /\ Cleared(waitp, Woken(m)) \in [Threads -> {0, 1}]
          /\ Cleared(timeoutp, Woken(m)) \in [Threads -> {0, 1}]
      BY ClearedType DEF TypeOK
    <3>. QED
      BY <2>1, <3>1, <3>2 DEF MutexUnlock
  <2>2. CASE lockp[m] # 1
    BY <2>2 DEF MutexUnlock, TypeOK, queues
  <2>. QED
    BY <2>1, <2>2
<1>. QED
  BY <1>1 DEF TypeOK, MutexUnlock, code, world

\* MutexUnlockWait keeps the types of TypeOK.
LEMMA MutexUnlockWaitType ==
  ASSUME TypeOK, NEW m \in Mutexes, NEW c \in CondVars, NEW d \in Delays,
         MutexUnlockWait(m, c, d)
  PROVE  TypeOK'
<1>. DEFINE W == IF lockp[m] = 1 THEN Woken(m) ELSE {}
            rest == IF lockp[m] = 1 THEN PausedWithout(m) ELSE paused
<1>1. front' \in Seq(Threads) /\ rest \in Seq(Threads)
  BY WakeFirst DEF TypeOK, MutexUnlockWait
<1>2. timeval' \in [Threads -> 0..MaxTime]
  BY DeadlineType DEF TypeOK, MutexUnlockWait
<1>3. paused' = InsertTimed(rest, cur, timeval')
  BY DEF MutexUnlockWait
<1>. HIDE DEF rest
<1>4. paused' \in Seq(Threads)
  BY <1>1, <1>3, InsertTimedSet DEF TypeOK
<1>5. waitp' \in [Threads -> {0, 1}] /\ timeoutp' \in [Threads -> {0, 1}]
  <2>1. Cleared(waitp, W) \in [Threads -> {0, 1}] /\ Cleared(timeoutp, W) \in [Threads -> {0, 1}]
    BY ClearedType DEF TypeOK
  <2>2. waitp' = [Cleared(waitp, W) EXCEPT ![cur] = 1] /\ timeoutp' = Cleared(timeoutp, W)
    BY DEF MutexUnlockWait
  <2>. QED
    BY <2>1, <2>2
<1>6. call' \in [Threads -> Calls] /\ event' \in [Threads -> Events]
  <2>1. Call("wait", c, d) \in Calls /\ c \in Events
    BY CallType DEF Events, OpNames
  <2>. QED
    BY <2>1 DEF TypeOK, MutexUnlockWait
<1>. QED
  BY <1>1, <1>2, <1>4, <1>5, <1>6 DEF TypeOK, MutexUnlockWait, PCs, world

\* SignalOne keeps the types of TypeOK.
LEMMA SignalOneType ==
  ASSUME TypeOK, NEW c, SignalOne(c), phase' \in Phases, call' \in [Threads -> Calls]
  PROVE  TypeOK'
<1>1. /\ FrontWith(c) \in Seq(Threads) /\ PausedWithout(c) \in Seq(Threads)
      /\ Cleared(waitp, Woken(c)) \in [Threads -> {0, 1}]
      /\ Cleared(timeoutp, Woken(c)) \in [Threads -> {0, 1}]
  BY WakeFirst, ClearedType DEF TypeOK
<1>. QED
  BY <1>1 DEF TypeOK, SignalOne, world

\* CondVarSignal keeps the types of TypeOK.
LEMMA CondVarSignalType ==
  ASSUME TypeOK, NEW c \in CondVars, CondVarSignal(c) PROVE TypeOK'
BY SignalOneType DEF CondVarSignal, TypeOK

\* CondVarBroadcast keeps the types of TypeOK.
LEMMA CondVarBroadcastType ==
  ASSUME TypeOK, NEW c \in CondVars, CondVarBroadcast(c) PROVE TypeOK'
<1>1. Call("broadcast", c, Forever) \in Calls
  BY CallType DEF OpNames, Events
<1>. QED
  BY <1>1 DEF CondVarBroadcast, TypeOK, Phases, queues, fields, world

\* BroadcastStep keeps the types of TypeOK.
LEMMA BroadcastStepType ==
  ASSUME TypeOK, BroadcastStep PROVE TypeOK'
<1>1. SignalOne(call[cur].on)
  BY DEF BroadcastStep
<1>2. phase' \in Phases /\ call' \in [Threads -> Calls]
  BY CallType DEF BroadcastStep, TypeOK, Phases
<1>. QED
  BY <1>1, <1>2, SignalOneType

\* Blocker keeps the types of TypeOK.
LEMMA BlockerType ==
  ASSUME TypeOK, NEW f \in Fds, NEW d \in Delays \cup {Forever}, Blocker(f, d)
  PROVE  TypeOK'
<1>1. timeval' \in [Threads -> 0..MaxTime]
  BY DeadlineType DEF TypeOK, Blocker
<1>2. paused' \in Seq(Threads)
  BY InsertTimedSet DEF TypeOK, Blocker
<1>3. Call("block", f, d) \in Calls /\ f \in Events
  BY CallType DEF OpNames, Events
<1>. QED
  BY <1>1, <1>2, <1>3 DEF TypeOK, Blocker, PCs, Phases

\* BlockAgain keeps the types of TypeOK.
LEMMA BlockAgainType ==
  ASSUME TypeOK, BlockAgain PROVE TypeOK'
<1>1. CASE Return /\ UNCHANGED <<queues, cur, phase, stale, fields, lockp, world>>
  BY <1>1, ReturnType
<1>2. CASE Blocker(call[cur].on, Forever)
  <2>1. call[cur] \in Calls /\ call[cur].op = "block"
    BY DEF BlockAgain, Resumes, TypeOK
  <2>2. call[cur].on \in Fds
    BY <2>1 DEF Calls
  <2>. QED
    BY <1>2, <2>2, BlockerType
<1>. QED
  BY <1>1, <1>2 DEF BlockAgain

\* PopSignal keeps the types of TypeOK.
LEMMA PopSignalType ==
  ASSUME TypeOK, PopSignal PROVE TypeOK'
<1>1. signals' \subseteq Signums /\ (signals' # {} => Runner \in Threads)
  BY DEF PopSignal, TypeOK
<1>. QED
  BY <1>1 DEF PopSignal, TypeOK, PCs, queues, fields

\* RunnerSleep keeps the types of TypeOK.
LEMMA RunnerSleepType ==
  ASSUME TypeOK, RunnerSleep PROVE TypeOK'
<1>1. Call("runner", NoEvent, Forever) \in Calls
  BY CallType DEF OpNames, Events
<1>2. call' \in [Threads -> Calls] /\ waitp' \in [Threads -> {0, 1}]
  BY <1>1 DEF RunnerSleep, TypeOK
<1>. QED
  BY <1>2 DEF RunnerSleep, TypeOK, PCs, queues, world

\* RunnerLoop keeps the types of TypeOK.
LEMMA RunnerLoopType ==
  ASSUME TypeOK, RunnerLoop PROVE TypeOK'
BY CallType DEF RunnerLoop, TypeOK, PCs, queues, fields, world

\* EndLoop keeps the types of TypeOK.
LEMMA EndLoopType ==
  ASSUME TypeOK, NEW r \in Results, EndLoop(r), errorp' \in [Threads -> {0, 1}]
  PROVE  TypeOK'
<1>1. call' \in [Threads -> Calls] /\ result' \in [Threads -> Results]
  BY CallType DEF EndLoop, TypeOK
<1>2. phase' \in Phases /\ refuel' \in [Threads -> {0, 1}]
  BY DEF EndLoop, TypeOK, Phases
<1>. QED
  BY <1>1, <1>2 DEF EndLoop, TypeOK, PCs, queues, world

\* Resume keeps the types of TypeOK.
LEMMA ResumeType ==
  ASSUME TypeOK, Resume PROVE TypeOK'
<1>1. CASE refuel[cur] = 0
  <2>1. \E r \in Results : EndLoop(r)
    BY <1>1 DEF Resume, TypeOK, Results
  <2>2. errorp' \in [Threads -> {0, 1}]
    BY <1>1 DEF Resume, TypeOK
  <2>. QED
    BY <2>1, <2>2, EndLoopType
<1>2. CASE refuel[cur] # 0
  BY <1>2 DEF Resume, TypeOK, Phases, queues, fields, code, world
<1>. QED
  BY <1>1, <1>2

\* The steps that only move the VM from one place to another.
LEMMA VMStepType ==
  ASSUME TypeOK, Preempt \/ Yield \/ Finish \/ Raise \/ NapOver \/ Tick \/ Halted
  PROVE  TypeOK'
<1>1. CASE Preempt
  BY <1>1 DEF Preempt, TypeOK, Phases, queues, fields, code, world
<1>2. CASE Yield
  BY <1>2 DEF Yield, TypeOK, Phases, PCs, queues, fields, world
<1>3. CASE Finish
  BY <1>3, EndLoopType DEF Finish, Results, TypeOK
<1>4. CASE Raise
  BY <1>4, EndLoopType DEF Raise, Results, TypeOK
<1>5. CASE NapOver
  BY <1>5, ConstantsAssumption DEF NapOver, TypeOK, Phases, queues, fields, code
<1>6. CASE Tick
  BY <1>6, ConstantsAssumption DEF Tick, TypeOK, queues, fields, code
<1>7. CASE Halted
  BY <1>7 DEF Halted, vars, TypeOK, queues, fields, code, world
<1>. QED
  BY <1>1, <1>2, <1>3, <1>4, <1>5, <1>6, <1>7

\* SignalArrives keeps the types of TypeOK.
LEMMA SignalArrivesType ==
  ASSUME TypeOK, NEW s \in Signums, SignalArrives(s) PROVE TypeOK'
BY DEF SignalArrives, TypeOK, queues, fields, code

\* CheckSignals keeps the types of TypeOK.
LEMMA CheckSignalsType ==
  ASSUME TypeOK, CheckSignals PROVE TypeOK'
<1>1. Runner \in Threads => Append(front, Runner) \in Seq(Threads)
  BY AppendSet DEF TypeOK
<1>2. front' \in Seq(Threads)
  BY <1>1 DEF CheckSignals, TypeOK
<1>3. stale' \in BOOLEAN
  BY DEF CheckSignals
<1>. QED
  BY <1>2, <1>3 DEF CheckSignals, TypeOK, Phases, PCs, world

\* Poll keeps the types of TypeOK.
LEMMA PollType ==
  ASSUME TypeOK, Poll PROVE TypeOK'
BY DEF Poll, TypeOK, Phases, queues, fields, code

\* WakeToBack keeps the types of TypeOK.
LEMMA WakeToBackType ==
  ASSUME TypeOK, NEW i \in 1..Len(paused), WakeToBack(i)
  PROVE  /\ waitp' \in [Threads -> {0, 1}] /\ timeoutp' \in [Threads -> {0, 1}]
         /\ front' \in Seq(Threads) /\ paused' \in Seq(Threads)
         /\ paused[i] \in Threads
<1>1. paused[i] \in Threads /\ RemoveAt(paused, i) \in Seq(Threads)
  BY RemoveAtCells DEF TypeOK
<1>2. Append(front, paused[i]) \in Seq(Threads)
  BY <1>1, AppendSet DEF TypeOK
<1>. QED
  BY <1>1, <1>2 DEF WakeToBack, TypeOK

\* PollWake keeps the types of TypeOK.
LEMMA PollWakeType ==
  ASSUME TypeOK, PollWake PROVE TypeOK'
<1>1. PICK f \in revents :
       \/ /\ event[cur] = f
          /\ waitp' = [waitp EXCEPT ![cur] = 0]
          /\ timeoutp' = [timeoutp EXCEPT ![cur] = 0]
          /\ event' = [event EXCEPT ![cur] = NoEvent]
          /\ UNCHANGED <<queues, pollfds, revents, phase>>
       \/ /\ event[cur] # f /\ WaitersAt(f) # {}
          /\ LET i == Min(WaitersAt(f))
             IN  /\ WakeToBack(i)
                 /\ event' = [event EXCEPT ![paused[i]] = NoEvent]
          /\ UNCHANGED <<pollfds, revents, phase>>
       \/ /\ event[cur] # f /\ WaitersAt(f) = {}
          /\ pollfds' = pollfds \ {f}
          /\ revents' = revents \ {f}
          /\ phase' = IF revents' = {} THEN "joins" ELSE "wake"
          /\ UNCHANGED <<queues, waitp, timeoutp, event>>
  BY DEF PollWake
<1>2. NoEvent \in Events
  BY DEF Events
<1>3. UNCHANGED <<cur, stale, refuel, errorp, timeval, result, code, lockp,
                 signals, now, napUntil>>
  BY DEF PollWake
<1>4. CASE event[cur] = f
  BY <1>1, <1>2, <1>3, <1>4, ZenonT(60) DEF TypeOK, queues, code
<1>5. CASE event[cur] # f /\ WaitersAt(f) # {}
  <2>. DEFINE i == Min(WaitersAt(f))
  <2>1. i \in 1..Len(paused)
    BY <1>5, FirstWaiter
  <2>2. WakeToBack(i) /\ event' = [event EXCEPT ![paused[i]] = NoEvent]
    BY <1>1, <1>5
  <2>3. UNCHANGED <<pollfds, revents, phase>>
    BY <1>1, <1>5
  <2>. HIDE DEF i
  <2>. QED
    BY <1>2, <1>3, <2>1, <2>2, <2>3, WakeToBackType DEF TypeOK, code
<1>6. CASE event[cur] # f /\ WaitersAt(f) = {}
  BY <1>1, <1>3, <1>6 DEF TypeOK, Phases, queues, code
<1>. QED
  BY <1>4, <1>5, <1>6

\* WakeJoiners keeps the types of TypeOK.
LEMMA WakeJoinersType ==
  ASSUME TypeOK, WakeJoiners PROVE TypeOK'
<1>1. CASE refuel[cur] = 0 /\ WaitersAt(cur) # {}
  <2>. DEFINE i == Min(WaitersAt(cur))
  <2>1. i \in 1..Len(paused)
    BY <1>1, FirstWaiter
  <2>2. WakeToBack(i) /\ UNCHANGED phase
    BY <1>1 DEF WakeJoiners
  <2>. HIDE DEF i
  <2>. QED
    BY <2>1, <2>2, WakeToBackType DEF WakeJoiners, TypeOK, code, world
<1>2. CASE ~(refuel[cur] = 0 /\ WaitersAt(cur) # {})
  BY <1>2 DEF WakeJoiners, TypeOK, Phases, queues, code, world
<1>. QED
  BY <1>1, <1>2

\* CheckTimeouts keeps the types of TypeOK.
LEMMA CheckTimeoutsType ==
  ASSUME TypeOK, CheckTimeouts PROVE TypeOK'
<1>1. NumDue \in 0..Len(paused) /\ paused \in Seq(Threads)
  BY NumDueInList DEF TypeOK
<1>2. /\ SubSeq(paused, 1, NumDue) \in Seq(Threads)
      /\ SubSeq(paused, NumDue + 1, Len(paused)) \in Seq(Threads)
  BY <1>1, CutSet
<1>3. front' \in Seq(Threads) /\ paused' \in Seq(Threads)
  BY <1>2, SMTT(30) DEF CheckTimeouts, TypeOK
<1>4. waitp' \in [Threads -> {0, 1}] /\ timeoutp' \in [Threads -> {0, 1}]
  BY DEF CheckTimeouts, Cleared, TypeOK
<1>. QED
  BY <1>3, <1>4 DEF CheckTimeouts, TypeOK, Phases, code, world

\* Dequeue keeps the types of TypeOK.
LEMMA DequeueType ==
  ASSUME TypeOK, Dequeue PROVE TypeOK'
<1>1. CASE front # <<>> /\ ~stale
  <2>1. Head(front) \in Threads /\ Tail(front) \in Seq(Threads)
    BY <1>1, TailSet DEF TypeOK
  <2>2. Append(Tail(front), cur) \in Seq(Threads)
    BY <2>1, AppendSet DEF TypeOK
  <2>3. timeval' \in [Threads -> 0..MaxTime]
    <3>1. 0 \in 0..MaxTime
      BY ConstantsAssumption
    <3>. QED
      BY <1>1, <3>1 DEF Dequeue, TypeOK
  <2>6. front' \in Seq(Threads) /\ cur' \in Threads
    BY <1>1, <2>1, <2>2 DEF Dequeue, TypeOK
  <2>4. InsertTimed(paused, cur, timeval') \in Seq(Threads)
    BY InsertTimedSet DEF TypeOK
  <2>5. paused' \in Seq(Threads)
    BY <1>1, <2>4 DEF Dequeue, TypeOK
  <2>. QED
    BY <1>1, <2>3, <2>5, <2>6 DEF Dequeue, TypeOK, Phases, code, world
<1>2. CASE front = <<>> \/ stale
  <2>1. PausedOnFd # {} => Min(PausedOnFd) \in 1..Len(paused)
    <3>1. PausedOnFd \subseteq 1..Len(paused) /\ PausedOnFd \subseteq Nat
      BY DEF PausedOnFd, TypeOK
    <3>. QED
      BY <3>1, MinInSet
  <2>2. cur' \in Threads
    BY <1>2, <2>1 DEF Dequeue, TypeOK
  <2>. QED
    BY <1>2, <2>2 DEF Dequeue, TypeOK, Phases, queues, code, world
<1>. QED
  BY <1>1, <1>2

\* Pick keeps the types of TypeOK.
LEMMA PickType ==
  ASSUME TypeOK, Pick PROVE TypeOK'
<1>1. CASE waitp[cur] = 0
  BY <1>1 DEF Pick, TypeOK, Phases, code
<1>2. CASE waitp[cur] # 0
  <2>. DEFINE early == paused # <<>> /\ Before(timeval, paused[1], timeval[cur])
              res == IF early THEN paused[1] ELSE cur
              due == timeval[res] # 0 /\ timeval[res] <= now + 1
  <2>1. /\ cur' = res
        /\ paused' = IF ~early THEN DeleteList(paused, cur)
                     ELSE IF cur \in ToSet(Tail(paused)) THEN Tail(paused)
                     ELSE InsertTimed(Tail(paused), cur, timeval)
        /\ IF due THEN /\ waitp' = [waitp EXCEPT ![res] = 0]
                       /\ timeoutp' = [timeoutp EXCEPT ![res] = 1]
           ELSE UNCHANGED <<waitp, timeoutp>>
        /\ napUntil' = IF due THEN timeval[res]
                       ELSE IF now < MaxTime THEN now + 1 ELSE now
        /\ phase' = "nap"
        /\ UNCHANGED <<front, stale, refuel, errorp, event, timeval, result, code,
                       lockp, pollfds, revents, signals, now>>
    BY <1>2 DEF Pick
  <2>2. paused # <<>> => Tail(paused) \in Seq(Threads) /\ paused[1] \in Threads
    BY TailSet DEF TypeOK
  <2>3. res \in Threads
    BY <2>2 DEF TypeOK
  <2>4. paused' \in Seq(Threads)
    <3>1. DeleteList(paused, cur) \in Seq(Threads)
      BY DeleteListSet DEF TypeOK
    <3>2. paused # <<>> => InsertTimed(Tail(paused), cur, timeval) \in Seq(Threads)
      BY <2>2, InsertTimedSet DEF TypeOK
    <3>. QED
      BY <2>1, <2>2, <3>1, <3>2
  <2>. HIDE DEF early, res
  <2>5. napUntil' \in 0..MaxTime
    BY <2>1, <2>3, ConstantsAssumption DEF TypeOK
  <2>6. waitp' \in [Threads -> {0, 1}] /\ timeoutp' \in [Threads -> {0, 1}]
    BY <2>1, <2>3 DEF TypeOK
  <2>. HIDE DEF due
  <2>. QED
    BY <2>1, <2>3, <2>4, <2>5, <2>6 DEF TypeOK, Phases, code
<1>. QED
  BY <1>1, <1>2

\* Every step keeps the types: the induction step of the theorem below.
LEMMA NextType == TypeOK /\ [Next]_vars => TypeOK'
<1>. SUFFICES ASSUME TypeOK, [Next]_vars PROVE TypeOK'
  OBVIOUS
<1>1. CASE UNCHANGED vars
  BY <1>1 DEF vars, TypeOK, queues, fields, code, world
<1>2. CASE Client
  <2>1. ASSUME NEW t \in Threads, ThreadStart(t) \/ ThreadTerminate(t) PROVE TypeOK'
    BY <2>1, ThreadStartType, ThreadTerminateType
  <2>2. ASSUME NEW t \in Threads, NEW d \in Delays, ThreadJoin(t, d) PROVE TypeOK'
    BY <2>2, JoinType DEF ThreadJoin, Events
  <2>3. ASSUME NEW d \in Delays, ThreadSleep(d) PROVE TypeOK'
    BY <2>3, ThreadSleepType
  <2>4. ASSUME NEW m \in Mutexes, NEW d \in Delays, MutexLock(m, d) PROVE TypeOK'
    BY <2>4, LockType DEF MutexLock, Events
  <2>5. ASSUME NEW m \in Mutexes, MutexUnlock(m) PROVE TypeOK'
    BY <2>5, MutexUnlockType
  <2>6. ASSUME NEW m \in Mutexes, NEW c \in CondVars, NEW d \in Delays,
               MutexUnlockWait(m, c, d)
        PROVE  TypeOK'
    BY <2>6, MutexUnlockWaitType
  <2>7. ASSUME NEW c \in CondVars, CondVarSignal(c) \/ CondVarBroadcast(c) PROVE TypeOK'
    BY <2>7, CondVarSignalType, CondVarBroadcastType
  <2>8. ASSUME NEW f \in Fds, NEW d \in Delays, Block(f, d) PROVE TypeOK'
    BY <2>8, BlockerType DEF Block
  <2>9. CASE Finish \/ Raise
    BY <2>9, VMStepType
  <2>. QED
    BY <1>2, <2>1, <2>2, <2>3, <2>4, <2>5, <2>6, <2>7, <2>8, <2>9 DEF Client
<1>3. CASE Continue
  <2>1. CASE WaitOver
    BY <2>1, ReturnType DEF WaitOver
  <2>. QED
    BY <1>3, <2>1, ThreadJoinAgainType, MutexLockAgainType, BlockAgainType,
       BroadcastStepType, PopSignalType, RunnerSleepType, RunnerLoopType DEF Continue
<1>4. CASE Scheduler
  BY <1>4, CheckSignalsType, PollType, PollWakeType, WakeJoinersType,
     CheckTimeoutsType, DequeueType, PickType, VMStepType DEF Scheduler
<1>5. CASE \E s \in Signums : SignalArrives(s)
  BY <1>5, SignalArrivesType
<1>6. CASE Preempt \/ Yield \/ Resume \/ Tick \/ Halted
  BY <1>6, VMStepType, ResumeType
<1>. QED
  BY <1>1, <1>2, <1>3, <1>4, <1>5, <1>6 DEF Next

\* Every behaviour of the threads keeps the types of TypeOK, for any constants
\* that satisfy the assumption.
THEOREM TypeCorrect == Spec => []TypeOK
<1>1. Init => TypeOK
  BY InitType
<1>2. TypeOK /\ [Next]_vars => TypeOK'
  BY NextType
<1>. QED
  BY <1>1, <1>2, PTL DEF Spec

-----------------------------------------------------------------------------
(* No live thread is lost.  NoThreadLost is inductive together with TypeOK. *)

\* The threads the scheduler can still reach.
Held == {cur} \cup ToSet(front) \cup ToSet(paused)

\* The induction step, reduced to what an action does to the reachable threads.
LEMMA HeldStep ==
  ASSUME NoThreadLost,
         \A t \in Threads : Live(t)' => (Live(t) \/ t \in Held'),
         \A t \in Held : Live(t)' => t \in Held'
  PROVE  NoThreadLost'
<1>1. \A t \in Threads : Live(t) => t \in Held
  BY DEF NoThreadLost, Held
<1>2. \A t \in Threads : Live(t)' => t \in Held'
  BY <1>1
<1>. QED
  BY <1>2 DEF NoThreadLost, Held

\* Blocking the current thread leaves every thread where it can be found.
LEMMA PauseHeld ==
  ASSUME TypeOK, NoThreadLost, NEW q \in Seq(Threads), ToSet(paused) \subseteq ToSet(q),
         cur' = cur, front' = front, refuel' = refuel, NEW tv,
         paused' = InsertTimed(q, cur, tv), NEW p \in {"yield", "check"},
         pc' = [pc EXCEPT ![cur] = p]
  PROVE  NoThreadLost'
<1>1. ToSet(q) \subseteq ToSet(paused')
  BY InsertTimedSet DEF TypeOK
<1>2. Held \subseteq Held'
  BY <1>1 DEF Held
<1>3. \A t \in Threads : Live(t)' => (Live(t) \/ t \in Held')
  BY DEF Live, Held, TypeOK
<1>. QED
  BY <1>2, <1>3, HeldStep

\* thread-join! pauses the caller or returns at once.
LEMMA JoinHeld ==
  ASSUME TypeOK, NoThreadLost, NEW t, NEW d, Join(t, d) PROVE NoThreadLost'
<1>1. CASE refuel[t] = 0
  <2>1. Held \subseteq Held' /\ cur \in Held'
    BY <1>1 DEF Join, Held, queues
  <2>2. \A u \in Threads : Live(u)' => (Live(u) \/ u \in Held')
    BY <1>1, <2>1 DEF Join, Return, Live, fields, TypeOK
  <2>. QED
    BY <2>1, <2>2, HeldStep
<1>2. CASE refuel[t] # 0
  <2>1. /\ cur' = cur /\ front' = front /\ refuel' = refuel
        /\ Pause(paused, t, d, Call("join", t, d))
    BY <1>2 DEF Join
  <2>. QED
    BY <2>1, PauseHeld DEF Pause, TypeOK
<1>. QED
  BY <1>1, <1>2

\* mutex-lock! takes the mutex or pauses the caller.
LEMMA LockHeld ==
  ASSUME TypeOK, NoThreadLost, NEW m, NEW d, Lock(m, d) PROVE NoThreadLost'
<1>1. CASE Return /\ UNCHANGED <<queues, cur, phase, stale, fields, world>>
  <2>1. Held \subseteq Held' /\ cur \in Held'
    BY <1>1 DEF Held, queues
  <2>2. \A u \in Threads : Live(u)' => (Live(u) \/ u \in Held')
    BY <1>1, <2>1 DEF Return, Live, fields, TypeOK
  <2>. QED
    BY <2>1, <2>2, HeldStep
<1>2. CASE /\ Pause(paused, m, d, Call("lock", m, d))
           /\ UNCHANGED <<front, cur, refuel>>
  BY <1>2, PauseHeld DEF Pause, TypeOK
<1>. QED
  BY <1>1, <1>2 DEF Lock

\* The primitives of the client that move threads between the lists.
LEMMA ThreadStartHeld ==
  ASSUME TypeOK, NoThreadLost, NEW t \in Threads, ThreadStart(t) PROVE NoThreadLost'
<1>1. ToSet(front') = ToSet(front) \cup {t}
  BY AppendSet DEF ThreadStart, TypeOK
<1>2. Held \subseteq Held' /\ t \in Held'
  BY <1>1 DEF ThreadStart, Held
<1>3. \A u \in Threads : Live(u)' => (Live(u) \/ u \in Held')
  BY <1>2 DEF ThreadStart, Live, TypeOK
<1>. QED
  BY <1>2, <1>3, HeldStep

\* thread-terminate! takes a paused victim off the list and queues it.
LEMMA ThreadTerminateHeld ==
  ASSUME TypeOK, NoThreadLost, NEW t \in Threads, ThreadTerminate(t) PROVE NoThreadLost'
<1>1. Held \ {t} \subseteq Held'
  <2>1. CASE t \in ToSet(paused)
    <3>1. ToSet(paused) \ {t} \subseteq ToSet(paused')
      BY <2>1, DeleteListSet DEF ThreadTerminate, TypeOK
    <3>2. ToSet(front) \subseteq ToSet(front')
      <4>1. ToSet(Append(front, t)) = ToSet(front) \cup {t}
        BY AppendSet DEF TypeOK
      <4>2. front' = Append(front, t)
        BY <2>1 DEF ThreadTerminate
      <4>. QED
        BY <4>1, <4>2
    <3>. QED
      BY <3>1, <3>2 DEF ThreadTerminate, Held
  <2>2. CASE t \notin ToSet(paused)
    BY <2>2 DEF ThreadTerminate, queues, Held
  <2>. QED
    BY <2>1, <2>2
<1>2. ~Live(t)'
  BY DEF ThreadTerminate, Live, TypeOK
<1>3. \A u \in Threads : Live(u)' => (Live(u) \/ u \in Held')
  <2>1. \A u \in Threads : u # t => pc'[u] = pc[u] /\ refuel'[u] = refuel[u]
    BY DEF ThreadTerminate, TypeOK
  <2>. QED
    BY <1>2, <2>1 DEF Live
<1>. QED
  BY <1>1, <1>2, <1>3, HeldStep

\* A step that keeps the lists, the current thread and the fuel, and starts
\* nobody, loses nobody.
LEMMA StillHeld ==
  ASSUME TypeOK, NoThreadLost, Held \subseteq Held', refuel' = refuel,
         \A t \in Threads : pc[t] \in {"unstarted", "done"} /\ t # cur => pc'[t] = pc[t]
  PROVE  NoThreadLost'
<1>1. \A t \in Threads : Live(t)' => (Live(t) \/ t \in Held')
  BY DEF Live, Held
<1>. QED
  BY <1>1, HeldStep

\* mutex-unlock! and condition-variable-signal! hand the woken thread over.
LEMMA WakeFirstHeld ==
  ASSUME TypeOK, NoThreadLost, NEW e, front' = FrontWith(e), paused' = PausedWithout(e),
         cur' = cur, refuel' = refuel, pc' = pc
  PROVE  NoThreadLost'
<1>1. Held \subseteq Held'
  BY WakeFirst DEF Held
<1>. QED
  BY <1>1, StillHeld

\* MutexUnlock loses no live thread.
LEMMA MutexUnlockHeld ==
  ASSUME TypeOK, NoThreadLost, NEW m \in Mutexes, MutexUnlock(m) PROVE NoThreadLost'
<1>1. cur' = cur /\ refuel' = refuel /\ pc' = pc
  BY DEF MutexUnlock, code
<1>2. CASE lockp[m] = 1
  BY <1>1, <1>2, WakeFirstHeld DEF MutexUnlock
<1>3. CASE lockp[m] # 1
  <2>1. Held \subseteq Held'
    BY <1>1, <1>3 DEF MutexUnlock, queues, Held
  <2>. QED
    BY <1>1, <2>1, StillHeld
<1>. QED
  BY <1>2, <1>3

\* mutex-unlock! with a condition variable moves two threads at once.
LEMMA MutexUnlockWaitHeld ==
  ASSUME TypeOK, NoThreadLost, NEW m \in Mutexes, NEW c \in CondVars, NEW d \in Delays,
         MutexUnlockWait(m, c, d)
  PROVE  NoThreadLost'
<1>. DEFINE rest == IF lockp[m] = 1 THEN PausedWithout(m) ELSE paused
<1>1. /\ rest \in Seq(Threads)
      /\ ToSet(front) \cup ToSet(paused) \subseteq ToSet(front') \cup ToSet(rest)
  BY WakeFirst DEF TypeOK, MutexUnlockWait
<1>2. paused' = InsertTimed(rest, cur, timeval')
  BY DEF MutexUnlockWait
<1>. HIDE DEF rest
<1>3. ToSet(rest) \subseteq ToSet(paused')
  BY <1>1, <1>2, InsertTimedSet DEF TypeOK
<1>4. Held \subseteq Held'
  BY <1>1, <1>3 DEF MutexUnlockWait, Held
<1>. QED
  BY <1>4, StillHeld DEF MutexUnlockWait, TypeOK

\* Waking a thread to the back of the run queue.
LEMMA WakeToBackHeld ==
  ASSUME TypeOK, NEW i \in 1..Len(paused), WakeToBack(i), cur' = cur
  PROVE  Held \subseteq Held'
<1>1. paused \in Seq(Threads) /\ front \in Seq(Threads) /\ paused[i] \in Threads
  BY DEF TypeOK
<1>2. ToSet(paused) \ {paused[i]} \subseteq ToSet(RemoveAt(paused, i))
  BY <1>1, RemoveAtSet
<1>3. ToSet(Append(front, paused[i])) = ToSet(front) \cup {paused[i]}
  BY <1>1, AppendSet
<1>. QED
  BY <1>2, <1>3 DEF WakeToBack, Held

\* PollWake loses no live thread.
LEMMA PollWakeHeld ==
  ASSUME TypeOK, NoThreadLost, PollWake PROVE NoThreadLost'
<1>1. cur' = cur /\ refuel' = refuel /\ pc' = pc
  BY DEF PollWake, code
<1>2. UNCHANGED queues \/ \E f \in revents : WaitersAt(f) # {} /\ WakeToBack(Min(WaitersAt(f)))
  BY DEF PollWake
<1>3. Held \subseteq Held'
  <2>1. CASE UNCHANGED queues
    BY <1>1, <2>1 DEF queues, Held
  <2>2. ASSUME NEW f \in revents, WaitersAt(f) # {}, WakeToBack(Min(WaitersAt(f)))
        PROVE  Held \subseteq Held'
    BY <1>1, <2>2, FirstWaiter, WakeToBackHeld
  <2>. QED
    BY <1>2, <2>1, <2>2
<1>. QED
  BY <1>1, <1>3, StillHeld

\* WakeJoiners loses no live thread.
LEMMA WakeJoinersHeld ==
  ASSUME TypeOK, NoThreadLost, WakeJoiners PROVE NoThreadLost'
<1>1. cur' = cur /\ refuel' = refuel /\ pc' = pc
  BY DEF WakeJoiners, code
<1>2. Held \subseteq Held'
  <2>1. CASE UNCHANGED queues
    BY <1>1, <2>1 DEF queues, Held
  <2>2. CASE WaitersAt(cur) # {} /\ WakeToBack(Min(WaitersAt(cur)))
    BY <1>1, <2>2, FirstWaiter, WakeToBackHeld
  <2>. QED
    BY <2>1, <2>2 DEF WakeJoiners
<1>. QED
  BY <1>1, <1>2, StillHeld

\* The threads that are due move from one list to the other in one piece.
LEMMA CheckTimeoutsHeld ==
  ASSUME TypeOK, NoThreadLost, CheckTimeouts PROVE NoThreadLost'
<1>1. NumDue \in 0..Len(paused) /\ paused \in Seq(Threads) /\ front \in Seq(Threads)
  BY NumDueInList DEF TypeOK
<1>. DEFINE a == SubSeq(paused, 1, NumDue)
            b == SubSeq(paused, NumDue + 1, Len(paused))
<1>2. a \in Seq(Threads) /\ ToSet(paused) = ToSet(a) \cup ToSet(b)
  BY <1>1, CutSet
<1>3. /\ front' = front \o a /\ paused' = b
      /\ cur' = cur /\ refuel' = refuel /\ pc' = pc
  BY DEF CheckTimeouts, code
<1>. HIDE DEF a, b
<1>4. ToSet(front') = ToSet(front) \cup ToSet(a)
  BY <1>1, <1>2, <1>3, ConcatSet
<1>5. Held \subseteq Held'
  BY <1>2, <1>3, <1>4 DEF Held
<1>. QED
  BY <1>3, <1>5, StillHeld

\* The next thread leaves the queue and the current one goes to the back of it
\* or to the paused list, unless it has terminated.
LEMMA DequeueHeld ==
  ASSUME TypeOK, NoThreadLost, Dequeue PROVE NoThreadLost'
<1>1. refuel' = refuel /\ pc' = pc
  BY DEF Dequeue, code
<1>2. \A t \in Threads : Live(t)' <=> Live(t)
  BY <1>1 DEF Live
<1>3. CASE front # <<>> /\ ~stale
  <2>1. /\ cur' = Head(front) /\ Tail(front) \in Seq(Threads)
        /\ ToSet(front) = {cur'} \cup ToSet(Tail(front))
    <3>1. /\ Tail(front) \in Seq(Threads)
          /\ ToSet(front) = {Head(front)} \cup ToSet(Tail(front))
      BY <1>3, TailSet DEF TypeOK
    <3>. QED
      BY <1>3, <3>1 DEF Dequeue
  <2>2. ToSet(Append(Tail(front), cur)) = ToSet(Tail(front)) \cup {cur}
    <3>. DEFINE r == Tail(front)
    <3>1. r \in Seq(Threads) /\ cur \in Threads
      BY <2>1 DEF TypeOK
    <3>. HIDE DEF r
    <3>2. ToSet(Append(r, cur)) = ToSet(r) \cup {cur}
      BY <3>1, AppendSet
    <3>. QED
      BY <3>2 DEF r
  <2>3. ToSet(paused) \cup {cur} \subseteq ToSet(InsertTimed(paused, cur, timeval'))
    BY InsertTimedSet DEF TypeOK
  <2>4. ToSet(Tail(front)) \subseteq ToSet(front') /\ ToSet(paused) \subseteq ToSet(paused')
    BY <1>3, <2>2, <2>3 DEF Dequeue
  <2>5. Live(cur) => cur \in ToSet(front') \cup ToSet(paused')
    <3>1. SUFFICES ASSUME refuel[cur] # 0 PROVE cur \in ToSet(front') \cup ToSet(paused')
      BY DEF Live
    <3>. QED
      BY <1>3, <2>2, <2>3, <3>1 DEF Dequeue
  <2>6. \A t \in Held : Live(t) => t \in Held'
    BY <2>1, <2>4, <2>5 DEF Held
  <2>7. Held \subseteq Threads
    <3>1. ToSet(front) \subseteq Threads /\ ToSet(paused) \subseteq Threads
      BY DEF TypeOK, ToSet
    <3>. QED
      BY <3>1 DEF Held, TypeOK
  <2>. QED
    BY <1>2, <2>6, <2>7, HeldStep
<1>4. CASE front = <<>> \/ stale
  <2>1. UNCHANGED queues /\ (cur' = cur \/ refuel[cur] = 0)
    BY <1>4 DEF Dequeue
  <2>2. \A t \in Held : Live(t)' => t \in Held'
    BY <1>1, <2>1 DEF Held, Live, queues
  <2>. QED
    BY <1>2, <2>2, HeldStep
<1>. QED
  BY <1>3, <1>4 DEF Dequeue

\* The thread to nap for becomes the current one; the other stays paused.
LEMMA PickHeld ==
  ASSUME TypeOK, NoThreadLost, Pick PROVE NoThreadLost'
<1>1. refuel' = refuel /\ pc' = pc /\ front' = front
  BY DEF Pick, code
<1>2. Held \subseteq Held'
  <2>1. CASE waitp[cur] = 0
    BY <1>1, <2>1 DEF Pick, Held
  <2>2. CASE waitp[cur] # 0
    <3>. DEFINE early == paused # <<>> /\ Before(timeval, paused[1], timeval[cur])
    <3>1. CASE ~early
      <4>1. cur' = cur /\ paused' = DeleteList(paused, cur)
        BY <2>2, <3>1 DEF Pick
      <4>2. ToSet(paused) \ {cur} \subseteq ToSet(paused')
        BY <4>1, DeleteListSet DEF TypeOK
      <4>. QED
        BY <1>1, <4>1, <4>2 DEF Held
    <3>2. CASE early
      <4>1. /\ cur' = paused[1]
            /\ paused' = IF cur \in ToSet(Tail(paused)) THEN Tail(paused)
                         ELSE InsertTimed(Tail(paused), cur, timeval)
        BY <2>2, <3>2 DEF Pick
      <4>2. Tail(paused) \in Seq(Threads) /\ ToSet(paused) = {paused[1]} \cup ToSet(Tail(paused))
        BY <3>2, TailSet DEF TypeOK
      <4>3. ToSet(Tail(paused)) \cup {cur} \subseteq ToSet(InsertTimed(Tail(paused), cur, timeval))
        BY <4>2, InsertTimedSet DEF TypeOK
      <4>4. ToSet(Tail(paused)) \cup {cur} \subseteq ToSet(paused')
        BY <4>1, <4>3
      <4>. QED
        BY <1>1, <4>1, <4>2, <4>4 DEF Held
    <3>. QED
      BY <3>1, <3>2
  <2>. QED
    BY <2>1, <2>2
<1>. QED
  BY <1>1, <1>2, StillHeld

\* Signals: the runner is live only once it is in the queue.
LEMMA CheckSignalsHeld ==
  ASSUME TypeOK, NoThreadLost, CheckSignals PROVE NoThreadLost'
<1>1. cur' = cur /\ paused' = paused /\ refuel' = refuel
  BY DEF CheckSignals
<1>2. ToSet(front) \subseteq ToSet(front')
      /\ \A t \in Threads : pc'[t] = pc[t] \/ t \in ToSet(front')
  <2>1. CASE front' = front /\ pc' = pc
    BY <2>1
  <2>2. CASE signals # {} /\ front' = Append(front, Runner)
             /\ pc' \in {pc, [pc EXCEPT ![Runner] = "pop"]}
    <3>1. ToSet(Append(front, Runner)) = ToSet(front) \cup {Runner}
      BY <2>2, AppendSet DEF TypeOK
    <3>2. \A t \in Threads : pc'[t] = pc[t] \/ t = Runner
      BY <2>2 DEF TypeOK
    <3>. QED
      BY <2>2, <3>1, <3>2
  <2>. QED
    BY <2>1, <2>2 DEF CheckSignals
<1>3. Held \subseteq Held' /\ \A t \in Threads : Live(t)' => (Live(t) \/ t \in Held')
  BY <1>1, <1>2 DEF Held, Live
<1>. QED
  BY <1>3, HeldStep

\* A thread that leaves the VM loop is live no longer.
LEMMA EndLoopHeld ==
  ASSUME TypeOK, NoThreadLost, NEW r, EndLoop(r) PROVE NoThreadLost'
<1>1. Held \subseteq Held'
  BY DEF EndLoop, queues, Held
<1>2. \A t \in Threads : Live(t)' => Live(t)
  BY DEF EndLoop, Live, TypeOK
<1>. QED
  BY <1>1, <1>2, HeldStep

\* The induction step.
LEMMA NextHeld == TypeOK /\ NoThreadLost /\ [Next]_vars => NoThreadLost'
<1>. SUFFICES ASSUME TypeOK, NoThreadLost, [Next]_vars PROVE NoThreadLost'
  OBVIOUS
<1>1. ASSUME UNCHANGED <<queues, cur, refuel>>,
             \A t \in Threads : pc[t] \in {"unstarted", "done"} /\ t # cur => pc'[t] = pc[t]
      PROVE  NoThreadLost'
  <2>1. Held \subseteq Held'
    BY <1>1 DEF queues, Held
  <2>. QED
    BY <1>1, <2>1, StillHeld
<1>2. CASE UNCHANGED vars
  BY <1>1, <1>2 DEF vars, code, fields
<1>3. ASSUME Return, UNCHANGED <<queues, cur, refuel>> PROVE NoThreadLost'
  BY <1>1, <1>3 DEF Return, TypeOK
<1>4. ASSUME NEW f, NEW d, Blocker(f, d) PROVE NoThreadLost'
  BY <1>4, PauseHeld DEF Blocker, TypeOK
<1>5. CASE Client
  <2>1. ASSUME NEW t \in Threads, ThreadStart(t) \/ ThreadTerminate(t) PROVE NoThreadLost'
    BY <2>1, ThreadStartHeld, ThreadTerminateHeld
  <2>2. ASSUME NEW t \in Threads, NEW d \in Delays, ThreadJoin(t, d) PROVE NoThreadLost'
    BY <2>2, JoinHeld DEF ThreadJoin
  <2>3. ASSUME NEW d \in Delays, ThreadSleep(d) PROVE NoThreadLost'
    BY <2>3, PauseHeld DEF ThreadSleep, Pause, TypeOK
  <2>4. ASSUME NEW m \in Mutexes, NEW d \in Delays, MutexLock(m, d) PROVE NoThreadLost'
    BY <2>4, LockHeld DEF MutexLock
  <2>5. ASSUME NEW m \in Mutexes, MutexUnlock(m) PROVE NoThreadLost'
    BY <2>5, MutexUnlockHeld
  <2>6. ASSUME NEW m \in Mutexes, NEW c \in CondVars, NEW d \in Delays,
               MutexUnlockWait(m, c, d)
        PROVE  NoThreadLost'
    BY <2>6, MutexUnlockWaitHeld
  <2>7. ASSUME NEW c \in CondVars, CondVarSignal(c) PROVE NoThreadLost'
    BY <2>7, WakeFirstHeld DEF CondVarSignal, SignalOne
  <2>8. ASSUME NEW c \in CondVars, CondVarBroadcast(c) PROVE NoThreadLost'
    BY <2>8, <1>1 DEF CondVarBroadcast, fields
  <2>9. ASSUME NEW f \in Fds, NEW d \in Delays, Block(f, d) PROVE NoThreadLost'
    BY <2>9, <1>4 DEF Block
  <2>10. CASE Finish \/ Raise
    BY <2>10, EndLoopHeld DEF Finish, Raise
  <2>. QED
    BY <1>5, <2>1, <2>2, <2>3, <2>4, <2>5, <2>6, <2>7, <2>8, <2>9, <2>10 DEF Client
<1>6. CASE Continue
  <2>1. CASE ThreadJoinAgain
    BY <2>1, <1>3, JoinHeld DEF ThreadJoinAgain, fields
  <2>2. CASE MutexLockAgain
    BY <2>2, <1>3, LockHeld DEF MutexLockAgain, fields
  <2>3. CASE WaitOver
    BY <2>3, <1>3 DEF WaitOver, fields
  <2>4. CASE BlockAgain
    BY <2>4, <1>3, <1>4 DEF BlockAgain, fields
  <2>5. CASE BroadcastStep
    BY <2>5, WakeFirstHeld DEF BroadcastStep, SignalOne
  <2>6. CASE PopSignal
    BY <2>6, <1>1 DEF PopSignal, fields, TypeOK
  <2>8. CASE RunnerSleep
    BY <2>8, <1>1 DEF RunnerSleep, TypeOK
  <2>7. CASE RunnerLoop
    BY <2>7, <1>1 DEF RunnerLoop, fields, TypeOK
  <2>. QED
    BY <1>6, <2>1, <2>2, <2>3, <2>4, <2>5, <2>6, <2>7, <2>8 DEF Continue
<1>7. CASE Scheduler
  <2>1. CASE Poll
    BY <2>1, <1>1 DEF Poll, fields, code
  <2>2. CASE NapOver
    BY <2>2, <1>1 DEF NapOver, fields, code
  <2>. QED
    BY <1>7, <2>1, <2>2, CheckSignalsHeld, PollWakeHeld, WakeJoinersHeld,
       CheckTimeoutsHeld, DequeueHeld, PickHeld DEF Scheduler
<1>8. CASE \E s \in Signums : SignalArrives(s)
  BY <1>1, <1>8 DEF SignalArrives, fields, code
<1>9. CASE Resume
  <2>1. CASE refuel[cur] = 0
    BY <1>9, <2>1, EndLoopHeld DEF Resume
  <2>2. CASE refuel[cur] # 0
    BY <1>9, <2>2, <1>1 DEF Resume, fields, code
  <2>. QED
    BY <2>1, <2>2
<1>10. CASE Preempt \/ Yield \/ Tick
  BY <1>1, <1>10 DEF Preempt, Yield, Tick, fields, code, TypeOK
<1>11. CASE Halted
  BY <1>2, <1>11 DEF Halted
<1>. QED
  BY <1>2, <1>5, <1>6, <1>7, <1>8, <1>9, <1>10, <1>11 DEF Next

\* No live thread ever drops out of the run queue, the paused list and the VM,
\* whatever the clients, the clock, the descriptors and the signals do.
THEOREM NoThreadIsLost == Spec => []NoThreadLost
<1>1. Init => NoThreadLost
  BY ConstantsAssumption DEF Init, NoThreadLost, Live
<1>2. TypeOK /\ NoThreadLost /\ [Next]_vars => NoThreadLost'
  BY NextHeld
<1>. QED
  BY <1>1, <1>2, TypeCorrect, PTL DEF Spec

-----------------------------------------------------------------------------
\* A list of threads, each once, the timed ones first and by deadline.
Ordered(q, tv) ==
  \A i, j \in 1..Len(q) : i < j =>
    /\ q[i] # q[j]
    /\ tv[q[i]] = 0 => tv[q[j]] = 0
    /\ tv[q[j]] # 0 => tv[q[i]] <= tv[q[j]]

-----------------------------------------------------------------------------
(* What the list operations keep.                                          *)

\* Unlinking a cell takes its thread off the list and keeps the order.
LEMMA RemoveOrdered ==
  ASSUME NEW q \in Seq(Threads), NEW tv, Ordered(q, tv), NEW i \in 1..Len(q)
  PROVE  /\ RemoveAt(q, i) \in Seq(Threads)
         /\ Ordered(RemoveAt(q, i), tv)
         /\ ToSet(RemoveAt(q, i)) = ToSet(q) \ {q[i]}
<1>. DEFINE r == RemoveAt(q, i)
<1>1. /\ r \in Seq(Threads) /\ Len(r) = Len(q) - 1
      /\ \A j \in 1..(Len(q) - 1) : r[j] = IF j < i THEN q[j] ELSE q[j + 1]
  BY RemoveAtCells
<1>. Len(q) \in Nat
  OBVIOUS
<1>2. ToSet(q) \ {q[i]} \subseteq ToSet(r) /\ ToSet(r) \subseteq ToSet(q)
  BY RemoveAtSet
<1>. HIDE DEF r
<1>. DEFINE k(j) == IF j < i THEN j ELSE j + 1
<1>3. \A j \in 1..Len(r) : k(j) \in 1..Len(q) /\ k(j) # i /\ r[j] = q[k(j)]
  BY <1>1
<1>4. \A j, l \in 1..Len(r) : j < l => k(j) < k(l)
  BY <1>1
<1>. HIDE DEF k
<1>5. Ordered(r, tv)
  BY <1>3, <1>4, SMTT(30) DEF Ordered
<1>6. \A j \in 1..Len(r) : r[j] # q[i]
  BY <1>3, SMTT(30) DEF Ordered
<1>7. q[i] \notin ToSet(r)
  BY <1>1, <1>6 DEF ToSet
<1>. QED
  BY <1>1, <1>2, <1>5, <1>7 DEF r

\* sexp_delete_list takes the thread off the list.
LEMMA DeleteOrdered ==
  ASSUME NEW q \in Seq(Threads), NEW tv, Ordered(q, tv), NEW x
  PROVE  /\ DeleteList(q, x) \in Seq(Threads)
         /\ Ordered(DeleteList(q, x), tv)
         /\ ToSet(DeleteList(q, x)) = ToSet(q) \ {x}
<1>. DEFINE at == {i \in DOMAIN q : q[i] = x}
<1>1. CASE at = {}
  BY <1>1 DEF DeleteList, ToSet
<1>2. CASE at # {}
  <2>1. at \subseteq Nat /\ \A i \in at : i \in 1..Len(q) /\ q[i] = x
    OBVIOUS
  <2>2. Min(at) \in 1..Len(q) /\ q[Min(at)] = x
    BY <1>2, <2>1, MinInSet
  <2>3. DeleteList(q, x) = RemoveAt(q, Min(at))
    BY <1>2 DEF DeleteList
  <2>. QED
    BY <2>2, <2>3, RemoveOrdered
<1>. QED
  BY <1>1, <1>2

\* sexp_insert_timed finds the place that keeps the order, whatever deadline the
\* thread had before.
LEMMA InsertOrdered ==
  ASSUME NEW q \in Seq(Threads), NEW t \in Threads,
         NEW tv \in [Threads -> Nat], NEW tw \in [Threads -> Nat],
         \A u \in Threads : u # t => tw[u] = tv[u], Ordered(q, tv)
  PROVE  /\ InsertTimed(q, t, tw) \in Seq(Threads)
         /\ Ordered(InsertTimed(q, t, tw), tw)
         /\ ToSet(InsertTimed(q, t, tw)) = ToSet(q) \cup {t}
<1>. DEFINE rest == DeleteList(q, t)
            stops == {i \in 1..(Len(rest) + 1) :
                        i <= Len(rest) => ~WalksPast(tw, t, rest[i])}
            s == Min(stops)
            r == InsertAt(rest, s, t)
<1>1. rest \in Seq(Threads) /\ Ordered(rest, tv) /\ ToSet(rest) = ToSet(q) \ {t}
  BY DeleteOrdered
<1>2. r = InsertTimed(q, t, tw)
  BY DEF InsertTimed
<1>. HIDE DEF rest
<1>3. Len(rest) \in Nat /\ Len(rest) + 1 \in stops /\ stops \subseteq Nat
  BY <1>1
<1>4. s \in stops /\ \A y \in stops : s <= y
  BY <1>3, MinInSet
<1>5. /\ s \in 1..(Len(rest) + 1)
      /\ s <= Len(rest) => ~WalksPast(tw, t, rest[s])
      /\ \A i \in 1..Len(rest) : i < s => WalksPast(tw, t, rest[i])
  <2>1. s \in 1..(Len(rest) + 1) /\ (s <= Len(rest) => ~WalksPast(tw, t, rest[s]))
    BY <1>4
  <2>2. ASSUME NEW i \in 1..Len(rest), i < s PROVE WalksPast(tw, t, rest[i])
    <3>1. i \notin stops
      BY <1>3, <1>4, <2>2
    <3>2. i \in 1..(Len(rest) + 1) /\ i <= Len(rest)
      BY <1>3
    <3>. QED
      BY <3>1, <3>2
  <2>. QED
    BY <2>1, <2>2
<1>. HIDE DEF stops, s
<1>6. \A i \in 1..Len(rest) : rest[i] \in Threads /\ rest[i] # t /\ tw[rest[i]] = tv[rest[i]]
  <2>1. \A i \in 1..Len(rest) : rest[i] \in Threads /\ rest[i] \in ToSet(rest)
    BY <1>1 DEF ToSet
  <2>. QED
    BY <1>1, <2>1
<1>7. Ordered(rest, tw)
  BY <1>1, <1>6, SMTT(30) DEF Ordered
<1>8. \A i \in 1..Len(rest) : i < s => tw[rest[i]] # 0 /\ (tw[t] # 0 => tw[rest[i]] <= tw[t])
  BY <1>5, <1>6 DEF WalksPast, Before
<1>9. \A i \in 1..Len(rest) : i >= s => (tw[t] = 0 => tw[rest[i]] = 0)
                                        /\ (tw[rest[i]] # 0 => tw[t] <= tw[rest[i]])
  <2>1. s <= Len(rest) => (tw[t] = 0 => tw[rest[s]] = 0)
                          /\ (tw[rest[s]] # 0 => tw[t] <= tw[rest[s]])
    BY <1>5, <1>6 DEF WalksPast, Before
  <2>2. ASSUME NEW i \in 1..Len(rest), i > s
        PROVE  (tw[t] = 0 => tw[rest[i]] = 0) /\ (tw[rest[i]] # 0 => tw[t] <= tw[rest[i]])
    <3>1. s \in 1..Len(rest) /\ tw[rest[s]] \in Nat /\ tw[rest[i]] \in Nat /\ tw[t] \in Nat
      BY <1>5, <1>6, <2>2
    <3>2. /\ tw[rest[s]] = 0 => tw[rest[i]] = 0
          /\ tw[rest[i]] # 0 => tw[rest[s]] <= tw[rest[i]]
      BY <1>7, <2>2, <3>1 DEF Ordered
    <3>. QED
      BY <2>1, <3>1, <3>2
  <2>. QED
    BY <1>5, <2>1, <2>2
<1>10. /\ r \in Seq(Threads) /\ Len(r) = Len(rest) + 1
       /\ \A j \in 1..(Len(rest) + 1) :
            r[j] = IF j < s THEN rest[j] ELSE IF j = s THEN t ELSE rest[j - 1]
  <2>1. rest \in Seq(Threads) /\ s \in 1..(Len(rest) + 1)
    BY <1>1, <1>5
  <2>2. /\ InsertAt(rest, s, t) \in Seq(Threads) /\ Len(InsertAt(rest, s, t)) = Len(rest) + 1
        /\ \A j \in 1..(Len(rest) + 1) :
             InsertAt(rest, s, t)[j] = IF j < s THEN rest[j] ELSE IF j = s THEN t ELSE rest[j - 1]
    BY <2>1, InsertAtCells
  <2>. QED
    BY <2>2
<1>11. ToSet(r) = ToSet(q) \cup {t}
  <2>1. ToSet(r) = ToSet(rest) \cup {t}
    BY <1>1, <1>5, InsertAtSet
  <2>. QED
    BY <1>1, <2>1
<1>. HIDE DEF r
<1>. s \in Int /\ Len(r) \in Nat /\ Len(rest) \in Nat /\ s >= 1 /\ s <= Len(rest) + 1
  BY <1>3, <1>5, <1>10
<1>12. /\ \A j \in 1..(Len(rest) + 1) : j < s => r[j] = rest[j]
       /\ r[s] = t
       /\ \A j \in 1..(Len(rest) + 1) : j > s => r[j] = rest[j - 1]
  <2>1. r[s] = t
    BY <1>10
  <2>2. ASSUME NEW j \in 1..(Len(rest) + 1), j < s PROVE r[j] = rest[j]
    BY <1>10, <2>2
  <2>3. ASSUME NEW j \in 1..(Len(rest) + 1), j > s PROVE r[j] = rest[j - 1]
    BY <1>10, <2>3
  <2>. QED
    BY <2>1, <2>2, <2>3
<1>13. ASSUME NEW i \in 1..Len(r), NEW j \in 1..Len(r), i < j
       PROVE  /\ r[i] # r[j]
              /\ tw[r[i]] = 0 => tw[r[j]] = 0
              /\ tw[r[j]] # 0 => tw[r[i]] <= tw[r[j]]
  <2>. i \in Int /\ j \in Int /\ i >= 1 /\ j <= Len(rest) + 1 /\ i < j
    BY <1>10, <1>13
  <2>1. CASE j < s
    <3>1. i \in 1..Len(rest) /\ j \in 1..Len(rest)
      BY <1>5, <2>1
    <3>2. r[i] = rest[i] /\ r[j] = rest[j]
      BY <1>12, <2>1
    <3>. QED
      BY <1>7, <3>1, <3>2 DEF Ordered
  <2>2. CASE j = s
    <3>1. i \in 1..Len(rest) /\ i < s
      BY <2>2
    <3>2. r[i] = rest[i] /\ r[j] = t
      BY <1>12, <2>2
    <3>. QED
      BY <1>6, <1>8, <3>1, <3>2
  <2>3. CASE j > s /\ i < s
    <3>1. i \in 1..Len(rest) /\ j - 1 \in 1..Len(rest) /\ i < j - 1
      BY <1>5, <2>3
    <3>2. r[i] = rest[i] /\ r[j] = rest[j - 1]
      BY <1>12, <2>3
    <3>. QED
      BY <1>7, <3>1, <3>2, SMTT(30) DEF Ordered
  <2>4. CASE j > s /\ i = s
    <3>1. j - 1 \in 1..Len(rest) /\ j - 1 >= s
      BY <1>5, <2>4
    <3>2. r[i] = t /\ r[j] = rest[j - 1]
      BY <1>12, <2>4
    <3>. QED
      BY <1>6, <1>9, <3>1, <3>2
  <2>5. CASE j > s /\ i > s
    <3>1. i - 1 \in 1..Len(rest) /\ j - 1 \in 1..Len(rest) /\ i - 1 < j - 1
      BY <1>5, <2>5
    <3>2. r[i] = rest[i - 1] /\ r[j] = rest[j - 1]
      BY <1>12, <2>5
    <3>3. /\ rest[i - 1] # rest[j - 1]
          /\ tw[rest[i - 1]] = 0 => tw[rest[j - 1]] = 0
          /\ tw[rest[j - 1]] # 0 => tw[rest[i - 1]] <= tw[rest[j - 1]]
      BY <1>7, <3>1, Zenon DEF Ordered
    <3>. QED
      BY <3>2, <3>3
  <2>. QED
    BY <1>5, <1>13, <2>1, <2>2, <2>3, <2>4, <2>5
<1>14. Ordered(r, tw)
  BY <1>13 DEF Ordered
<1>. QED
  BY <1>2, <1>10, <1>11, <1>14

\* What is left of the list when its first n cells are cut off.
LEMMA CutOrdered ==
  ASSUME NEW q \in Seq(Threads), NEW tv, Ordered(q, tv), NEW n \in 0..Len(q)
  PROVE  /\ SubSeq(q, n + 1, Len(q)) \in Seq(Threads)
         /\ Ordered(SubSeq(q, n + 1, Len(q)), tv)
         /\ ToSet(SubSeq(q, n + 1, Len(q))) = ToSet(q) \ {q[i] : i \in 1..n}
<1>. DEFINE b == SubSeq(q, n + 1, Len(q))
<1>1. b \in Seq(Threads) /\ Len(b) = Len(q) - n /\ \A j \in 1..(Len(q) - n) : b[j] = q[n + j]
  OBVIOUS
<1>2. Len(q) \in Nat
  OBVIOUS
<1>3. /\ ToSet(SubSeq(q, 1, n)) = {q[i] : i \in 1..n}
      /\ ToSet(q) = ToSet(SubSeq(q, 1, n)) \cup ToSet(b)
  BY CutSet
<1>. HIDE DEF b
<1>4. Ordered(b, tv)
  <2>1. \A j \in 1..Len(b) : n + j \in 1..Len(q) /\ b[j] = q[n + j]
    BY <1>1, <1>2
  <2>2. ASSUME NEW i \in 1..Len(b), NEW j \in 1..Len(b), i < j
        PROVE  /\ b[i] # b[j]
               /\ tv[b[i]] = 0 => tv[b[j]] = 0
               /\ tv[b[j]] # 0 => tv[b[i]] <= tv[b[j]]
    <3>1. n + i \in 1..Len(q) /\ n + j \in 1..Len(q) /\ n + i < n + j
      BY <1>1, <1>2, <2>1, <2>2
    <3>2. /\ q[n + i] # q[n + j]
          /\ tv[q[n + i]] = 0 => tv[q[n + j]] = 0
          /\ tv[q[n + j]] # 0 => tv[q[n + i]] <= tv[q[n + j]]
      BY <3>1, Zenon DEF Ordered
    <3>. QED
      BY <2>1, <3>2
  <2>. QED
    BY <2>2 DEF Ordered
<1>5. ASSUME NEW j \in 1..Len(b), NEW i \in 1..n PROVE b[j] # q[i]
  <2>1. n + j \in 1..Len(q) /\ i \in 1..Len(q) /\ i < n + j /\ b[j] = q[n + j]
    BY <1>1, <1>2
  <2>. QED
    BY <2>1 DEF Ordered
<1>6. \A x \in ToSet(b) : x \notin {q[i] : i \in 1..n}
  BY <1>1, <1>5 DEF ToSet
<1>. QED
  BY <1>1, <1>3, <1>4, <1>6 DEF b

-----------------------------------------------------------------------------
(* The paused list stays in order.                                         *)

\* PausedOrdered, as a fact about the queue and the times in it.
LEMMA OrderedPaused == TypeOK => (PausedOrdered <=> Ordered(paused, timeval))
<1>. SUFFICES ASSUME TypeOK PROVE PausedOrdered <=> Ordered(paused, timeval)
  OBVIOUS
<1>1. DOMAIN paused = 1..Len(paused)
  BY DEF TypeOK
<1>. QED
  BY <1>1 DEF PausedOrdered, Ordered

\* The same, in the next state.
LEMMA OrderedPausedNext == TypeOK' => (PausedOrdered' <=> Ordered(paused', timeval'))
<1>1. (TypeOK => (PausedOrdered <=> Ordered(paused, timeval)))'
  BY OrderedPaused, PTL
<1>. QED
  BY <1>1

\* The first thread that waits for e, if one does.
LEMMA WaitersPaused ==
  ASSUME TypeOK, NEW e
  PROVE  /\ WaitersAt(e) = {} => \A u \in ToSet(paused) : event[u] # e
         /\ WaitersAt(e) # {} => /\ paused[Min(WaitersAt(e))] \in ToSet(paused)
                                 /\ event[paused[Min(WaitersAt(e))]] = e
                                 /\ Min(WaitersAt(e)) \in 1..Len(paused)
                                 /\ paused[Min(WaitersAt(e))] \in Threads
<1>1. WaitersAt(e) \subseteq Nat
  BY DEF WaitersAt, TypeOK
<1>2. WaitersAt(e) # {} => Min(WaitersAt(e)) \in WaitersAt(e)
  BY <1>1, MinInSet
<1>3. DOMAIN paused = 1..Len(paused) /\ \A i \in 1..Len(paused) : paused[i] \in Threads
  BY DEF TypeOK
<1>. QED
  BY <1>2, <1>3 DEF WaitersAt, ToSet

\* Waking the first waiter for e takes it off the list.
LEMMA WakeFirstPaused ==
  ASSUME TypeOK, PausedOrdered, NEW e
  PROVE  /\ PausedWithout(e) \in Seq(Threads) /\ Ordered(PausedWithout(e), timeval)
         /\ ToSet(PausedWithout(e)) = ToSet(paused) \ Woken(e)
         /\ Woken(e) \subseteq Threads \cap ToSet(paused)
         /\ \A u \in Woken(e) : event[u] = e
         /\ Woken(e) = {} => \A u \in ToSet(paused) : event[u] # e
<1>1. Ordered(paused, timeval) /\ paused \in Seq(Threads)
  BY OrderedPaused DEF TypeOK
<1>2. CASE WaitersAt(e) = {}
  BY <1>1, <1>2, WaitersPaused DEF PausedWithout, Woken
<1>3. CASE WaitersAt(e) # {}
  <2>. DEFINE i == Min(WaitersAt(e))
  <2>1. /\ i \in 1..Len(paused) /\ paused[i] \in Threads
        /\ paused[i] \in ToSet(paused) /\ event[paused[i]] = e
    BY <1>3, WaitersPaused
  <2>2. PausedWithout(e) = RemoveAt(paused, i) /\ Woken(e) = {paused[i]}
    BY <1>3 DEF PausedWithout, Woken
  <2>. HIDE DEF i
  <2>. QED
    BY <1>1, <2>1, <2>2, RemoveOrdered
<1>. QED
  BY <1>2, <1>3

\* Pausing the current thread in a list q that is in order.
LEMMA PausePaused ==
  ASSUME TypeOK, NEW q \in Seq(Threads), Ordered(q, timeval), NEW d \in Nat,
         timeval' = [timeval EXCEPT ![cur] = d], paused' = InsertTimed(q, cur, timeval')
  PROVE  Ordered(paused', timeval') /\ ToSet(paused') = ToSet(q) \cup {cur}
<1>1. timeval \in [Threads -> Nat] /\ timeval' \in [Threads -> Nat] /\ cur \in Threads
  BY ConstantsAssumption DEF TypeOK
<1>2. \A u \in Threads : u # cur => timeval'[u] = timeval[u]
  BY DEF TypeOK
<1>. QED
  BY <1>1, <1>2, InsertOrdered

\* The deadline Pause stores is a number.
LEMMA DeadlineNat ==
  ASSUME TypeOK, NEW d \in Delays \cup {Forever} PROVE Deadline(d) \in Nat
BY DeadlineType, ConstantsAssumption

\* A step that inserts its thread with sexp_insert_timed keeps the order.
LEMMA PauseStep ==
  ASSUME TypeOK, PausedOrdered, NEW e, NEW d \in Delays \cup {Forever},
         timeval' = [timeval EXCEPT ![cur] = Deadline(d)],
         paused' = InsertTimed(paused, cur, timeval')
  PROVE  Ordered(paused', timeval') /\ ToSet(paused') = ToSet(paused) \cup {cur}
<1>1. Ordered(paused, timeval) /\ paused \in Seq(Threads)
  BY OrderedPaused DEF TypeOK
<1>2. Deadline(d) \in Nat
  BY DeadlineNat
<1>. QED
  BY <1>1, <1>2, PausePaused

\* thread-terminate! takes the thread out of the queue.
LEMMA ThreadTerminatePaused ==
  ASSUME TypeOK, PausedOrdered, NEW t \in Threads, ThreadTerminate(t)
  PROVE  Ordered(paused', timeval') /\ ToSet(paused') = ToSet(paused) \ {t}
<1>1. Ordered(paused, timeval) /\ paused \in Seq(Threads) /\ timeval' = timeval
  BY OrderedPaused DEF TypeOK, ThreadTerminate
<1>2. CASE t \in ToSet(paused)
  BY <1>1, <1>2, DeleteOrdered DEF ThreadTerminate
<1>3. CASE t \notin ToSet(paused)
  BY <1>1, <1>3 DEF ThreadTerminate, queues
<1>. QED
  BY <1>2, <1>3

\* thread-join! inserts the caller by its timeout.
LEMMA JoinPaused ==
  ASSUME TypeOK, PausedOrdered, NEW t, NEW d \in Delays \cup {Forever}, Join(t, d)
  PROVE  /\ Ordered(paused', timeval')
         /\ IF refuel[t] = 0 THEN ToSet(paused') = ToSet(paused)
            ELSE ToSet(paused') = ToSet(paused) \cup {cur}
<1>1. CASE refuel[t] = 0
  BY <1>1, OrderedPaused DEF Join, queues, fields
<1>2. CASE refuel[t] # 0
  BY <1>2, PauseStep DEF Join, Pause
<1>. QED
  BY <1>1, <1>2

\* mutex-lock! inserts the caller by its timeout.
LEMMA LockPaused ==
  ASSUME TypeOK, PausedOrdered, NEW m, NEW d \in Delays \cup {Forever}, Lock(m, d)
  PROVE  /\ Ordered(paused', timeval')
         /\ IF lockp[m] = 0 THEN ToSet(paused') = ToSet(paused)
            ELSE ToSet(paused') = ToSet(paused) \cup {cur}
<1>1. CASE lockp[m] = 0
  BY <1>1, OrderedPaused DEF Lock, queues, fields
<1>2. CASE lockp[m] # 0
  BY <1>2, PauseStep DEF Lock, Pause
<1>. QED
  BY <1>1, <1>2

\* mutex-unlock! takes a waiter out of the queue.
LEMMA MutexUnlockPaused ==
  ASSUME TypeOK, PausedOrdered, NEW m \in Mutexes, MutexUnlock(m)
  PROVE  /\ Ordered(paused', timeval')
         /\ ToSet(paused') = ToSet(paused) \ IF lockp[m] = 1 THEN Woken(m) ELSE {}
<1>1. CASE lockp[m] = 1
  BY <1>1, WakeFirstPaused DEF MutexUnlock
<1>2. CASE lockp[m] # 1
  BY <1>2, OrderedPaused DEF MutexUnlock, queues
<1>. QED
  BY <1>1, <1>2

\* mutex-unlock! on a condition variable inserts the caller.
LEMMA MutexUnlockWaitPaused ==
  ASSUME TypeOK, PausedOrdered, NEW m \in Mutexes, NEW c \in CondVars, NEW d \in Delays,
         MutexUnlockWait(m, c, d)
  PROVE  /\ Ordered(paused', timeval')
         /\ ToSet(paused') = (ToSet(paused) \ IF lockp[m] = 1 THEN Woken(m) ELSE {}) \cup {cur}
<1>. DEFINE q == IF lockp[m] = 1 THEN PausedWithout(m) ELSE paused
<1>1. /\ q \in Seq(Threads) /\ Ordered(q, timeval)
      /\ ToSet(q) = ToSet(paused) \ IF lockp[m] = 1 THEN Woken(m) ELSE {}
  BY WakeFirstPaused, OrderedPaused DEF TypeOK
<1>2. timeval' = [timeval EXCEPT ![cur] = Deadline(d)] /\ paused' = InsertTimed(q, cur, timeval')
  BY DEF MutexUnlockWait
<1>3. Deadline(d) \in Nat
  BY DeadlineNat
<1>. HIDE DEF q
<1>. QED
  BY <1>1, <1>2, <1>3, PausePaused

\* A thread that is woken leaves the queue.
LEMMA WakeToBackPaused ==
  ASSUME TypeOK, PausedOrdered, NEW e, WaitersAt(e) # {}, WakeToBack(Min(WaitersAt(e))),
         timeval' = timeval
  PROVE  /\ Ordered(paused', timeval')
         /\ ToSet(paused') = ToSet(paused) \ {paused[Min(WaitersAt(e))]}
<1>1. Ordered(paused, timeval) /\ paused \in Seq(Threads)
  BY OrderedPaused DEF TypeOK
<1>2. Min(WaitersAt(e)) \in 1..Len(paused)
  BY WaitersPaused
<1>. QED
  BY <1>1, <1>2, RemoveOrdered DEF WakeToBack

\* The threads that are due are the first ones of the list.
LEMMA CheckTimeoutsPaused ==
  ASSUME TypeOK, PausedOrdered, CheckTimeouts
  PROVE  /\ Ordered(paused', timeval')
         /\ ToSet(paused') = ToSet(paused) \ Due
         /\ Due \subseteq ToSet(paused) /\ Due \subseteq Threads
         /\ \A u \in Due : timeval[u] < now
<1>1. Ordered(paused, timeval) /\ paused \in Seq(Threads) /\ NumDue \in 0..Len(paused)
  BY OrderedPaused, NumDueInList DEF TypeOK
<1>2. paused' = SubSeq(paused, NumDue + 1, Len(paused)) /\ timeval' = timeval
  BY DEF CheckTimeouts
<1>3. /\ Ordered(paused', timeval')
      /\ ToSet(paused') = ToSet(paused) \ {paused[i] : i \in 1..NumDue}
  BY <1>1, <1>2, CutOrdered
<1>4. ASSUME NEW i \in 1..NumDue
      PROVE  paused[i] \in ToSet(paused) /\ paused[i] \in Threads /\ timeval[paused[i]] < now
  <2>1. i \in 1..Len(paused) /\ i - 1 \in 0..Len(paused) /\ i - 1 < Len(paused) /\ (i - 1) + 1 = i
    BY <1>1
  <2>2. paused[i] \in ToSet(paused) /\ paused[i] \in Threads
    BY <1>1, <2>1 DEF ToSet
  <2>. DEFINE N == {n \in 0..Len(paused) :
                      n < Len(paused) => ~Before(timeval, paused[n + 1], now)}
  <2>3. Len(paused) \in N /\ N \subseteq Nat
    BY <1>1
  <2>4. \A n \in N : NumDue <= n
    BY <2>3, MinInSet DEF NumDue
  <2>5. i - 1 \notin N
    <3>. HIDE DEF N
    <3>1. ~(NumDue <= i - 1)
      BY <1>1
    <3>. QED
      BY <2>4, <3>1
  <2>6. Before(timeval, paused[(i - 1) + 1], now)
    BY <2>1, <2>5
  <2>. QED
    BY <2>1, <2>2, <2>6 DEF Before
<1>. QED
  BY <1>3, <1>4 DEF Due

\* The thread that gives way enters the queue if it waits.
LEMMA DequeuePaused ==
  ASSUME TypeOK, PausedOrdered, Dequeue
  PROVE  /\ Ordered(paused', timeval')
         /\ IF front # <<>> /\ ~stale /\ waitp[cur] = 1 /\ refuel[cur] # 0
            THEN ToSet(paused') = ToSet(paused) \cup {cur}
            ELSE ToSet(paused') = ToSet(paused)
<1>1. Ordered(paused, timeval) /\ paused \in Seq(Threads)
  BY OrderedPaused DEF TypeOK
<1>2. CASE /\ front # <<>> /\ ~stale /\ waitp[cur] = 1 /\ refuel[cur] # 0
           /\ cur \notin ToSet(paused)
  <2>1. timeval' = [timeval EXCEPT ![cur] = 0] /\ paused' = InsertTimed(paused, cur, timeval')
    BY <1>2 DEF Dequeue
  <2>. QED
    BY <1>1, <1>2, <2>1, PausePaused
<1>3. CASE ~(/\ front # <<>> /\ ~stale /\ waitp[cur] = 1 /\ refuel[cur] # 0
             /\ cur \notin ToSet(paused))
  <2>1. timeval' = timeval /\ paused' = paused
    BY <1>3 DEF Dequeue, queues
  <2>. QED
    BY <1>1, <1>3, <2>1
<1>. QED
  BY <1>2, <1>3

\* The thread Pick waits for: the first paused one if its deadline is earlier.
Early == paused # <<>> /\ Before(timeval, paused[1], timeval[cur])

\* Picking a paused thread early takes it from the head of the queue.
LEMMA PickPaused ==
  ASSUME TypeOK, PausedOrdered, Pick
  PROVE  /\ Ordered(paused', timeval')
         /\ waitp[cur] = 0 => cur' = cur /\ ToSet(paused') = ToSet(paused)
         /\ waitp[cur] # 0 /\ ~Early => cur' = cur /\ ToSet(paused') = ToSet(paused) \ {cur}
         /\ waitp[cur] # 0 /\ Early =>
              /\ cur' = paused[1] /\ cur' \in ToSet(paused) /\ cur' # cur
              /\ ToSet(paused') = (ToSet(paused) \ {cur'}) \cup {cur}
<1>1. Ordered(paused, timeval) /\ paused \in Seq(Threads) /\ timeval' = timeval /\ cur \in Threads
  BY OrderedPaused DEF TypeOK, Pick
<1>2. CASE waitp[cur] = 0
  BY <1>1, <1>2 DEF Pick
<1>3. CASE waitp[cur] # 0 /\ ~Early
  <2>1. cur' = cur /\ paused' = DeleteList(paused, cur)
    BY <1>3 DEF Pick, Early
  <2>. QED
    BY <1>1, <1>3, <2>1, DeleteOrdered
<1>4. CASE waitp[cur] # 0 /\ Early
  <2>1. /\ cur' = paused[1]
        /\ paused' = IF cur \in ToSet(Tail(paused)) THEN Tail(paused)
                     ELSE InsertTimed(Tail(paused), cur, timeval)
    BY <1>4 DEF Pick, Early
  <2>2. /\ 1 \in 0..Len(paused) /\ Tail(paused) = SubSeq(paused, 1 + 1, Len(paused))
        /\ paused[1] \in ToSet(paused) /\ paused[1] \in Threads /\ paused[1] # cur
    <3>1. paused # <<>> /\ timeval[paused[1]] < timeval[cur]
      BY <1>4 DEF Early, Before
    <3>2. paused[1] # cur
      BY <3>1, ConstantsAssumption DEF TypeOK
    <3>3. Len(paused) \in Nat /\ Len(paused) >= 1
      BY <1>1, <3>1
    <3>. QED
      BY <1>1, <3>1, <3>2, <3>3 DEF ToSet
  <2>. DEFINE r == Tail(paused)
  <2>3. {paused[i] : i \in 1..1} = {paused[1]}
    OBVIOUS
  <2>4. r \in Seq(Threads) /\ Ordered(r, timeval) /\ ToSet(r) = ToSet(paused) \ {paused[1]}
    BY <1>1, <2>2, <2>3, CutOrdered
  <2>. HIDE DEF r
  <2>5. /\ Ordered(InsertTimed(r, cur, timeval), timeval)
        /\ ToSet(InsertTimed(r, cur, timeval)) = ToSet(r) \cup {cur}
    <3>1. timeval \in [Threads -> Nat]
      BY ConstantsAssumption DEF TypeOK
    <3>. QED
      BY <1>1, <2>4, <3>1, InsertOrdered
  <2>6. Ordered(paused', timeval') /\ ToSet(paused') = ToSet(r) \cup {cur}
    BY <1>1, <2>1, <2>4, <2>5 DEF r
  <2>. QED
    BY <1>4, <2>1, <2>2, <2>4, <2>6
<1>. QED
  BY <1>2, <1>3, <1>4

\* Every step keeps the paused list in order.
LEMMA NextOrdered == TypeOK /\ TypeOK' /\ PausedOrdered /\ [Next]_vars => PausedOrdered'
<1>. SUFFICES ASSUME TypeOK, TypeOK', PausedOrdered, [Next]_vars PROVE PausedOrdered'
  OBVIOUS
<1>1. Ordered(paused, timeval) /\ (Ordered(paused', timeval') => PausedOrdered')
  BY OrderedPaused, OrderedPausedNext
<1>2. ASSUME UNCHANGED <<paused, timeval>> PROVE PausedOrdered'
  BY <1>1, <1>2
<1>3. ASSUME NEW f, NEW d \in Delays \cup {Forever}, Blocker(f, d) PROVE PausedOrdered'
  BY <1>1, <1>3, PauseStep DEF Blocker
<1>4. ASSUME NEW c, SignalOne(c) PROVE PausedOrdered'
  BY <1>1, <1>4, WakeFirstPaused DEF SignalOne
<1>5. call[cur] \in Calls
  BY DEF TypeOK
<1>6. CASE UNCHANGED vars
  BY <1>2, <1>6 DEF vars, queues, fields
<1>7. CASE Client
  <2>1. ASSUME NEW t \in Threads, ThreadStart(t) \/ ThreadTerminate(t) PROVE PausedOrdered'
    BY <2>1, <1>1, <1>2, ThreadTerminatePaused DEF ThreadStart
  <2>2. ASSUME NEW t \in Threads, NEW d \in Delays, ThreadJoin(t, d) PROVE PausedOrdered'
    BY <2>2, <1>1, JoinPaused DEF ThreadJoin, Events
  <2>3. ASSUME NEW d \in Delays, ThreadSleep(d) PROVE PausedOrdered'
    BY <2>3, <1>1, PauseStep DEF ThreadSleep, Pause
  <2>4. ASSUME NEW m \in Mutexes, NEW d \in Delays, MutexLock(m, d) PROVE PausedOrdered'
    BY <2>4, <1>1, LockPaused DEF MutexLock
  <2>5. ASSUME NEW m \in Mutexes, MutexUnlock(m) PROVE PausedOrdered'
    BY <2>5, <1>1, MutexUnlockPaused
  <2>6. ASSUME NEW m \in Mutexes, NEW c \in CondVars, NEW d \in Delays,
               MutexUnlockWait(m, c, d)
        PROVE  PausedOrdered'
    BY <2>6, <1>1, MutexUnlockWaitPaused
  <2>7. ASSUME NEW c \in CondVars, CondVarSignal(c) PROVE PausedOrdered'
    BY <2>7, <1>4 DEF CondVarSignal
  <2>8. ASSUME NEW c \in CondVars, CondVarBroadcast(c) PROVE PausedOrdered'
    BY <2>8, <1>2 DEF CondVarBroadcast, queues, fields
  <2>9. ASSUME NEW f \in Fds, NEW d \in Delays, Block(f, d) PROVE PausedOrdered'
    BY <2>9, <1>3 DEF Block
  <2>10. CASE Finish \/ Raise
    BY <2>10, <1>2 DEF Finish, Raise, EndLoop, queues
  <2>. QED
    BY <1>7, <2>1, <2>2, <2>3, <2>4, <2>5, <2>6, <2>7, <2>8, <2>9, <2>10 DEF Client
<1>8. CASE Continue
  <2>1. CASE ThreadJoinAgain
    BY <2>1, <1>1, <1>2, <1>5, JoinPaused DEF ThreadJoinAgain, Calls, queues, fields
  <2>2. CASE MutexLockAgain
    BY <2>2, <1>1, <1>2, <1>5, LockPaused DEF MutexLockAgain, Calls, queues, fields
  <2>3. CASE WaitOver \/ PopSignal \/ RunnerSleep \/ RunnerLoop
    BY <2>3, <1>2 DEF WaitOver, PopSignal, RunnerSleep, RunnerLoop, queues, fields
  <2>4. CASE BlockAgain
    BY <2>4, <1>2, <1>3 DEF BlockAgain, queues, fields
  <2>5. CASE BroadcastStep
    BY <2>5, <1>4 DEF BroadcastStep
  <2>. QED
    BY <1>8, <2>1, <2>2, <2>3, <2>4, <2>5 DEF Continue
<1>9. CASE Scheduler
  <2>1. CASE CheckSignals \/ Poll \/ NapOver
    BY <2>1, <1>2 DEF CheckSignals, Poll, NapOver, queues, fields
  <2>2. CASE PollWake
    <3>1. \/ UNCHANGED queues
          \/ \E f \in revents : WaitersAt(f) # {} /\ WakeToBack(Min(WaitersAt(f)))
      BY <2>2 DEF PollWake
    <3>2. timeval' = timeval
      BY <2>2 DEF PollWake
    <3>. QED
      BY <3>1, <3>2, <1>1, <1>2, WakeToBackPaused DEF queues
  <2>3. CASE WakeJoiners
    BY <2>3, <1>1, <1>2, WakeToBackPaused DEF WakeJoiners, queues
  <2>4. CASE CheckTimeouts \/ Dequeue \/ Pick
    BY <2>4, <1>1, CheckTimeoutsPaused, DequeuePaused, PickPaused
  <2>. QED
    BY <1>9, <2>1, <2>2, <2>3, <2>4 DEF Scheduler
<1>10. CASE \/ \E s \in Signums : SignalArrives(s)
            \/ Preempt \/ Yield \/ Resume \/ Tick \/ Halted
  BY <1>10, <1>2, <1>6 DEF SignalArrives, Preempt, Yield, Resume, EndLoop, Tick, Halted, queues, fields
<1>. QED
  BY <1>6, <1>7, <1>8, <1>9, <1>10 DEF Next

\* The paused list has each thread once, the timed ones first and by deadline, as
\* sexp_insert_timed leaves it and the timeout check of the scheduler expects it,
\* whatever threads, timeouts and wake-ups there are.
THEOREM PausedAlwaysOrdered == Spec => []PausedOrdered
<1>1. Init => PausedOrdered
  BY DEF Init, PausedOrdered
<1>. QED
  BY <1>1, NextOrdered, TypeCorrect, PTL DEF Spec

-----------------------------------------------------------------------------
(* A thread that finds itself timed out has reached its deadline.          *)

\* A thread that runs does not wait, except between the primitive that paused it
\* and the thread-yield! that follows.
RunsReady ==
  phase \in {"vm", "broadcast"} /\ waitp[cur] = 1 => phase = "vm" /\ pc[cur] = "yield"

\* Every step keeps RunsReady: the VM is entered by Resume alone.
LEMMA NextReady == TypeOK /\ RunsReady /\ [Next]_vars => RunsReady'
<1>. SUFFICES ASSUME TypeOK, RunsReady, [Next]_vars PROVE RunsReady'
  OBVIOUS
<1>1. ASSUME phase' \notin {"vm", "broadcast"} PROVE RunsReady'
  BY <1>1 DEF RunsReady
<1>2. ASSUME phase' = phase, pc'[cur] = "yield", cur' = cur, phase = "vm" PROVE RunsReady'
  BY <1>2 DEF RunsReady
<1>3. ASSUME waitp'[cur] = waitp[cur], cur' = cur, waitp[cur] = 0 PROVE RunsReady'
  BY <1>3 DEF RunsReady
<1>4. CASE UNCHANGED vars
  BY <1>4 DEF vars, fields, code, RunsReady
<1>5. waitp[cur] \in {0, 1} /\ cur \in Threads
  BY DEF TypeOK
<1>6. ASSUME phase = "vm", pc[cur] # "yield" PROVE waitp[cur] = 0
  BY <1>5, <1>6 DEF RunsReady
<1>8. ASSUME Return, UNCHANGED <<cur, phase, waitp>>, phase = "vm", pc[cur] # "yield" PROVE RunsReady'
  BY <1>3, <1>6, <1>8
<1>9. ASSUME NEW q, NEW e, NEW d, NEW c, Pause(q, e, d, c), cur' = cur, phase' = phase, phase = "vm"
      PROVE  RunsReady'
  BY <1>9, <1>2 DEF Pause, TypeOK
<1>10. ASSUME NEW m, NEW d, Lock(m, d), phase = "vm", pc[cur] # "yield" PROVE RunsReady'
  BY <1>10, <1>8, <1>9 DEF Lock, fields
<1>11. ASSUME NEW t, NEW d, Join(t, d), phase = "vm", pc[cur] # "yield" PROVE RunsReady'
  BY <1>11, <1>8, <1>9 DEF Join, fields
<1>12. ASSUME NEW c, SignalOne(c), waitp[cur] = 0 PROVE RunsReady'
  BY <1>12, <1>5 DEF SignalOne, Cleared, RunsReady
<1>13. CASE Client
  <2>. USE DEF Runs
  <2>1. ASSUME NEW t \in Threads, ThreadStart(t) PROVE RunsReady'
    BY <2>1, <1>3, <1>6 DEF ThreadStart
  <2>2. ASSUME NEW t \in Threads, ThreadTerminate(t) PROVE RunsReady'
    BY <2>2, <1>3, <1>6 DEF ThreadTerminate
  <2>3. ASSUME NEW t \in Threads, NEW d \in Delays, ThreadJoin(t, d) PROVE RunsReady'
    BY <2>3, <1>11 DEF ThreadJoin
  <2>4. ASSUME NEW d \in Delays, ThreadSleep(d) PROVE RunsReady'
    BY <2>4, <1>9 DEF ThreadSleep
  <2>5. ASSUME NEW m \in Mutexes, NEW d \in Delays, MutexLock(m, d) PROVE RunsReady'
    BY <2>5, <1>10 DEF MutexLock
  <2>6. ASSUME NEW m \in Mutexes, MutexUnlock(m) PROVE RunsReady'
    <3>1. waitp'[cur] = 0 /\ cur' = cur
      BY <2>6, <1>5, <1>6 DEF MutexUnlock, Cleared
    <3>. QED
      BY <3>1 DEF RunsReady
  <2>7. ASSUME NEW m \in Mutexes, NEW c \in CondVars, NEW d \in Delays,
               MutexUnlockWait(m, c, d)
        PROVE  RunsReady'
    BY <2>7, <1>2 DEF MutexUnlockWait, TypeOK
  <2>8. ASSUME NEW c \in CondVars, CondVarSignal(c) \/ CondVarBroadcast(c) PROVE RunsReady'
    BY <2>8, <1>3, <1>6, <1>12 DEF CondVarSignal, CondVarBroadcast, fields
  <2>9. ASSUME NEW f \in Fds, NEW d \in Delays, Block(f, d) PROVE RunsReady'
    BY <2>9, <1>1 DEF Block, Blocker
  <2>10. CASE Finish \/ Raise
    BY <2>10, <1>1 DEF Finish, Raise, EndLoop
  <2>. QED
    BY <1>13, <2>1, <2>2, <2>3, <2>4, <2>5, <2>6, <2>7, <2>8, <2>9, <2>10 DEF Client
<1>14. CASE Continue
  <2>. USE DEF Resumes
  <2>1. CASE ThreadJoinAgain
    BY <2>1, <1>8, <1>11 DEF ThreadJoinAgain, fields
  <2>2. CASE MutexLockAgain
    BY <2>2, <1>8, <1>10 DEF MutexLockAgain, fields
  <2>3. CASE WaitOver
    BY <2>3, <1>8 DEF WaitOver, fields
  <2>4. CASE BlockAgain
    BY <2>4, <1>1, <1>8 DEF BlockAgain, Blocker, fields
  <2>5. CASE BroadcastStep
    BY <2>5, <1>5, <1>12 DEF BroadcastStep, RunsReady
  <2>6. CASE PopSignal
    BY <2>6, <1>3, <1>6 DEF PopSignal, fields
  <2>8. CASE RunnerSleep
    BY <2>8, <1>2 DEF RunnerSleep, TypeOK
  <2>7. CASE RunnerLoop
    BY <2>7, <1>3, <1>6 DEF RunnerLoop, fields
  <2>. QED
    BY <1>14, <2>1, <2>2, <2>3, <2>4, <2>5, <2>6, <2>7, <2>8 DEF Continue
<1>15. CASE Scheduler
  <2>1. phase' \notin {"vm", "broadcast"}
    BY <1>15 DEF Scheduler, CheckSignals, Poll, PollWake, WakeJoiners, CheckTimeouts, Dequeue,
       Pick, NapOver
  <2>. QED
    BY <1>1, <2>1
<1>16. CASE Preempt \/ Yield
  BY <1>1, <1>16 DEF Preempt, Yield
<1>17. CASE Resume
  BY <1>1, <1>5, <1>17 DEF Resume, EndLoop, fields, RunsReady
<1>18. CASE (\E s \in Signums : SignalArrives(s)) \/ Tick
  BY <1>18 DEF SignalArrives, Tick, fields, code, RunsReady
<1>. QED
  BY <1>4, <1>13, <1>14, <1>15, <1>16, <1>17, <1>18 DEF Next, Halted

\* Timeouts are pending inside a wait only, and a thread marked as timed out and
\* ready has reached its deadline, or will when the nap is over.
DueInv ==
  /\ signals = {}
  /\ \A t \in Threads : call[t].delay # Forever => pc[t] \in {"yield", "check"}
  /\ \A t \in Threads :
       waitp[t] = 0 /\ timeoutp[t] = 1 /\ call[t].delay # Forever
       => timeval[t] <= now \/ (phase = "nap" /\ t = cur /\ timeval[t] <= napUntil)

\* The induction step for a step outside the nap, reduced to the waits it ends:
\* either they were over before, or they are cut short, or they are due.
LEMMA DueStep ==
  ASSUME TypeOK, DueInv, phase # "nap", signals' = signals, now' = now,
         \A t \in Threads : call'[t].delay # Forever => pc'[t] \in {"yield", "check"},
         \A t \in Threads :
           \/ /\ waitp'[t] = waitp[t] /\ timeoutp'[t] = timeoutp[t]
              /\ call'[t].delay = call[t].delay /\ timeval'[t] = timeval[t]
           \/ waitp'[t] = 1 \/ timeoutp'[t] = 0 \/ call'[t].delay = Forever
           \/ timeval'[t] <= now'
  PROVE  DueInv'
<1>1. \A t \in Threads : waitp'[t] = 0 /\ timeoutp'[t] = 1 /\ call'[t].delay # Forever
                          => timeval'[t] <= now'
  BY DEF DueInv
<1>. QED
  BY <1>1 DEF DueInv

\* Every step keeps DueInv when no signal interrupts a nap.
LEMMA NextDue ==
  ASSUME Signums = {}
  PROVE  TypeOK /\ TypeOK' /\ PausedOrdered /\ RunsReady /\ DueInv /\ [Next]_vars => DueInv'
<1>. SUFFICES ASSUME TypeOK, TypeOK', PausedOrdered, RunsReady, DueInv, [Next]_vars PROVE DueInv'
  OBVIOUS
<1>1. CASE UNCHANGED vars
  BY <1>1 DEF vars, fields, code, world, DueInv
<1>2. /\ cur \in Threads /\ waitp[cur] \in {0, 1} /\ NoCall.delay = Forever
      /\ \A t \in Threads : call[t].delay # Forever => pc[t] \in {"yield", "check"}
      /\ waitp \in [Threads -> {0, 1}] /\ timeoutp \in [Threads -> {0, 1}]
      /\ pc \in [Threads -> PCs] /\ call \in [Threads -> Calls] /\ timeval \in [Threads -> 0..MaxTime]
  BY DEF TypeOK, NoCall, DueInv
<1>3. ASSUME Return, UNCHANGED <<signals, now, waitp, timeoutp, timeval>>, phase = "vm" PROVE DueInv'
  BY <1>2, <1>3, DueStep DEF Return
<1>4. ASSUME NEW q, NEW e, NEW d, NEW c, Pause(q, e, d, c), UNCHANGED <<signals, now>>, phase = "vm",
             \A t \in Threads : t # cur => timeoutp'[t] = timeoutp[t]
      PROVE  DueInv'
  BY <1>2, <1>4, DueStep DEF Pause
<1>5. ASSUME NEW m, NEW d, Lock(m, d), phase = "vm" PROVE DueInv'
  BY <1>5, <1>3, <1>4 DEF Lock, fields, world
<1>6. ASSUME NEW t, NEW d, Join(t, d), phase = "vm" PROVE DueInv'
  BY <1>6, <1>2, <1>3, <1>4 DEF Join, fields, world
<1>7. ASSUME NEW c, SignalOne(c), phase # "nap", \A t \in Threads : call'[t].delay \in {Forever, call[t].delay}
      PROVE DueInv'
  BY <1>2, <1>7, DueStep DEF SignalOne, Cleared, world
<1>8. ASSUME NEW f, NEW d, Blocker(f, d), phase = "vm" PROVE DueInv'
  BY <1>2, <1>8, DueStep DEF Blocker
<1>9. ASSUME NEW r, EndLoop(r), phase # "nap" PROVE DueInv'
  BY <1>2, <1>9, DueStep DEF EndLoop, world
<1>13. CASE Client
  <2>. USE DEF Runs
  <2>1. ASSUME NEW t \in Threads, ThreadStart(t) PROVE DueInv'
    BY <2>1, <1>2, DueStep DEF ThreadStart, world
  <2>2. ASSUME NEW t \in Threads, ThreadTerminate(t) PROVE DueInv'
    BY <2>2, <1>2, DueStep DEF ThreadTerminate, world
  <2>3. ASSUME NEW t \in Threads, NEW d \in Delays, ThreadJoin(t, d) PROVE DueInv'
    BY <2>3, <1>6 DEF ThreadJoin
  <2>4. ASSUME NEW d \in Delays, ThreadSleep(d) PROVE DueInv'
    BY <2>4, <1>4 DEF ThreadSleep, world
  <2>5. ASSUME NEW m \in Mutexes, NEW d \in Delays, MutexLock(m, d) PROVE DueInv'
    BY <2>5, <1>5 DEF MutexLock
  <2>6. ASSUME NEW m \in Mutexes, MutexUnlock(m) PROVE DueInv'
    BY <2>6, <1>2, DueStep DEF MutexUnlock, Cleared, code, world
  <2>7. ASSUME NEW m \in Mutexes, NEW c \in CondVars, NEW d \in Delays,
               MutexUnlockWait(m, c, d)
        PROVE  DueInv'
    BY <2>7, <1>2, DueStep DEF MutexUnlockWait, Cleared, world
  <2>8. ASSUME NEW c \in CondVars, CondVarSignal(c) PROVE DueInv'
    BY <2>8, <1>7 DEF CondVarSignal
  <2>9. ASSUME NEW c \in CondVars, CondVarBroadcast(c) PROVE DueInv'
    BY <2>9, <1>2, DueStep DEF CondVarBroadcast, Call, fields, world
  <2>10. ASSUME NEW f \in Fds, NEW d \in Delays, Block(f, d) PROVE DueInv'
    BY <2>10, <1>8 DEF Block
  <2>11. CASE Finish \/ Raise
    BY <2>11, <1>9 DEF Finish, Raise
  <2>. QED
    BY <1>13, <2>1, <2>2, <2>3, <2>4, <2>5, <2>6, <2>7, <2>8, <2>9, <2>10, <2>11 DEF Client
<1>14. CASE Continue
  <2>. USE DEF Resumes
  <2>1. CASE ThreadJoinAgain
    BY <2>1, <1>3, <1>6 DEF ThreadJoinAgain, fields, world
  <2>2. CASE MutexLockAgain
    BY <2>2, <1>3, <1>5 DEF MutexLockAgain, fields, world
  <2>3. CASE WaitOver
    BY <2>3, <1>3 DEF WaitOver, fields, world
  <2>4. CASE BlockAgain
    BY <2>4, <1>3, <1>8 DEF BlockAgain, fields, world
  <2>5. CASE BroadcastStep
    BY <2>5, <1>2, <1>7 DEF BroadcastStep
  <2>6. CASE PopSignal
    <3>1. signals = {}
      BY DEF DueInv
    <3>. QED
      BY <2>6, <3>1, <1>2, DueStep DEF PopSignal, fields
  <2>8. CASE RunnerSleep
    BY <2>8, <1>2, DueStep DEF RunnerSleep, Call, world
  <2>7. CASE RunnerLoop
    BY <2>7, <1>2, DueStep DEF RunnerLoop, fields, world
  <2>. QED
    BY <1>14, <2>1, <2>2, <2>3, <2>4, <2>5, <2>6, <2>7, <2>8 DEF Continue
<1>15. CASE Scheduler
  <2>1. CASE CheckSignals
    <3>1. signals = {}
      BY DEF DueInv
    <3>. QED
      BY <2>1, <3>1, <1>2, DueStep DEF CheckSignals, world
  <2>2. CASE Poll
    BY <2>2, <1>2, DueStep DEF Poll, fields, code
  <2>3. CASE PollWake
    <3>1. \A t \in Threads : /\ timeoutp'[t] = 0 \/ (waitp'[t] = waitp[t] /\ timeoutp'[t] = timeoutp[t])
      BY <2>3, <1>2 DEF PollWake, WakeToBack
    <3>. QED
      BY <2>3, <3>1, <1>2, DueStep DEF PollWake, code
  <2>4. CASE WakeJoiners
    <3>1. \A t \in Threads : /\ timeoutp'[t] = 0 \/ (waitp'[t] = waitp[t] /\ timeoutp'[t] = timeoutp[t])
      BY <2>4, <1>2 DEF WakeJoiners, WakeToBack
    <3>. QED
      BY <2>4, <3>1, <1>2, DueStep DEF WakeJoiners, code, world
  <2>5. CASE CheckTimeouts
    <3>1. \A u \in Due : timeval[u] < now
      BY <2>5, CheckTimeoutsPaused
    <3>2. now \in Nat /\ \A u \in Due \cap Threads : timeval[u] <= now
      BY <3>1, ConstantsAssumption, SMTT(30) DEF TypeOK
    <3>. QED
      BY <2>5, <3>2, <1>2, DueStep DEF CheckTimeouts, Cleared, code, world
  <2>6. CASE Dequeue
    <3>1. timeval' = timeval \/ (waitp[cur] = 1 /\ timeval' = [timeval EXCEPT ![cur] = 0])
      BY <2>6, <1>2 DEF Dequeue
    <3>. QED
      BY <2>6, <3>1, <1>2, DueStep DEF Dequeue, code, world
  <2>7. CASE Pick
    <3>1. CASE waitp[cur] = 0
      BY <2>7, <3>1, <1>2, DueStep DEF Pick, code
    <3>2. CASE waitp[cur] # 0
      <4>. DEFINE res == IF paused # <<>> /\ Before(timeval, paused[1], timeval[cur]) THEN paused[1] ELSE cur
      <4>1. /\ cur' = res /\ phase' = "nap" /\ UNCHANGED <<timeval, signals, now, call, pc>>
            /\ \/ UNCHANGED <<waitp, timeoutp>>
               \/ /\ waitp' = [waitp EXCEPT ![res] = 0] /\ timeoutp' = [timeoutp EXCEPT ![res] = 1]
                  /\ napUntil' = timeval[res]
        BY <2>7, <3>2 DEF Pick, code
      <4>. HIDE DEF res
      <4>2. cur' \in Threads /\ timeval[cur'] <= timeval[cur'] /\ phase = "pick"
        BY <2>7, ConstantsAssumption DEF TypeOK, Pick
      <4>. QED
        BY <1>2, <4>1, <4>2 DEF DueInv
    <3>. QED
      BY <3>1, <3>2
  <2>8. CASE NapOver
    <3>1. now >= napUntil /\ signals = {} /\ now \in Nat /\ napUntil \in Nat
      BY <2>8, ConstantsAssumption DEF NapOver, DueInv, TypeOK
    <3>2. \A t \in Threads : timeval[t] \in Nat
      BY ConstantsAssumption DEF TypeOK
    <3>. QED
      BY <2>8, <3>1, <3>2 DEF NapOver, DueInv, fields, code
  <2>. QED
    BY <1>15, <2>1, <2>2, <2>3, <2>4, <2>5, <2>6, <2>7, <2>8 DEF Scheduler
<1>16. CASE Preempt \/ Yield
  BY <1>2, <1>16, DueStep DEF Preempt, Yield, fields, code, world
<1>17. CASE Resume
  <2>1. CASE refuel[cur] = 0
    BY <2>1, <1>9, <1>17 DEF Resume
  <2>2. CASE refuel[cur] # 0
    BY <2>2, <1>2, <1>17, DueStep DEF Resume, fields, code, world
  <2>. QED
    BY <2>1, <2>2
<1>18. CASE Tick
  <2>1. now' = now + 1 /\ now \in Nat /\ \A t \in Threads : timeval[t] \in Nat
    BY <1>18, ConstantsAssumption DEF Tick, TypeOK
  <2>. QED
    BY <1>18, <2>1 DEF Tick, fields, code, DueInv
<1>. QED
  BY <1>1, <1>13, <1>14, <1>15, <1>16, <1>17, <1>18 DEF Next, Halted

\* Without signals (one that arrives interrupts the scheduler's nap, and the
\* thread is marked as timed out up to one nap early), a thread that finds
\* thread-timeout? true when it runs again has reached its deadline.
THEOREM TimeoutAlwaysDue ==
  ASSUME Signums = {} PROVE Spec => []TimeoutIsDue
<1>1. Init => RunsReady /\ DueInv
  BY ConstantsAssumption DEF Init, RunsReady, DueInv, NoCall
<1>2. TypeOK /\ RunsReady /\ DueInv => TimeoutIsDue
  BY DEF TypeOK, RunsReady, DueInv, TimeoutIsDue
<1>3. TypeOK /\ TypeOK' /\ PausedOrdered /\ RunsReady /\ DueInv /\ [Next]_vars => DueInv'
  BY NextDue
<1>. QED
  BY <1>1, <1>2, <1>3, NextReady, TypeCorrect, PausedAlwaysOrdered, PTL DEF Spec

-----------------------------------------------------------------------------
(* A thread that has terminated wakes those that join it.                  *)

\* Whoever waits is the current thread or paused.
WaitersHeld ==
  \A t \in Threads : refuel[t] # 0 /\ waitp[t] = 1 /\ t # cur => t \in ToSet(paused)

\* A step that keeps the current thread: who still waits after it waited before
\* and has kept its place.
LEMMA WaitersStep ==
  ASSUME WaitersHeld, cur' = cur,
         \A t \in Threads : t # cur /\ refuel'[t] # 0 /\ waitp'[t] = 1 =>
           refuel[t] # 0 /\ waitp[t] = 1 /\ (t \in ToSet(paused) => t \in ToSet(paused'))
  PROVE  WaitersHeld'
BY DEF WaitersHeld

\* Every step keeps WaitersHeld.
LEMMA NextWaiters == TypeOK /\ PausedOrdered /\ WaitersHeld /\ [Next]_vars => WaitersHeld'
<1>. SUFFICES ASSUME TypeOK, PausedOrdered, WaitersHeld, [Next]_vars PROVE WaitersHeld'
  OBVIOUS
<1>1. /\ cur \in Threads /\ waitp[cur] \in {0, 1} /\ waitp \in [Threads -> {0, 1}]
      /\ refuel \in [Threads -> {0, 1}]
  BY DEF TypeOK
<1>2. ASSUME UNCHANGED <<cur, paused, refuel, waitp>> PROVE WaitersHeld'
  BY <1>2, WaitersStep
<1>3. ASSUME ToSet(paused) \subseteq ToSet(paused'), UNCHANGED <<cur, refuel>>,
             waitp' = [waitp EXCEPT ![cur] = 1]
      PROVE  WaitersHeld'
  BY <1>1, <1>3, WaitersStep
<1>4. ASSUME NEW W, ToSet(paused') = ToSet(paused) \ W, waitp' = Cleared(waitp, W), UNCHANGED <<cur, refuel>>
      PROVE  WaitersHeld'
  BY <1>1, <1>4, WaitersStep DEF Cleared
<1>5. ASSUME NEW e, WaitersAt(e) # {}, WakeToBack(Min(WaitersAt(e))), UNCHANGED <<cur, refuel, timeval>>
      PROVE  WaitersHeld'
  <2>1. ToSet(paused') = ToSet(paused) \ {paused[Min(WaitersAt(e))]}
    BY <1>5, WakeToBackPaused
  <2>. QED
    BY <1>1, <1>5, <2>1, WaitersStep DEF WakeToBack
<1>6. ASSUME NEW t, NEW d \in Delays \cup {Forever}, Join(t, d) PROVE WaitersHeld'
  <2>1. CASE refuel[t] = 0
    BY <1>2, <1>6, <2>1 DEF Join, queues, fields
  <2>2. CASE refuel[t] # 0
    BY <1>3, <1>6, <2>2, JoinPaused DEF Join, Pause
  <2>. QED
    BY <2>1, <2>2
<1>7. ASSUME NEW m, NEW d \in Delays \cup {Forever}, Lock(m, d) PROVE WaitersHeld'
  <2>1. CASE lockp[m] = 0
    BY <1>2, <1>7, <2>1 DEF Lock, queues, fields
  <2>2. CASE lockp[m] # 0
    BY <1>3, <1>7, <2>2, LockPaused DEF Lock, Pause
  <2>. QED
    BY <2>1, <2>2
<1>8. ASSUME NEW f, NEW d \in Delays \cup {Forever}, Blocker(f, d) PROVE WaitersHeld'
  BY <1>3, <1>8, PauseStep DEF Blocker
<1>9. ASSUME NEW c, SignalOne(c) PROVE WaitersHeld'
  BY <1>4, <1>9, WakeFirstPaused DEF SignalOne
<1>10. ASSUME NEW r, EndLoop(r) PROVE WaitersHeld'
  BY <1>1, <1>10, WaitersStep DEF EndLoop, queues
<1>11. call[cur] \in Calls
  BY DEF TypeOK
<1>12. CASE UNCHANGED vars
  BY <1>2, <1>12 DEF vars, queues, fields
<1>13. CASE Client
  <2>1. ASSUME NEW t \in Threads, ThreadStart(t) PROVE WaitersHeld'
    BY <2>1, <1>2 DEF ThreadStart
  <2>2. ASSUME NEW t \in Threads, ThreadTerminate(t) PROVE WaitersHeld'
    <3>1. ToSet(paused') = ToSet(paused) \ {t}
      BY <2>2, ThreadTerminatePaused
    <3>. QED
      BY <2>2, <3>1, <1>1, WaitersStep DEF ThreadTerminate
  <2>3. ASSUME NEW t \in Threads, NEW d \in Delays, ThreadJoin(t, d) PROVE WaitersHeld'
    BY <2>3, <1>6 DEF ThreadJoin
  <2>4. ASSUME NEW d \in Delays, ThreadSleep(d) PROVE WaitersHeld'
    BY <2>4, <1>3, PauseStep DEF ThreadSleep, Pause
  <2>5. ASSUME NEW m \in Mutexes, NEW d \in Delays, MutexLock(m, d) PROVE WaitersHeld'
    BY <2>5, <1>7 DEF MutexLock
  <2>6. ASSUME NEW m \in Mutexes, MutexUnlock(m) PROVE WaitersHeld'
    BY <2>6, <1>2, <1>4, MutexUnlockPaused DEF MutexUnlock, queues
  <2>7. ASSUME NEW m \in Mutexes, NEW c \in CondVars, NEW d \in Delays,
               MutexUnlockWait(m, c, d)
        PROVE  WaitersHeld'
    <3>1. ToSet(paused') = (ToSet(paused) \ IF lockp[m] = 1 THEN Woken(m) ELSE {}) \cup {cur}
      BY <2>7, MutexUnlockWaitPaused
    <3>. QED
      BY <2>7, <3>1, <1>1, WaitersStep DEF MutexUnlockWait, Cleared
  <2>8. ASSUME NEW c \in CondVars, CondVarSignal(c) \/ CondVarBroadcast(c) PROVE WaitersHeld'
    BY <2>8, <1>2, <1>9 DEF CondVarSignal, CondVarBroadcast, queues, fields
  <2>9. ASSUME NEW f \in Fds, NEW d \in Delays, Block(f, d) PROVE WaitersHeld'
    BY <2>9, <1>8 DEF Block
  <2>10. CASE Finish \/ Raise
    BY <2>10, <1>10 DEF Finish, Raise
  <2>. QED
    BY <1>13, <2>1, <2>2, <2>3, <2>4, <2>5, <2>6, <2>7, <2>8, <2>9, <2>10 DEF Client
<1>14. CASE Continue
  <2>1. CASE ThreadJoinAgain
    BY <2>1, <1>2, <1>6, <1>11 DEF ThreadJoinAgain, Calls, queues, fields
  <2>2. CASE MutexLockAgain
    BY <2>2, <1>2, <1>7, <1>11 DEF MutexLockAgain, Calls, queues, fields
  <2>3. CASE WaitOver \/ RunnerLoop
    BY <2>3, <1>2 DEF WaitOver, RunnerLoop, queues, fields
  <2>4. CASE BlockAgain
    BY <2>4, <1>2, <1>8 DEF BlockAgain, queues, fields
  <2>5. CASE BroadcastStep
    BY <2>5, <1>9 DEF BroadcastStep
  <2>6. CASE PopSignal
    BY <2>6, <1>2 DEF PopSignal, queues, fields
  <2>7. CASE RunnerSleep
    BY <2>7, <1>2, <1>3 DEF RunnerSleep, queues
  <2>. QED
    BY <1>14, <2>1, <2>2, <2>3, <2>4, <2>5, <2>6, <2>7 DEF Continue
<1>15. CASE Scheduler
  <2>1. CASE Poll \/ NapOver
    BY <2>1, <1>2 DEF Poll, NapOver, queues, fields
  <2>2. CASE CheckSignals
    BY <2>2, <1>1, WaitersStep DEF CheckSignals
  <2>3. CASE PollWake
    <3>1. \/ UNCHANGED queues /\ (waitp' = waitp \/ waitp' = [waitp EXCEPT ![cur] = 0])
          \/ \E f \in revents : WaitersAt(f) # {} /\ WakeToBack(Min(WaitersAt(f)))
      BY <2>3 DEF PollWake
    <3>2. UNCHANGED <<cur, refuel, timeval>>
      BY <2>3 DEF PollWake
    <3>3. CASE UNCHANGED queues /\ (waitp' = waitp \/ waitp' = [waitp EXCEPT ![cur] = 0])
      BY <3>2, <3>3, <1>1, WaitersStep DEF queues
    <3>. QED
      BY <3>1, <3>2, <3>3, <1>5
  <2>4. CASE WakeJoiners
    BY <2>4, <1>2, <1>5 DEF WakeJoiners, queues
  <2>5. CASE CheckTimeouts
    BY <2>5, <1>4, CheckTimeoutsPaused DEF CheckTimeouts
  <2>6. CASE Dequeue
    <3>1. ToSet(paused) \subseteq ToSet(paused') /\ waitp' = waitp /\ refuel' = refuel
      BY <2>6, DequeuePaused DEF Dequeue
    <3>2. cur' = cur \/ refuel[cur] = 0 \/ waitp[cur] = 0 \/ cur \in ToSet(paused')
      BY <2>6, <1>1, DequeuePaused DEF Dequeue
    <3>. QED
      BY <3>1, <3>2, <1>1 DEF WaitersHeld
  <2>7. CASE Pick
    <3>1. /\ ToSet(paused) \ {cur'} \subseteq ToSet(paused')
          /\ cur' = cur \/ cur \in ToSet(paused')
      BY <2>7, <1>1, PickPaused
    <3>2. \A t \in Threads : waitp'[t] = 1 => waitp[t] = 1
      BY <2>7, <1>1 DEF Pick
    <3>3. refuel' = refuel
      BY <2>7 DEF Pick
    <3>. QED
      BY <3>1, <3>2, <3>3, <1>1 DEF WaitersHeld
  <2>. QED
    BY <1>15, <2>1, <2>2, <2>3, <2>4, <2>5, <2>6, <2>7 DEF Scheduler
<1>16. CASE Resume
  BY <1>2, <1>10, <1>16 DEF Resume, queues, fields
<1>17. CASE (\E s \in Signums : SignalArrives(s)) \/ Preempt \/ Yield \/ Tick
  BY <1>2, <1>17 DEF SignalArrives, Preempt, Yield, Tick, queues, fields
<1>. QED
  BY <1>12, <1>13, <1>14, <1>15, <1>16, <1>17 DEF Next, Halted

\* The event of a thread in thread-join! is the thread it joins.
JoinEvents ==
  \A t \in Threads : call[t].op = "join" => call[t].on \in Threads /\ event[t] = call[t].on

\* A step in which nobody but the current thread changes its call, and that not
\* to a thread-join!.
LEMMA EventsStep ==
  ASSUME TypeOK, JoinEvents, NEW c, c.op # "join", call' = [call EXCEPT ![cur] = c],
         \A t \in Threads : t # cur => event'[t] = event[t]
  PROVE  JoinEvents'
BY DEF TypeOK, JoinEvents

\* Every step keeps JoinEvents.
LEMMA NextEvents == TypeOK /\ JoinEvents /\ [Next]_vars => JoinEvents'
<1>. SUFFICES ASSUME TypeOK, JoinEvents, [Next]_vars PROVE JoinEvents'
  OBVIOUS
<1>1. /\ cur \in Threads /\ event \in [Threads -> Events] /\ call \in [Threads -> Calls]
      /\ NoCall.op # "join" /\ \A op, on, d : Call(op, on, d).op = op /\ Call(op, on, d).on = on
  BY DEF TypeOK, NoCall, Call
<1>2. ASSUME UNCHANGED <<call, event>> PROVE JoinEvents'
  BY <1>2 DEF JoinEvents
<1>3. ASSUME Return, event' = event PROVE JoinEvents'
  BY <1>1, <1>3, EventsStep DEF Return
<1>4. ASSUME NEW q, NEW e, NEW d, NEW c, Pause(q, e, d, c), c.op # "join" PROVE JoinEvents'
  BY <1>1, <1>4, EventsStep DEF Pause
<1>5. ASSUME NEW t \in Threads, NEW d, Join(t, d) PROVE JoinEvents'
  <2>1. CASE refuel[t] = 0
    BY <1>3, <1>5, <2>1 DEF Join, fields
  <2>2. CASE refuel[t] # 0
    <3>1. /\ event' = [event EXCEPT ![cur] = t]
          /\ call' = [call EXCEPT ![cur] = Call("join", t, d)]
      BY <1>5, <2>2 DEF Join, Pause
    <3>. QED
      BY <1>1, <3>1 DEF JoinEvents
  <2>. QED
    BY <2>1, <2>2
<1>6. ASSUME NEW m, NEW d, Lock(m, d) PROVE JoinEvents'
  BY <1>1, <1>3, <1>4, <1>6 DEF Lock, fields
<1>7. ASSUME NEW f, NEW d, Blocker(f, d) PROVE JoinEvents'
  BY <1>1, <1>7, EventsStep DEF Blocker
<1>8. ASSUME NEW r, EndLoop(r) PROVE JoinEvents'
  BY <1>1, <1>8, EventsStep DEF EndLoop
<1>9. CASE UNCHANGED vars
  BY <1>2, <1>9 DEF vars, fields, code
<1>10. CASE Client
  <2>1. ASSUME NEW t \in Threads, ThreadStart(t) \/ ThreadTerminate(t) PROVE JoinEvents'
    BY <2>1, <1>2 DEF ThreadStart, ThreadTerminate
  <2>2. ASSUME NEW t \in Threads, NEW d \in Delays, ThreadJoin(t, d) PROVE JoinEvents'
    BY <2>2, <1>5 DEF ThreadJoin
  <2>3. ASSUME NEW d \in Delays, ThreadSleep(d) PROVE JoinEvents'
    BY <2>3, <1>1, <1>4 DEF ThreadSleep
  <2>4. ASSUME NEW m \in Mutexes, NEW d \in Delays, MutexLock(m, d) PROVE JoinEvents'
    BY <2>4, <1>6 DEF MutexLock
  <2>5. ASSUME NEW m \in Mutexes, MutexUnlock(m) PROVE JoinEvents'
    BY <2>5, <1>2 DEF MutexUnlock, code
  <2>6. ASSUME NEW m \in Mutexes, NEW c \in CondVars, NEW d \in Delays,
               MutexUnlockWait(m, c, d)
        PROVE  JoinEvents'
    BY <2>6, <1>1, EventsStep DEF MutexUnlockWait
  <2>7. ASSUME NEW c \in CondVars, CondVarSignal(c) PROVE JoinEvents'
    BY <2>7, <1>2 DEF CondVarSignal, SignalOne
  <2>8. ASSUME NEW c \in CondVars, CondVarBroadcast(c) PROVE JoinEvents'
    BY <2>8, <1>1, EventsStep DEF CondVarBroadcast, fields
  <2>9. ASSUME NEW f \in Fds, NEW d \in Delays, Block(f, d) PROVE JoinEvents'
    BY <2>9, <1>7 DEF Block
  <2>10. CASE Finish \/ Raise
    BY <2>10, <1>8 DEF Finish, Raise
  <2>. QED
    BY <1>10, <2>1, <2>2, <2>3, <2>4, <2>5, <2>6, <2>7, <2>8, <2>9, <2>10 DEF Client
<1>11. CASE Continue
  <2>1. CASE ThreadJoinAgain
    <3>1. call[cur].on \in Threads
      BY <2>1, <1>1 DEF ThreadJoinAgain, Resumes, JoinEvents
    <3>. QED
      BY <2>1, <3>1, <1>3, <1>5 DEF ThreadJoinAgain, fields
  <2>2. CASE MutexLockAgain
    BY <2>2, <1>3, <1>6 DEF MutexLockAgain, fields
  <2>3. CASE WaitOver
    BY <2>3, <1>3 DEF WaitOver, fields
  <2>4. CASE BlockAgain
    BY <2>4, <1>3, <1>7 DEF BlockAgain, fields
  <2>5. CASE BroadcastStep
    BY <2>5, <1>1, <1>2, EventsStep DEF BroadcastStep, SignalOne
  <2>6. CASE PopSignal
    BY <2>6, <1>2 DEF PopSignal, fields
  <2>8. CASE RunnerSleep
    BY <2>8, <1>1, <1>2, EventsStep DEF RunnerSleep
  <2>7. CASE RunnerLoop
    BY <2>7, <1>1, EventsStep DEF RunnerLoop, fields
  <2>. QED
    BY <1>11, <2>1, <2>2, <2>3, <2>4, <2>5, <2>6, <2>7, <2>8 DEF Continue
<1>12. CASE Scheduler
  <2>1. CASE CheckSignals \/ Poll \/ WakeJoiners \/ CheckTimeouts \/ Dequeue \/ Pick \/ NapOver
    BY <2>1, <1>2 DEF CheckSignals, Poll, WakeJoiners, CheckTimeouts, Dequeue, Pick, NapOver, fields, code
  <2>2. CASE PollWake
    <3>1. call' = call /\ \A t \in Threads : event'[t] = event[t] \/ event[t] \in Fds
      <4>1. PICK f \in revents :
              \/ event[cur] = f /\ event' = [event EXCEPT ![cur] = NoEvent]
              \/ /\ WaitersAt(f) # {}
                 /\ event' = [event EXCEPT ![paused[Min(WaitersAt(f))]] = NoEvent]
              \/ event' = event
        BY <2>2 DEF PollWake
      <4>2. f \in Fds /\ (WaitersAt(f) # {} => event[paused[Min(WaitersAt(f))]] = f)
        BY WaitersPaused DEF TypeOK
      <4>. QED
        BY <2>2, <1>1, <4>1, <4>2 DEF PollWake, code
    <3>. QED
      BY <3>1, <1>1, ConstantsAssumption DEF JoinEvents
  <2>. QED
    BY <1>12, <2>1, <2>2 DEF Scheduler
<1>13. CASE Resume
  BY <1>2, <1>8, <1>13 DEF Resume, fields, code
<1>14. CASE (\E s \in Signums : SignalArrives(s)) \/ Preempt \/ Yield \/ Tick
  BY <1>2, <1>14 DEF SignalArrives, Preempt, Yield, Tick, fields, code
<1>. QED
  BY <1>9, <1>10, <1>11, <1>12, <1>13, <1>14 DEF Next, Halted

\* The scheduler has woken everyone who joins a terminated thread before it
\* drops that thread.
JoinersDone ==
  phase \in {"timeouts", "dequeue"} /\ refuel[cur] = 0 => \A u \in ToSet(paused) : event[u] # cur

\* Every step keeps JoinersDone.
LEMMA NextJoinersDone == TypeOK /\ PausedOrdered /\ JoinersDone /\ [Next]_vars => JoinersDone'
<1>. SUFFICES ASSUME TypeOK, PausedOrdered, JoinersDone, [Next]_vars PROVE JoinersDone'
  OBVIOUS
<1>1. ASSUME phase' \notin {"timeouts", "dequeue"} PROVE JoinersDone'
  BY <1>1 DEF JoinersDone
<1>2. CASE UNCHANGED vars
  BY <1>2 DEF vars, queues, fields, JoinersDone
<1>3. CASE WakeJoiners
  <2>1. CASE refuel[cur] = 0 /\ WaitersAt(cur) # {}
    BY <1>1, <1>3, <2>1 DEF WakeJoiners
  <2>2. CASE ~(refuel[cur] = 0 /\ WaitersAt(cur) # {})
    <3>1. refuel[cur] = 0 => \A u \in ToSet(paused) : event[u] # cur
      BY <2>2, WaitersPaused
    <3>. QED
      BY <1>3, <2>2, <3>1 DEF WakeJoiners, queues, JoinersDone
  <2>. QED
    BY <2>1, <2>2
<1>4. CASE CheckTimeouts
  BY <1>4, CheckTimeoutsPaused DEF CheckTimeouts, JoinersDone
<1>5. CASE (\E s \in Signums : SignalArrives(s)) \/ Tick
  BY <1>5 DEF SignalArrives, Tick, queues, fields, JoinersDone
<1>6. CASE Client
  BY <1>1, <1>6 DEF Client, ThreadStart, ThreadTerminate, ThreadJoin, Join, ThreadSleep, MutexLock, Lock,
     MutexUnlock, MutexUnlockWait, CondVarSignal, CondVarBroadcast, Block, Blocker, Finish, Raise, EndLoop, Runs
<1>7. CASE Continue
  BY <1>1, <1>7 DEF Continue, ThreadJoinAgain, Join, MutexLockAgain, Lock, WaitOver, BlockAgain, Blocker,
     BroadcastStep, PopSignal, RunnerSleep, RunnerLoop, Resumes
<1>8. CASE CheckSignals \/ Poll \/ PollWake \/ Dequeue \/ Pick \/ NapOver
  BY <1>1, <1>8 DEF CheckSignals, Poll, PollWake, Dequeue, Pick, NapOver
<1>9. CASE Preempt \/ Yield \/ Resume
  BY <1>1, <1>9 DEF Preempt, Yield, Resume, EndLoop
<1>. QED
  BY <1>2, <1>3, <1>4, <1>5, <1>6, <1>7, <1>8, <1>9 DEF Next, Scheduler, Halted

\* A thread whose thunk has returned has no fuel, unless the program is over.
DoneInv == \A t \in Threads : pc[t] = "done" => refuel[t] = 0 \/ phase = "halted"

\* Every step keeps DoneInv.
LEMMA NextDone == TypeOK /\ DoneInv /\ [Next]_vars => DoneInv'
<1>. SUFFICES ASSUME TypeOK, DoneInv, [Next]_vars PROVE DoneInv'
  OBVIOUS
<1>1. ASSUME refuel' = refuel, phase # "halted", \A t \in Threads : pc'[t] = "done" => pc[t] = "done"
      PROVE  DoneInv'
  BY <1>1 DEF DoneInv
<1>2. CASE UNCHANGED vars
  BY <1>2 DEF vars, fields, code, DoneInv
<1>3. ASSUME NEW r, EndLoop(r), phase # "halted" PROVE DoneInv'
  BY <1>3 DEF EndLoop, TypeOK, DoneInv
<1>4. ASSUME NEW t \in Threads, ThreadTerminate(t) PROVE DoneInv'
  BY <1>4 DEF ThreadTerminate, Runs, TypeOK, DoneInv
<1>5. CASE Client
  <2>1. CASE Finish \/ Raise
    BY <1>3, <2>1 DEF Finish, Raise, Runs
  <2>2. CASE \E t \in Threads : ThreadTerminate(t)
    BY <1>4, <2>2
  <2>3. CASE ~(Finish \/ Raise \/ \E t \in Threads : ThreadTerminate(t))
    BY <1>1, <1>5, <2>3 DEF Client, ThreadStart, ThreadJoin, Join, ThreadSleep, MutexLock, Lock, Return, Pause,
       MutexUnlock, MutexUnlockWait, CondVarSignal, CondVarBroadcast, SignalOne, Block, Blocker, Runs, fields, code,
       TypeOK
  <2>. QED
    BY <2>1, <2>2, <2>3
<1>6. CASE Continue
  BY <1>1, <1>6 DEF Continue, ThreadJoinAgain, Join, MutexLockAgain, Lock, WaitOver, BlockAgain, Blocker, Return,
     Pause, BroadcastStep, SignalOne, PopSignal, RunnerSleep, RunnerLoop, Resumes, fields, TypeOK
<1>7. CASE Scheduler
  BY <1>1, <1>7 DEF Scheduler, CheckSignals, Poll, PollWake, WakeJoiners, CheckTimeouts, Dequeue, Pick, NapOver,
     fields, code, TypeOK
<1>8. CASE Resume
  BY <1>1, <1>3, <1>8 DEF Resume, fields, code
<1>9. CASE Preempt \/ Yield \/ Tick
  BY <1>1, <1>9 DEF Preempt, Yield, Tick, fields, code, TypeOK
<1>10. CASE \E s \in Signums : SignalArrives(s)
  BY <1>1, <1>10 DEF SignalArrives, fields, code
<1>. QED
  BY <1>2, <1>5, <1>6, <1>7, <1>8, <1>9, <1>10 DEF Next, Halted

\* What is joined is still to be scheduled, also for a thread that waits while
\* it is the current one.
JoinedHeld ==
  phase # "halted" =>
    \A u \in Threads :
      /\ call[u].op = "join" /\ refuel[u] # 0
      /\ u \in ToSet(paused) \/ waitp[u] = 1
      /\ refuel[call[u].on] = 0 /\ pc[call[u].on] # "unstarted"
      => call[u].on \in Held

\* Only the scheduler drops a thread, the current one, and only when it has
\* terminated.
LEMMA NextHolds ==
  TypeOK /\ PausedOrdered /\ [Next]_vars =>
    Held \subseteq Held' \/ (Dequeue /\ refuel[cur] = 0 /\ Held \ {cur} \subseteq Held')
<1>. DEFINE Goal == Held \subseteq Held' \/ (Dequeue /\ refuel[cur] = 0 /\ Held \ {cur} \subseteq Held')
<1>. SUFFICES ASSUME TypeOK, PausedOrdered, [Next]_vars PROVE Goal
  OBVIOUS
<1>1. cur \in Threads /\ front \in Seq(Threads) /\ paused \in Seq(Threads) /\ call[cur] \in Calls
  BY DEF TypeOK
<1>2. ASSUME UNCHANGED <<cur, queues>> PROVE Goal
  BY <1>2 DEF Held, queues
<1>3. ASSUME UNCHANGED <<cur, front>>, ToSet(paused) \subseteq ToSet(paused') PROVE Goal
  BY <1>3 DEF Held
<1>4. ASSUME NEW e, front' = FrontWith(e), paused' = PausedWithout(e), cur' = cur PROVE Goal
  BY <1>4, WakeFirst DEF Held
<1>5. ASSUME NEW e, WaitersAt(e) # {}, WakeToBack(Min(WaitersAt(e))), cur' = cur PROVE Goal
  BY <1>5, FirstWaiter, WakeToBackHeld
<1>6. ASSUME NEW t, NEW d \in Delays \cup {Forever}, Join(t, d) PROVE Goal
  BY <1>2, <1>3, <1>6, JoinPaused DEF Join
<1>7. ASSUME NEW m, NEW d \in Delays \cup {Forever}, Lock(m, d) PROVE Goal
  BY <1>2, <1>3, <1>7, LockPaused DEF Lock
<1>8. ASSUME NEW f, NEW d \in Delays \cup {Forever}, Blocker(f, d) PROVE Goal
  BY <1>3, <1>8, PauseStep DEF Blocker
<1>9. ASSUME NEW r, EndLoop(r) PROVE Goal
  BY <1>2, <1>9 DEF EndLoop
<1>. HIDE DEF Goal
<1>10. CASE UNCHANGED vars
  BY <1>2, <1>10 DEF vars
<1>11. CASE Client
  <2>1. ASSUME NEW t \in Threads, ThreadStart(t) PROVE Goal
    <3>1. ToSet(front') = ToSet(front) \cup {t}
      BY <2>1, <1>1, AppendSet DEF ThreadStart
    <3>. QED
      BY <2>1, <3>1 DEF ThreadStart, Held, Goal
  <2>2. ASSUME NEW t \in Threads, ThreadTerminate(t) PROVE Goal
    <3>1. ToSet(paused') = ToSet(paused) \ {t}
      BY <2>2, ThreadTerminatePaused
    <3>2. ToSet(Append(front, t)) = ToSet(front) \cup {t}
      BY <1>1, AppendSet
    <3>3. IF t \in ToSet(paused) THEN front' = Append(front, t) ELSE front' = front
      BY <2>2 DEF ThreadTerminate, queues
    <3>. QED
      BY <2>2, <3>1, <3>2, <3>3 DEF ThreadTerminate, Held, Goal
  <2>3. ASSUME NEW t \in Threads, NEW d \in Delays, ThreadJoin(t, d) PROVE Goal
    BY <2>3, <1>6 DEF ThreadJoin
  <2>4. ASSUME NEW d \in Delays, ThreadSleep(d) PROVE Goal
    BY <2>4, <1>3, PauseStep DEF ThreadSleep, Pause
  <2>5. ASSUME NEW m \in Mutexes, NEW d \in Delays, MutexLock(m, d) PROVE Goal
    BY <2>5, <1>7 DEF MutexLock
  <2>6. ASSUME NEW m \in Mutexes, MutexUnlock(m) PROVE Goal
    BY <2>6, <1>2, <1>4 DEF MutexUnlock
  <2>7. ASSUME NEW m \in Mutexes, NEW c \in CondVars, NEW d \in Delays,
               MutexUnlockWait(m, c, d)
        PROVE  Goal
    <3>. DEFINE rest == IF lockp[m] = 1 THEN PausedWithout(m) ELSE paused
    <3>1. /\ rest \in Seq(Threads)
          /\ ToSet(front) \cup ToSet(paused) \subseteq ToSet(front') \cup ToSet(rest)
      BY <2>7, <1>1, WakeFirst DEF MutexUnlockWait
    <3>2. paused' = InsertTimed(rest, cur, timeval') /\ cur' = cur
      BY <2>7 DEF MutexUnlockWait
    <3>. HIDE DEF rest
    <3>3. ToSet(rest) \subseteq ToSet(paused')
      BY <3>1, <3>2, <1>1, InsertTimedSet
    <3>. QED
      BY <3>1, <3>2, <3>3 DEF Held, Goal
  <2>8. ASSUME NEW c \in CondVars, CondVarSignal(c) \/ CondVarBroadcast(c) PROVE Goal
    BY <2>8, <1>2, <1>4 DEF CondVarSignal, SignalOne, CondVarBroadcast
  <2>9. ASSUME NEW f \in Fds, NEW d \in Delays, Block(f, d) PROVE Goal
    BY <2>9, <1>8 DEF Block
  <2>10. CASE Finish \/ Raise
    BY <2>10, <1>9 DEF Finish, Raise
  <2>. QED
    BY <1>11, <2>1, <2>2, <2>3, <2>4, <2>5, <2>6, <2>7, <2>8, <2>9, <2>10 DEF Client
<1>12. CASE Continue
  <2>1. CASE ThreadJoinAgain
    BY <2>1, <1>1, <1>2, <1>6 DEF ThreadJoinAgain, Calls
  <2>2. CASE MutexLockAgain
    BY <2>2, <1>1, <1>2, <1>7 DEF MutexLockAgain, Calls
  <2>3. CASE WaitOver \/ RunnerLoop \/ PopSignal \/ RunnerSleep
    BY <2>3, <1>2 DEF WaitOver, RunnerLoop, PopSignal, RunnerSleep
  <2>4. CASE BlockAgain
    BY <2>4, <1>2, <1>8 DEF BlockAgain
  <2>5. CASE BroadcastStep
    BY <2>5, <1>4 DEF BroadcastStep, SignalOne
  <2>. QED
    BY <1>12, <2>1, <2>2, <2>3, <2>4, <2>5 DEF Continue
<1>13. CASE Scheduler
  <2>1. CASE Poll \/ NapOver
    BY <2>1, <1>2 DEF Poll, NapOver
  <2>2. CASE CheckSignals
    <3>1. ToSet(front) \subseteq ToSet(front')
      <4>1. CASE front' = front
        BY <4>1
      <4>2. CASE signals # {} /\ front' = Append(front, Runner)
        <5>1. Runner \in Threads
          BY <4>2 DEF TypeOK
        <5>. QED
          BY <4>2, <5>1, <1>1, AppendSet
      <4>. QED
        BY <2>2, <4>1, <4>2 DEF CheckSignals
    <3>. QED
      BY <2>2, <3>1 DEF CheckSignals, Held, Goal
  <2>3. CASE PollWake
    BY <2>3, <1>2, <1>5 DEF PollWake
  <2>4. CASE WakeJoiners
    BY <2>4, <1>2, <1>5 DEF WakeJoiners
  <2>5. CASE CheckTimeouts
    <3>. DEFINE a == SubSeq(paused, 1, NumDue)
                b == SubSeq(paused, NumDue + 1, Len(paused))
    <3>1. a \in Seq(Threads) /\ ToSet(paused) = ToSet(a) \cup ToSet(b)
      BY <1>1, NumDueInList, CutSet
    <3>2. front' = front \o a /\ paused' = b /\ cur' = cur
      BY <2>5 DEF CheckTimeouts
    <3>. HIDE DEF a, b
    <3>3. ToSet(front') = ToSet(front) \cup ToSet(a)
      BY <3>1, <3>2, <1>1, ConcatSet
    <3>. QED
      BY <3>1, <3>2, <3>3 DEF Held, Goal
  <2>6. CASE Dequeue
    <3>1. ToSet(paused) \subseteq ToSet(paused')
      BY <2>6, DequeuePaused
    <3>2. CASE front # <<>> /\ ~stale
      <4>. DEFINE r == Tail(front)
      <4>1. cur' = Head(front) /\ r \in Seq(Threads) /\ ToSet(front) = {cur'} \cup ToSet(r)
        BY <2>6, <3>2, <1>1, TailSet DEF Dequeue
      <4>2. front' = r \/ front' = Append(r, cur)
        BY <2>6, <3>2 DEF Dequeue
      <4>3. front' = Append(r, cur) \/ refuel[cur] = 0 \/ waitp[cur] = 1
        BY <2>6, <3>2 DEF Dequeue
      <4>. HIDE DEF r
      <4>4. ToSet(Append(r, cur)) = ToSet(r) \cup {cur}
        BY <4>1, <1>1, AppendSet
      <4>5. Held \ {cur} \subseteq Held'
        BY <3>1, <4>1, <4>2, <4>4 DEF Held
      <4>6. refuel[cur] # 0 /\ waitp[cur] = 1 => cur \in ToSet(paused')
        BY <2>6, <3>2, DequeuePaused
      <4>. QED
        BY <2>6, <4>3, <4>4, <4>5, <4>6 DEF Held, Goal
    <3>3. CASE front = <<>> \/ stale
      <4>1. UNCHANGED queues /\ (cur' = cur \/ refuel[cur] = 0)
        BY <2>6, <3>3 DEF Dequeue
      <4>. QED
        BY <2>6, <4>1 DEF Held, queues, Goal
    <3>. QED
      BY <3>2, <3>3
  <2>7. CASE Pick
    <3>1. ToSet(paused) \ {cur'} \subseteq ToSet(paused') /\ (cur' = cur \/ cur \in ToSet(paused'))
      BY <2>7, PickPaused
    <3>. QED
      BY <2>7, <3>1 DEF Pick, Held, Goal
  <2>. QED
    BY <1>13, <2>1, <2>2, <2>3, <2>4, <2>5, <2>6, <2>7 DEF Scheduler
<1>14. CASE Resume
  BY <1>2, <1>9, <1>14 DEF Resume
<1>15. CASE (\E s \in Signums : SignalArrives(s)) \/ Preempt \/ Yield \/ Tick
  BY <1>2, <1>15 DEF SignalArrives, Preempt, Yield, Tick
<1>. QED
  BY <1>10, <1>11, <1>12, <1>13, <1>14, <1>15 DEF Next, Halted, Goal

\* A thread that waits in thread-join! after a step waited there before, or what
\* it joins has not terminated.
JoinsNext ==
  \A u \in Threads :
    call'[u].op = "join" /\ (u \in ToSet(paused') \/ waitp'[u] = 1)
    => \/ /\ call[u].op = "join" /\ call'[u].on = call[u].on
          /\ u \in ToSet(paused) \/ waitp[u] = 1
       \/ refuel'[call'[u].on] # 0

\* No step makes a thread wait in thread-join! for a terminated one.
LEMMA JoinsStep == TypeOK /\ PausedOrdered /\ [Next]_vars => JoinsNext
<1>. SUFFICES ASSUME TypeOK, PausedOrdered, [Next]_vars PROVE JoinsNext
  OBVIOUS
<1>1. /\ cur \in Threads /\ waitp \in [Threads -> {0, 1}] /\ call \in [Threads -> Calls]
      /\ NoCall.op # "join" /\ \A op, on, d : Call(op, on, d).op = op /\ Call(op, on, d).on = on
      /\ waitp[cur] \in {0, 1} /\ call[cur] \in Calls
  BY DEF TypeOK, NoCall, Call
<1>2. ASSUME ToSet(paused') \subseteq ToSet(paused) \cup {cur},
             \A u \in Threads : u # cur => waitp'[u] \in {0, waitp[u]},
             NEW c, c.op # "join", call' = [call EXCEPT ![cur] = c]
      PROVE  JoinsNext
  BY <1>1, <1>2 DEF JoinsNext
<1>3. ASSUME ToSet(paused') \subseteq ToSet(paused), call' = call,
             \A u \in Threads : waitp'[u] \in {0, waitp[u]}
      PROVE  JoinsNext
  BY <1>1, <1>3 DEF JoinsNext
<1>4. ASSUME Return, paused' = paused, waitp' = waitp PROVE JoinsNext
  BY <1>1, <1>2, <1>4 DEF Return
<1>5. ASSUME NEW e, NEW d \in Delays \cup {Forever}, NEW c, Pause(paused, e, d, c), c.op # "join"
      PROVE  JoinsNext
  <2>1. ToSet(paused') = ToSet(paused) \cup {cur}
    BY <1>5, PauseStep DEF Pause
  <2>. QED
    BY <1>1, <1>2, <1>5, <2>1 DEF Pause
<1>6. ASSUME NEW t, NEW d \in Delays \cup {Forever}, Join(t, d) PROVE JoinsNext
  <2>1. CASE refuel[t] = 0
    BY <1>4, <1>6, <2>1 DEF Join, queues, fields
  <2>2. CASE refuel[t] # 0
    <3>1. /\ ToSet(paused') = ToSet(paused) \cup {cur}
          /\ call' = [call EXCEPT ![cur] = Call("join", t, d)]
          /\ waitp' = [waitp EXCEPT ![cur] = 1] /\ refuel' = refuel
      BY <1>6, <2>2, JoinPaused DEF Join, Pause
    <3>. QED
      BY <1>1, <2>2, <3>1 DEF JoinsNext
  <2>. QED
    BY <2>1, <2>2
<1>7. ASSUME NEW m, NEW d \in Delays \cup {Forever}, Lock(m, d) PROVE JoinsNext
  BY <1>1, <1>4, <1>5, <1>7 DEF Lock, queues, fields
<1>8. ASSUME NEW f, NEW d \in Delays \cup {Forever}, Blocker(f, d) PROVE JoinsNext
  <2>1. ToSet(paused') = ToSet(paused) \cup {cur}
    BY <1>8, PauseStep DEF Blocker
  <2>. QED
    BY <1>1, <1>2, <1>8, <2>1 DEF Blocker
<1>9. ASSUME NEW r, EndLoop(r) PROVE JoinsNext
  BY <1>1, <1>2, <1>9 DEF EndLoop, queues
<1>10. ASSUME NEW c, SignalOne(c)
       PROVE  ToSet(paused') \subseteq ToSet(paused) /\ \A u \in Threads : waitp'[u] \in {0, waitp[u]}
  BY <1>1, <1>10, WakeFirstPaused DEF SignalOne, Cleared
<1>11. ASSUME NEW e, WaitersAt(e) # {}, WakeToBack(Min(WaitersAt(e))), UNCHANGED <<timeval, call>>
       PROVE  JoinsNext
  <2>1. ToSet(paused') \subseteq ToSet(paused)
    BY <1>11, WakeToBackPaused
  <2>. QED
    BY <1>1, <1>3, <1>11, <2>1 DEF WakeToBack
<1>12. CASE UNCHANGED vars
  BY <1>1, <1>3, <1>12 DEF vars, queues, fields, code
<1>13. CASE Client
  <2>1. ASSUME NEW t \in Threads, ThreadStart(t) \/ ThreadTerminate(t) PROVE JoinsNext
    <3>1. ToSet(paused') \subseteq ToSet(paused)
      BY <2>1, ThreadTerminatePaused DEF ThreadStart
    <3>. QED
      BY <2>1, <3>1, <1>3 DEF ThreadStart, ThreadTerminate
  <2>2. ASSUME NEW t \in Threads, NEW d \in Delays, ThreadJoin(t, d) PROVE JoinsNext
    BY <2>2, <1>6 DEF ThreadJoin
  <2>3. ASSUME NEW d \in Delays, ThreadSleep(d) PROVE JoinsNext
    BY <2>3, <1>1, <1>5 DEF ThreadSleep
  <2>4. ASSUME NEW m \in Mutexes, NEW d \in Delays, MutexLock(m, d) PROVE JoinsNext
    BY <2>4, <1>7 DEF MutexLock
  <2>5. ASSUME NEW m \in Mutexes, MutexUnlock(m) PROVE JoinsNext
    <3>1. ToSet(paused') \subseteq ToSet(paused)
      BY <2>5, MutexUnlockPaused
    <3>. QED
      BY <2>5, <3>1, <1>1, <1>3 DEF MutexUnlock, Cleared, code
  <2>6. ASSUME NEW m \in Mutexes, NEW c \in CondVars, NEW d \in Delays,
               MutexUnlockWait(m, c, d)
        PROVE  JoinsNext
    <3>1. ToSet(paused') \subseteq ToSet(paused) \cup {cur}
      BY <2>6, MutexUnlockWaitPaused
    <3>2. \A u \in Threads : u # cur => waitp'[u] \in {0, waitp[u]}
      BY <2>6, <1>1 DEF MutexUnlockWait, Cleared
    <3>3. /\ Call("wait", c, d).op # "join"
          /\ call' = [call EXCEPT ![cur] = Call("wait", c, d)]
      BY <2>6, <1>1 DEF MutexUnlockWait
    <3>. QED
      BY <3>1, <3>2, <3>3, <1>2
  <2>7. ASSUME NEW c \in CondVars, CondVarSignal(c) PROVE JoinsNext
    BY <2>7, <1>3, <1>10 DEF CondVarSignal
  <2>8. ASSUME NEW c \in CondVars, CondVarBroadcast(c) PROVE JoinsNext
    BY <2>8, <1>1, <1>2 DEF CondVarBroadcast, queues, fields
  <2>9. ASSUME NEW f \in Fds, NEW d \in Delays, Block(f, d) PROVE JoinsNext
    BY <2>9, <1>8 DEF Block
  <2>10. CASE Finish \/ Raise
    BY <2>10, <1>9 DEF Finish, Raise
  <2>. QED
    BY <1>13, <2>1, <2>2, <2>3, <2>4, <2>5, <2>6, <2>7, <2>8, <2>9, <2>10 DEF Client
<1>14. CASE Continue
  <2>1. CASE ThreadJoinAgain
    BY <2>1, <1>1, <1>4, <1>6 DEF ThreadJoinAgain, Calls, queues, fields
  <2>2. CASE MutexLockAgain
    BY <2>2, <1>1, <1>4, <1>7 DEF MutexLockAgain, Calls, queues, fields
  <2>3. CASE WaitOver
    BY <2>3, <1>4 DEF WaitOver, queues, fields
  <2>4. CASE BlockAgain
    BY <2>4, <1>4, <1>8 DEF BlockAgain, queues, fields
  <2>5. CASE BroadcastStep
    <3>1. ToSet(paused') \subseteq ToSet(paused) /\ \A u \in Threads : waitp'[u] \in {0, waitp[u]}
      BY <2>5, <1>10 DEF BroadcastStep
    <3>. QED
      BY <2>5, <3>1, <1>1, <1>2, <1>3 DEF BroadcastStep
  <2>6. CASE PopSignal
    BY <2>6, <1>1, <1>3 DEF PopSignal, queues, fields
  <2>8. CASE RunnerSleep
    <3>1. paused' = paused /\ \A u \in Threads : u # cur => waitp'[u] = waitp[u]
      BY <2>8, <1>1 DEF RunnerSleep, queues
    <3>2. Call("runner", NoEvent, Forever).op # "join"
      BY <1>1
    <3>3. call' = [call EXCEPT ![cur] = Call("runner", NoEvent, Forever)]
      BY <2>8 DEF RunnerSleep
    <3>4. /\ ToSet(paused') \subseteq ToSet(paused) \cup {cur}
          /\ \A u \in Threads : u # cur => waitp'[u] \in {0, waitp[u]}
      BY <3>1
    <3>. QED
      BY <3>2, <3>3, <3>4, <1>2
  <2>7. CASE RunnerLoop
    BY <2>7, <1>1, <1>2 DEF RunnerLoop, queues, fields
  <2>. QED
    BY <1>14, <2>1, <2>2, <2>3, <2>4, <2>5, <2>6, <2>7, <2>8 DEF Continue
<1>15. CASE Scheduler
  <2>1. CASE Poll \/ NapOver
    BY <2>1, <1>3 DEF Poll, NapOver, queues, fields, code
  <2>2. CASE CheckSignals
    BY <2>2, <1>1, <1>3 DEF CheckSignals
  <2>3. CASE PollWake
    <3>1. \/ UNCHANGED queues /\ (waitp' = waitp \/ waitp' = [waitp EXCEPT ![cur] = 0])
          \/ \E f \in revents : WaitersAt(f) # {} /\ WakeToBack(Min(WaitersAt(f)))
      BY <2>3 DEF PollWake
    <3>2. UNCHANGED <<timeval, call>>
      BY <2>3 DEF PollWake, code
    <3>3. CASE UNCHANGED queues /\ (waitp' = waitp \/ waitp' = [waitp EXCEPT ![cur] = 0])
      BY <3>2, <3>3, <1>1, <1>3 DEF queues
    <3>. QED
      BY <3>1, <3>2, <3>3, <1>11
  <2>4. CASE WakeJoiners
    BY <2>4, <1>3, <1>11 DEF WakeJoiners, queues, code
  <2>5. CASE CheckTimeouts
    <3>1. ToSet(paused') \subseteq ToSet(paused)
      BY <2>5, CheckTimeoutsPaused
    <3>. QED
      BY <2>5, <3>1, <1>1, <1>3 DEF CheckTimeouts, Cleared, code
  <2>6. CASE Dequeue
    <3>1. ToSet(paused') = ToSet(paused) \/ (ToSet(paused') = ToSet(paused) \cup {cur} /\ waitp[cur] = 1)
      BY <2>6, DequeuePaused
    <3>. QED
      BY <2>6, <3>1 DEF Dequeue, code, JoinsNext
  <2>7. CASE Pick
    <3>1. ToSet(paused') \subseteq ToSet(paused) \/ (ToSet(paused') \subseteq ToSet(paused) \cup {cur} /\ waitp[cur] = 1)
      BY <2>7, <1>1, PickPaused
    <3>2. \A u \in Threads : waitp'[u] = 1 => waitp[u] = 1
      BY <2>7, <1>1 DEF Pick
    <3>. QED
      BY <2>7, <3>1, <3>2 DEF Pick, code, JoinsNext
  <2>. QED
    BY <1>15, <2>1, <2>2, <2>3, <2>4, <2>5, <2>6, <2>7 DEF Scheduler
<1>16. CASE Resume
  BY <1>3, <1>9, <1>16 DEF Resume, queues, fields, code
<1>17. CASE (\E s \in Signums : SignalArrives(s)) \/ Preempt \/ Yield \/ Tick
  BY <1>3, <1>17 DEF SignalArrives, Preempt, Yield, Tick, queues, fields, code
<1>. QED
  BY <1>12, <1>13, <1>14, <1>15, <1>16, <1>17 DEF Next, Halted

\* A thread that is started or terminated by a step can be found after it, and
\* no thread gets its fuel back.
LEMMA EndsStep ==
  ASSUME TypeOK, NoThreadLost, DoneInv, phase # "halted", [Next]_vars,
         Held \subseteq Held' \/ Dequeue
  PROVE  /\ \A t \in Threads : refuel'[t] # 0 => refuel[t] # 0
         /\ \A t \in Threads : refuel'[t] = 0 /\ pc'[t] # "unstarted"
              => (refuel[t] = 0 /\ pc[t] # "unstarted") \/ t \in Held'
<1>. DEFINE Goal == /\ \A t \in Threads : refuel'[t] # 0 => refuel[t] # 0
                    /\ \A t \in Threads : refuel'[t] = 0 /\ pc'[t] # "unstarted"
                         => (refuel[t] = 0 /\ pc[t] # "unstarted") \/ t \in Held'
<1>1. cur \in Threads /\ refuel \in [Threads -> {0, 1}] /\ pc \in [Threads -> PCs] /\ front \in Seq(Threads)
  BY DEF TypeOK
<1>2. ASSUME refuel' = refuel, \A t \in Threads : pc[t] = "unstarted" => pc'[t] = "unstarted" \/ t \in Held'
      PROVE  Goal
  BY <1>1, <1>2
<1>3. ASSUME NEW r, EndLoop(r) PROVE Goal
  <2>1. cur \in Held'
    BY <1>3 DEF EndLoop, Held
  <2>. QED
    BY <1>1, <1>3, <2>1 DEF EndLoop
<1>4. ASSUME NEW t \in Threads, ThreadTerminate(t) PROVE Goal
  <2>1. t \in Held \/ pc[t] = "unstarted" \/ refuel[t] = 0
    BY <1>1 DEF NoThreadLost, Live, Held, DoneInv
  <2>2. Held \subseteq Held'
    BY <1>4 DEF ThreadTerminate, Runs, Dequeue
  <2>3. pc[cur] = "run" /\ pc' = [pc EXCEPT ![cur] = IF t = cur THEN "yield" ELSE @]
        /\ refuel' = [refuel EXCEPT ![t] = 0]
    BY <1>4 DEF ThreadTerminate, Runs
  <2>. QED
    BY <1>1, <2>1, <2>2, <2>3
<1>5. ASSUME NEW t \in Threads, ThreadStart(t) PROVE Goal
  <2>1. ToSet(front') = ToSet(front) \cup {t}
    BY <1>1, <1>5, AppendSet DEF ThreadStart
  <2>. QED
    BY <1>1, <1>2, <1>5, <2>1 DEF ThreadStart, Held
<1>. SUFFICES Goal
  OBVIOUS
<1>. HIDE DEF Goal
<1>6. CASE UNCHANGED vars
  BY <1>2, <1>6 DEF vars, fields, code
<1>7. CASE CheckSignals
  <2>1. CASE pc' = pc
    BY <1>2, <1>7, <2>1 DEF CheckSignals
  <2>2. CASE signals # {} /\ pc' = [pc EXCEPT ![Runner] = "pop"] /\ front' = Append(front, Runner)
    <3>1. Runner \in Threads
      BY <2>2 DEF TypeOK
    <3>2. ToSet(front') = ToSet(front) \cup {Runner}
      BY <1>1, <2>2, <3>1, AppendSet
    <3>. QED
      BY <1>1, <1>2, <1>7, <2>2, <3>2 DEF CheckSignals, Held
  <2>. QED
    BY <1>7, <2>1, <2>2 DEF CheckSignals
<1>8. CASE Client
  <2>1. CASE Finish \/ Raise
    BY <1>3, <2>1 DEF Finish, Raise
  <2>2. CASE \E t \in Threads : ThreadTerminate(t) \/ ThreadStart(t)
    BY <1>4, <1>5, <2>2
  <2>3. CASE ~(Finish \/ Raise \/ \E t \in Threads : ThreadTerminate(t) \/ ThreadStart(t))
    BY <1>1, <1>2, <1>8, <2>3 DEF Client, ThreadJoin, Join, ThreadSleep, MutexLock, Lock, Return, Pause,
       MutexUnlock, MutexUnlockWait, CondVarSignal, CondVarBroadcast, SignalOne, Block, Blocker, Runs, fields, code
  <2>. QED
    BY <2>1, <2>2, <2>3
<1>9. CASE Continue
  BY <1>1, <1>2, <1>9 DEF Continue, ThreadJoinAgain, Join, MutexLockAgain, Lock, WaitOver, BlockAgain, Blocker,
     Return, Pause, BroadcastStep, SignalOne, PopSignal, RunnerSleep, RunnerLoop, Resumes, fields
<1>10. CASE Poll \/ PollWake \/ WakeJoiners \/ CheckTimeouts \/ Dequeue \/ Pick \/ NapOver
  BY <1>2, <1>10 DEF Poll, PollWake, WakeJoiners, CheckTimeouts, Dequeue, Pick, NapOver, fields, code
<1>11. CASE Resume
  BY <1>2, <1>3, <1>11 DEF Resume, fields, code
<1>12. CASE Preempt \/ Yield \/ Tick \/ \E s \in Signums : SignalArrives(s)
  BY <1>1, <1>2, <1>12 DEF Preempt, Yield, Tick, SignalArrives, fields, code
<1>. QED
  BY <1>6, <1>7, <1>8, <1>9, <1>10, <1>11, <1>12 DEF Next, Scheduler, Halted, Goal

\* Once the program is over nothing happens any more.
LEMMA HaltedStays == phase = "halted" /\ [Next]_vars => phase' = "halted"
<1>. SUFFICES ASSUME phase = "halted", [Next]_vars PROVE UNCHANGED vars
  BY DEF vars
<1>1. ~Client /\ ~Continue
  BY DEF Client, ThreadStart, ThreadTerminate, ThreadJoin, ThreadSleep, MutexLock, MutexUnlock, MutexUnlockWait,
     CondVarSignal, CondVarBroadcast, Block, Finish, Raise, Runs, Continue, ThreadJoinAgain, MutexLockAgain,
     WaitOver, BlockAgain, BroadcastStep, PopSignal, RunnerSleep, RunnerLoop, Resumes
<1>2. ~Scheduler /\ ~Preempt /\ ~Yield /\ ~Resume /\ ~Tick /\ ~\E s \in Signums : SignalArrives(s)
  BY DEF Scheduler, CheckSignals, Poll, PollWake, WakeJoiners, CheckTimeouts, Dequeue, Pick, NapOver, Preempt,
     Yield, Resume, Tick, SignalArrives
<1>. QED
  BY <1>1, <1>2 DEF Next, Halted

\* What thread-join! relies on, inductive together with the types, the order of
\* the paused list and NoThreadLost.
JoinInv == WaitersHeld /\ JoinEvents /\ JoinersDone /\ DoneInv /\ JoinedHeld

\* Every step keeps JoinedHeld: a thread is dropped only after its joiners were
\* woken.
LEMMA NextJoined ==
  TypeOK /\ PausedOrdered /\ NoThreadLost /\ JoinInv /\ [Next]_vars => JoinedHeld'
<1>. SUFFICES ASSUME TypeOK, PausedOrdered, NoThreadLost, JoinInv, [Next]_vars, phase' # "halted",
                     NEW u \in Threads,
                     call'[u].op = "join", refuel'[u] # 0, u \in ToSet(paused') \/ waitp'[u] = 1,
                     refuel'[call'[u].on] = 0, pc'[call'[u].on] # "unstarted"
              PROVE  call'[u].on \in Held'
  BY DEF JoinedHeld
<1>. DEFINE t == call[u].on
<1>1. phase # "halted"
  BY HaltedStays
<1>2. call[u].op = "join" /\ call'[u].on = t /\ (u \in ToSet(paused) \/ waitp[u] = 1)
  BY JoinsStep DEF JoinsNext
<1>3. t \in Threads /\ event[u] = t
  BY <1>2 DEF JoinInv, JoinEvents
<1>4. Held \subseteq Held' \/ (Dequeue /\ refuel[cur] = 0 /\ Held \ {cur} \subseteq Held')
  BY NextHolds
<1>5. refuel[u] # 0 /\ ((refuel[t] = 0 /\ pc[t] # "unstarted") \/ t \in Held')
  <2>1. DoneInv
    BY DEF JoinInv
  <2>2. /\ \A x \in Threads : refuel'[x] # 0 => refuel[x] # 0
        /\ \A x \in Threads : refuel'[x] = 0 /\ pc'[x] # "unstarted"
              => (refuel[x] = 0 /\ pc[x] # "unstarted") \/ x \in Held'
    BY <1>1, <1>4, <2>1, EndsStep
  <2>. QED
    BY <1>2, <1>3, <2>2
<1>6. CASE t \in Held'
  BY <1>2, <1>6
<1>7. CASE refuel[t] = 0 /\ pc[t] # "unstarted"
  <2>1. t \in Held
    BY <1>1, <1>2, <1>5, <1>7 DEF JoinInv, JoinedHeld
  <2>2. CASE Held \subseteq Held'
    BY <1>2, <2>1, <2>2
  <2>3. CASE Dequeue /\ refuel[cur] = 0 /\ Held \ {cur} \subseteq Held'
    <3>1. phase = "dequeue"
      BY <2>3 DEF Dequeue
    <3>2. u \in ToSet(paused)
      BY <1>2, <1>5, <2>3 DEF JoinInv, WaitersHeld
    <3>3. event[u] # cur
      BY <2>3, <3>1, <3>2 DEF JoinInv, JoinersDone
    <3>. QED
      BY <1>2, <1>3, <2>1, <2>3, <3>3
  <2>. QED
    BY <1>4, <2>2, <2>3
<1>. QED
  BY <1>5, <1>6, <1>7

\* A started thread that has terminated is still to be scheduled as long as some
\* thread waits for it in thread-join!, so the scheduler will wake its joiners,
\* whichever threads terminate one another and whatever else they wait for.
THEOREM JoinersAlwaysWoken == Spec => []JoinersWoken
<1>1. Init => JoinInv
  <2>. SUFFICES ASSUME Init PROVE JoinInv
    OBVIOUS
  <2>1. \A t \in Threads : call[t].op # "join" /\ waitp[t] = 0 /\ pc[t] # "done"
    BY DEF Init, NoCall
  <2>2. phase = "vm"
    BY DEF Init
  <2>. QED
    BY <2>1, <2>2 DEF JoinInv, WaitersHeld, JoinEvents, JoinersDone, DoneInv, JoinedHeld
<1>2. TypeOK /\ PausedOrdered /\ NoThreadLost /\ JoinInv /\ [Next]_vars => JoinInv'
  BY NextWaiters, NextEvents, NextJoinersDone, NextDone, NextJoined DEF JoinInv
<1>3. TypeOK /\ JoinInv => JoinersWoken
  <2>. SUFFICES ASSUME TypeOK, JoinInv, phase # "halted", NEW u \in ToSet(paused),
                       call[u].op = "join", refuel[u] # 0, refuel[call[u].on] = 0,
                       pc[call[u].on] # "unstarted"
                PROVE  call[u].on = cur \/ call[u].on \in ToSet(front) \cup ToSet(paused)
    BY DEF JoinersWoken
  <2>1. u \in Threads
    BY DEF TypeOK, ToSet
  <2>2. call[u].on \in Held
    BY <2>1 DEF JoinInv, JoinedHeld
  <2>. QED
    BY <2>2 DEF Held
<1>. QED
  BY <1>1, <1>2, <1>3, TypeCorrect, PausedAlwaysOrdered, NoThreadIsLost, PTL DEF Spec

-----------------------------------------------------------------------------
(* A mutex that is free has no forgotten waiters.                          *)

\* No thread is terminated from outside (a victim that was just woken takes the
\* wake-up with it), and the signal handlers take no mutex (a signal wakes the
\* runner whatever it waits for, and leaves it in the paused list).
NobodyInterrupted ==
  "terminate" \notin Ops /\ (Runner \in Threads => "lock" \notin HandlerOps)

\* Where the calls of mutex-lock! stand.
LockCalls ==
  /\ \A t \in Threads : refuel[t] = 0 => pc[t] = "done"
  /\ \A t \in Threads : call[t].op = "lock" =>
       call[t].on \in Mutexes /\ event[t] = call[t].on /\ pc[t] \in {"yield", "check"}
  /\ Runner \in Threads => event[Runner] \notin Mutexes
  /\ phase = "broadcast" => call[cur].op = "broadcast"

\* Every step keeps LockCalls.
LEMMA NextLockCalls ==
  ASSUME NobodyInterrupted
  PROVE  TypeOK /\ JoinEvents /\ LockCalls /\ [Next]_vars => LockCalls'
<1>. SUFFICES ASSUME TypeOK, JoinEvents, LockCalls, [Next]_vars PROVE LockCalls'
  OBVIOUS
<1>1. /\ cur \in Threads /\ event \in [Threads -> Events] /\ call \in [Threads -> Calls]
      /\ pc \in [Threads -> PCs] /\ refuel \in [Threads -> {0, 1}]
      /\ NoCall.op = "none" /\ \A op, on, d : Call(op, on, d).op = op /\ Call(op, on, d).on = on
      /\ NoEvent \notin Mutexes /\ Fds \cap Mutexes = {} /\ Threads \cap Mutexes = {} /\ CondVars \cap Mutexes = {}
  BY ConstantsAssumption DEF TypeOK, NoCall, Call
<1>2. ASSUME UNCHANGED <<refuel, call, event, cur, pc>>, phase' # "broadcast" \/ phase' = phase PROVE LockCalls'
  BY <1>2 DEF LockCalls
<1>3. ASSUME phase' # "broadcast", refuel' = refuel, pc[cur] # "done",
             NEW c, c.op # "lock", call' = [call EXCEPT ![cur] = c],
             NEW e, e \notin Mutexes, event' = event \/ event' = [event EXCEPT ![cur] = e],
             NEW p, pc' = [pc EXCEPT ![cur] = p]
      PROVE  LockCalls'
  BY <1>1, <1>3 DEF LockCalls
<1>4. ASSUME Return, phase' # "broadcast", refuel' = refuel, event' = event, pc[cur] # "done" PROVE LockCalls'
  BY <1>1, <1>3, <1>4 DEF Return
<1>5. ASSUME NEW q, NEW e, NEW d, NEW c, Pause(q, e, d, c), c.op # "lock", e \notin Mutexes,
             phase' # "broadcast", refuel' = refuel, pc[cur] # "done"
      PROVE  LockCalls'
  BY <1>3, <1>5 DEF Pause
<1>6. ASSUME NEW m \in Mutexes, NEW d, Lock(m, d), phase = "vm", pc[cur] # "done", cur # Runner PROVE LockCalls'
  <2>1. CASE lockp[m] = 0
    BY <1>4, <1>6, <2>1 DEF Lock, fields
  <2>2. CASE lockp[m] # 0
    <3>1. /\ event' = [event EXCEPT ![cur] = m] /\ call' = [call EXCEPT ![cur] = Call("lock", m, d)]
          /\ pc' = [pc EXCEPT ![cur] = "yield"] /\ refuel' = refuel /\ phase' = "vm"
      BY <1>6, <2>2 DEF Lock, Pause
    <3>. QED
      BY <1>1, <1>6, <3>1 DEF LockCalls
  <2>. QED
    BY <2>1, <2>2
<1>7. ASSUME NEW t, t \notin Mutexes, NEW d, Join(t, d), phase = "vm", pc[cur] # "done" PROVE LockCalls'
  <2>1. Call("join", t, d).op # "lock"
    BY <1>1
  <2>. QED
    BY <1>4, <1>5, <1>7, <2>1 DEF Join, fields
<1>8. ASSUME NEW f \in Fds, NEW d, Blocker(f, d), pc[cur] # "done" PROVE LockCalls'
  <2>1. Call("block", f, d).op # "lock" /\ f \notin Mutexes
    BY <1>1
  <2>. QED
    BY <1>3, <1>8, <2>1 DEF Blocker
<1>9. ASSUME NEW r, EndLoop(r) PROVE LockCalls'
  BY <1>1, <1>9 DEF EndLoop, LockCalls
<1>10. CASE UNCHANGED vars
  BY <1>2, <1>10 DEF vars, fields, code
<1>11. CASE Client
  <2>. USE DEF Runs
  <2>1. ASSUME NEW t \in Threads, ThreadStart(t) PROVE LockCalls'
    BY <2>1, <1>1 DEF ThreadStart, LockCalls
  <2>2. ASSUME NEW t \in Threads, ThreadTerminate(t) PROVE LockCalls'
    BY <2>2, ConstantsAssumption DEF ThreadTerminate, NobodyInterrupted
  <2>3. ASSUME NEW t \in Threads, NEW d \in Delays, ThreadJoin(t, d) PROVE LockCalls'
    BY <2>3, <1>1, <1>7 DEF ThreadJoin
  <2>4. ASSUME NEW d \in Delays, ThreadSleep(d) PROVE LockCalls'
    <3>1. Call("sleep", NoEvent, d).op # "lock"
      BY <1>1
    <3>. QED
      BY <2>4, <3>1, <1>1, <1>5 DEF ThreadSleep
  <2>5. ASSUME NEW m \in Mutexes, NEW d \in Delays, MutexLock(m, d) PROVE LockCalls'
    BY <2>5, <1>1, <1>6 DEF MutexLock, NobodyInterrupted
  <2>6. ASSUME NEW m \in Mutexes, MutexUnlock(m) PROVE LockCalls'
    BY <2>6, <1>2 DEF MutexUnlock, code
  <2>7. ASSUME NEW m \in Mutexes, NEW c \in CondVars, NEW d \in Delays,
               MutexUnlockWait(m, c, d)
        PROVE  LockCalls'
    <3>1. Call("wait", c, d).op # "lock" /\ c \notin Mutexes
      BY <1>1
    <3>. QED
      BY <2>7, <3>1, <1>3 DEF MutexUnlockWait
  <2>8. ASSUME NEW c \in CondVars, CondVarSignal(c) PROVE LockCalls'
    BY <2>8, <1>2 DEF CondVarSignal, SignalOne
  <2>9. ASSUME NEW c \in CondVars, CondVarBroadcast(c) PROVE LockCalls'
    <3>1. call' = [call EXCEPT ![cur] = Call("broadcast", c, Forever)] /\ UNCHANGED <<refuel, event, cur, pc>>
      BY <2>9 DEF CondVarBroadcast, fields
    <3>. QED
      BY <3>1, <1>1 DEF LockCalls
  <2>10. ASSUME NEW f \in Fds, NEW d \in Delays, Block(f, d) PROVE LockCalls'
    BY <2>10, <1>8 DEF Block
  <2>11. CASE Finish \/ Raise
    BY <2>11, <1>9 DEF Finish, Raise
  <2>. QED
    BY <1>11, <2>1, <2>2, <2>3, <2>4, <2>5, <2>6, <2>7, <2>8, <2>9, <2>10, <2>11 DEF Client
<1>12. CASE Continue
  <2>. USE DEF Resumes
  <2>1. CASE ThreadJoinAgain
    <3>1. CASE call[cur].delay # Forever /\ timeoutp[cur] = 1
      BY <2>1, <3>1, <1>4 DEF ThreadJoinAgain, fields
    <3>2. CASE ~(call[cur].delay # Forever /\ timeoutp[cur] = 1)
      <4>1. Join(call[cur].on, call[cur].delay) /\ phase = "vm" /\ pc[cur] = "check" /\ call[cur].op = "join"
        BY <2>1, <3>2 DEF ThreadJoinAgain
      <4>2. call[cur].on \notin Mutexes
        BY <4>1, <1>1 DEF JoinEvents
      <4>. QED
        BY <4>1, <4>2, <1>7
    <3>. QED
      BY <3>1, <3>2
  <2>2. CASE MutexLockAgain
    <3>1. call[cur].on \in Mutexes /\ cur # Runner
      BY <2>2, <1>1 DEF MutexLockAgain, LockCalls
    <3>. QED
      BY <2>2, <3>1, <1>4, <1>6 DEF MutexLockAgain, fields
  <2>3. CASE WaitOver
    BY <2>3, <1>4 DEF WaitOver, fields
  <2>4. CASE BlockAgain
    <3>1. call[cur].on \in Fds
      BY <2>4 DEF BlockAgain, TypeOK, Calls
    <3>. QED
      BY <2>4, <3>1, <1>4, <1>8 DEF BlockAgain, fields
  <2>5. CASE BroadcastStep
    BY <2>5, <1>1, <1>2 DEF BroadcastStep, SignalOne, LockCalls
  <2>6. CASE PopSignal
    BY <2>6, <1>1 DEF PopSignal, fields, LockCalls
  <2>8. CASE RunnerSleep
    <3>1. Call("runner", NoEvent, Forever).op # "lock"
      BY <1>1
    <3>2. UNCHANGED <<refuel, event, cur, phase>> /\ phase = "vm" /\ pc[cur] = "idle"
      BY <2>8 DEF RunnerSleep
    <3>. QED
      BY <2>8, <3>1, <3>2, <1>1, <1>3 DEF RunnerSleep
  <2>7. CASE RunnerLoop
    BY <2>7, <1>1, <1>3 DEF RunnerLoop, fields
  <2>. QED
    BY <1>12, <2>1, <2>2, <2>3, <2>4, <2>5, <2>6, <2>7, <2>8 DEF Continue
<1>13. CASE Scheduler
  <2>1. CASE Poll \/ NapOver \/ WakeJoiners \/ CheckTimeouts
    BY <2>1, <1>2 DEF Poll, NapOver, WakeJoiners, CheckTimeouts, fields, code
  <2>2. CASE Dequeue \/ Pick
    BY <2>2 DEF Dequeue, Pick, fields, code, LockCalls
  <2>3. CASE CheckSignals
    BY <2>3, <1>1 DEF CheckSignals, LockCalls
  <2>4. CASE PollWake
    <3>1. \A t \in Threads : event'[t] = event[t] \/ (event[t] \in Fds /\ event'[t] = NoEvent)
      <4>1. PICK f \in revents :
              \/ event[cur] = f /\ event' = [event EXCEPT ![cur] = NoEvent]
              \/ /\ WaitersAt(f) # {}
                 /\ event' = [event EXCEPT ![paused[Min(WaitersAt(f))]] = NoEvent]
              \/ event' = event
        BY <2>4 DEF PollWake
      <4>2. f \in Fds /\ (WaitersAt(f) # {} => event[paused[Min(WaitersAt(f))]] = f)
        BY WaitersPaused DEF TypeOK
      <4>. QED
        BY <1>1, <4>1, <4>2
    <3>2. UNCHANGED <<refuel, call, pc, cur>> /\ phase' # "broadcast"
      BY <2>4 DEF PollWake, code
    <3>. QED
      BY <3>1, <3>2, <1>1 DEF LockCalls
  <2>. QED
    BY <1>13, <2>1, <2>2, <2>3, <2>4 DEF Scheduler
<1>14. CASE Resume
  <2>1. CASE refuel[cur] = 0
    BY <2>1, <1>9, <1>14 DEF Resume
  <2>2. CASE refuel[cur] # 0
    BY <2>2, <1>2, <1>14 DEF Resume, fields, code
  <2>. QED
    BY <2>1, <2>2
<1>15. CASE (\E s \in Signums : SignalArrives(s)) \/ Preempt \/ Tick
  BY <1>2, <1>15 DEF SignalArrives, Preempt, Tick, fields, code
<1>16. CASE Yield
  BY <1>1, <1>16 DEF Yield, fields, LockCalls
<1>. QED
  BY <1>10, <1>11, <1>12, <1>13, <1>14, <1>15, <1>16 DEF Next, Halted

\* Whoever stands in the paused list with a mutex waits for it in mutex-lock!.
LockWaits ==
  /\ \A t \in ToSet(paused) : event[t] \in Mutexes => waitp[t] = 1
  /\ \A t \in Threads : waitp[t] = 1 /\ event[t] \in Mutexes => call[t].op = "lock"

\* Every step keeps LockWaits.
LEMMA NextLockWaits ==
  TypeOK /\ PausedOrdered /\ RunsReady /\ JoinEvents /\ LockCalls /\ LockWaits /\ [Next]_vars
    => LockWaits'
<1>. SUFFICES ASSUME TypeOK, PausedOrdered, RunsReady, JoinEvents, LockCalls, LockWaits, [Next]_vars PROVE LockWaits'
  OBVIOUS
<1>1. /\ cur \in Threads /\ event \in [Threads -> Events] /\ call \in [Threads -> Calls]
      /\ waitp \in [Threads -> {0, 1}] /\ waitp[cur] \in {0, 1} /\ call[cur] \in Calls
      /\ ToSet(paused) \subseteq Threads
      /\ \A op, on, d : Call(op, on, d).op = op
      /\ NoEvent \notin Mutexes /\ Fds \cap Mutexes = {} /\ Threads \cap Mutexes = {} /\ CondVars \cap Mutexes = {}
  BY ConstantsAssumption DEF TypeOK, Call, ToSet
<1>2. ASSUME UNCHANGED <<event, call>>, ToSet(paused') \subseteq ToSet(paused),
             \A t \in Threads : waitp'[t] = waitp[t] \/ (waitp'[t] = 0 /\ t \notin ToSet(paused'))
      PROVE  LockWaits'
  BY <1>1, <1>2 DEF LockWaits
<1>3. ASSUME NEW c, call' = [call EXCEPT ![cur] = c], UNCHANGED <<event, paused, waitp>>,
             waitp[cur] = 0 \/ event[cur] \notin Mutexes
      PROVE  LockWaits'
  BY <1>1, <1>3 DEF LockWaits
<1>4. ASSUME phase = "vm", pc[cur] # "yield" PROVE waitp[cur] = 0
  BY <1>1, <1>4 DEF RunsReady
<1>5. ASSUME Return, UNCHANGED <<event, paused, waitp>>, phase = "vm", pc[cur] # "yield" PROVE LockWaits'
  BY <1>3, <1>4, <1>5 DEF Return
<1>6. ASSUME waitp' = [waitp EXCEPT ![cur] = 1], ToSet(paused') = ToSet(paused) \cup {cur},
             NEW e, event' = [event EXCEPT ![cur] = e],
             NEW c, call' = [call EXCEPT ![cur] = c], e \in Mutexes => c.op = "lock"
      PROVE  LockWaits'
  BY <1>1, <1>6 DEF LockWaits
<1>7. ASSUME NEW e, NEW d \in Delays \cup {Forever}, NEW c, Pause(paused, e, d, c), e \in Mutexes => c.op = "lock"
      PROVE  LockWaits'
  BY <1>6, <1>7, PauseStep DEF Pause
<1>8. ASSUME NEW m, NEW d \in Delays \cup {Forever}, Lock(m, d), phase = "vm", pc[cur] # "yield" PROVE LockWaits'
  <2>1. Call("lock", m, d).op = "lock"
    BY <1>1
  <2>. QED
    BY <1>5, <1>7, <1>8, <2>1 DEF Lock, queues, fields
<1>9. ASSUME NEW t, t \notin Mutexes, NEW d \in Delays \cup {Forever}, Join(t, d), phase = "vm", pc[cur] # "yield"
      PROVE  LockWaits'
  BY <1>5, <1>7, <1>9 DEF Join, queues, fields
<1>10. ASSUME NEW f \in Fds, NEW d \in Delays \cup {Forever}, Blocker(f, d) PROVE LockWaits'
  <2>1. f \notin Mutexes
    BY <1>1
  <2>. QED
    BY <1>6, <1>10, <2>1, PauseStep DEF Blocker
<1>11. ASSUME NEW e, WaitersAt(e) # {}, WakeToBack(Min(WaitersAt(e))), UNCHANGED <<timeval, call>>,
              event' = event \/ event' = [event EXCEPT ![paused[Min(WaitersAt(e))]] = NoEvent]
       PROVE  LockWaits'
  <2>. DEFINE w == paused[Min(WaitersAt(e))]
  <2>1. ToSet(paused') = ToSet(paused) \ {w} /\ waitp' = [waitp EXCEPT ![w] = 0] /\ w \in Threads
    BY <1>11, WakeToBackPaused, WaitersPaused DEF WakeToBack
  <2>2. call' = call /\ (event' = event \/ event' = [event EXCEPT ![w] = NoEvent])
    BY <1>11
  <2>. HIDE DEF w
  <2>. QED
    BY <2>1, <2>2, <1>1 DEF LockWaits
<1>12. ASSUME NEW c, SignalOne(c)
       PROVE  /\ ToSet(paused') \subseteq ToSet(paused) /\ event' = event
              /\ \A t \in Threads : waitp'[t] = waitp[t] \/ (waitp'[t] = 0 /\ t \notin ToSet(paused'))
  <2>1. ToSet(paused') = ToSet(paused) \ Woken(c)
    BY <1>12, WakeFirstPaused DEF SignalOne
  <2>. QED
    BY <1>1, <1>12, <2>1 DEF SignalOne, Cleared
<1>13. ASSUME NEW r, EndLoop(r), waitp[cur] = 0 \/ event[cur] \notin Mutexes PROVE LockWaits'
  BY <1>3, <1>13 DEF EndLoop, queues
<1>14. CASE UNCHANGED vars
  BY <1>2, <1>14 DEF vars, queues, fields, code
<1>15. CASE Client
  <2>. USE DEF Runs
  <2>1. ASSUME NEW t \in Threads, ThreadStart(t) PROVE LockWaits'
    BY <2>1, <1>2 DEF ThreadStart
  <2>2. ASSUME NEW t \in Threads, ThreadTerminate(t) PROVE LockWaits'
    <3>1. ToSet(paused') \subseteq ToSet(paused)
      BY <2>2, ThreadTerminatePaused
    <3>. QED
      BY <2>2, <3>1, <1>2 DEF ThreadTerminate
  <2>3. ASSUME NEW t \in Threads, NEW d \in Delays, ThreadJoin(t, d) PROVE LockWaits'
    <3>1. t \notin Mutexes
      BY <1>1
    <3>. QED
      BY <2>3, <3>1, <1>9 DEF ThreadJoin
  <2>4. ASSUME NEW d \in Delays, ThreadSleep(d) PROVE LockWaits'
    BY <2>4, <1>1, <1>7 DEF ThreadSleep
  <2>5. ASSUME NEW m \in Mutexes, NEW d \in Delays, MutexLock(m, d) PROVE LockWaits'
    BY <2>5, <1>8 DEF MutexLock
  <2>6. ASSUME NEW m \in Mutexes, MutexUnlock(m) PROVE LockWaits'
    <3>1. CASE lockp[m] = 1
      <4>1. ToSet(paused') = ToSet(paused) \ Woken(m) /\ waitp' = Cleared(waitp, Woken(m))
        BY <2>6, <3>1, MutexUnlockPaused DEF MutexUnlock
      <4>. QED
        BY <2>6, <4>1, <1>1, <1>2 DEF MutexUnlock, Cleared, code
    <3>2. CASE lockp[m] # 1
      BY <2>6, <3>2, <1>2 DEF MutexUnlock, queues, code
    <3>. QED
      BY <3>1, <3>2
  <2>7. ASSUME NEW m \in Mutexes, NEW c \in CondVars, NEW d \in Delays,
               MutexUnlockWait(m, c, d)
        PROVE  LockWaits'
    <3>. DEFINE W == IF lockp[m] = 1 THEN Woken(m) ELSE {}
    <3>1. ToSet(paused') = (ToSet(paused) \ W) \cup {cur}
      BY <2>7, MutexUnlockWaitPaused
    <3>2. /\ waitp' = [Cleared(waitp, W) EXCEPT ![cur] = 1]
          /\ event' = [event EXCEPT ![cur] = c] /\ call' = [call EXCEPT ![cur] = Call("wait", c, d)]
          /\ c \notin Mutexes
      BY <2>7, <1>1 DEF MutexUnlockWait
    <3>. HIDE DEF W
    <3>3. \A t \in Threads : t # cur =>
            event'[t] = event[t] /\ call'[t] = call[t] /\ waitp'[t] = IF t \in W THEN 0 ELSE waitp[t]
      BY <3>2, <1>1 DEF Cleared
    <3>4. event'[cur] \notin Mutexes
      BY <3>2, <1>1
    <3>. QED
      BY <3>1, <3>3, <3>4, <1>1 DEF LockWaits
  <2>8. ASSUME NEW c \in CondVars, CondVarSignal(c) PROVE LockWaits'
    BY <2>8, <1>2, <1>12 DEF CondVarSignal
  <2>9. ASSUME NEW c \in CondVars, CondVarBroadcast(c) PROVE LockWaits'
    BY <2>9, <1>3, <1>4 DEF CondVarBroadcast, queues, fields
  <2>10. ASSUME NEW f \in Fds, NEW d \in Delays, Block(f, d) PROVE LockWaits'
    BY <2>10, <1>10 DEF Block
  <2>11. CASE Finish \/ Raise
    BY <2>11, <1>4, <1>13 DEF Finish, Raise
  <2>. QED
    BY <1>15, <2>1, <2>2, <2>3, <2>4, <2>5, <2>6, <2>7, <2>8, <2>9, <2>10, <2>11 DEF Client
<1>16. CASE Continue
  <2>. USE DEF Resumes
  <2>1. CASE ThreadJoinAgain
    <3>1. CASE call[cur].delay # Forever /\ timeoutp[cur] = 1
      BY <2>1, <3>1, <1>5 DEF ThreadJoinAgain, queues, fields
    <3>2. CASE ~(call[cur].delay # Forever /\ timeoutp[cur] = 1)
      <4>1. /\ Join(call[cur].on, call[cur].delay) /\ phase = "vm" /\ pc[cur] = "check"
            /\ call[cur].op = "join" /\ call[cur].delay \in Delays \cup {Forever}
        BY <2>1, <3>2, <1>1 DEF ThreadJoinAgain, Calls
      <4>2. call[cur].on \notin Mutexes
        BY <4>1, <1>1 DEF JoinEvents
      <4>. QED
        BY <4>1, <4>2, <1>9
    <3>. QED
      BY <3>1, <3>2
  <2>2. CASE MutexLockAgain
    BY <2>2, <1>1, <1>5, <1>8 DEF MutexLockAgain, Calls, queues, fields
  <2>3. CASE WaitOver
    BY <2>3, <1>5 DEF WaitOver, queues, fields
  <2>4. CASE BlockAgain
    <3>1. call[cur].on \in Fds
      BY <2>4 DEF BlockAgain, TypeOK, Calls
    <3>. QED
      BY <2>4, <3>1, <1>5, <1>10 DEF BlockAgain, queues, fields
  <2>5. CASE BroadcastStep
    <3>1. call[cur].op = "broadcast"
      BY <2>5 DEF BroadcastStep, LockCalls
    <3>2. /\ ToSet(paused') \subseteq ToSet(paused) /\ event' = event
          /\ \A t \in Threads : waitp'[t] = waitp[t] \/ (waitp'[t] = 0 /\ t \notin ToSet(paused'))
      BY <2>5, <1>12 DEF BroadcastStep
    <3>3. call' = call \/ call' = [call EXCEPT ![cur] = NoCall]
      BY <2>5 DEF BroadcastStep
    <3>. QED
      BY <3>1, <3>2, <3>3, <1>1 DEF LockWaits
  <2>6. CASE PopSignal
    BY <2>6, <1>2 DEF PopSignal, queues, fields
  <2>8. CASE RunnerSleep
    <3>1. event[cur] \notin Mutexes
      BY <2>8, <1>1 DEF RunnerSleep, LockCalls
    <3>2. /\ UNCHANGED <<paused, event>> /\ \A t \in Threads : t # cur => waitp'[t] = waitp[t] /\ call'[t] = call[t]
      BY <2>8, <1>1 DEF RunnerSleep, queues
    <3>. QED
      BY <3>1, <3>2, <1>1 DEF LockWaits
  <2>7. CASE RunnerLoop
    BY <2>7, <1>3, <1>4 DEF RunnerLoop, queues, fields
  <2>. QED
    BY <1>16, <2>1, <2>2, <2>3, <2>4, <2>5, <2>6, <2>7, <2>8 DEF Continue
<1>17. CASE Scheduler
  <2>1. CASE Poll \/ NapOver
    BY <2>1, <1>2 DEF Poll, NapOver, queues, fields, code
  <2>2. CASE CheckSignals
    <3>1. UNCHANGED <<paused, event, call>> /\ (signals # {} => Runner \in Threads)
      BY <2>2 DEF CheckSignals, TypeOK
    <3>2. waitp' = waitp \/ (Runner \in Threads /\ waitp' = [waitp EXCEPT ![Runner] = 0])
      BY <2>2, <3>1 DEF CheckSignals
    <3>. QED
      BY <3>1, <3>2, <1>1 DEF LockWaits, LockCalls
  <2>3. CASE PollWake
    <3>1. UNCHANGED <<timeval, call>>
      BY <2>3 DEF PollWake, code
    <3>2. PICK f \in revents :
            \/ /\ event[cur] = f /\ waitp' = [waitp EXCEPT ![cur] = 0]
               /\ event' = [event EXCEPT ![cur] = NoEvent] /\ UNCHANGED queues
            \/ /\ WaitersAt(f) # {} /\ WakeToBack(Min(WaitersAt(f)))
               /\ event' = [event EXCEPT ![paused[Min(WaitersAt(f))]] = NoEvent]
            \/ UNCHANGED <<queues, waitp, event>>
      BY <2>3 DEF PollWake
    <3>3. CASE /\ event[cur] = f /\ waitp' = [waitp EXCEPT ![cur] = 0]
               /\ event' = [event EXCEPT ![cur] = NoEvent] /\ UNCHANGED queues
      BY <3>1, <3>3, <1>1 DEF LockWaits, queues
    <3>4. CASE UNCHANGED <<queues, waitp, event>>
      BY <3>1, <3>4, <1>2 DEF queues
    <3>. QED
      BY <3>1, <3>2, <3>3, <3>4, <1>11
  <2>4. CASE WakeJoiners
    BY <2>4, <1>2, <1>11 DEF WakeJoiners, queues, code
  <2>5. CASE CheckTimeouts
    <3>1. ToSet(paused') = ToSet(paused) \ Due
      BY <2>5, CheckTimeoutsPaused
    <3>. QED
      BY <2>5, <3>1, <1>1, <1>2 DEF CheckTimeouts, Cleared, code
  <2>6. CASE Dequeue
    <3>1. ToSet(paused') = ToSet(paused) \/ (ToSet(paused') = ToSet(paused) \cup {cur} /\ waitp[cur] = 1)
      BY <2>6, DequeuePaused
    <3>. QED
      BY <2>6, <3>1 DEF Dequeue, code, LockWaits
  <2>7. CASE Pick
    <3>1. \A t \in Threads : waitp'[t] = waitp[t] \/ (waitp'[t] = 0 /\ t = cur')
      BY <2>7, <1>1 DEF Pick
    <3>2. CASE waitp[cur] = 0
      <4>1. ToSet(paused') = ToSet(paused) /\ waitp' = waitp
        BY <2>7, <3>2, PickPaused DEF Pick
      <4>. QED
        BY <2>7, <4>1 DEF Pick, code, LockWaits
    <3>3. CASE waitp[cur] # 0
      <4>1. cur' \notin ToSet(paused') /\ ToSet(paused') \subseteq ToSet(paused) \cup {cur}
        BY <2>7, <3>3, PickPaused
      <4>. QED
        BY <2>7, <3>1, <3>3, <4>1, <1>1 DEF Pick, code, LockWaits
    <3>. QED
      BY <3>2, <3>3
  <2>. QED
    BY <1>17, <2>1, <2>2, <2>3, <2>4, <2>5, <2>6, <2>7 DEF Scheduler
<1>18. CASE Resume
  <2>1. CASE refuel[cur] = 0
    <3>1. waitp[cur] = 0 \/ event[cur] \notin Mutexes
      BY <2>1, <1>1 DEF LockCalls, LockWaits
    <3>. QED
      BY <2>1, <3>1, <1>13, <1>18 DEF Resume
  <2>2. CASE refuel[cur] # 0
    BY <2>2, <1>2, <1>18 DEF Resume, queues, fields, code
  <2>. QED
    BY <2>1, <2>2
<1>19. CASE (\E s \in Signums : SignalArrives(s)) \/ Preempt \/ Yield \/ Tick
  BY <1>2, <1>19 DEF SignalArrives, Preempt, Yield, Tick, queues, fields, code
<1>. QED
  BY <1>14, <1>15, <1>16, <1>17, <1>18, <1>19 DEF Next, Halted

\* At a free mutex some waiter is awake and has not given up.
LockWoken ==
  \A m \in Mutexes, t \in Threads :
    lockp[m] = 0 /\ waitp[t] = 1 /\ call[t].op = "lock" /\ call[t].on = m
      => \E u \in Threads :
           call[u].op = "lock" /\ call[u].on = m /\ waitp[u] = 0 /\ timeoutp[u] = 0

\* A step that frees no mutex: nobody starts to wait at a free mutex, and who is
\* awake there stays so.
LEMMA WokenStep ==
  ASSUME LockWoken,
         \A m \in Mutexes : lockp'[m] = 0 => lockp[m] = 0,
         \A t \in Threads : /\ call'[t].op = "lock" /\ waitp'[t] = 1
                            /\ call'[t].on \in Mutexes /\ lockp'[call'[t].on] = 0
           => call[t].op = "lock" /\ call[t].on = call'[t].on /\ waitp[t] = 1,
         \A u \in Threads : /\ call[u].op = "lock" /\ waitp[u] = 0 /\ timeoutp[u] = 0
                            /\ call[u].on \in Mutexes /\ lockp'[call[u].on] = 0
           => call'[u].op = "lock" /\ call'[u].on = call[u].on /\ waitp'[u] = 0 /\ timeoutp'[u] = 0
  PROVE  LockWoken'
<1>. SUFFICES ASSUME NEW m \in Mutexes, NEW t \in Threads, lockp'[m] = 0, waitp'[t] = 1,
                     call'[t].op = "lock", call'[t].on = m
              PROVE  \E u \in Threads : call'[u].op = "lock" /\ call'[u].on = m
                                        /\ waitp'[u] = 0 /\ timeoutp'[u] = 0
  BY DEF LockWoken
<1>1. lockp[m] = 0 /\ call[t].op = "lock" /\ call[t].on = m /\ waitp[t] = 1
  OBVIOUS
<1>2. PICK u \in Threads : call[u].op = "lock" /\ call[u].on = m /\ waitp[u] = 0 /\ timeoutp[u] = 0
  BY <1>1 DEF LockWoken
<1>. QED
  BY <1>2

\* What mutex-lock! relies on, inductive together with the types and the order
\* of the paused list.
LockInv == RunsReady /\ WaitersHeld /\ JoinEvents /\ LockCalls /\ LockWaits /\ LockWoken

\* sexp_mutex_unlock frees m and wakes one of those that wait for it.
LEMMA UnlockWoken ==
  ASSUME TypeOK, PausedOrdered, LockInv, NEW m \in Mutexes, phase = "vm", pc[cur] = "run",
         lockp' = [lockp EXCEPT ![m] = 0], NEW W, W = IF lockp[m] = 1 THEN Woken(m) ELSE {},
         timeoutp' = Cleared(timeoutp, W),
         waitp' = Cleared(waitp, W) \/ waitp' = [Cleared(waitp, W) EXCEPT ![cur] = 1],
         NEW c, c.op # "lock", call' = call \/ call' = [call EXCEPT ![cur] = c]
  PROVE  LockWoken'
<1>1. /\ cur \in Threads /\ call \in [Threads -> Calls] /\ waitp \in [Threads -> {0, 1}]
      /\ waitp[cur] = 0 /\ call[cur].op # "lock" /\ lockp \in [Mutexes -> {0, 1}]
  BY DEF TypeOK, LockInv, RunsReady, LockCalls
<1>2. /\ W \subseteq Threads \cap ToSet(paused) /\ \A u \in W : event[u] = m
      /\ lockp[m] = 1 /\ W = {} => \A u \in ToSet(paused) : event[u] # m
  BY WakeFirstPaused
<1>3. ASSUME NEW u \in W PROVE u # cur /\ call[u].op = "lock" /\ call[u].on = m
  BY <1>1, <1>2 DEF LockInv, LockCalls, LockWaits
<1>4. \A t \in Threads : t # cur /\ waitp'[t] = 1 => waitp[t] = 1
  BY <1>1 DEF Cleared
<1>5. \A t \in Threads : t # cur => call'[t] = call[t] /\ waitp'[t] = (IF t \in W THEN 0 ELSE waitp[t])
                                      /\ timeoutp'[t] = (IF t \in W THEN 0 ELSE timeoutp[t])
  BY <1>1 DEF Cleared
<1>6. call'[cur].op # "lock"
  BY <1>1
<1>. SUFFICES ASSUME NEW k \in Mutexes, NEW t \in Threads, lockp'[k] = 0, waitp'[t] = 1,
                     call'[t].op = "lock", call'[t].on = k
              PROVE  \E u \in Threads : call'[u].op = "lock" /\ call'[u].on = k
                                        /\ waitp'[u] = 0 /\ timeoutp'[u] = 0
  BY DEF LockWoken
<1>7. t # cur /\ call[t].op = "lock" /\ call[t].on = k /\ waitp[t] = 1
  BY <1>4, <1>5, <1>6
<1>8. CASE k = m /\ lockp[m] = 1
  <2>1. t \in ToSet(paused) /\ event[t] = m
    BY <1>7, <1>8 DEF LockInv, LockCalls, WaitersHeld
  <2>2. PICK u : u \in W
    BY <1>2, <1>8, <2>1
  <2>. QED
    BY <1>2, <1>3, <1>5, <1>8, <2>2
<1>9. CASE ~(k = m /\ lockp[m] = 1)
  <2>1. lockp[k] = 0
    BY <1>1, <1>9
  <2>2. PICK u \in Threads : call[u].op = "lock" /\ call[u].on = k /\ waitp[u] = 0 /\ timeoutp[u] = 0
    BY <1>7, <2>1 DEF LockInv, LockWoken
  <2>. QED
    BY <1>1, <1>5, <2>2
<1>. QED
  BY <1>8, <1>9

\* Every step keeps LockWoken.
LEMMA NextLockWoken ==
  ASSUME NobodyInterrupted
  PROVE  TypeOK /\ PausedOrdered /\ LockInv /\ [Next]_vars => LockWoken'
<1>. SUFFICES ASSUME TypeOK, PausedOrdered, LockInv, [Next]_vars PROVE LockWoken'
  OBVIOUS
<1>1. /\ cur \in Threads /\ call \in [Threads -> Calls] /\ lockp \in [Mutexes -> {0, 1}]
      /\ waitp \in [Threads -> {0, 1}] /\ timeoutp \in [Threads -> {0, 1}] /\ pc \in [Threads -> PCs]
      /\ ToSet(paused) \subseteq Threads
      /\ NoCall.op # "lock" /\ \A op, on, d : Call(op, on, d).op = op /\ Call(op, on, d).on = on
  BY DEF TypeOK, NoCall, Call, ToSet
<1>2. LockWoken /\ LockCalls /\ LockWaits
  BY DEF LockInv
<1>3. ASSUME UNCHANGED <<lockp, waitp, timeoutp, call>> PROVE LockWoken'
  BY <1>2, <1>3, WokenStep
<1>4. ASSUME UNCHANGED lockp, NEW c, c.op # "lock", call[cur].op # "lock", call' = [call EXCEPT ![cur] = c],
             \A t \in Threads : t # cur => waitp'[t] = waitp[t] /\ timeoutp'[t] = timeoutp[t]
      PROVE  LockWoken'
  BY <1>1, <1>2, <1>4, WokenStep
<1>5. ASSUME UNCHANGED <<lockp, call>>,
             \A t \in Threads : \/ waitp'[t] = waitp[t] /\ timeoutp'[t] = timeoutp[t]
                                \/ waitp'[t] = 0 /\ timeoutp'[t] = 0
                                \/ waitp'[t] = 0 /\ waitp[t] = 1
                                \/ call[t].op # "lock"
      PROVE  LockWoken'
  BY <1>1, <1>2, <1>5, WokenStep
<1>6. \A t \in ToSet(paused) : call[t].op = "lock" => waitp[t] = 1
  BY <1>1, <1>2 DEF LockCalls, LockWaits
<1>7. ASSUME pc[cur] \notin {"yield", "check"} PROVE call[cur].op # "lock"
  BY <1>1, <1>2, <1>7 DEF LockCalls
<1>8. ASSUME Return, UNCHANGED <<lockp, waitp, timeoutp>>, call[cur].op # "lock" PROVE LockWoken'
  BY <1>1, <1>4, <1>8 DEF Return
<1>9. ASSUME NEW q, NEW e, NEW d, NEW c, Pause(q, e, d, c), c.op # "lock", call[cur].op # "lock", lockp' = lockp,
             \A t \in Threads : t # cur => timeoutp'[t] = timeoutp[t]
      PROVE  LockWoken'
  BY <1>1, <1>4, <1>9 DEF Pause
<1>10. ASSUME NEW m \in Mutexes, NEW d, Lock(m, d), call[cur].op = "lock" => call[cur].on = m PROVE LockWoken'
  <2>1. CASE lockp[m] = 0
    <3>1. /\ lockp' = [lockp EXCEPT ![m] = 1] /\ call' = [call EXCEPT ![cur] = NoCall]
          /\ UNCHANGED <<waitp, timeoutp>>
      BY <1>10, <2>1 DEF Lock, Return, fields
    <3>. QED
      BY <1>1, <1>2, <1>10, <3>1, WokenStep
  <2>2. CASE lockp[m] # 0
    <3>1. /\ lockp' = lockp /\ call' = [call EXCEPT ![cur] = Call("lock", m, d)]
          /\ waitp' = [waitp EXCEPT ![cur] = 1] /\ timeoutp' = timeoutp
      BY <1>10, <2>2 DEF Lock, Pause
    <3>. QED
      BY <1>1, <1>2, <1>10, <2>2, <3>1, WokenStep
  <2>. QED
    BY <2>1, <2>2
<1>11. ASSUME NEW t, NEW d, Join(t, d), call[cur].op # "lock" PROVE LockWoken'
  <2>1. Call("join", t, d).op # "lock"
    BY <1>1
  <2>. QED
    BY <1>1, <1>8, <1>9, <1>11, <2>1 DEF Join, fields
<1>12. ASSUME NEW f, NEW d, Blocker(f, d), call[cur].op # "lock" PROVE LockWoken'
  <2>1. Call("block", f, d).op # "lock"
    BY <1>1
  <2>. QED
    BY <1>1, <1>4, <1>12, <2>1 DEF Blocker
<1>13. ASSUME NEW c, SignalOne(c)
       PROVE  /\ lockp' = lockp
              /\ \A t \in Threads : \/ waitp'[t] = waitp[t] /\ timeoutp'[t] = timeoutp[t]
                                    \/ waitp'[t] = 0 /\ timeoutp'[t] = 0
  BY <1>1, <1>13 DEF SignalOne, Cleared
<1>14. ASSUME NEW r, EndLoop(r), call[cur].op # "lock" PROVE LockWoken'
  BY <1>1, <1>4, <1>14 DEF EndLoop
<1>15. CASE UNCHANGED vars
  BY <1>3, <1>15 DEF vars, fields, code
<1>16. CASE Client
  <2>. USE DEF Runs
  <2>1. ASSUME NEW t \in Threads, ThreadStart(t) PROVE LockWoken'
    BY <2>1, <1>3 DEF ThreadStart
  <2>2. ASSUME NEW t \in Threads, ThreadTerminate(t) PROVE LockWoken'
    BY <2>2, <1>3 DEF ThreadTerminate
  <2>3. ASSUME NEW t \in Threads, NEW d \in Delays, ThreadJoin(t, d) PROVE LockWoken'
    BY <2>3, <1>7, <1>11 DEF ThreadJoin
  <2>4. ASSUME NEW d \in Delays, ThreadSleep(d) PROVE LockWoken'
    <3>1. Call("sleep", NoEvent, d).op # "lock"
      BY <1>1
    <3>. QED
      BY <2>4, <3>1, <1>7, <1>9 DEF ThreadSleep
  <2>5. ASSUME NEW m \in Mutexes, NEW d \in Delays, MutexLock(m, d) PROVE LockWoken'
    BY <2>5, <1>7, <1>10 DEF MutexLock
  <2>6. ASSUME NEW m \in Mutexes, MutexUnlock(m) PROVE LockWoken'
    <3>. DEFINE W == IF lockp[m] = 1 THEN Woken(m) ELSE {}
    <3>1. /\ phase = "vm" /\ pc[cur] = "run" /\ lockp' = [lockp EXCEPT ![m] = 0] /\ call' = call
          /\ waitp' = Cleared(waitp, W) /\ timeoutp' = Cleared(timeoutp, W)
      <4>1. Cleared(waitp, {}) = waitp /\ Cleared(timeoutp, {}) = timeoutp
        BY <1>1 DEF Cleared
      <4>. QED
        BY <2>6, <4>1 DEF MutexUnlock, code
    <3>. QED
      BY <3>1, <1>1, UnlockWoken
  <2>7. ASSUME NEW m \in Mutexes, NEW c \in CondVars, NEW d \in Delays,
               MutexUnlockWait(m, c, d)
        PROVE  LockWoken'
    <3>. DEFINE W == IF lockp[m] = 1 THEN Woken(m) ELSE {}
    <3>1. /\ phase = "vm" /\ pc[cur] = "run" /\ lockp' = [lockp EXCEPT ![m] = 0]
          /\ waitp' = [Cleared(waitp, W) EXCEPT ![cur] = 1] /\ timeoutp' = Cleared(timeoutp, W)
          /\ call' = [call EXCEPT ![cur] = Call("wait", c, d)] /\ Call("wait", c, d).op # "lock"
      BY <2>7, <1>1 DEF MutexUnlockWait
    <3>. QED
      BY <3>1, <1>1, UnlockWoken
  <2>8. ASSUME NEW c \in CondVars, CondVarSignal(c) PROVE LockWoken'
    BY <2>8, <1>5, <1>13 DEF CondVarSignal
  <2>9. ASSUME NEW c \in CondVars, CondVarBroadcast(c) PROVE LockWoken'
    <3>1. Call("broadcast", c, Forever).op # "lock"
      BY <1>1
    <3>. QED
      BY <2>9, <3>1, <1>4, <1>7 DEF CondVarBroadcast, fields
  <2>10. ASSUME NEW f \in Fds, NEW d \in Delays, Block(f, d) PROVE LockWoken'
    BY <2>10, <1>7, <1>12 DEF Block
  <2>11. CASE Finish \/ Raise
    BY <2>11, <1>7, <1>14 DEF Finish, Raise
  <2>. QED
    BY <1>16, <2>1, <2>2, <2>3, <2>4, <2>5, <2>6, <2>7, <2>8, <2>9, <2>10, <2>11 DEF Client
<1>17. CASE Continue
  <2>. USE DEF Resumes
  <2>1. CASE ThreadJoinAgain
    BY <2>1, <1>8, <1>11 DEF ThreadJoinAgain, fields
  <2>2. CASE MutexLockAgain
    <3>1. CASE timeoutp[cur] = 1
      <4>1. call' = [call EXCEPT ![cur] = NoCall] /\ UNCHANGED <<lockp, waitp, timeoutp>>
        BY <2>2, <3>1 DEF MutexLockAgain, Return, fields
      <4>. QED
        BY <1>1, <1>2, <3>1, <4>1, WokenStep
    <3>2. CASE timeoutp[cur] # 1
      <4>1. call[cur].on \in Mutexes /\ Lock(call[cur].on, call[cur].delay)
        BY <2>2, <3>2, <1>1, <1>2 DEF MutexLockAgain, LockCalls
      <4>. QED
        BY <4>1, <1>10
    <3>. QED
      BY <3>1, <3>2
  <2>3. CASE WaitOver
    BY <2>3, <1>8 DEF WaitOver, fields
  <2>4. CASE BlockAgain
    BY <2>4, <1>8, <1>12 DEF BlockAgain, fields
  <2>5. CASE BroadcastStep
    <3>1. call[cur].op = "broadcast"
      BY <2>5, <1>2 DEF BroadcastStep, LockCalls
    <3>2. /\ lockp' = lockp
          /\ \A t \in Threads : \/ waitp'[t] = waitp[t] /\ timeoutp'[t] = timeoutp[t]
                                \/ waitp'[t] = 0 /\ timeoutp'[t] = 0
      BY <2>5, <1>13 DEF BroadcastStep
    <3>3. call' = call \/ call' = [call EXCEPT ![cur] = NoCall]
      BY <2>5 DEF BroadcastStep
    <3>. QED
      BY <3>1, <3>2, <3>3, <1>1, <1>2, WokenStep
  <2>6. CASE PopSignal
    BY <2>6, <1>1, <1>4, <1>7 DEF PopSignal, fields
  <2>8. CASE RunnerSleep
    <3>1. Call("runner", NoEvent, Forever).op # "lock" /\ call[cur].op # "lock"
      BY <2>8, <1>1, <1>7 DEF RunnerSleep
    <3>. QED
      BY <2>8, <3>1, <1>1, <1>3, <1>4 DEF RunnerSleep
  <2>7. CASE RunnerLoop
    BY <2>7, <1>1, <1>4, <1>7 DEF RunnerLoop, fields
  <2>. QED
    BY <1>17, <2>1, <2>2, <2>3, <2>4, <2>5, <2>6, <2>7, <2>8 DEF Continue
<1>18. CASE Scheduler
  <2>1. CASE Poll \/ NapOver \/ Dequeue
    BY <2>1, <1>3 DEF Poll, NapOver, Dequeue, fields, code
  <2>2. CASE CheckSignals
    BY <2>2, <1>1, <1>5 DEF CheckSignals
  <2>3. CASE PollWake
    <3>1. \A t \in Threads : \/ waitp'[t] = waitp[t] /\ timeoutp'[t] = timeoutp[t]
                             \/ waitp'[t] = 0 /\ timeoutp'[t] = 0
      BY <2>3, <1>1 DEF PollWake, WakeToBack
    <3>. QED
      BY <2>3, <3>1, <1>5 DEF PollWake, code
  <2>4. CASE WakeJoiners
    <3>1. \A t \in Threads : \/ waitp'[t] = waitp[t] /\ timeoutp'[t] = timeoutp[t]
                             \/ waitp'[t] = 0 /\ timeoutp'[t] = 0
      BY <2>4, <1>1 DEF WakeJoiners, WakeToBack
    <3>. QED
      BY <2>4, <3>1, <1>5 DEF WakeJoiners, code
  <2>5. CASE CheckTimeouts
    <3>1. \A t \in Due : call[t].op = "lock" => waitp[t] = 1
      BY <2>5, <1>6, CheckTimeoutsPaused
    <3>. QED
      BY <2>5, <3>1, <1>5 DEF CheckTimeouts, Cleared, code
  <2>6. CASE Pick
    <3>1. cur' = cur \/ cur' \in ToSet(paused)
      BY <2>6, <1>1, PickPaused
    <3>2. CASE waitp[cur] = 0
      BY <2>6, <3>2, <1>3 DEF Pick, code
    <3>3. CASE waitp[cur] # 0
      <4>1. call[cur'].op = "lock" => waitp[cur'] = 1
        BY <3>1, <3>3, <1>1, <1>6
      <4>2. \A t \in Threads : t # cur' => waitp'[t] = waitp[t] /\ timeoutp'[t] = timeoutp[t]
        BY <2>6, <1>1 DEF Pick
      <4>3. UNCHANGED <<waitp, timeoutp>> \/ waitp' = [waitp EXCEPT ![cur'] = 0]
        BY <2>6, <3>3 DEF Pick
      <4>. QED
        BY <2>6, <4>1, <4>2, <4>3, <1>1, <1>3, <1>5 DEF Pick, code
    <3>. QED
      BY <3>2, <3>3
  <2>. QED
    BY <1>18, <2>1, <2>2, <2>3, <2>4, <2>5, <2>6 DEF Scheduler
<1>19. CASE Resume
  <2>1. CASE refuel[cur] = 0
    <3>1. call[cur].op # "lock"
      BY <2>1, <1>1, <1>2 DEF LockCalls
    <3>. QED
      BY <2>1, <3>1, <1>14, <1>19 DEF Resume
  <2>2. CASE refuel[cur] # 0
    BY <2>2, <1>3, <1>19 DEF Resume, fields, code
  <2>. QED
    BY <2>1, <2>2
<1>20. CASE (\E s \in Signums : SignalArrives(s)) \/ Preempt \/ Yield \/ Tick
  BY <1>3, <1>20 DEF SignalArrives, Preempt, Yield, Tick, fields, code
<1>. QED
  BY <1>15, <1>16, <1>17, <1>18, <1>19, <1>20 DEF Next, Halted

\* As long as no thread is terminated from outside and the handlers of signals
\* take no mutex, mutex-unlock! loses no wake-up: when threads are paused at a
\* free mutex, a waiter that was woken is on its way to try the lock again,
\* whatever timeouts, condition variables and descriptors are in play.
THEOREM WakeupNeverLost ==
  ASSUME NobodyInterrupted PROVE Spec => []NoLostWakeup
<1>1. Init => LockInv
  <2>. SUFFICES ASSUME Init PROVE LockInv
    OBVIOUS
  <2>1. \A t \in Threads : /\ call[t].op # "join" /\ call[t].op # "lock" /\ waitp[t] = 0 /\ refuel[t] # 0
                           /\ event[t] = NoEvent
    BY DEF Init, NoCall
  <2>2. phase = "vm" /\ cur \in Threads /\ paused = <<>> /\ ToSet(paused) = {} /\ NoEvent \notin Mutexes
    BY ConstantsAssumption DEF Init, ToSet
  <2>. QED
    BY <2>1, <2>2 DEF LockInv, RunsReady, WaitersHeld, JoinEvents, LockCalls, LockWaits, LockWoken
<1>2. TypeOK /\ PausedOrdered /\ LockInv /\ [Next]_vars => LockInv'
  BY NextReady, NextWaiters, NextEvents, NextLockCalls, NextLockWaits, NextLockWoken DEF LockInv
<1>3. TypeOK /\ LockInv => NoLostWakeup
  <2>. SUFFICES ASSUME TypeOK, LockInv, NEW m \in Mutexes, NEW t \in ToSet(paused),
                       lockp[m] = 0, waitp[t] = 1, WaitsFor(t, m)
                PROVE  \E u \in Threads : WaitsFor(u, m) /\ waitp[u] = 0
    BY DEF NoLostWakeup
  <2>1. t \in Threads
    BY DEF TypeOK, ToSet
  <2>2. PICK u \in Threads : call[u].op = "lock" /\ call[u].on = m /\ waitp[u] = 0
    BY <2>1 DEF LockInv, LockWoken, WaitsFor
  <2>3. WaitsFor(u, m)
    BY <2>2 DEF LockInv, LockCalls, WaitsFor, Live
  <2>. QED
    BY <2>2, <2>3
<1>. QED
  BY <1>1, <1>2, <1>3, TypeCorrect, PausedAlwaysOrdered, PTL DEF Spec
=============================================================================
