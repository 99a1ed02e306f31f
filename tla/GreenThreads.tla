---------------------------- MODULE GreenThreads ----------------------------
(***************************************************************************)
(* The green threads of chibi-scheme: the run queue, the list of paused    *)
(* threads and the scheduler of lib/srfi/18/threads.c, the part of the VM  *)
(* loop (vm.c) that calls the scheduler, and the SRFI 18 procedures that   *)
(* lib/srfi/18/interface.scm builds on the primitives.                     *)
(*                                                                         *)
(* One OS thread runs everything, so a C primitive is one action.  The     *)
(* scheduler is split at its comments ("check signals", "check blocked     *)
(* fds", "check threads joining us", "check timeouts", "dequeue next       *)
(* thread"); `phase` forces their order, and only the outside world (the   *)
(* clock, a signal) can act in between.  What Scheme code a thread runs is *)
(* a free choice among the operations in Ops.                              *)
(***************************************************************************)
EXTENDS Integers, SequencesExt

CONSTANTS
  Threads,    \* the contexts, allocated but possibly not yet started
  Root,       \* the context sexp_apply was called with; it runs first
  Runner,     \* the context of signal-runner (in Threads or not)
  Mutexes, CondVars, Fds, Signums,
  NoEvent,    \* SEXP_FALSE in the event field
  Forever,    \* SEXP_FALSE as a timeout
  Delays,     \* the timeouts clients pass: ticks of 10ms, or Forever
  MaxTime,    \* bound: the clock stops here
  MaxQueue,   \* bound: no more waits or signals once the queue is longer
  Ops,        \* the operations the client threads may perform
  HandlerOps  \* those of them that the signal handlers may perform

Events == Threads \cup Mutexes \cup CondVars \cup Fds \cup {NoEvent}
OpNames == {"lock", "unlock", "wait", "signal", "broadcast", "join", "sleep",
            "block", "start", "terminate", "finish", "raise"}

ASSUME ConstantsAssumption ==
  /\ Root \in Threads
  /\ Runner # Root
  /\ MaxTime \in Nat \ {0}
  /\ MaxQueue \in Nat
  /\ Forever \notin Nat /\ Signums \subseteq Nat
  /\ Threads \cap (Mutexes \cup CondVars \cup Fds \cup {NoEvent}) = {}
  /\ Mutexes \cap (CondVars \cup Fds \cup {NoEvent}) = {}
  /\ CondVars \cap (Fds \cup {NoEvent}) = {} /\ NoEvent \notin Fds
  /\ Delays \subseteq Nat \cup {Forever}
  /\ MaxTime > 1 \/ Delays \subseteq {Forever}
  /\ Ops \subseteq OpNames /\ HandlerOps \subseteq Ops

VARIABLES
  front,      \* SEXP_G_THREADS_FRONT..BACK, the run queue
  paused,     \* SEXP_G_THREADS_PAUSED, ordered by deadline
  cur,        \* ctx, the context the VM executes
  phase,      \* where the VM or the scheduler is
  stale,      \* the scheduler's local `front` misses the runner it queued
  refuel,     \* 0 once the thread is terminated (1 stands for the quantum)
  waitp, timeoutp, errorp, event, timeval, result,     \* context fields
  pc, call,   \* each thread's place in interface.scm, and its pending call
  lockp,      \* each mutex's lock field
  pollfds, revents,   \* the polled descriptors, and those poll found ready
  signals,    \* SEXP_G_THREADS_SIGNALS, a bit per pending signal
  now,        \* gettimeofday, in ticks of the 10ms the scheduler naps
  napUntil    \* when usleep returns

queues == <<front, paused>>
fields == <<refuel, waitp, timeoutp, errorp, event, timeval, result>>
code == <<pc, call>>
world == <<pollfds, revents, signals, now, napUntil>>
vars == <<queues, cur, phase, stale, fields, code, lockp, world>>

NoCall == [op |-> "none", on |-> NoEvent, delay |-> Forever]
Call(op, on, d) == [op |-> op, on |-> on, delay |-> d]

-----------------------------------------------------------------------------
(* The two lists.                                                          *)

\* sexp_delete_list: drop the first cell that holds x.
DeleteList(q, x) ==
  LET at == {i \in DOMAIN q : q[i] = x}
  IN  IF at = {} THEN q ELSE RemoveAt(q, Min(at))

\* sexp_context_before: t's deadline is set and strictly earlier than tv.
Before(tvs, t, tv) == tvs[t] # 0 /\ tvs[t] < tv

\* The deadline sexp_insert_timed stores for a timeout; 0 is "none".
Deadline(d) ==
  IF d = Forever THEN 0
  ELSE IF now + d < MaxTime THEN now + d ELSE MaxTime - 1

\* A variant with a bug: link every timed thread at the head.
WalksPastNone(tvs, t, u) == tvs[t] = 0 /\ tvs[u] # 0

\* The cells sexp_insert_timed walks past before it links the new one.
WalksPast(tvs, t, u) == IF tvs[t] = 0 THEN tvs[u] # 0 ELSE Before(tvs, u, tvs[t])

\* sexp_insert_timed, given the deadlines tvs with t's new one.
InsertTimed(q, t, tvs) ==
  LET rest == DeleteList(q, t)
      stops == {i \in 1..(Len(rest) + 1) :
                  i <= Len(rest) => ~WalksPast(tvs, t, rest[i])}
  IN  InsertAt(rest, Min(stops), t)

\* The places of the paused threads that wait for e.
WaitersAt(e) == {i \in DOMAIN paused : event[paused[i]] = e}

-----------------------------------------------------------------------------
(* Threads.                                                                *)

Init ==
  /\ front = <<>> /\ paused = <<>>
  /\ cur = Root /\ phase = "vm" /\ stale = FALSE
  /\ refuel = [t \in Threads |-> 1]
  /\ waitp = [t \in Threads |-> 0]
  /\ timeoutp = [t \in Threads |-> 0]
  /\ errorp = [t \in Threads |-> 0]
  /\ event = [t \in Threads |-> NoEvent]
  /\ timeval = [t \in Threads |-> 0]
  /\ result = [t \in Threads |-> "none"]
  /\ pc = [t \in Threads |-> IF t = Root THEN "run" ELSE "unstarted"]
  /\ call = [t \in Threads |-> NoCall]
  /\ lockp = [m \in Mutexes |-> 0]
  /\ pollfds = {} /\ revents = {} /\ signals = {}
  /\ now = 1 /\ napUntil = 1

\* The current thread executes Scheme code and is about to perform op.
Runs(op) ==
  /\ phase = "vm" /\ pc[cur] = "run"
  /\ op \in IF cur = Runner THEN HandlerOps ELSE Ops

\* The current thread is back from the thread-yield! that followed op.
Resumes(op) ==
  /\ phase = "vm" /\ pc[cur] = "check" /\ call[cur].op = op

\* Timed waits and signals can leave extra queue entries behind: bound them.
QueueBound == Len(front) <= MaxQueue

\* Block the current thread on e: the fields a primitive sets, and its place
\* in the paused list q.
Pause(q, e, d, op) ==
  /\ waitp' = [waitp EXCEPT ![cur] = 1]
  /\ event' = [event EXCEPT ![cur] = e]
  /\ timeval' = [timeval EXCEPT ![cur] = Deadline(d)]
  /\ paused' = InsertTimed(q, cur, timeval')
  /\ call' = [call EXCEPT ![cur] = op]
  /\ pc' = [pc EXCEPT ![cur] = "yield"]

\* The current thread's operation is complete.
Return ==
  /\ pc' = [pc EXCEPT ![cur] = "run"]
  /\ call' = [call EXCEPT ![cur] = NoCall]

\* thread-start!
ThreadStart(t) ==
  /\ Runs("start") /\ t # Runner /\ pc[t] = "unstarted"
  /\ errorp' = [errorp EXCEPT ![t] = 0]
  /\ front' = Append(front, t)
  /\ pc' = [pc EXCEPT ![t] = "run"]
  /\ UNCHANGED <<paused, cur, phase, stale, refuel, waitp, timeoutp, event,
                 timeval, result, call, lockp, world>>

\* thread-terminate!  The test meant for the victim reads the caller's fuel,
\* which is positive while it runs.  A paused victim is queued by
\* sexp_thread_start, which clears the errorp just set.
ThreadTerminate(t) ==
  /\ Runs("terminate")
  /\ refuel' = [refuel EXCEPT ![t] = 0]
  /\ result' = [result EXCEPT ![t] = "killed"]
  /\ IF t \in ToSet(paused)
     THEN /\ paused' = DeleteList(paused, t)
          /\ front' = Append(front, t)
          /\ errorp' = [errorp EXCEPT ![t] = 0]
     ELSE /\ errorp' = [errorp EXCEPT ![t] = 1]
          /\ UNCHANGED queues
  /\ pc' = [pc EXCEPT ![cur] = IF t = cur THEN "yield" ELSE @]
  /\ UNCHANGED <<cur, phase, stale, waitp, timeoutp, event, timeval, call,
                 lockp, world>>

\* %thread-join!, as thread-join! calls it first and after each wake-up.
Join(t, d) ==
  \/ /\ refuel[t] = 0
     /\ Return
     /\ UNCHANGED <<queues, cur, phase, stale, fields, lockp, world>>
  \/ /\ refuel[t] # 0
     /\ timeoutp' = [timeoutp EXCEPT ![cur] = 0]
     /\ Pause(paused, t, d, Call("join", t, d))
     /\ UNCHANGED <<front, cur, phase, stale, refuel, errorp, result, lockp,
                    world>>

ThreadJoin(t, d) == Runs("join") /\ QueueBound /\ Join(t, d)

ThreadJoinAgain ==
  /\ Resumes("join")
  /\ LET c == call[cur]
     IN  IF c.delay # Forever /\ timeoutp[cur] = 1
         THEN Return /\ UNCHANGED <<queues, cur, phase, stale, fields, lockp, world>>
         ELSE Join(c.on, c.delay)

\* thread-sleep! with a number.
ThreadSleep(d) ==
  /\ Runs("sleep") /\ QueueBound /\ d # Forever
  /\ Pause(paused, NoEvent, d, Call("sleep", NoEvent, d))
  /\ UNCHANGED <<front, cur, phase, stale, refuel, timeoutp, errorp, result,
                 lockp, world>>

\* The calls that go on whatever woke them: thread-sleep!, and mutex-unlock!
\* with a condition variable (which only returns whether it timed out).
WaitOver ==
  /\ Resumes("sleep") \/ Resumes("wait")
  /\ Return
  /\ UNCHANGED <<queues, cur, phase, stale, fields, lockp, world>>

-----------------------------------------------------------------------------
(* Mutexes and condition variables.                                        *)

\* sexp_mutex_lock
Lock(m, d) ==
  \/ /\ lockp[m] = 0
     /\ lockp' = [lockp EXCEPT ![m] = 1]
     /\ Return
     /\ UNCHANGED <<queues, cur, phase, stale, fields, world>>
  \/ /\ lockp[m] = 1
     /\ Pause(paused, m, d, Call("lock", m, d))
     /\ UNCHANGED <<front, cur, phase, stale, refuel, timeoutp, errorp, result,
                    lockp, world>>

MutexLock(m, d) == Runs("lock") /\ QueueBound /\ Lock(m, d)

\* mutex-lock! after its yield: fail on a timeout, else try again.
MutexLockAgain ==
  /\ Resumes("lock")
  /\ LET c == call[cur]
     IN  IF timeoutp[cur] = 1
         THEN Return /\ UNCHANGED <<queues, cur, phase, stale, fields, lockp, world>>
         ELSE Lock(c.on, c.delay)

\* sexp_mutex_unlock and sexp_condition_variable_signal move the first paused
\* thread that waits for e to the very front of the run queue; the threads
\* are woken(e), and `woken' as flags for the rest of the action.
Woken(e) == IF WaitersAt(e) = {} THEN {} ELSE {paused[Min(WaitersAt(e))]}
PausedWithout(e) == IF WaitersAt(e) = {} THEN paused ELSE RemoveAt(paused, Min(WaitersAt(e)))
\* A variant with a bug: the woken cell is not linked to the rest of the queue.
FrontWithUnlinked(e) ==
  IF WaitersAt(e) = {} THEN front ELSE <<paused[Min(WaitersAt(e))]>>
FrontWith(e) == IF WaitersAt(e) = {} THEN front ELSE <<paused[Min(WaitersAt(e))]>> \o front
Cleared(f, T) == [t \in Threads |-> IF t \in T THEN 0 ELSE f[t]]

\* A variant with a bug: the mutex is released and nobody is told.
MutexUnlockSilent(m) ==
  /\ Runs("unlock")
  /\ lockp' = [lockp EXCEPT ![m] = 0]
  /\ UNCHANGED <<queues, cur, phase, stale, fields, code, world>>

\* mutex-unlock! without a condition variable; unlocking a free mutex is a no-op.
MutexUnlock(m) ==
  /\ Runs("unlock")
  /\ lockp' = [lockp EXCEPT ![m] = 0]
  /\ IF lockp[m] = 1
     THEN /\ paused' = PausedWithout(m)
          /\ front' = FrontWith(m)
          /\ waitp' = Cleared(waitp, Woken(m))
          /\ timeoutp' = Cleared(timeoutp, Woken(m))
     ELSE UNCHANGED <<queues, waitp, timeoutp>>
  /\ UNCHANGED <<cur, phase, stale, refuel, errorp, event, timeval, result,
                 code, world>>

\* mutex-unlock! with a condition variable: unlock, then wait for the signal.
MutexUnlockWait(m, c, d) ==
  /\ Runs("wait") /\ QueueBound
  /\ lockp' = [lockp EXCEPT ![m] = 0]
  /\ LET W == IF lockp[m] = 1 THEN Woken(m) ELSE {}
     IN  /\ front' = IF lockp[m] = 1 THEN FrontWith(m) ELSE front
         /\ waitp' = [Cleared(waitp, W) EXCEPT ![cur] = 1]
         /\ timeoutp' = Cleared(timeoutp, W)
  /\ event' = [event EXCEPT ![cur] = c]
  /\ timeval' = [timeval EXCEPT ![cur] = Deadline(d)]
  /\ paused' = InsertTimed(IF lockp[m] = 1 THEN PausedWithout(m) ELSE paused,
                           cur, timeval')
  /\ call' = [call EXCEPT ![cur] = Call("wait", c, d)]
  /\ pc' = [pc EXCEPT ![cur] = "yield"]
  /\ UNCHANGED <<cur, phase, stale, refuel, errorp, result, world>>

SignalOne(c) ==
  /\ paused' = PausedWithout(c)
  /\ front' = FrontWith(c)
  /\ waitp' = Cleared(waitp, Woken(c))
  /\ timeoutp' = Cleared(timeoutp, Woken(c))
  /\ UNCHANGED <<cur, stale, refuel, errorp, event, timeval, result, pc,
                 lockp, world>>

\* condition-variable-signal!
CondVarSignal(c) ==
  /\ Runs("signal")
  /\ SignalOne(c)
  /\ UNCHANGED <<phase, call>>

\* condition-variable-broadcast!: signal until nobody waits any more.
CondVarBroadcast(c) ==
  /\ Runs("broadcast")
  /\ phase' = "broadcast"
  /\ call' = [call EXCEPT ![cur] = Call("broadcast", c, Forever)]
  /\ UNCHANGED <<queues, cur, stale, fields, pc, lockp, world>>

BroadcastStep ==
  /\ phase = "broadcast"
  /\ LET c == call[cur].on
     IN  /\ SignalOne(c)
         /\ IF WaitersAt(c) = {}
            THEN phase' = "vm" /\ call' = [call EXCEPT ![cur] = NoCall]
            ELSE UNCHANGED <<phase, call>>

-----------------------------------------------------------------------------
(* Blocking I/O, and the signal runner.                                    *)

\* sexp_blocker, after a read, a write or an accept failed with EAGAIN.  The
\* VM then spends its fuel and backs up, so the call is tried again when the
\* thread next runs: there is no thread-yield! in between.
Blocker(f, d) ==
  /\ pollfds' = pollfds \cup {f}
  /\ waitp' = [waitp EXCEPT ![cur] = 1]
  /\ event' = [event EXCEPT ![cur] = f]
  /\ timeval' = [timeval EXCEPT ![cur] = Deadline(d)]
  /\ paused' = InsertTimed(paused, cur, timeval')
  /\ call' = [call EXCEPT ![cur] = Call("block", f, d)]
  /\ pc' = [pc EXCEPT ![cur] = "check"]
  /\ phase' = "signals"
  /\ UNCHANGED <<front, cur, stale, refuel, timeoutp, errorp, result, lockp,
                 revents, signals, now, napUntil>>

Block(f, d) == Runs("block") /\ QueueBound /\ Blocker(f, d)

\* The retried call: it goes through, or would block again.  A call with a
\* timeout blocks once only (SEXP_G_IO_BLOCK_ONCE_ERROR).
BlockAgain ==
  /\ Resumes("block")
  /\ \/ /\ Return
        /\ UNCHANGED <<queues, cur, phase, stale, fields, lockp, world>>
     \/ /\ call[cur].delay = Forever
        /\ Blocker(call[cur].on, Forever)

\* sexp_call_sigaction, run by the operating system at any time.  One that
\* falls between sexp_pop_signal's read of the word and its write is
\* overwritten there and leaves no trace.
SignalArrives(s) ==
  /\ Runner \in Threads /\ phase # "halted" /\ QueueBound
  /\ signals' = signals \cup {s}
  /\ UNCHANGED <<queues, cur, phase, stale, fields, code, lockp, pollfds,
                 revents, now, napUntil>>

\* signal-runner: pop-signal! takes the lowest signal, whose handler is called,
\* or answers #f.
PopSignal ==
  /\ phase = "vm" /\ cur = Runner /\ pc[cur] = "pop"
  /\ IF signals = {}
     THEN pc' = [pc EXCEPT ![cur] = "idle"] /\ UNCHANGED signals
     ELSE /\ signals' = signals \ {Min(signals)}
          /\ pc' = [pc EXCEPT ![cur] = "run"]
  /\ UNCHANGED <<queues, cur, phase, stale, fields, call, lockp, pollfds, revents,
                 now, napUntil>>

\* It then goes to (thread-sleep! #t), which sets waitp and neither the event
\* nor a place in the paused list.  Since pop-signal! answered, signals may
\* have come and the runner may have been preempted.
RunnerSleep ==
  /\ phase = "vm" /\ cur = Runner /\ pc[cur] = "idle"
  /\ waitp' = [waitp EXCEPT ![cur] = 1]
  /\ pc' = [pc EXCEPT ![cur] = "yield"]
  /\ call' = [call EXCEPT ![cur] = Call("runner", NoEvent, Forever)]
  /\ UNCHANGED <<queues, cur, phase, stale, refuel, timeoutp, errorp, event,
                 timeval, result, lockp, world>>

\* The handler returns, or the sleep is over: back to pop-signal!.
RunnerLoop ==
  /\ phase = "vm" /\ cur = Runner
  /\ pc[cur] = "run" \/ Resumes("runner")
  /\ pc' = [pc EXCEPT ![cur] = "pop"]
  /\ call' = [call EXCEPT ![cur] = NoCall]
  /\ UNCHANGED <<queues, cur, phase, stale, fields, lockp, world>>

-----------------------------------------------------------------------------
(* The VM loop around the scheduler.                                       *)

\* The fuel runs out wherever the thread is.
Preempt ==
  /\ phase = "vm"
  /\ phase' = "signals"
  /\ UNCHANGED <<queues, cur, stale, fields, code, lockp, world>>

\* thread-yield!
Yield ==
  /\ phase = "vm" /\ pc[cur] = "yield"
  /\ pc' = [pc EXCEPT ![cur] = "check"]
  /\ phase' = "signals"
  /\ UNCHANGED <<queues, cur, stale, fields, call, lockp, world>>

\* end_loop, with r in _ARG1: only the root context leaves the VM, unless the
\* root is terminated already.
EndLoop(r) ==
  /\ result' = [result EXCEPT ![cur] = r]
  /\ pc' = [pc EXCEPT ![cur] = "done"]
  /\ call' = [call EXCEPT ![cur] = NoCall]
  /\ IF cur = Root \/ refuel[Root] = 0
     THEN phase' = "halted" /\ UNCHANGED refuel
     ELSE phase' = "signals" /\ refuel' = [refuel EXCEPT ![cur] = 0]
  /\ UNCHANGED <<queues, cur, stale, waitp, timeoutp, event, timeval, lockp,
                 world>>

\* The thread's thunk returns.
Finish ==
  /\ Runs("finish") /\ cur # Runner
  /\ EndLoop("value")
  /\ UNCHANGED errorp

\* The thread raises an exception that no handler catches.
Raise ==
  /\ Runs("raise")
  /\ EndLoop("error")
  /\ errorp' = [errorp EXCEPT ![cur] = 1]

\* After the scheduler chose cur: a terminated thread goes to end_loop with
\* what its stack holds (the final value if it had returned, else anything),
\* a thread still waiting goes to the scheduler again, any other one runs.
Resume ==
  /\ phase = "resume"
  /\ \/ /\ refuel[cur] = 0
        /\ IF pc[cur] = "done" /\ result[cur] # "killed"
           THEN EndLoop(result[cur])
           ELSE \E r \in IF pc[cur] = "done" THEN {"value", "error", "junk"} ELSE {"junk"} : EndLoop(r)
        /\ UNCHANGED errorp
     \/ /\ refuel[cur] # 0
        /\ phase' = IF waitp[cur] = 1 THEN "signals" ELSE "vm"
        /\ UNCHANGED <<queues, cur, stale, fields, code, lockp, world>>

-----------------------------------------------------------------------------
(* sexp_scheduler.                                                         *)

\* A variant with a bug: the runner is created but never woken again.
CheckSignalsOnce ==
  /\ phase = "signals" /\ phase' = "poll" /\ stale' = FALSE
  /\ IF signals # {} /\ pc[Runner] = "unstarted"
     THEN /\ pc' = [pc EXCEPT ![Runner] = "pop"]
          /\ front' = Append(front, Runner)
     ELSE UNCHANGED <<front, pc>>
  /\ UNCHANGED <<paused, cur, fields, call, lockp, world>>

\* Check signals: create the runner, or wake it if it sleeps.  Only the first
\* case reloads the local `front`.
CheckSignals ==
  /\ phase = "signals"
  /\ phase' = "poll"
  /\ \/ /\ signals # {} /\ pc[Runner] = "unstarted"
        /\ pc' = [pc EXCEPT ![Runner] = "pop"]
        /\ errorp' = [errorp EXCEPT ![Runner] = 0]
        /\ front' = Append(front, Runner)
        /\ stale' = FALSE
        /\ UNCHANGED waitp
     \/ /\ signals # {} /\ pc[Runner] # "unstarted" /\ waitp[Runner] = 1
        /\ waitp' = [waitp EXCEPT ![Runner] = 0]
        /\ errorp' = [errorp EXCEPT ![Runner] = 0]
        /\ front' = Append(front, Runner)
        /\ stale' = (front = <<>>)
        /\ UNCHANGED pc
     \/ /\ signals # {} => pc[Runner] # "unstarted" /\ waitp[Runner] = 0
        /\ stale' = FALSE
        /\ UNCHANGED <<front, waitp, errorp, pc>>
  /\ UNCHANGED <<paused, cur, refuel, timeoutp, event, timeval, result, call,
                 lockp, world>>

\* Check blocked fds: poll reports any of the descriptors ready.
Poll ==
  /\ phase = "poll"
  /\ revents' \in SUBSET pollfds
  /\ phase' = IF revents' = {} THEN "joins" ELSE "wake"
  /\ UNCHANGED <<queues, cur, stale, fields, code, lockp, pollfds, signals, now,
                 napUntil>>

\* Move the paused thread at i to the back of the run queue.
WakeToBack(i) ==
  /\ waitp' = [waitp EXCEPT ![paused[i]] = 0]
  /\ timeoutp' = [timeoutp EXCEPT ![paused[i]] = 0]
  /\ paused' = RemoveAt(paused, i)
  /\ front' = Append(front, paused[i])

\* A variant with a bug: a descriptor is dropped while still marked ready.
PollWakeKeepsReady ==
  /\ phase = "wake"
  /\ \E f \in revents : pollfds' = pollfds \ {f}
  /\ phase' = "joins"
  /\ UNCHANGED <<queues, cur, stale, fields, code, lockp, revents, signals, now,
                 napUntil>>

\* Free all threads blocked on a ready descriptor: the current one, whose
\* event is cleared so that the walk over the paused list passes it by, then
\* the paused ones in order; then drop the descriptor.
PollWake ==
  /\ phase = "wake"
  /\ \E f \in revents :
       \/ /\ event[cur] = f
          /\ waitp' = [waitp EXCEPT ![cur] = 0]
          /\ timeoutp' = [timeoutp EXCEPT ![cur] = 0]
          /\ event' = [event EXCEPT ![cur] = NoEvent]
          /\ UNCHANGED <<queues, pollfds, revents, phase>>
       \/ /\ event[cur] # f /\ WaitersAt(f) # {}
          /\ LET i == Min(WaitersAt(f))
             IN  /\ WakeToBack(i)
                 /\ event' = [event EXCEPT ![paused[i]] = NoEvent]
          /\ UNCHANGED <<pollfds, revents, phase>>
       \/ /\ event[cur] # f /\ WaitersAt(f) = {}
          /\ pollfds' = pollfds \ {f}
          /\ revents' = revents \ {f}
          /\ phase' = IF revents' = {} THEN "joins" ELSE "wake"
          /\ UNCHANGED <<queues, waitp, timeoutp, event>>
  /\ UNCHANGED <<cur, stale, refuel, errorp, timeval, result, code, lockp,
                 signals, now, napUntil>>

\* A variant with a bug: one thread that joins is woken, not all of them.
WakeOneJoiner ==
  /\ phase = "joins" /\ phase' = "timeouts"
  /\ IF refuel[cur] = 0 /\ WaitersAt(cur) # {}
     THEN WakeToBack(Min(WaitersAt(cur)))
     ELSE UNCHANGED <<queues, waitp, timeoutp>>
  /\ UNCHANGED <<cur, stale, refuel, errorp, event, timeval, result, code,
                 lockp, world>>

\* If the current thread has terminated, wake the threads joining it.
WakeJoiners ==
  /\ phase = "joins"
  /\ IF refuel[cur] = 0 /\ WaitersAt(cur) # {}
     THEN WakeToBack(Min(WaitersAt(cur))) /\ UNCHANGED phase
     ELSE phase' = "timeouts" /\ UNCHANGED <<queues, waitp, timeoutp>>
  /\ UNCHANGED <<cur, stale, refuel, errorp, event, timeval, result, code,
                 lockp, world>>

\* A variant with a bug: a thread due in the next tick counts as due.
NumDueSoon == Min({n \in 0..Len(paused) :
                 n < Len(paused) => ~Before(timeval, paused[n + 1], now + 2)})

\* Check timeouts: how many cells at the head of the paused list are due.
NumDue == Min({n \in 0..Len(paused) :
                 n < Len(paused) => ~Before(timeval, paused[n + 1], now)})
Due == {paused[i] : i \in 1..NumDue}

CheckTimeouts ==
  /\ phase = "timeouts"
  /\ phase' = "dequeue"
  /\ front' = front \o SubSeq(paused, 1, NumDue)
  /\ paused' = SubSeq(paused, NumDue + 1, Len(paused))
  /\ waitp' = Cleared(waitp, Due)
  /\ timeoutp' = [t \in Threads |-> IF t \in Due THEN 1 ELSE timeoutp[t]]
  /\ UNCHANGED <<cur, stale, refuel, errorp, event, timeval, result, code,
                 lockp, world>>

\* A terminated thread that finds no other one prefers to wait for I/O.
PausedOnFd == {i \in DOMAIN paused : event[paused[i]] \in Fds}

\* A variant with a bug: the current thread changes places with the first one
\* in the queue and is not rotated to the back.
DequeueSwapsOnly ==
  /\ phase = "dequeue"
  /\ phase' = "pick"
  /\ IF front # <<>>
     THEN /\ cur' = Head(front)
          /\ front' = IF refuel[cur] = 0 \/ waitp[cur] = 1 THEN Tail(front)
                      ELSE <<cur>> \o Tail(front)
     ELSE UNCHANGED <<cur, front>>
  /\ UNCHANGED <<paused, stale, fields, code, lockp, world>>

\* Dequeue the next thread.
Dequeue ==
  /\ phase = "dequeue"
  /\ phase' = "pick"
  /\ \/ /\ front # <<>> /\ ~stale
        /\ cur' = Head(front)
        /\ IF refuel[cur] = 0 \/ waitp[cur] = 1
           THEN /\ front' = Tail(front)
                /\ IF refuel[cur] # 0 /\ cur \notin ToSet(paused)
                   THEN /\ timeval' = [timeval EXCEPT ![cur] = 0]
                        /\ paused' = InsertTimed(paused, cur, timeval')
                   ELSE UNCHANGED <<timeval, paused>>
           ELSE /\ front' = Append(Tail(front), cur)
                /\ UNCHANGED <<timeval, paused>>
     \/ /\ front = <<>> \/ stale
        /\ cur' = IF refuel[cur] # 0 \/ PausedOnFd = {} THEN cur
                  ELSE paused[Min(PausedOnFd)]
        /\ UNCHANGED <<queues, timeval>>
  /\ UNCHANGED <<stale, refuel, waitp, timeoutp, errorp, event, result, code,
                 lockp, world>>

\* Nobody is ready.  Wait for the chosen thread, or for the first paused one
\* if its deadline is earlier: at most one tick, and if that reaches the
\* deadline the thread has timed out.
Pick ==
  /\ phase = "pick"
  /\ IF waitp[cur] = 0
     THEN phase' = "resume" /\ UNCHANGED <<cur, paused, waitp, timeoutp, napUntil>>
     ELSE LET early == paused # <<>> /\ Before(timeval, paused[1], timeval[cur])
              res == IF early THEN paused[1] ELSE cur
              due == timeval[res] # 0 /\ timeval[res] <= now + 1
          IN  /\ cur' = res
              /\ paused' = IF ~early THEN DeleteList(paused, cur)
                           ELSE IF cur \in ToSet(Tail(paused)) THEN Tail(paused)
                           ELSE InsertTimed(Tail(paused), cur, timeval)
              /\ IF due THEN /\ waitp' = [waitp EXCEPT ![res] = 0]
                             /\ timeoutp' = [timeoutp EXCEPT ![res] = 1]
                 ELSE UNCHANGED <<waitp, timeoutp>>
              /\ napUntil' = IF due THEN timeval[res]
                             ELSE IF now < MaxTime THEN now + 1 ELSE now
              /\ phase' = "nap"
  /\ UNCHANGED <<front, stale, refuel, errorp, event, timeval, result, code,
                 lockp, pollfds, revents, signals, now>>

\* usleep returns; a signal interrupts it.
NapOver ==
  /\ phase = "nap"
  /\ now >= napUntil \/ signals # {}
  /\ phase' = "resume"
  /\ napUntil' = 1
  /\ UNCHANGED <<queues, cur, stale, fields, code, lockp, pollfds, revents,
                 signals, now>>

-----------------------------------------------------------------------------
(* The system.                                                             *)

\* Time passes.  Steps in between the places where the code reads the clock
\* cannot tell when, so the clock moves only while a thread runs or naps and
\* just before the scheduler's two calls of gettimeofday.
Tick ==
  /\ now < MaxTime /\ phase \in {"vm", "timeouts", "pick", "nap"}
  /\ now' = now + 1
  /\ UNCHANGED <<queues, cur, phase, stale, fields, code, lockp, pollfds,
                 revents, signals, napUntil>>

Halted == phase = "halted" /\ UNCHANGED vars

Client ==
  \/ \E t \in Threads : ThreadStart(t) \/ ThreadTerminate(t)
  \/ \E t \in Threads, d \in Delays : ThreadJoin(t, d)
  \/ \E d \in Delays : ThreadSleep(d)
  \/ \E m \in Mutexes, d \in Delays : MutexLock(m, d)
  \/ \E m \in Mutexes : MutexUnlock(m)
  \/ \E m \in Mutexes, c \in CondVars, d \in Delays : MutexUnlockWait(m, c, d)
  \/ \E c \in CondVars : CondVarSignal(c) \/ CondVarBroadcast(c)
  \/ \E f \in Fds, d \in Delays : Block(f, d)
  \/ Finish \/ Raise

Continue ==
  \/ ThreadJoinAgain \/ MutexLockAgain \/ WaitOver \/ BlockAgain
  \/ BroadcastStep \/ PopSignal \/ RunnerSleep \/ RunnerLoop

Scheduler ==
  \/ CheckSignals \/ Poll \/ PollWake \/ WakeJoiners \/ CheckTimeouts
  \/ Dequeue \/ Pick \/ NapOver

Next ==
  \/ Client \/ Continue \/ Preempt \/ Yield \/ Resume \/ Scheduler
  \/ \E s \in Signums : SignalArrives(s)
  \/ Tick \/ Halted

Spec == Init /\ [][Next]_vars

\* The process keeps running: the VM and the scheduler take their steps, time
\* passes, every thread's fuel runs out (WF), and a quantum of 500 instructions
\* is enough for a thread that is scheduled again and again to get past the
\* one it stands at (SF).  Clients may hold a mutex or run forever.
Fairness ==
  /\ WF_vars(Scheduler) /\ WF_vars(Resume) /\ WF_vars(Preempt \/ Yield)
  /\ SF_vars(Tick) /\ SF_vars(Yield) /\ SF_vars(Continue)

FairSpec == Spec /\ Fairness

-----------------------------------------------------------------------------
(* Properties.                                                             *)

Phases == {"vm", "broadcast", "signals", "poll", "wake", "joins", "timeouts",
           "dequeue", "pick", "nap", "resume", "halted"}
PCs == {"unstarted", "run", "yield", "check", "pop", "idle", "done"}
Results == {"none", "value", "error", "killed", "junk"}
Calls ==
  {c \in [op : OpNames \cup {"none", "runner"}, on : Events, delay : Delays \cup {Forever}] :
     c.op = "block" => c.on \in Fds}

\* The lists hold threads, the context fields have their C types and the
\* clock stays within its bound.
TypeOK ==
  /\ front \in Seq(Threads) /\ paused \in Seq(Threads)
  /\ cur \in Threads /\ phase \in Phases /\ stale \in BOOLEAN
  /\ refuel \in [Threads -> {0, 1}]
  /\ waitp \in [Threads -> {0, 1}]
  /\ timeoutp \in [Threads -> {0, 1}]
  /\ errorp \in [Threads -> {0, 1}]
  /\ event \in [Threads -> Events]
  /\ timeval \in [Threads -> 0..MaxTime]
  /\ result \in [Threads -> Results]
  /\ pc \in [Threads -> PCs]
  /\ call \in [Threads -> Calls]
  /\ lockp \in [Mutexes -> {0, 1}]
  /\ pollfds \subseteq Fds /\ revents \subseteq pollfds
  /\ signals \subseteq Signums /\ (signals # {} => Runner \in Threads)
  /\ now \in 1..MaxTime /\ napUntil \in 0..MaxTime

\* Started and not yet terminated.
Live(t) == pc[t] \notin {"unstarted", "done"} /\ refuel[t] # 0

\* Whatever primitives run in whatever order, no live thread drops out of the
\* system: it is the current one or can be found in the run queue or the paused
\* list (the scheduler moves cells between the two lists in eight places).
NoThreadLost ==
  \A t \in Threads : Live(t) => t = cur \/ t \in ToSet(front) \cup ToSet(paused)

\* The paused list has each thread once, the timed ones first and by deadline:
\* what "check timeouts" relies on when it stops at the first cell not due.
PausedOrdered ==
  \A i, j \in DOMAIN paused : i < j =>
    /\ paused[i] # paused[j]
    /\ timeval[paused[i]] = 0 => timeval[paused[j]] = 0
    /\ timeval[paused[j]] # 0 => timeval[paused[i]] <= timeval[paused[j]]

\* A thread that waits in thread-join! for a started thread which has
\* terminated will be woken: the terminated thread is still to be scheduled.
\* (A victim of thread-terminate! may go back to the paused list for a nap; it
\* is not woken any more.)
JoinersWoken ==
  phase # "halted" =>
    \A u \in ToSet(paused) :
      LET t == call[u].on
      IN  call[u].op = "join" /\ refuel[u] # 0 /\ refuel[t] = 0 /\ pc[t] # "unstarted"
            => t = cur \/ t \in ToSet(front) \cup ToSet(paused)

\* A live thread that waits in mutex-lock! for m.
WaitsFor(t, m) == Live(t) /\ call[t].op = "lock" /\ call[t].on = m

\* sexp_mutex_unlock wakes one waiter, so when others stay paused at a free
\* mutex, one that was woken is on its way to try the lock again, as long as
\* thread-terminate! has not hit a thread: a victim takes its wake-up with it.
NoLostWakeup ==
  phase # "halted" /\ (\A v \in Threads : result[v] \notin {"killed", "junk"}) =>
    \A m \in Mutexes, t \in ToSet(paused) :
      lockp[m] = 0 /\ waitp[t] = 1 /\ WaitsFor(t, m)
        => \E u \in Threads : WaitsFor(u, m) /\ waitp[u] = 0

\* A thread that finds thread-timeout? true when it runs again has reached the
\* deadline it passed.
TimeoutIsDue ==
  phase = "vm" /\ pc[cur] = "check" /\ timeoutp[cur] = 1 /\ call[cur].delay # Forever
     => timeval[cur] <= now

\* A wait with a timeout ends: the tests of lib/srfi/18/test.sld expect 'timeout
\* from a lock and from a join that nothing else ends.
TimedWaitEnds ==
  \A t \in Threads :
    (Live(t) /\ waitp[t] = 1 /\ call[t].delay # Forever)
       ~> (waitp[t] = 0 \/ ~Live(t) \/ phase = "halted")

\* A thread in the run queue gets to run: the scheduler rotates the queue.
QueuedRuns ==
  \A t \in Threads :
    (Live(t) /\ t \in ToSet(front)) ~> (t = cur \/ phase = "halted")

\* thread-join! on a started thread returns once that thread has terminated.
JoinEnds ==
  \A t, u \in Threads :
    (call[u] = Call("join", t, Forever) /\ refuel[t] = 0 /\ pc[t] # "unstarted")
       ~> (call[u].op # "join" \/ phase = "halted")

\* A signal that has arrived is handled, even if the runner sleeps, has just
\* found none and is about to sleep, or is not created yet.
SignalsHandled ==
  \A s \in Signums : s \in signals ~> (s \notin signals \/ phase = "halted")
=============================================================================
