------------------------------- MODULE Channel -------------------------------
(***************************************************************************)
(* Channels between threads (lib/chibi/channel.scm): a singly linked list  *)
(* of pairs with a front and a rear pointer, a mutex and a condition       *)
(* variable.  A thread may be preempted between any two accesses.          *)
(*                                                                         *)
(* The mutex and the condition variable are those of (srfi 18), which      *)
(* module GreenThreads models: a lock waits until the mutex is free, and   *)
(* unlocking with a condition variable starts the wait in the same step.   *)
(***************************************************************************)
EXTENDS Integers, SequencesExt

CONSTANTS
  Senders, Receivers,   \* the threads
  MaxSends,             \* bound: messages sent altogether
  NoThread

Threads == Senders \cup Receivers

ASSUME ChannelAssumption ==
  /\ Senders \cap Receivers = {} /\ NoThread \notin Threads
  /\ MaxSends \in Nat

\* The k-th cell consed by channel-send! is pair k; '() is 0.
Cells == 1..MaxSends
Null == 0

VARIABLES
  pc,             \* where each thread is; "wait" in the condition variable
  mutex,          \* the owner of the channel's mutex
  front, rear,    \* the fields of the channel
  car, cdr,       \* the cells
  count,          \* cells made so far
  new,            \* channel-send!: the local variable new
  old,            \* the local variable rear of a sender, front of a receiver
  inbox           \* what each receiver's calls have returned

channel == <<front, rear, car, cdr>>
vars == <<pc, mutex, channel, count, new, old, inbox>>

Init ==
  /\ pc = [t \in Threads |-> "idle"]
  /\ mutex = NoThread
  /\ front = Null /\ rear = Null
  /\ car = [c \in Cells |-> NoThread] /\ cdr = [c \in Cells |-> Null]
  /\ count = 0
  /\ new = [t \in Threads |-> Null] /\ old = [t \in Threads |-> Null]
  /\ inbox = [r \in Receivers |-> <<>>]

Goto(t, l) == pc' = [pc EXCEPT ![t] = l]
At(t, l) == pc[t] = l

Lock(t, l) == mutex = NoThread /\ mutex' = t /\ Goto(t, l)
Unlock(t, l) == mutex' = NoThread /\ Goto(t, l)

-----------------------------------------------------------------------------
(* (channel-send! chan obj)                                                *)

SendLock(t) ==
  /\ At(t, "idle") /\ t \in Senders /\ count < MaxSends
  /\ Lock(t, "cons")
  /\ UNCHANGED <<channel, count, new, old, inbox>>

\* (list obj), and the rear is read.
SendCons(t) ==
  /\ At(t, "cons")
  /\ count' = count + 1
  /\ new' = [new EXCEPT ![t] = count'] /\ old' = [old EXCEPT ![t] = rear]
  /\ car' = [car EXCEPT ![count'] = t]
  /\ Goto(t, "rear")
  /\ UNCHANGED <<mutex, front, rear, cdr, inbox>>

\* A variant with a bug: the rear is not moved on.
SendRearLate(t) ==
  /\ At(t, "rear")
  /\ rear' = IF old[t] # Null THEN old[t] ELSE new[t]
  /\ Goto(t, IF old[t] # Null THEN "link" ELSE "front")
  /\ UNCHANGED <<mutex, front, car, cdr, count, new, old, inbox>>

SendRear(t) ==
  /\ At(t, "rear")
  /\ rear' = new[t]
  /\ Goto(t, IF old[t] # Null THEN "link" ELSE "front")
  /\ UNCHANGED <<mutex, front, car, cdr, count, new, old, inbox>>

SendLink(t) ==
  /\ At(t, "link")
  /\ cdr' = [cdr EXCEPT ![old[t]] = new[t]]
  /\ Goto(t, "unlock")
  /\ UNCHANGED <<mutex, front, rear, car, count, new, old, inbox>>

SendFront(t) ==
  /\ At(t, "front")
  /\ front' = new[t]
  /\ Goto(t, "broadcast")
  /\ UNCHANGED <<mutex, rear, car, cdr, count, new, old, inbox>>

\* A variant with a bug: the condition variable is not signalled.
NoBroadcast(t) ==
  /\ At(t, "broadcast")
  /\ Goto(t, "unlock")
  /\ UNCHANGED <<mutex, channel, count, new, old, inbox>>

\* condition-variable-broadcast!: whoever waits tries to lock again.
SendBroadcast(t) ==
  /\ At(t, "broadcast")
  /\ pc' = [u \in Threads |-> IF At(u, "wait") THEN "again" ELSE IF u = t THEN "unlock" ELSE pc[u]]
  /\ UNCHANGED <<mutex, channel, count, new, old, inbox>>

SendUnlock(t) ==
  /\ At(t, "unlock")
  /\ Unlock(t, "idle")
  /\ UNCHANGED <<channel, count, new, old, inbox>>

-----------------------------------------------------------------------------
(* (channel-receive! chan)                                                 *)

ReceiveLock(t) ==
  /\ t \in Receivers /\ pc[t] \in {"idle", "again"}
  /\ Lock(t, "look")
  /\ UNCHANGED <<channel, count, new, old, inbox>>

ReceiveLook(t) ==
  /\ At(t, "look")
  /\ old' = [old EXCEPT ![t] = front]
  /\ Goto(t, IF front = Null THEN "empty" ELSE "take")
  /\ UNCHANGED <<mutex, channel, count, new, inbox>>

\* (mutex-unlock! mutex condvar)
ReceiveWait(t) ==
  /\ At(t, "empty")
  /\ Unlock(t, "wait")
  /\ UNCHANGED <<channel, count, new, old, inbox>>

ReceiveTake(t) ==
  /\ At(t, "take")
  /\ front' = cdr[old[t]]
  /\ Goto(t, IF cdr[old[t]] = Null THEN "last" ELSE "done")
  /\ UNCHANGED <<mutex, rear, car, cdr, count, new, old, inbox>>

\* A variant with a bug: the rear still refers to the cell taken.
ReceiveKeepsRear(t) ==
  /\ At(t, "last")
  /\ Goto(t, "done")
  /\ UNCHANGED <<mutex, channel, count, new, old, inbox>>

\* The cell taken was the last one: the rear is cleared.
ReceiveLast(t) ==
  /\ At(t, "last")
  /\ rear' = Null
  /\ Goto(t, "done")
  /\ UNCHANGED <<mutex, front, car, cdr, count, new, old, inbox>>

ReceiveUnlock(t) ==
  /\ At(t, "done")
  /\ Unlock(t, "idle")
  /\ inbox' = [inbox EXCEPT ![t] = Append(@, <<car[old[t]], old[t]>>)]
  /\ UNCHANGED <<channel, count, new, old>>

-----------------------------------------------------------------------------

Send(t) ==
  SendLock(t) \/ SendCons(t) \/ SendRear(t) \/ SendLink(t) \/ SendFront(t)
    \/ SendBroadcast(t) \/ SendUnlock(t)

Receive(t) ==
  ReceiveLock(t) \/ ReceiveLook(t) \/ ReceiveWait(t) \/ ReceiveTake(t)
    \/ ReceiveLast(t) \/ ReceiveUnlock(t)

Next == (\E t \in Senders : Send(t)) \/ (\E t \in Receivers : Receive(t))

\* The scheduler runs every thread that is ready; nobody has to start a send.
Fairness ==
  /\ \A t \in Senders : WF_vars(Send(t) /\ ~At(t, "idle"))
  /\ \A t \in Receivers : WF_vars(Receive(t))

Spec == Init /\ [][Next]_vars
FairSpec == Spec /\ Fairness
-----------------------------------------------------------------------------
(* Properties.                                                             *)

\* The pointers refer to cells, and the mutex belongs to the one thread that is
\* between its lock and its unlock.
TypeOK ==
  /\ pc \in [Threads -> {"idle", "cons", "rear", "link", "front", "broadcast", "unlock",
                         "look", "empty", "wait", "again", "take", "last", "done"}]
  /\ \A t \in Threads : mutex = t <=> pc[t] \notin {"idle", "wait", "again"}
  /\ front \in Cells \cup {Null} /\ rear \in Cells \cup {Null}
  /\ car \in [Cells -> Threads \cup {NoThread}]
  /\ cdr \in [Cells -> Cells \cup {Null}]
  /\ count \in 0..MaxSends
  /\ new \in [Threads -> Cells \cup {Null}] /\ old \in [Threads -> Cells \cup {Null}]
  /\ inbox \in [Receivers -> Seq(Threads \X Cells)]

\* A message is told apart by its sender and its cell.
Messages == Threads \X Cells

\* The list that starts at each cell.  Cells are linked in the order in which
\* they are made.
List[c \in 0..MaxSends] ==
  IF c = Null THEN <<>>
  ELSE <<<<car[c], c>>>> \o IF cdr[c] > c THEN List[cdr[c]] ELSE <<>>

\* A receiver that has moved the front on, but not returned, has its message.
Holding(r) == pc[r] \in {"last", "done"}
Taken == [r \in Receivers |->
            IF Holding(r) THEN Append(inbox[r], <<car[old[r]], old[r]>>) ELSE inbox[r]]

\* A cell counts as sent once it is in the list.
Linked == count - Cardinality({t \in Senders : pc[t] \in {"rear", "link", "front"}})

Abstract == INSTANCE Fifo WITH sent <- Linked, queue <- List[front], inbox <- Taken

\* The two pointers and the cells implement a queue: no interleaving of
\* channel-send! and channel-receive! loses, duplicates or reorders a message.
Implements == Abstract!Spec

\* When nobody is inside, the rear is the last cell of the list from the front.
RearIsLast ==
  mutex = NoThread =>
    rear = IF front = Null THEN Null ELSE Last(List[front])[2]

\* Whatever is sent is received in the end: no receiver sleeps in the condition
\* variable while there are messages for it.
Delivered ==
  \A c \in Cells :
    count >= c ~> \E r \in Receivers : \E i \in DOMAIN inbox[r] : inbox[r][i][2] = c
=============================================================================
