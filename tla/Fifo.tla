-------------------------------- MODULE Fifo --------------------------------
(***************************************************************************)
(* What lib/chibi/channel.scm promises: a first-in first-out queue shared  *)
(* by threads, in which every message sent goes to one receiver.           *)
(***************************************************************************)
EXTENDS Integers, Sequences

CONSTANTS Messages, Receivers

VARIABLES
  sent,     \* the number of messages sent so far
  queue,    \* the messages in the channel
  inbox     \* the messages each receiver has taken, in order

Init == sent = 0 /\ queue = <<>> /\ inbox = [r \in Receivers |-> <<>>]

Send(m) ==
  /\ sent' = sent + 1
  /\ queue' = Append(queue, m)
  /\ UNCHANGED inbox

Receive(r) ==
  /\ queue # <<>>
  /\ queue' = Tail(queue)
  /\ inbox' = [inbox EXCEPT ![r] = Append(@, Head(queue))]
  /\ UNCHANGED sent

Next == (\E m \in Messages : Send(m)) \/ (\E r \in Receivers : Receive(r))

Spec == Init /\ [][Next]_<<sent, queue, inbox>>
=============================================================================
