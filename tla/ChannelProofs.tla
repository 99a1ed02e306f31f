--------------------------- MODULE ChannelProofs ---------------------------
(***************************************************************************)
(* Proofs, for any number of senders, receivers and messages, that the     *)
(* linked list of Channel keeps its pointers in order and implements the   *)
(* queue of Fifo.                                                          *)
(***************************************************************************)
EXTENDS Channel, ListLemmas, FiniteSetTheorems

\* A cell is followed by the one made next, or by none.
CdrsInOrder == \A c \in Cells : cdr[c] \in {Null, c + 1}

\* Where the list that starts at cell c ends.
EndOf(c) == Min({e \in c..MaxSends : cdr[e] = Null})

\* What List returns, without recursion.
CellsFrom(c, e) == [i \in 1..(e + 1 - c) |-> <<car[c + i - 1], c + i - 1>>]

Cars == (Threads \cup {NoThread}) \X Cells

\* The cells of that list.
LEMMA CellsFromCells ==
  ASSUME TypeOK, NEW c \in Cells, NEW e \in c..MaxSends
  PROVE  /\ CellsFrom(c, e) \in Seq(Cars) /\ Len(CellsFrom(c, e)) = e + 1 - c
         /\ \A i \in 1..(e + 1 - c) :
              CellsFrom(c, e)[i] = <<car[c + i - 1], c + i - 1>>
<1>. c \in Nat /\ e \in Nat /\ MaxSends \in Nat
  BY ChannelAssumption DEF Cells
<1>1. ASSUME NEW i \in 1..(e + 1 - c)
      PROVE  <<car[c + i - 1], c + i - 1>> \in Cars
  <2>1. c + i - 1 \in Cells
    BY DEF Cells
  <2>2. car[c + i - 1] \in Threads \cup {NoThread}
    BY <2>1 DEF TypeOK
  <2>. QED
    BY <2>1, <2>2 DEF Cars
<1>. QED
  BY <1>1 DEF CellsFrom

\* The list from a cell on, with its first cell taken off.
LEMMA CellsFromCons ==
  ASSUME TypeOK, NEW c \in Cells, NEW e \in c..MaxSends
  PROVE  CellsFrom(c, e) = <<<<car[c], c>>>> \o IF e = c THEN <<>> ELSE CellsFrom(c + 1, e)
<1>. c \in Nat /\ e \in Nat /\ MaxSends \in Nat /\ c >= 1 /\ c <= e /\ e <= MaxSends
  BY ChannelAssumption DEF Cells
<1>. DEFINE a == CellsFrom(c, e)
            b == IF e = c THEN <<>> ELSE CellsFrom(c + 1, e)
            x == <<car[c], c>>
<1>1. /\ a \in Seq(Cars) /\ Len(a) = e + 1 - c
      /\ \A i \in 1..(e + 1 - c) : a[i] = <<car[c + i - 1], c + i - 1>>
  BY CellsFromCells
<1>2. /\ b \in Seq(Cars) /\ Len(b) = e - c
      /\ \A i \in 1..(e - c) : b[i] = <<car[c + i], c + i>>
  <2>1. CASE e = c
    BY <2>1
  <2>2. CASE e # c
    <3>1. c + 1 \in Cells /\ e \in (c + 1)..MaxSends
      BY <2>2 DEF Cells
    <3>2. /\ b \in Seq(Cars) /\ Len(b) = e + 1 - (c + 1)
          /\ \A i \in 1..(e + 1 - (c + 1)) : b[i] = <<car[(c + 1) + i - 1], (c + 1) + i - 1>>
      BY <2>2, <3>1, CellsFromCells
    <3>. HIDE DEF b
    <3>. QED
      BY <3>2
  <2>. QED
    BY <2>1, <2>2
<1>3. x \in Cars /\ a[1] = x
  BY <1>1 DEF Cars, TypeOK
<1>. HIDE DEF a, b, x
<1>4. /\ <<x>> \o b \in Seq(Cars) /\ Len(<<x>> \o b) = Len(b) + 1
      /\ (<<x>> \o b)[1] = x
      /\ \A i \in 1..Len(b) : (<<x>> \o b)[i + 1] = b[i]
  BY <1>2, <1>3, ConsCells
<1>. DEFINE d == <<x>> \o b
<1>. HIDE DEF d
<1>5. d \in Seq(Cars) /\ Len(d) = Len(a) /\ d[1] = x /\ \A i \in 1..Len(b) : d[i + 1] = b[i]
  BY <1>1, <1>2, <1>4 DEF d
<1>6. ASSUME NEW i \in 1..Len(a) PROVE a[i] = d[i]
  <2>1. CASE i = 1
    BY <2>1, <1>3, <1>5
  <2>2. CASE i # 1
    <3>1. i - 1 \in 1..Len(b) /\ (i - 1) + 1 = i
      BY <2>2, <1>1, <1>2
    <3>2. d[(i - 1) + 1] = b[i - 1]
      BY <3>1, <1>5
    <3>3. b[i - 1] = <<car[c + (i - 1)], c + (i - 1)>> /\ a[i] = <<car[c + i - 1], c + i - 1>>
      BY <3>1, <1>1, <1>2
    <3>. QED
      BY <3>1, <3>2, <3>3
  <2>. QED
    BY <2>1, <2>2
<1>7. a = d
  BY <1>1, <1>5, <1>6, SameCells
<1>. QED
  BY <1>7 DEF a, b, d, x

\* The list from a cell has an end.
LEMMA EndOfList ==
  ASSUME TypeOK, CdrsInOrder, NEW c \in Cells
  PROVE  /\ EndOf(c) \in c..MaxSends /\ cdr[EndOf(c)] = Null
         /\ \A e \in c..MaxSends : cdr[e] = Null => EndOf(c) <= e
<1>. DEFINE ends == {e \in c..MaxSends : cdr[e] = Null}
<1>1. MaxSends \in Cells /\ MaxSends + 1 \notin Cells /\ MaxSends # Null
  BY ChannelAssumption DEF Cells, Null
<1>2. cdr[MaxSends] \in Cells \cup {Null}
  BY <1>1 DEF TypeOK
<1>3. cdr[MaxSends] = Null
  BY <1>1, <1>2 DEF CdrsInOrder, Null
<1>4. MaxSends \in ends
  BY <1>1, <1>3, ChannelAssumption DEF Cells
<1>5. ends \subseteq Nat /\ ends # {}
  BY <1>4, ChannelAssumption DEF Cells
<1>6. Min(ends) \in ends /\ \A e \in ends : Min(ends) <= e
  BY <1>5, MinInSet
<1>. QED
  BY <1>6 DEF EndOf

\* A cell that is followed by another ends where that one does.
LEMMA EndOfNext ==
  ASSUME TypeOK, CdrsInOrder, NEW c \in Cells, cdr[c] # Null
  PROVE  c + 1 \in Cells /\ EndOf(c) = EndOf(c + 1)
<1>1. cdr[c] = c + 1 /\ c + 1 \in Cells
  BY DEF TypeOK, CdrsInOrder, Null
<1>2. {e \in c..MaxSends : cdr[e] = Null} = {e \in (c + 1)..MaxSends : cdr[e] = Null}
  BY ChannelAssumption DEF Cells
<1>. QED
  BY <1>1, <1>2 DEF EndOf

\* List satisfies its recursive equation when the cells are linked in order.
LEMMA ListUnfolds ==
  ASSUME TypeOK, CdrsInOrder
  PROVE  List = [c \in 0..MaxSends |->
                   IF c = Null THEN <<>>
                   ELSE <<<<car[c], c>>>> \o IF cdr[c] > c THEN List[cdr[c]] ELSE <<>>]
<1>. DEFINE Unfold(f) == [c \in 0..MaxSends |->
                   IF c = Null THEN <<>>
                   ELSE <<<<car[c], c>>>> \o IF cdr[c] > c THEN f[cdr[c]] ELSE <<>>]
            W == [c \in 0..MaxSends |-> IF c = Null THEN <<>> ELSE CellsFrom(c, EndOf(c))]
<1>1. ASSUME NEW c \in 0..MaxSends
      PROVE  W[c] = Unfold(W)[c]
  <2>1. CASE c = Null
    BY <2>1
  <2>2. CASE c # Null
    <3>1. c \in Cells /\ c \in Nat
      BY <2>2, ChannelAssumption DEF Cells, Null
    <3>2. \A k \in Cells : W[k] = CellsFrom(k, EndOf(k))
      BY ChannelAssumption DEF Cells, Null
    <3>. HIDE DEF W
    <3>3. PICK e \in c..MaxSends : e = EndOf(c)
      BY <3>1, EndOfList
    <3>4. W[c] = <<<<car[c], c>>>> \o IF e = c THEN <<>> ELSE CellsFrom(c + 1, e)
      BY <3>1, <3>2, <3>3, CellsFromCons
    <3>5. (IF e = c THEN <<>> ELSE CellsFrom(c + 1, e)) = IF cdr[c] > c THEN W[cdr[c]] ELSE <<>>
      <4>1. CASE cdr[c] = Null
        <5>1. e = c
          BY <3>1, <3>3, <4>1, EndOfList, ChannelAssumption DEF Cells
        <5>. QED
          BY <3>1, <4>1, <5>1 DEF Null
      <4>2. CASE cdr[c] # Null
        <5>1. c + 1 \in Cells /\ EndOf(c) = EndOf(c + 1) /\ cdr[c] = c + 1
          BY <3>1, <4>2, EndOfNext DEF CdrsInOrder
        <5>2. e # c /\ W[c + 1] = CellsFrom(c + 1, e)
          BY <3>1, <3>2, <3>3, <5>1, EndOfList
        <5>. QED
          BY <3>1, <5>1, <5>2
      <4>. QED
        BY <4>1, <4>2
    <3>6. Unfold(W)[c] = <<<<car[c], c>>>> \o IF cdr[c] > c THEN W[cdr[c]] ELSE <<>>
      BY <2>2
    <3>. QED
      BY <3>4, <3>5, <3>6, Zenon
  <2>. QED
    BY <2>1, <2>2
<1>2. W = Unfold(W)
  BY <1>1
<1>. HIDE DEF W
<1>3. \E f : f = Unfold(f)
  BY <1>2
<1>4. List = CHOOSE f : f = Unfold(f)
  BY DEF List
<1>5. List = Unfold(List)
  BY <1>3, <1>4
<1>. QED
  BY <1>5

\* List returns the cells from c to the end.
LEMMA ListIsCells ==
  TypeOK /\ CdrsInOrder => \A c \in Cells : List[c] = CellsFrom(c, EndOf(c))
<1>. SUFFICES ASSUME TypeOK, CdrsInOrder PROVE \A c \in Cells : List[c] = CellsFrom(c, EndOf(c))
  OBVIOUS
<1>. DEFINE Wrong == {n \in Nat : MaxSends - n \in Cells
                        /\ List[MaxSends - n] # CellsFrom(MaxSends - n, EndOf(MaxSends - n))}
<1>1. ASSUME Wrong # {} PROVE FALSE
  <2>1. Min(Wrong) \in Wrong /\ \A y \in Wrong : Min(Wrong) <= y
    BY <1>1, MinInSet
  <2>2. PICK n \in Wrong : \A y \in Wrong : n <= y
    BY <2>1
  <2>3. PICK c \in Cells : c = MaxSends - n
    BY <2>2
  <2>4. c \in Nat /\ MaxSends \in Nat /\ c \in 0..MaxSends /\ c # Null
    BY <2>3, ChannelAssumption DEF Cells, Null
  <2>5. List[c] = <<<<car[c], c>>>> \o IF cdr[c] > c THEN List[cdr[c]] ELSE <<>>
    BY <2>4, ListUnfolds
  <2>6. PICK e \in c..MaxSends : e = EndOf(c)
    BY EndOfList
  <2>7. CellsFrom(c, e) = <<<<car[c], c>>>> \o IF e = c THEN <<>> ELSE CellsFrom(c + 1, e)
    BY CellsFromCons
  <2>8. (IF e = c THEN <<>> ELSE CellsFrom(c + 1, e)) = IF cdr[c] > c THEN List[cdr[c]] ELSE <<>>
    <3>1. CASE cdr[c] = Null
      <4>1. e = c
        BY <2>4, <2>6, <3>1, EndOfList
      <4>. QED
        BY <2>4, <3>1, <4>1 DEF Null
    <3>2. CASE cdr[c] # Null
      <4>1. c + 1 \in Cells /\ EndOf(c) = EndOf(c + 1) /\ cdr[c] = c + 1
        BY <3>2, EndOfNext DEF CdrsInOrder
      <4>2. n - 1 \in Nat /\ MaxSends - (n - 1) = c + 1
        BY <2>2, <2>3, <2>4, <4>1 DEF Cells
      <4>3. n - 1 \notin Wrong
        BY <2>2, <4>2
      <4>4. List[c + 1] = CellsFrom(c + 1, EndOf(c + 1))
        BY <4>1, <4>2, <4>3
      <4>5. e # c
        BY <2>4, <2>6, <4>1, EndOfList
      <4>. QED
        BY <2>4, <2>6, <4>1, <4>4, <4>5
    <3>. QED
      BY <3>1, <3>2
  <2>9. List[c] = CellsFrom(c, EndOf(c))
    BY <2>5, <2>6, <2>7, <2>8, Zenon
  <2>. QED
    BY <2>2, <2>3, <2>9
<1>2. ASSUME NEW c \in Cells PROVE MaxSends - c \in Nat /\ MaxSends - (MaxSends - c) = c
  BY ChannelAssumption DEF Cells
<1>. QED
  BY <1>1, <1>2

-----------------------------------------------------------------------------
(* The inductive invariant.                                                *)

\* The last cell that is in the list or was: a sender that has made its cell
\* has not linked it yet.
Sending == {t \in Senders : pc[t] \in {"rear", "link", "front"}}
Sent == IF Sending = {} THEN count ELSE count - 1

\* The cells from the front to the last one sent are linked.
ChainInv ==
  /\ CdrsInOrder
  /\ \A c \in Cells : c >= Sent => cdr[c] = Null
  /\ front # Null => front <= Sent /\ \A c \in front..(Sent - 1) : cdr[c] = c + 1
  /\ \A c \in 1..count : car[c] \in Threads

\* Where the rear is when no call is about to move it.
RearAt(n) == rear = IF front = Null THEN Null ELSE n

SenderAt(t) ==
  /\ pc[t] \in {"idle", "cons", "rear", "link", "front", "broadcast", "unlock"}
  /\ pc[t] = "cons" => count < MaxSends
  /\ pc[t] \in {"rear", "link", "front"} => count # 0 /\ new[t] = count
  /\ pc[t] = "rear" => old[t] = rear /\ RearAt(count - 1)
  /\ pc[t] = "link" => rear = count /\ front # Null /\ old[t] = count - 1
  /\ pc[t] = "front" => rear = count /\ front = Null

ReceiverAt(t) ==
  /\ pc[t] \in {"idle", "look", "empty", "wait", "again", "take", "last", "done"}
  /\ pc[t] = "take" => old[t] = front /\ front # Null
  /\ pc[t] = "last" => front = Null /\ rear = count
  /\ pc[t] \in {"last", "done"} => old[t] \in 1..count

PlaceInv ==
  /\ \A t \in Senders : SenderAt(t)
  /\ \A t \in Receivers : ReceiverAt(t)
  /\ (\A t \in Threads : pc[t] \notin {"rear", "link", "front", "last"}) => RearAt(count)

Inv == TypeOK /\ ChainInv /\ PlaceInv

\* The empty channel: nothing is linked and nobody is inside.
LEMMA InitInv == Init => Inv
<1>. SUFFICES ASSUME Init PROVE Inv
  OBVIOUS
<1>. USE ChannelAssumption DEF Init, Null
<1>1. TypeOK
  BY DEF TypeOK, Cells, Threads
<1>2. ChainInv
  BY DEF ChainInv, CdrsInOrder, Cells, Sent, Sending, Threads
<1>3. PlaceInv
  BY DEF PlaceInv, SenderAt, ReceiverAt, RearAt, Threads
<1>. QED
  BY <1>1, <1>2, <1>3 DEF Inv

\* The mutex lets one thread at a time past its lock.
LEMMA OneInside ==
  ASSUME TypeOK, NEW t \in Threads, NEW u \in Threads,
         pc[t] \notin {"idle", "wait", "again"}, pc[u] \notin {"idle", "wait", "again"}
  PROVE  t = u
BY DEF TypeOK

\* The sender takes the mutex; the list is as it was left.
LEMMA SendLockInv ==
  ASSUME Inv, NEW t \in Senders, SendLock(t)
  PROVE  Inv'
<1>. USE ChannelAssumption DEF SendLock, Lock, At, Goto, channel, Null
<1>. t \in Threads /\ TypeOK /\ ChainInv /\ PlaceInv
  BY DEF Threads, Inv
<1>1. TypeOK'
  BY DEF TypeOK, Cells, PlaceInv, SenderAt, ReceiverAt
<1>2. Sending' = Sending
  BY DEF Sending, TypeOK, Threads
<1>3. ChainInv'
  BY <1>2 DEF ChainInv, CdrsInOrder, Cells, TypeOK, Sent
<1>4. PlaceInv'
  BY DEF PlaceInv, SenderAt, ReceiverAt, RearAt, TypeOK, Threads
<1>. QED
  BY <1>1, <1>3, <1>4 DEF Inv

\* The new pair is made, not linked yet, and the old rear is read.
LEMMA SendConsInv ==
  ASSUME Inv, NEW t \in Senders, SendCons(t)
  PROVE  Inv'
<1>. USE ChannelAssumption DEF SendCons, At, Goto, channel, Null
<1>. t \in Threads /\ TypeOK /\ ChainInv /\ PlaceInv
  BY DEF Threads, Inv
<1>1. TypeOK'
  BY SMTT(30) DEF TypeOK, Cells, PlaceInv, SenderAt, ReceiverAt
<1>2. Sending = {} /\ Sending' = {t}
  <2>1. \A u \in Senders \ {t} : pc[u] = "idle"
    BY OneInside DEF PlaceInv, SenderAt, Threads
  <2>. QED
    BY <2>1 DEF Sending, TypeOK, Threads
<1>3. ChainInv'
  <2>1. Sent' = Sent /\ Sent = count /\ count' = count + 1 /\ count' \in Cells
    BY <1>2 DEF Sent, TypeOK, PlaceInv, SenderAt, Cells
  <2>2. \A c \in 1..count' : car'[c] \in Threads
    BY <2>1 DEF ChainInv, TypeOK, Cells
  <2>. QED
    BY <2>1, <2>2 DEF ChainInv, CdrsInOrder, Cells
<1>4. PlaceInv'
  <2>1. \A u \in Threads \ {t} : pc[u] \in {"idle", "wait", "again"} /\ pc'[u] = pc[u]
    BY OneInside DEF TypeOK
  <2>2. RearAt(count) /\ count < MaxSends
    BY <2>1 DEF PlaceInv, SenderAt
  <2>3. SenderAt(t)'
    BY <2>2 DEF PlaceInv, SenderAt, RearAt, TypeOK
  <2>4. t \notin Receivers
    OBVIOUS
  <2>. QED
    BY <2>1, <2>3, <2>4 DEF PlaceInv, SenderAt, ReceiverAt, TypeOK, Threads
<1>. QED
  BY <1>1, <1>3, <1>4 DEF Inv

\* The rear moves to the new pair, ahead of the link.
LEMMA SendRearInv ==
  ASSUME Inv, NEW t \in Senders, SendRear(t)
  PROVE  Inv'
<1>. USE ChannelAssumption DEF SendRear, At, Goto, channel, Null
<1>. t \in Threads /\ TypeOK /\ ChainInv /\ PlaceInv
  BY DEF Threads, Inv
<1>1. TypeOK'
  BY DEF TypeOK, Cells, PlaceInv, SenderAt, ReceiverAt
<1>2. Sending' = Sending
  BY DEF Sending, TypeOK, Threads
<1>3. ChainInv'
  BY <1>2 DEF ChainInv, CdrsInOrder, Cells, TypeOK, Sent
<1>4. PlaceInv'
  <2>1. \A u \in Threads \ {t} : pc[u] \in {"idle", "wait", "again"} /\ pc'[u] = pc[u]
    BY OneInside DEF TypeOK
  <2>. count \in Nat /\ front \in Nat /\ rear' = count /\ new[t] = count /\ old[t] = rear
    BY DEF PlaceInv, SenderAt, TypeOK, Cells
  <2>2. SenderAt(t)'
    <3>1. front # Null => rear = count - 1 /\ front <= count - 1
      <4>1. Sent = count - 1
        BY DEF Sent, Sending
      <4>. QED
        BY <4>1 DEF PlaceInv, SenderAt, RearAt, ChainInv
    <3>2. front = Null => rear = Null
      BY DEF PlaceInv, SenderAt, RearAt
    <3>3. count # 0
      BY DEF PlaceInv, SenderAt
    <3>4. front # Null => count - 1 # Null
      BY <3>1 DEF TypeOK, Cells
    <3>. QED
      BY <3>1, <3>2, <3>3, <3>4 DEF SenderAt, TypeOK
  <2>3. t \notin Receivers /\ pc'[t] \in {"link", "front"}
    BY DEF TypeOK
  <2>. QED
    BY <2>1, <2>2, <2>3 DEF PlaceInv, SenderAt, ReceiverAt, TypeOK, Threads
<1>. QED
  BY <1>1, <1>3, <1>4 DEF Inv

\* The old rear is linked to the new pair: the list grows by it.
LEMMA SendLinkInv ==
  ASSUME Inv, NEW t \in Senders, SendLink(t)
  PROVE  Inv'
<1>. USE ChannelAssumption DEF SendLink, At, Goto, channel, Null
<1>. t \in Threads /\ TypeOK /\ ChainInv /\ PlaceInv
  BY DEF Threads, Inv
<1>1. TypeOK'
  BY DEF TypeOK, Cells, PlaceInv, SenderAt, ReceiverAt
<1>2. Sending = {t} /\ Sending' = {}
  <2>1. \A u \in Senders \ {t} : pc[u] = "idle"
    BY OneInside DEF PlaceInv, SenderAt, Threads
  <2>. QED
    BY <2>1 DEF Sending, TypeOK, Threads
<1>3. ChainInv'
  <2>1. Sent = count - 1 /\ Sent' = count
    BY <1>2 DEF Sent
  <2>2. /\ new[t] = count /\ old[t] = count - 1 /\ front # Null /\ front <= count - 1
        /\ count \in Nat /\ count <= MaxSends /\ front \in Cells
    BY <2>1 DEF PlaceInv, SenderAt, ChainInv, TypeOK
  <2>3. cdr' = [cdr EXCEPT ![count - 1] = count] /\ count - 1 \in Cells
    BY <2>2 DEF Cells
  <2>. QED
    BY <2>1, <2>2, <2>3 DEF ChainInv, CdrsInOrder, Cells, TypeOK
<1>4. PlaceInv'
  BY DEF PlaceInv, SenderAt, ReceiverAt, RearAt, TypeOK, Threads
<1>. QED
  BY <1>1, <1>3, <1>4 DEF Inv

\* The first pair of an empty channel becomes its front.
LEMMA SendFrontInv ==
  ASSUME Inv, NEW t \in Senders, SendFront(t)
  PROVE  Inv'
<1>. USE ChannelAssumption DEF SendFront, At, Goto, channel, Null
<1>. t \in Threads /\ TypeOK /\ ChainInv /\ PlaceInv
  BY DEF Threads, Inv
<1>1. TypeOK'
  BY DEF TypeOK, Cells, PlaceInv, SenderAt, ReceiverAt
<1>2. Sending = {t} /\ Sending' = {}
  <2>1. \A u \in Senders \ {t} : pc[u] = "idle"
    BY OneInside DEF PlaceInv, SenderAt, Threads
  <2>. QED
    BY <2>1 DEF Sending, TypeOK, Threads
<1>3. ChainInv'
  <2>1. Sent = count - 1 /\ Sent' = count
    BY <1>2 DEF Sent
  <2>2. front' = count /\ count \in 0..MaxSends
    BY DEF PlaceInv, SenderAt, TypeOK
  <2>. QED
    BY <2>1, <2>2 DEF ChainInv, CdrsInOrder, Cells
<1>4. PlaceInv'
  BY DEF PlaceInv, SenderAt, ReceiverAt, RearAt, TypeOK, Threads
<1>. QED
  BY <1>1, <1>3, <1>4 DEF Inv

\* Waking the receivers changes no pair.
LEMMA SendBroadcastInv ==
  ASSUME Inv, NEW t \in Senders, SendBroadcast(t)
  PROVE  Inv'
<1>. USE ChannelAssumption DEF SendBroadcast, At, Goto, channel, Null
<1>. t \in Threads /\ TypeOK /\ ChainInv /\ PlaceInv
  BY DEF Threads, Inv
<1>1. TypeOK'
  BY DEF TypeOK, Cells, PlaceInv, SenderAt, ReceiverAt
<1>2. Sending' = Sending
  BY DEF Sending, TypeOK, Threads
<1>3. ChainInv'
  BY <1>2 DEF ChainInv, CdrsInOrder, Cells, TypeOK, Sent
<1>4. PlaceInv'
  BY DEF PlaceInv, SenderAt, ReceiverAt, RearAt, TypeOK, Threads
<1>. QED
  BY <1>1, <1>3, <1>4 DEF Inv

\* The mutex is released with the list whole.
LEMMA SendUnlockInv ==
  ASSUME Inv, NEW t \in Senders, SendUnlock(t)
  PROVE  Inv'
<1>. USE ChannelAssumption DEF SendUnlock, Unlock, At, Goto, channel, Null
<1>. t \in Threads /\ TypeOK /\ ChainInv /\ PlaceInv
  BY DEF Threads, Inv
<1>1. TypeOK'
  BY DEF TypeOK, Cells, PlaceInv, SenderAt, ReceiverAt
<1>2. Sending' = Sending
  BY DEF Sending, TypeOK, Threads
<1>3. ChainInv'
  BY <1>2 DEF ChainInv, CdrsInOrder, Cells, TypeOK, Sent
<1>4. PlaceInv'
  BY DEF PlaceInv, SenderAt, ReceiverAt, RearAt, TypeOK, Threads
<1>. QED
  BY <1>1, <1>3, <1>4 DEF Inv

\* The receiver takes the mutex; the list is as it was left.
LEMMA ReceiveLockInv ==
  ASSUME Inv, NEW t \in Receivers, ReceiveLock(t)
  PROVE  Inv'
<1>. USE ChannelAssumption DEF ReceiveLock, Lock, At, Goto, channel, Null
<1>. t \in Threads /\ TypeOK /\ ChainInv /\ PlaceInv
  BY DEF Threads, Inv
<1>1. TypeOK'
  BY DEF TypeOK, Cells, PlaceInv, SenderAt, ReceiverAt
<1>2. Sending' = Sending
  BY DEF Sending, TypeOK, Threads
<1>3. ChainInv'
  BY <1>2 DEF ChainInv, CdrsInOrder, Cells, TypeOK, Sent
<1>4. PlaceInv'
  BY DEF PlaceInv, SenderAt, ReceiverAt, RearAt, TypeOK, Threads
<1>. QED
  BY <1>1, <1>3, <1>4 DEF Inv

\* Looking at the front changes no pair.
LEMMA ReceiveLookInv ==
  ASSUME Inv, NEW t \in Receivers, ReceiveLook(t)
  PROVE  Inv'
<1>. USE ChannelAssumption DEF ReceiveLook, At, Goto, channel, Null
<1>. t \in Threads /\ TypeOK /\ ChainInv /\ PlaceInv
  BY DEF Threads, Inv
<1>1. TypeOK'
  BY DEF TypeOK, Cells, PlaceInv, SenderAt, ReceiverAt
<1>2. Sending' = Sending
  BY DEF Sending, TypeOK, Threads
<1>3. ChainInv'
  BY <1>2 DEF ChainInv, CdrsInOrder, Cells, TypeOK, Sent
<1>4. PlaceInv'
  BY DEF PlaceInv, SenderAt, ReceiverAt, RearAt, TypeOK, Threads
<1>. QED
  BY <1>1, <1>3, <1>4 DEF Inv

\* A receiver that finds nothing releases the mutex and waits.
LEMMA ReceiveWaitInv ==
  ASSUME Inv, NEW t \in Receivers, ReceiveWait(t)
  PROVE  Inv'
<1>. USE ChannelAssumption DEF ReceiveWait, Unlock, At, Goto, channel, Null
<1>. t \in Threads /\ TypeOK /\ ChainInv /\ PlaceInv
  BY DEF Threads, Inv
<1>1. TypeOK'
  BY DEF TypeOK, Cells, PlaceInv, SenderAt, ReceiverAt
<1>2. Sending' = Sending
  BY DEF Sending, TypeOK, Threads
<1>3. ChainInv'
  BY <1>2 DEF ChainInv, CdrsInOrder, Cells, TypeOK, Sent
<1>4. PlaceInv'
  BY DEF PlaceInv, SenderAt, ReceiverAt, RearAt, TypeOK, Threads
<1>. QED
  BY <1>1, <1>3, <1>4 DEF Inv

\* The front moves to the next pair; what is taken was the oldest.
LEMMA ReceiveTakeInv ==
  ASSUME Inv, NEW t \in Receivers, ReceiveTake(t)
  PROVE  Inv'
<1>. USE ChannelAssumption DEF ReceiveTake, At, Goto, channel, Null
<1>. t \in Threads /\ TypeOK /\ ChainInv /\ PlaceInv
  BY DEF Threads, Inv
<1>1. TypeOK'
  BY DEF TypeOK, Cells, PlaceInv, SenderAt, ReceiverAt
<1>2. Sending' = Sending
  BY DEF Sending, TypeOK, Threads
<1>3. ChainInv'
  <2>1. front \in Cells /\ old[t] = front /\ front <= Sent /\ Sent \in Int /\ front' = cdr[front]
    BY DEF ChainInv, PlaceInv, ReceiverAt, TypeOK, Sent
  <2>2. CASE front = Sent
    <3>1. front' = Null
      BY <2>1, <2>2 DEF ChainInv, Cells
    <3>. QED
      BY <1>2, <3>1 DEF ChainInv, CdrsInOrder, Sent
  <2>3. CASE front < Sent
    <3>1. front' = front + 1
      BY <2>1, <2>3 DEF ChainInv, Cells
    <3>. QED
      BY <1>2, <2>1, <2>3, <3>1 DEF ChainInv, CdrsInOrder, Cells, Sent
  <2>. QED
    BY <2>1, <2>2, <2>3 DEF Cells
<1>4. PlaceInv'
  <2>1. \A u \in Threads \ {t} : pc[u] \in {"idle", "wait", "again"} /\ pc'[u] = pc[u]
    BY OneInside DEF TypeOK
  <2>2. Sending = {} /\ Sent = count /\ t \notin Senders
    BY <2>1 DEF Sending, Sent, Threads
  <2>3. front \in Cells /\ old[t] = front /\ front <= count /\ count \in 0..MaxSends /\ front' = cdr[front]
    BY <2>2 DEF ChainInv, PlaceInv, ReceiverAt, TypeOK
  <2>4. rear = count
    BY <2>1, <2>3 DEF PlaceInv, RearAt, Cells
  <2>5. ReceiverAt(t)'
    BY <2>3, <2>4 DEF ReceiverAt, TypeOK, Cells
  <2>6. RearAt(count)' \/ pc'[t] = "last"
    BY <2>3, <2>4 DEF RearAt, TypeOK
  <2>. QED
    BY <2>1, <2>2, <2>5, <2>6 DEF PlaceInv, SenderAt, ReceiverAt, TypeOK, Threads
<1>. QED
  BY <1>1, <1>3, <1>4 DEF Inv

\* The rear of a channel that ran empty is reset.
LEMMA ReceiveLastInv ==
  ASSUME Inv, NEW t \in Receivers, ReceiveLast(t)
  PROVE  Inv'
<1>. USE ChannelAssumption DEF ReceiveLast, At, Goto, channel, Null
<1>. t \in Threads /\ TypeOK /\ ChainInv /\ PlaceInv
  BY DEF Threads, Inv
<1>1. TypeOK'
  BY DEF TypeOK, Cells, PlaceInv, SenderAt, ReceiverAt
<1>2. Sending' = Sending
  BY DEF Sending, TypeOK, Threads
<1>3. ChainInv'
  BY <1>2 DEF ChainInv, CdrsInOrder, Cells, TypeOK, Sent
<1>4. PlaceInv'
  BY DEF PlaceInv, SenderAt, ReceiverAt, RearAt, TypeOK, Threads
<1>. QED
  BY <1>1, <1>3, <1>4 DEF Inv

\* The mutex is released with the list whole.
LEMMA ReceiveUnlockInv ==
  ASSUME Inv, NEW t \in Receivers, ReceiveUnlock(t)
  PROVE  Inv'
<1>. USE ChannelAssumption DEF ReceiveUnlock, Unlock, At, Goto, channel, Null
<1>. t \in Threads /\ TypeOK /\ ChainInv /\ PlaceInv
  BY DEF Threads, Inv
<1>1. TypeOK'
  <2>1. old[t] \in 1..count /\ car[old[t]] \in Threads /\ old[t] \in Cells
    BY DEF PlaceInv, ReceiverAt, ChainInv, TypeOK, Cells
  <2>2. inbox' \in [Receivers -> Seq(Threads \X Cells)]
    BY <2>1 DEF TypeOK
  <2>. QED
    BY <2>2 DEF TypeOK, PlaceInv, ReceiverAt
<1>2. Sending' = Sending
  BY DEF Sending, TypeOK, Threads
<1>3. ChainInv'
  BY <1>2 DEF ChainInv, CdrsInOrder, Cells, TypeOK, Sent
<1>4. PlaceInv'
  BY DEF PlaceInv, SenderAt, ReceiverAt, RearAt, TypeOK, Threads
<1>. QED
  BY <1>1, <1>3, <1>4 DEF Inv

\* The invariant is inductive: one step per action.
LEMMA NextInv == Inv /\ [Next]_vars => Inv'
<1>. SUFFICES ASSUME Inv, [Next]_vars PROVE Inv'
  OBVIOUS
<1>1. CASE UNCHANGED vars
  BY <1>1 DEF vars, channel, Inv, TypeOK, ChainInv, CdrsInOrder, PlaceInv, SenderAt, ReceiverAt,
              RearAt, Sent, Sending
<1>2. ASSUME NEW t \in Senders, Send(t) PROVE Inv'
  BY <1>2, SendLockInv, SendConsInv, SendRearInv, SendLinkInv, SendFrontInv, SendBroadcastInv, SendUnlockInv DEF Send
<1>3. ASSUME NEW t \in Receivers, Receive(t) PROVE Inv'
  BY <1>3, ReceiveLockInv, ReceiveLookInv, ReceiveWaitInv, ReceiveTakeInv, ReceiveLastInv, ReceiveUnlockInv DEF Receive
<1>. QED
  BY <1>1, <1>2, <1>3 DEF Next

\* The pointers stay in order and the mutex keeps the calls apart.
LEMMA InvHolds == Spec => []Inv
BY InitInv, NextInv, PTL DEF Spec

-----------------------------------------------------------------------------
(* The refinement.                                                         *)

\* The queue of Fifo that the cells stand for.
Queue == IF front = Null THEN <<>> ELSE CellsFrom(front, Sent)

\* What has been sent is among the messages made.
LEMMA SentInRange == Inv => Sent \in 0..count /\ count \in 0..MaxSends
<1>. SUFFICES ASSUME Inv PROVE Sent \in 0..count /\ count \in 0..MaxSends
  OBVIOUS
<1>1. count \in 0..MaxSends
  BY DEF Inv, TypeOK
<1>2. Sending # {} => count # 0
  BY DEF Inv, PlaceInv, SenderAt, Sending
<1>. QED
  BY <1>1, <1>2, ChannelAssumption DEF Sent

\* The refinement mapping without its recursion and its cardinality.
LEMMA MappingIs == Inv => List[front] = Queue /\ Linked = Sent
<1>. SUFFICES ASSUME Inv PROVE List[front] = Queue /\ Linked = Sent
  OBVIOUS
<1>. TypeOK /\ CdrsInOrder /\ ChainInv /\ Sent \in 0..count /\ count \in 0..MaxSends
  BY SentInRange DEF Inv, ChainInv
<1>1. Linked = Sent
  <2>1. Linked = count - Cardinality(Sending)
    BY DEF Linked, Sending
  <2>2. CASE Sending = {}
    BY <2>1, <2>2, FS_EmptySet, ChannelAssumption DEF Sent
  <2>3. CASE Sending # {}
    <3>1. PICK t \in Sending : TRUE
      BY <2>3
    <3>2. Sending = {t}
      BY <3>1, OneInside DEF Sending, Threads
    <3>. QED
      BY <2>1, <2>3, <3>2, FS_Singleton DEF Sent
  <2>. QED
    BY <2>2, <2>3
<1>2. CASE front = Null
  <2>1. front \in 0..MaxSends
    BY <1>2, ChannelAssumption DEF Null
  <2>. QED
    BY <1>1, <1>2, <2>1, ListUnfolds DEF Queue
<1>3. CASE front # Null
  <2>1. front \in Cells /\ front \in Nat /\ front <= Sent /\ Sent \in Cells /\ MaxSends \in Nat
    BY <1>3, ChannelAssumption DEF TypeOK, ChainInv, Cells
  <2>2. cdr[Sent] = Null /\ \A c \in front..(Sent - 1) : cdr[c] # Null
    BY <1>3, <2>1 DEF ChainInv, Null, Cells
  <2>3. EndOf(front) = Sent
    BY <2>1, <2>2, EndOfList DEF Cells
  <2>. QED
    BY <1>1, <1>3, <2>1, <2>3, ListIsCells DEF Queue
<1>. QED
  BY <1>2, <1>3

\* When nobody is inside a call the rear is the last cell of the list: for any
\* number of threads, channel-send! and channel-receive! leave both fields of
\* the channel in order.
THEOREM RearAlwaysLast == Spec => []RearIsLast
<1>1. Inv => RearIsLast
  <2>. SUFFICES ASSUME Inv, mutex = NoThread
                PROVE  rear = IF front = Null THEN Null ELSE Last(List[front])[2]
    BY DEF RearIsLast
  <2>1. \A t \in Threads : pc[t] \in {"idle", "wait", "again"}
    BY ChannelAssumption DEF Inv, TypeOK
  <2>2. RearAt(count) /\ Sent = count
    BY <2>1 DEF Inv, PlaceInv, Sent, Sending, Threads
  <2>3. CASE front = Null
    BY <2>2, <2>3 DEF RearAt
  <2>4. CASE front # Null
    <3>. TypeOK
      BY DEF Inv
    <3>1. front \in Cells /\ count \in front..MaxSends /\ front \in Nat /\ count \in Nat
      BY <2>2, <2>4, ChannelAssumption DEF Inv, TypeOK, ChainInv, Cells
    <3>2. List[front] = CellsFrom(front, count)
      BY <2>2, <2>4, MappingIs DEF Queue
    <3>3. /\ CellsFrom(front, count) \in Seq(Cars) /\ Len(CellsFrom(front, count)) = count + 1 - front
          /\ \A i \in 1..(count + 1 - front) :
               CellsFrom(front, count)[i] = <<car[front + i - 1], front + i - 1>>
      BY <3>1, CellsFromCells
    <3>4. count + 1 - front \in 1..(count + 1 - front) /\ front + (count + 1 - front) - 1 = count
      BY <3>1
    <3>5. CellsFrom(front, count)[count + 1 - front] = <<car[count], count>>
      BY <3>3, <3>4
    <3>6. Last(List[front])[2] = count
      BY <3>2, <3>3, <3>5 DEF Last
    <3>. QED
      BY <2>2, <2>4, <3>6 DEF RearAt
  <2>. QED
    BY <2>3, <2>4
<1>. QED
  BY <1>1, InvHolds, PTL

\* The mapping in the state a step leads to.
LEMMA MappingNext == Inv' => List'[front'] = Queue' /\ Linked' = Sent'
<1>1. (Inv => List[front] = Queue /\ Linked = Sent)'
  BY MappingIs, PTL
<1>. QED
  BY <1>1

\* What a receiver has taken depends on its own message only.
LEMMA TakenUnchanged ==
  ASSUME inbox' = inbox,
         \A r \in Receivers : Holding(r)' = Holding(r)
           /\ (Holding(r) => old'[r] = old[r] /\ car'[old[r]] = car[old[r]])
  PROVE  Taken' = Taken
BY DEF Taken

\* Taking the mutex to send is a stutter of Fifo.
LEMMA SendLockMaps ==
  ASSUME Inv, NEW t \in Senders, SendLock(t)
  PROVE  Sent' = Sent /\ Queue' = Queue /\ Taken' = Taken
<1>. USE ChannelAssumption DEF SendLock, Lock, At, Goto, channel
<1>. t \in Threads /\ TypeOK /\ ChainInv /\ PlaceInv
  BY DEF Threads, Inv
<1>0. \A u \in Threads \ {t} : pc[u] \in {"idle", "wait", "again"}
  BY OneInside DEF TypeOK
<1>1. Sent' = Sent
  BY <1>0 DEF Sent, Sending, TypeOK, Threads, PlaceInv, SenderAt, ReceiverAt
<1>2. Queue' = Queue
  BY <1>1 DEF Queue, CellsFrom
<1>3. Taken' = Taken
  BY <1>0, TakenUnchanged DEF Holding, TypeOK, PlaceInv, SenderAt, ReceiverAt, Threads
<1>. QED
  BY <1>1, <1>2, <1>3

\* Making the pair is a stutter of Fifo.
LEMMA SendConsMaps ==
  ASSUME Inv, NEW t \in Senders, SendCons(t)
  PROVE  Sent' = Sent /\ Queue' = Queue /\ Taken' = Taken
<1>. USE ChannelAssumption DEF SendCons, At, Goto, channel
<1>. t \in Threads /\ TypeOK /\ ChainInv /\ PlaceInv
  BY DEF Threads, Inv
<1>0. \A u \in Threads \ {t} : pc[u] \in {"idle", "wait", "again"}
  BY OneInside DEF TypeOK
<1>1. Sent' = Sent
  BY <1>0 DEF Sent, Sending, TypeOK, Threads, PlaceInv, SenderAt, ReceiverAt
<1>2. Queue' = Queue
  <2>1. Sent \in 0..count /\ count \in Nat /\ front \in Nat
    BY SentInRange DEF TypeOK, Cells, Null
  <2>2. \A c \in 0..count : car'[c] = car[c]
    BY <2>1 DEF TypeOK
  <2>3. CASE front = Null
    BY <2>3 DEF Queue
  <2>4. CASE front # Null
    <3>1. front >= 1
      BY <2>1, <2>4 DEF Null
    <3>2. \A i \in 1..(Sent + 1 - front) : front + i - 1 \in 0..count
      BY <2>1, <3>1
    <3>3. \A i \in 1..(Sent + 1 - front) : car'[front + i - 1] = car[front + i - 1]
      BY <2>2, <3>2
    <3>4. front' = front
      OBVIOUS
    <3>. HIDE DEF SendCons
    <3>. QED
      BY <1>1, <3>3, <3>4 DEF Queue, CellsFrom
  <2>. QED
    BY <2>3, <2>4
<1>3. Taken' = Taken
  BY <1>0, TakenUnchanged DEF Holding, TypeOK, PlaceInv, SenderAt, ReceiverAt, Threads
<1>. QED
  BY <1>1, <1>2, <1>3

\* Moving the rear is a stutter of Fifo.
LEMMA SendRearMaps ==
  ASSUME Inv, NEW t \in Senders, SendRear(t)
  PROVE  Sent' = Sent /\ Queue' = Queue /\ Taken' = Taken
<1>. USE ChannelAssumption DEF SendRear, At, Goto, channel
<1>. t \in Threads /\ TypeOK /\ ChainInv /\ PlaceInv
  BY DEF Threads, Inv
<1>0. \A u \in Threads \ {t} : pc[u] \in {"idle", "wait", "again"}
  BY OneInside DEF TypeOK
<1>1. Sent' = Sent
  BY <1>0 DEF Sent, Sending, TypeOK, Threads, PlaceInv, SenderAt, ReceiverAt
<1>2. Queue' = Queue
  BY <1>1 DEF Queue, CellsFrom
<1>3. Taken' = Taken
  BY <1>0, TakenUnchanged DEF Holding, TypeOK, PlaceInv, SenderAt, ReceiverAt, Threads
<1>. QED
  BY <1>1, <1>2, <1>3

\* Waking the receivers is a stutter of Fifo.
LEMMA SendBroadcastMaps ==
  ASSUME Inv, NEW t \in Senders, SendBroadcast(t)
  PROVE  Sent' = Sent /\ Queue' = Queue /\ Taken' = Taken
<1>. USE ChannelAssumption DEF SendBroadcast, At, Goto, channel
<1>. t \in Threads /\ TypeOK /\ ChainInv /\ PlaceInv
  BY DEF Threads, Inv
<1>0. \A u \in Threads \ {t} : pc[u] \in {"idle", "wait", "again"}
  BY OneInside DEF TypeOK
<1>1. Sent' = Sent
  BY <1>0 DEF Sent, Sending, TypeOK, Threads, PlaceInv, SenderAt, ReceiverAt
<1>2. Queue' = Queue
  BY <1>1 DEF Queue, CellsFrom
<1>3. Taken' = Taken
  BY <1>0, TakenUnchanged DEF Holding, TypeOK, PlaceInv, SenderAt, ReceiverAt, Threads
<1>. QED
  BY <1>1, <1>2, <1>3

\* Releasing the mutex after a send is a stutter of Fifo.
LEMMA SendUnlockMaps ==
  ASSUME Inv, NEW t \in Senders, SendUnlock(t)
  PROVE  Sent' = Sent /\ Queue' = Queue /\ Taken' = Taken
<1>. USE ChannelAssumption DEF SendUnlock, Unlock, At, Goto, channel
<1>. t \in Threads /\ TypeOK /\ ChainInv /\ PlaceInv
  BY DEF Threads, Inv
<1>0. \A u \in Threads \ {t} : pc[u] \in {"idle", "wait", "again"}
  BY OneInside DEF TypeOK
<1>1. Sent' = Sent
  BY <1>0 DEF Sent, Sending, TypeOK, Threads, PlaceInv, SenderAt, ReceiverAt
<1>2. Queue' = Queue
  BY <1>1 DEF Queue, CellsFrom
<1>3. Taken' = Taken
  BY <1>0, TakenUnchanged DEF Holding, TypeOK, PlaceInv, SenderAt, ReceiverAt, Threads
<1>. QED
  BY <1>1, <1>2, <1>3

\* Taking the mutex to receive is a stutter of Fifo.
LEMMA ReceiveLockMaps ==
  ASSUME Inv, NEW t \in Receivers, ReceiveLock(t)
  PROVE  Sent' = Sent /\ Queue' = Queue /\ Taken' = Taken
<1>. USE ChannelAssumption DEF ReceiveLock, Lock, At, Goto, channel
<1>. t \in Threads /\ TypeOK /\ ChainInv /\ PlaceInv
  BY DEF Threads, Inv
<1>0. \A u \in Threads \ {t} : pc[u] \in {"idle", "wait", "again"}
  BY OneInside DEF TypeOK
<1>1. Sent' = Sent
  BY <1>0 DEF Sent, Sending, TypeOK, Threads, PlaceInv, SenderAt, ReceiverAt
<1>2. Queue' = Queue
  BY <1>1 DEF Queue, CellsFrom
<1>3. Taken' = Taken
  BY <1>0, TakenUnchanged DEF Holding, TypeOK, PlaceInv, SenderAt, ReceiverAt, Threads
<1>. QED
  BY <1>1, <1>2, <1>3

\* Looking at the front is a stutter of Fifo.
LEMMA ReceiveLookMaps ==
  ASSUME Inv, NEW t \in Receivers, ReceiveLook(t)
  PROVE  Sent' = Sent /\ Queue' = Queue /\ Taken' = Taken
<1>. USE ChannelAssumption DEF ReceiveLook, At, Goto, channel
<1>. t \in Threads /\ TypeOK /\ ChainInv /\ PlaceInv
  BY DEF Threads, Inv
<1>0. \A u \in Threads \ {t} : pc[u] \in {"idle", "wait", "again"}
  BY OneInside DEF TypeOK
<1>1. Sent' = Sent
  BY <1>0 DEF Sent, Sending, TypeOK, Threads, PlaceInv, SenderAt, ReceiverAt
<1>2. Queue' = Queue
  BY <1>1 DEF Queue, CellsFrom
<1>3. Taken' = Taken
  BY <1>0, TakenUnchanged DEF Holding, TypeOK, PlaceInv, SenderAt, ReceiverAt, Threads
<1>. QED
  BY <1>1, <1>2, <1>3

\* Waiting is a stutter of Fifo.
LEMMA ReceiveWaitMaps ==
  ASSUME Inv, NEW t \in Receivers, ReceiveWait(t)
  PROVE  Sent' = Sent /\ Queue' = Queue /\ Taken' = Taken
<1>. USE ChannelAssumption DEF ReceiveWait, Unlock, At, Goto, channel
<1>. t \in Threads /\ TypeOK /\ ChainInv /\ PlaceInv
  BY DEF Threads, Inv
<1>0. \A u \in Threads \ {t} : pc[u] \in {"idle", "wait", "again"}
  BY OneInside DEF TypeOK
<1>1. Sent' = Sent
  BY <1>0 DEF Sent, Sending, TypeOK, Threads, PlaceInv, SenderAt, ReceiverAt
<1>2. Queue' = Queue
  BY <1>1 DEF Queue, CellsFrom
<1>3. Taken' = Taken
  BY <1>0, TakenUnchanged DEF Holding, TypeOK, PlaceInv, SenderAt, ReceiverAt, Threads
<1>. QED
  BY <1>1, <1>2, <1>3

\* Resetting the rear is a stutter of Fifo.
LEMMA ReceiveLastMaps ==
  ASSUME Inv, NEW t \in Receivers, ReceiveLast(t)
  PROVE  Sent' = Sent /\ Queue' = Queue /\ Taken' = Taken
<1>. USE ChannelAssumption DEF ReceiveLast, At, Goto, channel
<1>. t \in Threads /\ TypeOK /\ ChainInv /\ PlaceInv
  BY DEF Threads, Inv
<1>0. \A u \in Threads \ {t} : pc[u] \in {"idle", "wait", "again"}
  BY OneInside DEF TypeOK
<1>1. Sent' = Sent
  BY <1>0 DEF Sent, Sending, TypeOK, Threads, PlaceInv, SenderAt, ReceiverAt
<1>2. Queue' = Queue
  BY <1>1 DEF Queue, CellsFrom
<1>3. Taken' = Taken
  BY <1>0, TakenUnchanged DEF Holding, TypeOK, PlaceInv, SenderAt, ReceiverAt, Threads
<1>. QED
  BY <1>1, <1>2, <1>3

\* Releasing the mutex after a receive is a stutter of Fifo.
LEMMA ReceiveUnlockMaps ==
  ASSUME Inv, NEW t \in Receivers, ReceiveUnlock(t)
  PROVE  Sent' = Sent /\ Queue' = Queue /\ Taken' = Taken
<1>. USE ChannelAssumption DEF ReceiveUnlock, Unlock, At, Goto, channel
<1>. t \in Threads /\ TypeOK /\ ChainInv /\ PlaceInv
  BY DEF Threads, Inv
<1>0. \A u \in Threads \ {t} : pc[u] \in {"idle", "wait", "again"}
  BY OneInside DEF TypeOK
<1>1. Sent' = Sent
  BY <1>0 DEF Sent, Sending, TypeOK, Threads, PlaceInv, SenderAt, ReceiverAt
<1>2. Queue' = Queue
  BY <1>1 DEF Queue, CellsFrom
<1>3. Taken' = Taken
  <2>1. ASSUME NEW r \in Receivers PROVE Taken'[r] = Taken[r]
    <3>1. CASE r = t
      BY <3>1 DEF Taken, Holding, TypeOK
    <3>2. CASE r # t
      BY <3>2 DEF Taken, Holding, TypeOK
    <3>. QED
      BY <3>1, <3>2
  <2>. QED
    BY <2>1 DEF Taken
<1>. QED
  BY <1>1, <1>2, <1>3

\* Linking a cell in appends its message to the queue.
LEMMA QueueAppend ==
  ASSUME Inv, Inv', car' = car, count' = count, Sent = count - 1, Sent' = count, count # 0,
         front' = IF front = Null THEN count ELSE front
  PROVE  Queue' = Append(Queue, <<car[count], count>>) /\ <<car[count], count>> \in Messages
<1>. DEFINE m == <<car[count], count>>
<1>1. TypeOK /\ TypeOK' /\ count \in Cells /\ count \in Nat /\ MaxSends \in Nat /\ count <= MaxSends
  BY ChannelAssumption DEF Inv, TypeOK, Cells
<1>2. m \in Messages /\ m \in Cars
  BY <1>1 DEF Inv, ChainInv, Messages, Cars, Cells
<1>3. CASE front = Null
  <2>1. Queue = <<>> /\ Queue' = CellsFrom(count, count)'
    BY <1>1, <1>3 DEF Queue, Cells, Null
  <2>2. CellsFrom(count, count)' = <<m>>
    BY <1>1 DEF CellsFrom
  <2>. QED
    BY <1>2, <2>1, <2>2
<1>4. CASE front # Null
  <2>1. /\ front' = front /\ front \in Cells /\ front \in Nat /\ front >= 1 /\ front <= count - 1
        /\ count - 1 \in front..MaxSends /\ count \in front..MaxSends
    BY <1>1, <1>4 DEF Inv, TypeOK, ChainInv, Cells
  <2>. DEFINE a == CellsFrom(front, count - 1)
              b == CellsFrom(front, count)
              c == Append(a, m)
  <2>2. /\ a \in Seq(Cars) /\ Len(a) = count - 1 + 1 - front
        /\ \A i \in 1..(count - 1 + 1 - front) : a[i] = <<car[front + i - 1], front + i - 1>>
    BY <1>1, <2>1, CellsFromCells
  <2>3. /\ b \in Seq(Cars) /\ Len(b) = count + 1 - front
        /\ \A i \in 1..(count + 1 - front) : b[i] = <<car[front + i - 1], front + i - 1>>
    BY <1>1, <2>1, CellsFromCells
  <2>4. Queue = a /\ Queue' = b
    BY <1>4, <2>1 DEF Queue, CellsFrom
  <2>. HIDE DEF a, b
  <2>5. /\ c \in Seq(Cars) /\ Len(c) = Len(a) + 1
        /\ \A i \in 1..Len(a) : c[i] = a[i]
        /\ c[Len(a) + 1] = m
    BY <1>2, <2>2, AppendCells
  <2>. HIDE DEF c
  <2>6. ASSUME NEW i \in 1..Len(b) PROVE b[i] = c[i]
    <3>1. CASE i = Len(b)
      <4>1. i = Len(a) + 1 /\ front + i - 1 = count
        BY <1>1, <2>1, <2>2, <2>3, <3>1
      <4>. QED
        BY <4>1, <2>3, <2>5
    <3>2. CASE i # Len(b)
      <4>1. i \in 1..Len(a)
        BY <1>1, <2>1, <2>2, <2>3, <3>2
      <4>. QED
        BY <4>1, <2>2, <2>3, <2>5
    <3>. QED
      BY <3>1, <3>2
  <2>7. Len(b) = Len(c)
    BY <1>1, <2>1, <2>2, <2>3, <2>5
  <2>8. b = c
    BY <2>3, <2>5, <2>6, <2>7, SameCells
  <2>. QED
    BY <1>2, <2>4, <2>8 DEF c
<1>. QED
  BY <1>3, <1>4

\* Moving the front on takes the first message off the queue.
LEMMA QueueTail ==
  ASSUME Inv, Inv', car' = car, Sent' = Sent, front # Null, front' = cdr[front]
  PROVE  Queue # <<>> /\ Head(Queue) = <<car[front], front>> /\ Queue' = Tail(Queue)
<1>1. /\ TypeOK /\ front \in Cells /\ front \in Nat /\ front >= 1 /\ front <= Sent /\ Sent \in Nat
      /\ Sent \in front..MaxSends /\ MaxSends \in Nat
  BY SentInRange, ChannelAssumption, SMTT(30) DEF Inv, TypeOK, ChainInv, Cells
<1>. DEFINE rest == IF Sent = front THEN <<>> ELSE CellsFrom(front + 1, Sent)
            m == <<car[front], front>>
<1>2. Queue = <<m>> \o rest
  BY <1>1, CellsFromCons DEF Queue
<1>3. Queue' = rest
  <2>1. CASE front = Sent
    <3>1. front' = Null
      BY <1>1, <2>1 DEF Inv, ChainInv
    <3>. QED
      BY <2>1, <3>1 DEF Queue
  <2>2. CASE front # Sent
    <3>1. front' = front + 1 /\ front + 1 # Null
      BY <1>1, <2>2 DEF Inv, ChainInv, Null
    <3>. QED
      BY <2>2, <3>1 DEF Queue, CellsFrom
  <2>. QED
    BY <2>1, <2>2
<1>4. m \in Cars
  BY <1>1 DEF Cars, TypeOK
<1>5. rest \in Seq(Cars)
  <2>1. CASE Sent = front
    BY <2>1
  <2>2. CASE Sent # front
    <3>1. front + 1 \in Cells /\ Sent \in (front + 1)..MaxSends
      BY <1>1, <2>2 DEF Cells
    <3>. QED
      BY <1>1, <2>2, <3>1, CellsFromCells
  <2>. QED
    BY <2>1, <2>2
<1>. HIDE DEF rest, m
<1>6. <<m>> \o rest # <<>> /\ Head(<<m>> \o rest) = m /\ Tail(<<m>> \o rest) = rest
  BY <1>4, <1>5, HeadTailOfCons
<1>. QED
  BY <1>2, <1>3, <1>6 DEF m

\* SendLink and SendFront send a message.
LEMMA SendMaps ==
  ASSUME Inv, Inv', NEW t \in Senders, SendLink(t) \/ SendFront(t)
  PROVE  /\ Sent' = Sent + 1 /\ Taken' = Taken
         /\ \E m \in Messages : Queue' = Append(Queue, m)
<1>. USE ChannelAssumption DEF SendLink, SendFront, At, Goto
<1>. t \in Threads /\ TypeOK /\ ChainInv /\ PlaceInv
  BY DEF Threads, Inv
<1>1. \A u \in Threads \ {t} : pc[u] \in {"idle", "wait", "again"}
  BY OneInside DEF TypeOK
<1>2. Sending = {t} /\ Sending' = {}
  <2>1. pc[t] \in {"link", "front"} /\ pc'[t] \in {"unlock", "broadcast"}
    BY DEF TypeOK
  <2>2. \A u \in Senders \ {t} : pc'[u] = pc[u] /\ pc[u] \notin {"rear", "link", "front"}
    BY <1>1 DEF TypeOK, Threads
  <2>. QED
    BY <2>1, <2>2 DEF Sending
<1>3. Sent = count - 1 /\ Sent' = count /\ count # 0 /\ count \in Nat
  BY <1>2 DEF Sent, PlaceInv, SenderAt, TypeOK
<1>4. front' = (IF front = Null THEN count ELSE front) /\ car' = car /\ count' = count
  BY DEF PlaceInv, SenderAt, Null
<1>5. Taken' = Taken
  BY <1>1, TakenUnchanged DEF Holding, TypeOK, PlaceInv, ReceiverAt, Threads
<1>6. Queue' = Append(Queue, <<car[count], count>>) /\ <<car[count], count>> \in Messages
  BY <1>3, <1>4, QueueAppend
<1>. QED
  BY <1>3, <1>5, <1>6

\* ReceiveTake receives one.
LEMMA ReceiveMaps ==
  ASSUME Inv, Inv', NEW t \in Receivers, ReceiveTake(t)
  PROVE  /\ Sent' = Sent /\ Queue # <<>> /\ Queue' = Tail(Queue)
         /\ Taken' = [Taken EXCEPT ![t] = Append(@, Head(Queue))]
<1>. USE ChannelAssumption DEF ReceiveTake, At, Goto
<1>. t \in Threads /\ TypeOK /\ ChainInv /\ PlaceInv
  BY DEF Threads, Inv
<1>1. \A u \in Threads \ {t} : pc[u] \in {"idle", "wait", "again"}
  BY OneInside DEF TypeOK
<1>2. Sent' = Sent
  BY <1>1 DEF Sent, Sending, TypeOK, Threads
<1>3. old[t] = front /\ front # Null
  BY DEF PlaceInv, ReceiverAt
<1>4. Queue # <<>> /\ Head(Queue) = <<car[front], front>> /\ Queue' = Tail(Queue)
  BY <1>2, <1>3, QueueTail
<1>. DEFINE m == <<car[front], front>>
<1>5. ASSUME NEW r \in Receivers
      PROVE  Taken'[r] = IF r = t THEN Append(Taken[r], m) ELSE Taken[r]
  <2>1. CASE r = t
    BY <1>3, <2>1 DEF Taken, Holding, TypeOK
  <2>2. CASE r # t
    BY <2>2 DEF Taken, Holding, TypeOK, Threads
  <2>. QED
    BY <2>1, <2>2
<1>6. Taken' = [Taken EXCEPT ![t] = Append(@, m)]
  <2>. HIDE DEF m, ReceiveTake
  <2>1. Taken = [r \in Receivers |-> Taken[r]] /\ Taken' = [r \in Receivers |-> Taken'[r]]
    BY DEF Taken
  <2>. HIDE DEF Taken
  <2>. QED
    BY <1>5, <2>1
<1>. QED
  BY <1>2, <1>4, <1>6

\* The cells, the two pointers and the mutex implement the queue of Fifo: for any
\* number of senders and receivers, however their calls interleave, no message is
\* lost, duplicated or reordered.
THEOREM ChannelImplementsFifo == Spec => Implements
<1>. DEFINE view == <<Linked, List[front], Taken>>
<1>1. Init => Abstract!Init
  <2>. SUFFICES ASSUME Init PROVE Abstract!Init
    OBVIOUS
  <2>1. Inv
    BY InitInv
  <2>2. Queue = <<>> /\ Sent = 0
    BY DEF Init, Queue, Sent, Sending, Threads
  <2>3. Taken = [r \in Receivers |-> <<>>]
    BY DEF Init, Taken, Holding, Threads
  <2>. QED
    BY <2>1, <2>2, <2>3, MappingIs DEF Abstract!Init
<1>2. Inv /\ Inv' /\ [Next]_vars => [Abstract!Next]_view
  <2>. SUFFICES ASSUME Inv, Inv', [Next]_vars PROVE [Abstract!Next]_view
    OBVIOUS
  <2>1. /\ List[front] = Queue /\ Linked = Sent
        /\ List'[front'] = Queue' /\ Linked' = Sent'
    BY MappingIs, MappingNext
  <2>2. ASSUME Sent' = Sent, Queue' = Queue, Taken' = Taken PROVE view' = view
    BY <2>1, <2>2
  <2>3. CASE UNCHANGED vars
    <3>1. Sent' = Sent /\ Queue' = Queue /\ Taken' = Taken
      BY <2>3 DEF vars, channel, Sent, Sending, Queue, CellsFrom, Taken, Holding
    <3>. QED
      BY <2>2, <3>1
  <2>4. ASSUME NEW t \in Senders, Send(t) PROVE [Abstract!Next]_view
    <3>1. CASE SendLink(t) \/ SendFront(t)
      <4>1. /\ Sent' = Sent + 1 /\ Taken' = Taken
            /\ \E m \in Messages : Queue' = Append(Queue, m)
        BY <3>1, SendMaps
      <4>. QED
        BY <2>1, <4>1 DEF Abstract!Next, Abstract!Send
    <3>2. CASE ~(SendLink(t) \/ SendFront(t))
      <4>1. Sent' = Sent /\ Queue' = Queue /\ Taken' = Taken
        BY <2>4, <3>2, SendLockMaps, SendConsMaps, SendRearMaps, SendBroadcastMaps, SendUnlockMaps
           DEF Send
      <4>. QED
        BY <2>2, <4>1
    <3>. QED
      BY <3>1, <3>2
  <2>5. ASSUME NEW t \in Receivers, Receive(t) PROVE [Abstract!Next]_view
    <3>1. CASE ReceiveTake(t)
      <4>1. /\ Sent' = Sent /\ Queue # <<>> /\ Queue' = Tail(Queue)
            /\ Taken' = [Taken EXCEPT ![t] = Append(@, Head(Queue))]
        BY <3>1, ReceiveMaps
      <4>. QED
        BY <2>1, <4>1 DEF Abstract!Next, Abstract!Receive
    <3>2. CASE ~ReceiveTake(t)
      <4>1. Sent' = Sent /\ Queue' = Queue /\ Taken' = Taken
        BY <2>5, <3>2, ReceiveLockMaps, ReceiveLookMaps, ReceiveWaitMaps, ReceiveLastMaps,
           ReceiveUnlockMaps DEF Receive
      <4>. QED
        BY <2>2, <4>1
    <3>. QED
      BY <3>1, <3>2
  <2>. QED
    BY <2>3, <2>4, <2>5 DEF Next
<1>. QED
  BY <1>1, <1>2, InvHolds, PTL DEF Spec, Implements, Abstract!Spec
=============================================================================
