---------------------------- MODULE LibraryProofs ----------------------------
(***************************************************************************)
(* Proofs about buffered ports, for any buffer, any input and any number   *)
(* of threads: what arrives is what was written, in order, and what is     *)
(* read is the input, in order, with room for what is pushed back.         *)
(*                                                                         *)
(* Proofs about strings, for any characters, lengths and sharing: the      *)
(* bytes of a string are the codes of its characters, and indices, cursors *)
(* and comparisons agree with them.                                        *)
(***************************************************************************)
EXTENDS Ports, Strings, ListLemmas, FiniteSetTheorems

\* A byte written: its writer and its number.
Written == Users \X Nat
Stream == sink \o buf
Calling(t) == call.at # "none" /\ call.t = t

\* The bytes of t that are still to be stored, and those that have been.
Left(t) == IF Calling(t) THEN Len(call.str) ELSE Len(pend[t])
Stored == [t \in Users |-> passed[t] - Left(t)]

WriteTypes ==
  /\ kind \in {"fd", "string", "input"} /\ open \in BOOLEAN /\ refused \in BOOLEAN
  /\ sink \in Seq(Written) /\ buf \in Seq(Written) /\ Len(buf) <= PortSize
  /\ pend \in [Users -> Seq(Written)] /\ passed \in [Users -> Nat]
  /\ wide \in [Users -> BOOLEAN]
  /\ call \in [t : Users \cup {0}, at : {"none", "char", "tail", "string"},
               str : Seq(Written), written : Nat, took : Nat]
  /\ gone \subseteq Written
  /\ open => kind # "input"

\* The bytes of t from number n + 1 on.
Run(t, n, s) == \A k \in 1..Len(s) : s[k] = <<t, n + k>>

\* The last of the n bytes t has begun to write.
LastOf(t, n, s) == Len(s) <= n /\ Run(t, n - Len(s), s)

\* The instruction that is being executed.
CallOK ==
  IF call.at = "none" THEN call = NoCall
  ELSE /\ open /\ call.t \in Users /\ LastOf(call.t, passed[call.t], call.str)
       /\ pend[call.t] # <<>> /\ Len(call.str) <= Len(pend[call.t])
       /\ call.at = "char" => call.str # <<>> /\ Len(call.str) = Len(pend[call.t])
       /\ call.at = "string" => /\ call.took = Len(pend[call.t]) - Len(call.str)
                                /\ call.took <= call.written

\* What was stored, st[t] bytes of t, is there or gone, not both, and in the
\* order of writing.
StreamHas(s, st, g) ==
  /\ \A i \in 1..Len(s) : s[i][2] \in 1..st[s[i][1]] /\ s[i] \notin g
  /\ \A t \in Users : \A k \in 1..st[t] :
       <<t, k>> \in g \/ \E i \in 1..Len(s) : s[i] = <<t, k>>
  /\ \A i, j \in 1..Len(s) : i < j /\ s[i][1] = s[j][1] => s[i][2] < s[j][2]

\* What is gone belongs to what t has no longer to write.
GoneIn(g, pd) == \A x \in g : x[2] \in 1..(passed[x[1]] - Len(pd[x[1]]))

\* What is gone was refused, or dropped with a string port.
LossKnown == gone # {} => refused \/ (kind = "string" /\ ~open)

WriteInv ==
  /\ WriteTypes
  /\ \A t \in Users : LastOf(t, passed[t], pend[t])
  /\ CallOK
  /\ StreamHas(Stream, Stored, gone)
  /\ GoneIn(gone, pend)
  /\ LossKnown

-----------------------------------------------------------------------------

InputBytes == Nat \X Nat \X Nat
CharOps == {"read-char", "peek-char"}

\* The bytes that follow the first of a character are in s or still to come.
Whole(s, more) ==
  \A i \in 1..Len(s) : s[i][2] = 1 =>
    s[i][3] \in 1..(BUF_START + 1) /\ i - 1 + s[i][3] <= Len(s) + more

\* The bytes read so far are the first of the input.
InOrder(s, n) == Len(s) = n /\ \A i \in 1..n : s[i] = Source[i]

\* A reader has taken bytes, the buffer has rest at the offset off, and the
\* system has given n bytes.
Readable(bytes, rest, off, n, broken) ==
  /\ Whole(bytes \o rest, Len(Source) - n)
  /\ Len(bytes) <= off
  /\ bytes # <<>> \/ rest # <<>> => BUF_START + 1 <= off + Len(rest)
  /\ broken \/ InOrder(got \o bytes \o rest, n)

ReadTypes ==
  /\ ibuf \in Seq(InputBytes) /\ got \in Seq(InputBytes) /\ ask.bytes \in Seq(InputBytes)
  /\ ask = [op |-> ask.op, bytes |-> ask.bytes]
  /\ ask.op \in {"none", "read-u8", "peek-u8"} \cup CharOps
  /\ ioff \in Nat /\ iread \in 0..Len(Source) /\ torn \in BOOLEAN

ReadInv ==
  /\ ReadTypes
  /\ ask.bytes # <<>> =>
       ask.op \in CharOps /\ ask.bytes[1][2] = 1 /\ Len(ask.bytes) < ask.bytes[1][3]
  /\ Readable(ask.bytes, ibuf, ioff, iread, torn)

-----------------------------------------------------------------------------
(* Sequences, cut and joined.                                              *)

\* The cells of a part of a sequence.
LEMMA PartCells ==
  ASSUME NEW S, NEW q \in Seq(S), NEW m \in Nat, NEW n \in Nat, m <= n, n <= Len(q)
  PROVE  /\ SubSeq(q, m + 1, n) \in Seq(S) /\ Len(SubSeq(q, m + 1, n)) = n - m
         /\ \A j \in 1..(n - m) : SubSeq(q, m + 1, n)[j] = q[m + j]
OBVIOUS

\* a is p and q joined, by their cells.
IsJoin(S, a, p, q) ==
  /\ a \in Seq(S) /\ p \in Seq(S) /\ q \in Seq(S) /\ Len(a) = Len(p) + Len(q)
  /\ \A j \in 1..(Len(p) + Len(q)) : a[j] = IF j <= Len(p) THEN p[j] ELSE q[j - Len(p)]

\* What a concatenation is.
LEMMA Joined ==
  ASSUME NEW S, NEW p \in Seq(S), NEW q \in Seq(S)
  PROVE  IsJoin(S, p \o q, p, q)
BY ConcatCells DEF IsJoin

\* Joining is associative.
LEMMA ConcatThree ==
  ASSUME NEW S, NEW p \in Seq(S), NEW q \in Seq(S), NEW r \in Seq(S)
  PROVE  (p \o q) \o r = p \o (q \o r)
OBVIOUS

\* Joining nothing.
LEMMA ConcatNone ==
  ASSUME NEW S, NEW q \in Seq(S)
  PROVE  <<>> \o q = q /\ q \o <<>> = q
OBVIOUS

\* Moving the first element behind a sequence.
LEMMA MoveHead ==
  ASSUME NEW S, NEW p \in Seq(S), NEW q \in Seq(S), q # <<>>
  PROVE  /\ Head(q) \in S /\ Tail(q) \in Seq(S) /\ Len(Tail(q)) = Len(q) - 1
         /\ Append(p, Head(q)) \o Tail(q) = p \o q
<1>1. /\ Head(q) \in S /\ Tail(q) \in Seq(S) /\ Len(Tail(q)) = Len(q) - 1
      /\ Head(q) = q[1] /\ Len(q) \in Nat \ {0} /\ Len(p) \in Nat
      /\ \A i \in 1..(Len(q) - 1) : Tail(q)[i] = q[i + 1]
  OBVIOUS
<1>. DEFINE t == Tail(q)
            a == Append(p, Head(q))
            c == a \o t
            d == p \o q
<1>2. /\ a \in Seq(S) /\ Len(a) = Len(p) + 1 /\ a[Len(p) + 1] = q[1]
      /\ \A i \in 1..Len(p) : a[i] = p[i]
  BY <1>1, AppendCells
<1>3. /\ d \in Seq(S) /\ Len(d) = Len(p) + Len(q)
      /\ \A j \in 1..(Len(p) + Len(q)) : d[j] = IF j <= Len(p) THEN p[j] ELSE q[j - Len(p)]
  BY ConcatCells
<1>. HIDE DEF a, d
<1>4. /\ t \in Seq(S) /\ Len(t) = Len(q) - 1 /\ \A i \in 1..(Len(q) - 1) : t[i] = q[i + 1]
  BY <1>1
<1>. HIDE DEF t
<1>5. /\ c \in Seq(S) /\ Len(c) = Len(a) + Len(t)
      /\ \A j \in 1..(Len(a) + Len(t)) : c[j] = IF j <= Len(a) THEN a[j] ELSE t[j - Len(a)]
  BY <1>2, <1>4, ConcatCells
<1>. HIDE DEF c
<1>6. Len(c) = Len(d)
  BY <1>1, <1>2, <1>3, <1>4, <1>5
<1>7. ASSUME NEW j \in 1..Len(c) PROVE c[j] = d[j]
  <2>1. CASE j <= Len(p)
    <3>1. j \in 1..Len(p) /\ j <= Len(a)
      BY <2>1, <1>1, <1>2
    <3>2. c[j] = a[j] /\ d[j] = p[j]
      BY <2>1, <3>1, <1>3, <1>5, <1>6
    <3>3. QED
      BY <3>1, <3>2, <1>2
  <2>2. CASE j = Len(p) + 1
    <3>1. j - Len(p) = 1 /\ ~(j <= Len(p)) /\ j <= Len(a)
      BY <2>2, <1>1, <1>2
    <3>2. d[j] = q[j - Len(p)] /\ c[j] = a[j]
      BY <3>1, <1>3, <1>5, <1>6
    <3>3. QED
      BY <2>2, <3>1, <3>2, <1>2
  <2>3. CASE j > Len(p) + 1
    <3>1. ~(j <= Len(a)) /\ ~(j <= Len(p)) /\ j - Len(a) \in 1..(Len(q) - 1)
          /\ j - Len(a) + 1 = j - Len(p)
      BY <2>3, <1>1, <1>2, <1>4, <1>5
    <3>2. c[j] = t[j - Len(a)] /\ d[j] = q[j - Len(p)]
      BY <3>1, <1>3, <1>5, <1>6
    <3>3. QED
      BY <3>1, <3>2, <1>4
  <2>4. QED
    BY <2>1, <2>2, <2>3, <1>1
<1>8. c = d
  BY <1>3, <1>5, <1>6, <1>7, SameCells
<1>9. QED
  BY <1>1, <1>8 DEF a, c, d, t

-----------------------------------------------------------------------------
(* Reading.                                                                *)

\* What is whole is whole without its first bytes.
LEMMA WholeRest ==
  ASSUME NEW p \in Seq(InputBytes), NEW q \in Seq(InputBytes), NEW m \in Nat, Whole(p \o q, m)
  PROVE  Whole(q, m)
<1>1. PICK a : a = p \o q /\ IsJoin(InputBytes, a, p, q)
  BY Joined, Zenon
<1>2. ASSUME NEW i \in 1..Len(q), q[i][2] = 1
      PROVE  q[i][3] \in 1..(BUF_START + 1) /\ i - 1 + q[i][3] <= Len(q) + m
  <2>1. /\ Len(p) \in Nat /\ Len(q) \in Nat /\ Len(a) = Len(p) + Len(q)
        /\ Len(p) + i \in 1..Len(a) /\ a[Len(p) + i] = q[Len(p) + i - Len(p)]
    BY <1>1 DEF IsJoin
  <2>2. Len(p) + i - Len(p) = i
    BY <2>1
  <2>3. q[i][3] \in 1..(BUF_START + 1) /\ Len(p) + i - 1 + q[i][3] <= Len(a) + m
    BY <1>1, <1>2, <2>1, <2>2, SMTT(30) DEF Whole
  <2>4. PICK w \in Nat, l \in Nat, n \in Nat : w = q[i][3] /\ l = Len(p) /\ n = Len(q)
    BY <2>1, <2>3, PortsAssumption
  <2>5. l + i - 1 + w <= l + n + m
    BY <2>1, <2>3, <2>4
  <2>6. i - 1 + w <= n + m
    BY <2>5
  <2>7. QED
    BY <2>3, <2>4, <2>6
<1>3. QED
  BY <1>2 DEF Whole

\* The byte b has been read: the character is complete, or it is not.
LEMMA NextByte ==
  ASSUME ReadTypes, NEW b \in InputBytes, NEW rest \in Seq(InputBytes), NEW off \in Nat,
         ask.op # "none", Next1(b, rest, off), ~garbled, ~garbled',
         ask.bytes # <<>> =>
           ask.op \in CharOps /\ ask.bytes[1][2] = 1 /\ Len(ask.bytes) < ask.bytes[1][3],
         iread' \in 0..Len(Source), torn' \in BOOLEAN,
         Readable(Append(ask.bytes, b), rest, off, iread', torn')
  PROVE  ReadInv'
<1>1. /\ ask.bytes \in Seq(InputBytes) /\ got \in Seq(InputBytes)
      /\ ask = [op |-> ask.op, bytes |-> ask.bytes]
      /\ ask.op \in {"none", "read-u8", "peek-u8"} \cup CharOps
  BY DEF ReadTypes
<1>2. PICK B \in Seq(InputBytes) :
        /\ B = Append(ask.bytes, b) /\ Len(B) = Len(ask.bytes) + 1
        /\ B[1] = IF ask.bytes = <<>> THEN b ELSE ask.bytes[1]
  <2>1. /\ Append(ask.bytes, b) \in Seq(InputBytes)
        /\ Len(Append(ask.bytes, b)) = Len(ask.bytes) + 1 /\ Len(ask.bytes) \in Nat
        /\ \A i \in 1..Len(ask.bytes) : Append(ask.bytes, b)[i] = ask.bytes[i]
        /\ Append(ask.bytes, b)[Len(ask.bytes) + 1] = b
    BY <1>1, AppendCells
  <2>2. Append(ask.bytes, b)[1] = IF ask.bytes = <<>> THEN b ELSE ask.bytes[1]
    <3>1. CASE ask.bytes = <<>>
      BY <2>1, <3>1
    <3>2. CASE ask.bytes # <<>>
      <4>1. 1 \in 1..Len(ask.bytes)
        BY <1>1, <3>2
      <4>2. QED
        BY <2>1, <3>2, <4>1
    <3>3. QED
      BY <3>1, <3>2
  <2>3. QED
    BY <2>1, <2>2, Zenon
<1>3. /\ Whole(B \o rest, Len(Source) - iread') /\ Len(B) <= off
      /\ BUF_START + 1 <= off + Len(rest)
      /\ torn' \/ InOrder(got \o B \o rest, iread')
      /\ Len(B) \in Nat \ {0} /\ Len(rest) \in Nat
  <2>1. Len(B) \in Nat \ {0} /\ B # <<>> /\ Len(rest) \in Nat
    BY <1>1, <1>2
  <2>2. QED
    BY <1>2, <2>1 DEF Readable
<1>4. Len(Source) - iread' \in Nat
  BY PortsAssumption
<1>w. PICK w : w = IF ask.op \in {"read-u8", "peek-u8"} \/ B[1][2] # 1 THEN 1 ELSE B[1][3]
  OBVIOUS
<1>j. PICK a : a = B \o rest /\ IsJoin(InputBytes, a, B, rest)
  BY Joined, Zenon
<1>k. a \in Seq(InputBytes) /\ Len(a) = Len(B) + Len(rest)
  BY <1>j DEF IsJoin
<1>5. CASE Len(B) = w
  <2>1. Answer(B, rest, off)
    BY <1>2, <1>5, <1>w DEF Next1
  <2>2. ask' = NoAsk /\ ask'.op = "none" /\ ask'.bytes = <<>>
    BY <2>1 DEF Answer, NoAsk
  <2>3. CASE ask.op \in {"peek-char", "peek-u8"}
    <3>0. PushedBack(B) = {B}
      BY <2>1 DEF Answer, PushedBack
    <3>1. ibuf' = a /\ ioff' = off - Len(B) /\ got' = got
      <4>1. \E p \in {B} : ibuf' = p \o rest /\ ioff' = off - Len(p) /\ UNCHANGED got
        BY <2>1, <2>3, <3>0, Zenon DEF Answer
      <4>2. QED
        BY <1>j, <4>1
    <3>2. ReadTypes'
      <4>1. ioff' \in Nat
        BY <1>3, <3>1
      <4>2. QED
        BY <1>1, <1>k, <2>2, <3>1, <4>1 DEF ReadTypes, NoAsk
    <3>3. Whole(<<>> \o a, Len(Source) - iread')
      BY <1>3, <1>j, <1>k, ConcatNone
    <3>4. torn' \/ InOrder(got \o <<>> \o a, iread')
      <4>1. got \o <<>> = got /\ (got \o B) \o rest = got \o a
        <5>1. got \o <<>> = got
          BY <1>1, ConcatNone
        <5>2. (got \o B) \o rest = got \o (B \o rest)
          <6>1. ASSUME NEW x \in Seq(InputBytes) PROVE (x \o B) \o rest = x \o (B \o rest)
            BY ConcatThree, SMTT(30)
          <6>2. QED
            BY <1>1, <6>1
        <5>3. QED
          BY <1>j, <5>1, <5>2
      <4>2. QED
        BY <1>3, <4>1
    <3>5. BUF_START + 1 <= ioff' + Len(a) /\ Len(<<>>) <= ioff'
      BY <1>3, <1>k, <3>1, PortsAssumption
    <3>6. Readable(ask.bytes, ibuf, ioff, iread, torn)'
      BY <2>2, <3>1, <3>3, <3>4, <3>5 DEF Readable, Whole, InOrder
    <3>7. QED
      BY <2>2, <3>2, <3>6 DEF ReadInv
  <2>4. CASE ask.op \notin {"peek-char", "peek-u8"}
    <3>1. ibuf' = rest /\ ioff' = off /\ got' = got \o B
      BY <2>1, <2>4 DEF Answer
    <3>2. PICK g \in Seq(InputBytes) : g = got \o B
      BY <1>1, ConcatCells
    <3>3. ReadTypes'
      BY <1>1, <2>2, <3>1, <3>2 DEF ReadTypes, NoAsk
    <3>4. Whole(<<>> \o rest, Len(Source) - iread')
      BY <1>3, <1>4, WholeRest, ConcatNone
    <3>5. torn' \/ InOrder(g \o <<>> \o rest, iread')
      <4>1. g \o <<>> = g
        BY <3>2, ConcatNone
      <4>2. QED
        BY <1>3, <3>2, <4>1
    <3>6. Len(<<>>) <= ioff'
      BY <3>1
    <3>7. Readable(ask.bytes, ibuf, ioff, iread, torn)'
      BY <1>3, <2>2, <3>1, <3>2, <3>4, <3>5, <3>6 DEF Readable, Whole, InOrder
    <3>8. QED
      BY <2>2, <3>3, <3>7 DEF ReadInv
  <2>5. QED
    BY <2>3, <2>4
<1>6. CASE Len(B) # w
  <2>1. ask' = [ask EXCEPT !.bytes = B] /\ ibuf' = rest /\ ioff' = off /\ got' = got
    BY <1>2, <1>6, <1>w DEF Next1
  <2>2. ask' = [op |-> ask.op, bytes |-> B] /\ ask'.op = ask.op /\ ask'.bytes = B
    BY <1>1, <2>1
  <2>3. ask.op \in CharOps /\ B[1][2] = 1 /\ Len(B) < B[1][3]
    <3>1. ASSUME ask.bytes = <<>> PROVE Len(B) = 1
      BY <1>2, <3>1
    <3>2. ~(ask.op \in {"read-u8", "peek-u8"} \/ B[1][2] # 1)
      BY <1>2, <1>6, <1>w, <3>1 DEF CharOps
    <3>3. ask.op \in CharOps /\ B[1][2] = 1 /\ Len(B) # B[1][3]
      BY <1>1, <1>6, <1>w, <3>2
    <3>4. B[1][3] \in Nat \ {0}
      <4>1. 1 \in 1..Len(a) /\ a[1] = B[1]
        BY <1>3, <1>j DEF IsJoin
      <4>2. QED
        BY <1>3, <1>j, <3>3, <4>1, PortsAssumption, SMTT(30) DEF Whole
    <3>5. CASE ask.bytes = <<>>
      <4>1. Len(B) = 1
        BY <3>1, <3>5
      <4>2. 1 < B[1][3]
        BY <3>3, <3>4, <4>1
      <4>3. QED
        BY <3>3, <4>1, <4>2
    <3>6. CASE ask.bytes # <<>>
      <4>1. Len(ask.bytes) < B[1][3] /\ Len(ask.bytes) \in Nat
        BY <1>1, <1>2, <3>6
      <4>2. QED
        BY <1>2, <3>3, <3>4, <4>1
    <3>7. QED
      BY <3>3, <3>5, <3>6
  <2>4. ReadTypes'
    BY <1>1, <2>1, <2>2 DEF ReadTypes
  <2>5. Readable(ask.bytes, ibuf, ioff, iread, torn)'
    BY <1>3, <2>1, <2>2 DEF Readable, Whole, InOrder
  <2>6. QED
    BY <2>2, <2>3, <2>4, <2>5 DEF ReadInv
<1>7. QED
  BY <1>5, <1>6

\* The next byte is in the buffer.
LEMMA TakeByteReads ==
  ASSUME ReadInv, TakeByte, ~garbled, ~garbled'
  PROVE  ReadInv'
<1>1. /\ ask.bytes \in Seq(InputBytes) /\ got \in Seq(InputBytes) /\ ibuf \in Seq(InputBytes)
      /\ ibuf # <<>> /\ ioff \in Nat /\ iread' = iread /\ torn' = torn
      /\ ask = [op |-> ask.op, bytes |-> ask.bytes]
      /\ Next1(Head(ibuf), Tail(ibuf), ioff + 1)
      /\ Readable(ask.bytes, ibuf, ioff, iread, torn)
  BY DEF ReadInv, ReadTypes, TakeByte
<1>2. ask.op # "none"
  <2>1. ask.bytes # <<>> => ask.op # "none"
    BY DEF ReadInv, CharOps
  <2>2. ask # NoAsk
    BY DEF TakeByte
  <2>3. QED
    BY <1>1, <2>1, <2>2 DEF NoAsk
<1>3. PICK b \in InputBytes : b = Head(ibuf)
  BY <1>1
<1>4. PICK rest \in Seq(InputBytes) :
        rest = Tail(ibuf) /\ Len(rest) = Len(ibuf) - 1 /\ Len(ibuf) \in Nat \ {0}
  <2>1. Tail(ibuf) \in Seq(InputBytes) /\ Len(Tail(ibuf)) = Len(ibuf) - 1
    BY <1>1
  <2>2. Len(ibuf) \in Nat \ {0}
    BY <1>1
  <2>3. QED
    BY <2>1, <2>2, Zenon
<1>5. Append(ask.bytes, b) \o rest = ask.bytes \o ibuf
  BY <1>1, <1>3, <1>4, MoveHead
<1>6. PICK B \in Seq(InputBytes) :
        B = Append(ask.bytes, b) /\ Len(B) = Len(ask.bytes) + 1 /\ Len(ask.bytes) \in Nat
  BY <1>1, AppendCells
<1>7. got \o B \o rest = got \o ask.bytes \o ibuf
  <2>1. ASSUME NEW x \in Seq(InputBytes), NEW y \in Seq(InputBytes), NEW z \in Seq(InputBytes)
        PROVE  (x \o y) \o z = x \o (y \o z)
    BY ConcatThree, SMTT(30)
  <2>2. (got \o B) \o rest = got \o (B \o rest)
    BY <1>1, <2>1, SMTT(30)
  <2>3. (got \o ask.bytes) \o ibuf = got \o (ask.bytes \o ibuf)
    BY <1>1, <2>1, SMTT(30)
  <2>4. QED
    BY <1>5, <1>6, <2>2, <2>3
<1>8. Readable(B, rest, ioff + 1, iread, torn)
  <2>1. Whole(B \o rest, Len(Source) - iread)
    BY <1>1, <1>5, <1>6 DEF Readable
  <2>2. Len(B) <= ioff + 1 /\ BUF_START + 1 <= ioff + 1 + Len(rest)
    BY <1>1, <1>4, <1>6, PortsAssumption DEF Readable
  <2>3. torn \/ InOrder(got \o B \o rest, iread)
    BY <1>1, <1>7 DEF Readable
  <2>4. QED
    BY <2>1, <2>2, <2>3 DEF Readable
<1>9. ReadTypes /\ ioff + 1 \in Nat /\ iread' \in 0..Len(Source) /\ torn' \in BOOLEAN
  BY <1>1 DEF ReadInv, ReadTypes
<1>10. QED
  BY <1>1, <1>2, <1>3, <1>4, <1>6, <1>8, <1>9, NextByte DEF ReadInv

\* The system gives more of the input, whose characters are whole.
LEMMA SourceWhole ==
  ASSUME NEW p \in Seq(InputBytes), NEW n \in 0..Len(Source), NEW k \in Nat,
         n + k <= Len(Source), Whole(p, Len(Source) - n)
  PROVE  Whole(p \o SubSeq(Source, n + 1, n + k), Len(Source) - (n + k))
<1>1. Source \in Seq(InputBytes) /\ Len(Source) \in Nat /\ n \in Nat /\ Len(p) \in Nat
  BY PortsAssumption DEF InputBytes
<1>2. PICK q \in Seq(InputBytes) :
        /\ q = SubSeq(Source, n + 1, n + k) /\ Len(q) = k
        /\ \A j \in 1..k : q[j] = Source[n + j]
  <2>1. n + k - n = k /\ n + k \in Nat
    BY <1>1
  <2>2. /\ SubSeq(Source, n + 1, n + k) \in Seq(InputBytes)
        /\ Len(SubSeq(Source, n + 1, n + k)) = k
        /\ \A j \in 1..k : SubSeq(Source, n + 1, n + k)[j] = Source[n + j]
    <3>1. PICK m \in Nat : m = n + k
      BY <2>1
    <3>2. n <= m /\ m <= Len(Source) /\ m - n = k
      BY <1>1, <3>1
    <3>3. /\ SubSeq(Source, n + 1, m) \in Seq(InputBytes)
          /\ Len(SubSeq(Source, n + 1, m)) = m - n
          /\ \A j \in 1..(m - n) : SubSeq(Source, n + 1, m)[j] = Source[n + j]
      BY <1>1, <3>2, PartCells, SMTT(30)
    <3>4. QED
      BY <3>1, <3>2, <3>3
  <2>3. QED
    BY <2>2, Zenon
<1>3. PICK a : a = p \o q /\ IsJoin(InputBytes, a, p, q)
  BY Joined, Zenon
<1>4. ASSUME NEW i \in 1..Len(a), a[i][2] = 1
      PROVE  /\ a[i][3] \in 1..(BUF_START + 1)
             /\ i - 1 + a[i][3] <= Len(a) + (Len(Source) - (n + k))
  <2>1. Len(a) = Len(p) + k
    BY <1>2, <1>3 DEF IsJoin
  <2>2. CASE i <= Len(p)
    <3>1. i \in 1..Len(p) /\ a[i] = p[i]
      BY <1>1, <1>3, <2>2 DEF IsJoin
    <3>2. p[i][3] \in 1..(BUF_START + 1) /\ i - 1 + p[i][3] <= Len(p) + (Len(Source) - n)
      BY <1>4, <3>1 DEF Whole
    <3>3. QED
      BY <1>1, <2>1, <3>1, <3>2, PortsAssumption
  <2>3. CASE i > Len(p)
    <3>0. i - Len(p) \in 1..k
      BY <1>1, <2>1, <2>3
    <3>1. PICK j \in 1..k : j = i - Len(p)
      BY <3>0
    <3>2. a[i] = Source[n + j] /\ n + j \in 1..Len(Source)
      <4>1. a[i] = q[i - Len(p)]
        BY <1>1, <1>3, <2>3 DEF IsJoin
      <4>2. q[j] = Source[n + j] /\ n + j \in 1..Len(Source)
        BY <1>1, <1>2
      <4>3. QED
        BY <3>1, <4>1, <4>2
    <3>3. /\ Source[n + j][3] \in 1..(BUF_START + 1)
          /\ n + j - 1 + Source[n + j][3] <= Len(Source)
      <4>0. Source[n + j][2] = 1
        BY <1>4, <3>2
      <4>1. /\ Source[n + j][2] \in 1..Source[n + j][3]
            /\ Source[n + j][3] <= BUF_START + 1
            /\ n + j - Source[n + j][2] + Source[n + j][3] <= Len(Source)
        <5>1. PICK x \in 1..Len(Source) : x = n + j
          BY <3>2
        <5>2. /\ Source[x][2] \in 1..Source[x][3] /\ Source[x][3] <= MaxWidth
              /\ x - Source[x][2] + Source[x][3] <= Len(Source)
          BY PortsAssumption
        <5>b. BUF_START \in Nat /\ MaxWidth \in 1..(BUF_START + 1)
          BY PortsAssumption
        <5>w. MaxWidth \in Nat /\ BUF_START + 1 \in Nat /\ MaxWidth <= BUF_START + 1
          BY <5>b
        <5>c. Source[x][3] <= MaxWidth
          BY <5>2
        <5>n. Source[x][3] \in Nat
          <6>1. Source[x] \in InputBytes
            BY <1>1
          <6>2. QED
            BY <6>1 DEF InputBytes
        <5>3. Source[x][3] <= BUF_START + 1
          <6>1. \A l, m, u \in Nat : l <= m /\ m <= u => l <= u
            OBVIOUS
          <6>2. QED
            BY <6>1, <5>c, <5>w, <5>n, Zenon
        <5>4. QED
          BY <5>1, <5>2, <5>3
      <4>2. Source[n + j][3] \in Nat
        <5>1. Source[n + j] \in InputBytes
          BY <1>1, <3>2
        <5>2. QED
          BY <5>1 DEF InputBytes
      <4>3. QED
        <5>1. BUF_START \in Nat
          BY PortsAssumption
        <5>2. QED
          BY <4>0, <4>1, <4>2, <5>1, <1>1
    <3>4. PICK w \in Nat : w = Source[n + j][3]
      <4>1. BUF_START \in Nat
        BY PortsAssumption
      <4>2. QED
        BY <3>3, <4>1
    <3>5. i - 1 + w <= Len(a) + (Len(Source) - (n + k))
      <4>1. n + j - 1 + w <= Len(Source)
        BY <3>3, <3>4
      <4>2. PICK l \in Nat, m \in Nat, s \in Nat :
              l = Len(p) /\ m = n /\ s = Len(Source) /\ Len(a) = l + k
        BY <1>1, <2>1
      <4>3. i = l + j /\ m + j - 1 + w <= s
        BY <3>1, <4>1, <4>2
      <4>4. i - 1 + w <= (l + k) + (s - (m + k))
        BY <4>3
      <4>5. QED
        BY <4>2, <4>4
    <3>6. QED
      BY <3>2, <3>3, <3>4, <3>5
  <2>4. QED
    BY <1>1, <2>2, <2>3
<1>5. QED
  BY <1>2, <1>3, <1>4 DEF Whole

\* What the system gives, behind what is in order.
LEMMA SourceInOrder ==
  ASSUME NEW p \in Seq(InputBytes), NEW n \in 0..Len(Source), NEW k \in Nat,
         n + k <= Len(Source), InOrder(p, n),
         NEW q \in Seq(InputBytes), Len(q) = k, \A j \in 1..k : q[j] = Source[n + j]
  PROVE  InOrder(p \o q, n + k)
<1>1. PICK a : a = p \o q /\ IsJoin(InputBytes, a, p, q)
  BY Joined, Zenon
<1>2. n \in Nat /\ Len(p) = n /\ Len(a) = n + k
  BY <1>1, PortsAssumption DEF IsJoin, InOrder
<1>3. ASSUME NEW i \in 1..(n + k) PROVE a[i] = Source[i]
  <2>1. CASE i <= n
    <3>1. i \in 1..n /\ a[i] = p[i]
      BY <1>1, <1>2, <2>1 DEF IsJoin
    <3>2. QED
      BY <3>1 DEF InOrder
  <2>2. CASE i > n
    <3>1. a[i] = q[i - n]
      BY <1>1, <1>2, <2>2 DEF IsJoin
    <3>2. PICK j \in 1..k : j = i - n
      BY <1>2, <2>2
    <3>3. n + j = i
      BY <1>2, <3>2
    <3>4. QED
      BY <3>1, <3>2, <3>3
  <2>3. QED
    BY <1>2, <2>1, <2>2
<1>4. QED
  BY <1>1, <1>2, <1>3 DEF InOrder

\* A reader within a character has room for its next byte.
LEMMA WithinCharacter ==
  ASSUME ReadInv, ask.bytes # <<>>, ibuf = <<>>
  PROVE  /\ Len(ask.bytes) + 1 <= BUF_START + 1 /\ BUF_START + 1 <= ioff
         /\ iread < Len(Source)
<1>1. /\ ask.bytes \in Seq(InputBytes) /\ ioff \in Nat /\ iread \in 0..Len(Source)
      /\ ask.bytes[1][2] = 1 /\ Len(ask.bytes) < ask.bytes[1][3]
      /\ BUF_START + 1 <= ioff + Len(<<>>)
      /\ Whole(ask.bytes \o <<>>, Len(Source) - iread)
  BY DEF ReadInv, ReadTypes, Readable
<1>2. PICK B \in Seq(InputBytes) : B = ask.bytes
  BY <1>1
<1>3. 1 \in 1..Len(B) /\ B \o <<>> = B /\ Len(B) \in Nat
  <2>1. 1 \in 1..Len(B) /\ Len(B) \in Nat
    BY <1>1, <1>2
  <2>2. QED
    BY <2>1, ConcatNone
<1>4. B[1][3] \in 1..(BUF_START + 1) /\ 1 - 1 + B[1][3] <= Len(B) + (Len(Source) - iread)
  BY <1>1, <1>2, <1>3 DEF Whole
<1>5. BUF_START \in Nat /\ Len(Source) \in Nat /\ iread \in Nat
  BY <1>1, PortsAssumption
<1>6. Len(B) < B[1][3] /\ B[1][3] \in Nat
  BY <1>1, <1>2, <1>4, <1>5, SMTT(30)
<1>7. Len(B) + 1 <= BUF_START + 1 /\ iread < Len(Source)
  BY <1>3, <1>4, <1>5, <1>6
<1>8. QED
  BY <1>1, <1>2, <1>5, <1>7

\* The bytes the system gives, and the first of them.
GivenIs(q, n, k) ==
  /\ q = SubSeq(Source, n + 1, n + k) /\ Len(q) = k
  /\ \A j \in 1..k : q[j] = Source[n + j]
  /\ q # <<>> /\ Head(q) = Source[n + 1] /\ Tail(q) = SubSeq(Source, n + 2, n + k)

\* There are such bytes.
LEMMA GivenBytes ==
  ASSUME NEW n \in Nat, NEW k \in Nat, k > 0, n + k <= Len(Source)
  PROVE  \E q \in Seq(InputBytes) : GivenIs(q, n, k)
<1>1. Source \in Seq(InputBytes) /\ Len(Source) \in Nat
  BY PortsAssumption DEF InputBytes
<1>2. PICK m \in Nat : m = n + k
  OBVIOUS
<1>3. n <= m /\ n + 1 <= m /\ m <= Len(Source) /\ m - n = k /\ m - (n + 1) = k - 1
  BY <1>1, <1>2
<1>4. PICK q \in Seq(InputBytes) :
        /\ q = SubSeq(Source, n + 1, m) /\ Len(q) = k
        /\ \A j \in 1..k : q[j] = Source[n + j]
  <2>1. /\ SubSeq(Source, n + 1, m) \in Seq(InputBytes)
        /\ Len(SubSeq(Source, n + 1, m)) = m - n
        /\ \A j \in 1..(m - n) : SubSeq(Source, n + 1, m)[j] = Source[n + j]
    BY <1>1, <1>3, PartCells
  <2>2. QED
    BY <1>3, <2>1
<1>5. PICK rest \in Seq(InputBytes) :
        /\ rest = SubSeq(Source, n + 2, m) /\ Len(rest) = k - 1
        /\ \A j \in 1..(k - 1) : rest[j] = Source[n + 1 + j]
  <2>1. PICK l \in Nat : l = n + 1
    OBVIOUS
  <2>2. /\ SubSeq(Source, l + 1, m) \in Seq(InputBytes)
        /\ Len(SubSeq(Source, l + 1, m)) = m - l
        /\ \A j \in 1..(m - l) : SubSeq(Source, l + 1, m)[j] = Source[l + j]
    BY <1>1, <1>3, <2>1, PartCells
  <2>3. l + 1 = n + 2 /\ m - l = k - 1
    BY <1>3, <2>1
  <2>4. QED
    BY <2>1, <2>2, <2>3
<1>6. q # <<>> /\ Head(q) = q[1] /\ q[1] = Source[n + 1]
  BY <1>4, SMTT(30)
<1>7. PICK t \in Seq(InputBytes) :
        t = Tail(q) /\ Len(t) = k - 1 /\ \A j \in 1..(k - 1) : t[j] = q[j + 1]
  <2>1. Tail(q) \in Seq(InputBytes) /\ Len(Tail(q)) = k - 1
        /\ \A j \in 1..(k - 1) : Tail(q)[j] = q[j + 1]
    BY <1>4, <1>6
  <2>2. QED
    BY <2>1, Zenon
<1>8. ASSUME NEW j \in 1..Len(t) PROVE t[j] = rest[j]
  <2>1. j \in 1..(k - 1) /\ j + 1 \in 1..k /\ n + (j + 1) = n + 1 + j
    BY <1>7
  <2>2. t[j] = q[j + 1] /\ q[j + 1] = Source[n + (j + 1)] /\ rest[j] = Source[n + 1 + j]
    BY <1>4, <1>5, <1>7, <2>1
  <2>3. QED
    BY <2>1, <2>2
<1>9. t = rest
  BY <1>5, <1>7, <1>8, SameCells
<1>10. QED
  BY <1>2, <1>4, <1>5, <1>6, <1>7, <1>9 DEF GivenIs

\* Joining three sequences of bytes.
LEMMA JoinBytes ==
  \A x, y, z \in Seq(InputBytes) : (x \o y) \o z = x \o (y \o z)
<1>1. SUFFICES ASSUME NEW x \in Seq(InputBytes), NEW y \in Seq(InputBytes),
                      NEW z \in Seq(InputBytes)
               PROVE  (x \o y) \o z = x \o (y \o z)
  OBVIOUS
<1>2. QED
  BY ConcatThree

\* Moving the first byte from one sequence behind another.
LEMMA MoveByte ==
  \A y, z \in Seq(InputBytes) :
    z # <<>> => /\ Head(z) \in InputBytes /\ Tail(z) \in Seq(InputBytes)
                /\ Append(y, Head(z)) \in Seq(InputBytes)
                /\ Len(Append(y, Head(z))) = Len(y) + 1 /\ Len(Tail(z)) \in Nat
                /\ Append(y, Head(z)) \o Tail(z) = y \o z
<1>1. SUFFICES ASSUME NEW y \in Seq(InputBytes), NEW z \in Seq(InputBytes), z # <<>>
               PROVE  /\ Head(z) \in InputBytes /\ Tail(z) \in Seq(InputBytes)
                      /\ Append(y, Head(z)) \in Seq(InputBytes)
                      /\ Len(Append(y, Head(z))) = Len(y) + 1 /\ Len(Tail(z)) \in Nat
                      /\ Append(y, Head(z)) \o Tail(z) = y \o z
  OBVIOUS
<1>2. /\ Head(z) \in InputBytes /\ Tail(z) \in Seq(InputBytes)
      /\ Append(y, Head(z)) \o Tail(z) = y \o z
  <2>1. PICK T : T = InputBytes
    OBVIOUS
  <2>2. y \in Seq(T) /\ z \in Seq(T)
    BY <2>1
  <2>3. /\ Head(z) \in T /\ Tail(z) \in Seq(T)
        /\ Append(y, Head(z)) \o Tail(z) = y \o z
    BY <1>1, <2>2, MoveHead
  <2>4. QED
    BY <2>1, <2>3
<1>3. /\ Append(y, Head(z)) \in Seq(InputBytes) /\ Len(Append(y, Head(z))) = Len(y) + 1
      /\ Len(Tail(z)) \in Nat
  BY <1>2, AppendCells
<1>4. QED
  BY <1>2, <1>3

\* The system gives k bytes more to a reader whose buffer is empty.
LEMMA MoreReadable ==
  ASSUME NEW bytes \in Seq(InputBytes), NEW off \in Nat, NEW n \in 0..Len(Source), NEW broken,
         NEW k \in Nat, k > 0, n + k <= Len(Source), got \in Seq(InputBytes),
         Readable(bytes, <<>>, off, n, broken), Len(bytes) + 1 <= BUF_START + 1,
         NEW q \in Seq(InputBytes), GivenIs(q, n, k)
  PROVE  Readable(Append(bytes, Head(q)), Tail(q), BUF_START + 1, n + k, broken)
<1>0. BUF_START \in Nat /\ n \in Nat
  BY PortsAssumption
<1>a. q # <<>>
  BY Zenon DEF GivenIs
<1>1. PICK B \in Seq(InputBytes), rest \in Seq(InputBytes) :
        /\ B = Append(bytes, Head(q)) /\ rest = Tail(q)
        /\ Len(B) = Len(bytes) + 1 /\ Len(rest) \in Nat
        /\ B \o rest = bytes \o q
  BY <1>a, MoveByte, Zenon
<1>b. (got \o B) \o rest = (got \o bytes) \o q
  <2>1. (got \o B) \o rest = got \o (B \o rest)
    BY JoinBytes, ZenonT(60)
  <2>2. (got \o bytes) \o q = got \o (bytes \o q)
    BY JoinBytes, ZenonT(60)
  <2>3. QED
    BY <1>1, <2>1, <2>2, Zenon
<1>2. Whole(bytes, Len(Source) - n) /\ (broken \/ InOrder(got \o bytes, n))
  <2>1. bytes \o <<>> = bytes /\ (got \o bytes) \o <<>> = got \o bytes
    OBVIOUS
  <2>2. QED
    BY <2>1 DEF Readable
<1>3. Whole(B \o rest, Len(Source) - (n + k))
  BY <1>1, <1>2, SourceWhole DEF GivenIs
<1>4. broken \/ InOrder((got \o B) \o rest, n + k)
  <2>1. PICK g \in Seq(InputBytes) : g = got \o bytes
    BY ConcatCells
  <2>2. InOrder(g, n) => InOrder(g \o q, n + k)
    BY SourceInOrder DEF GivenIs
  <2>3. QED
    BY <1>1, <1>b, <1>2, <2>1, <2>2
<1>5. Len(B) <= BUF_START + 1 /\ BUF_START + 1 <= BUF_START + 1 + Len(rest)
  BY <1>0, <1>1
<1>6. QED
  BY <1>1, <1>3, <1>4, <1>5 DEF Readable

\* The buffer is empty and the system gives some bytes.
LEMMA GivenReads ==
  ASSUME ReadInv, NEW k \in Nat, k > 0, FillBuffer(k), ~garbled, ~garbled'
  PROVE  ReadInv'
<1>1. /\ k \in Given /\ ask # NoAsk /\ ibuf = <<>> /\ torn' = torn /\ iread' = iread + k
      /\ Next1(Source[iread + 1], SubSeq(Source, iread + 2, iread + k), BUF_START + 1)
  BY DEF FillBuffer
<1>2. /\ ask.bytes \in Seq(InputBytes) /\ got \in Seq(InputBytes) /\ iread \in 0..Len(Source)
      /\ ask = [op |-> ask.op, bytes |-> ask.bytes] /\ torn \in BOOLEAN /\ ioff \in Nat
  BY DEF ReadInv, ReadTypes
<1>3. BUF_START \in Nat /\ Len(Source) \in Nat /\ iread \in Nat
  BY <1>2, PortsAssumption
<1>4. iread + k <= Len(Source)
  BY <1>1 DEF Given, Again
<1>5. ask.op # "none"
  <2>1. ask.bytes # <<>> => ask.op # "none"
    BY DEF ReadInv, CharOps
  <2>2. QED
    BY <1>1, <1>2, <2>1 DEF NoAsk
<1>6. PICK n \in Nat, m \in Nat : n = iread /\ m = n + k
  BY <1>3
<1>7. PICK q \in Seq(InputBytes) : GivenIs(q, n, k)
  BY <1>4, <1>6, GivenBytes
<1>8. q # <<>> /\ Head(q) = Source[n + 1] /\ Tail(q) = SubSeq(Source, n + 2, n + k)
  BY <1>7, Zenon DEF GivenIs
<1>9. PICK b \in InputBytes, rest \in Seq(InputBytes) : b = Head(q) /\ rest = Tail(q)
  BY <1>2, <1>8, MoveByte, Zenon
<1>10. Next1(b, rest, BUF_START + 1)
  BY <1>1, <1>6, <1>8, <1>9
<1>11. Len(ask.bytes) + 1 <= BUF_START + 1
  <2>1. CASE ask.bytes = <<>>
    BY <1>3, <2>1
  <2>2. CASE ask.bytes # <<>>
    BY <1>1, <2>2, WithinCharacter
  <2>3. QED
    BY <2>1, <2>2
<1>12. Readable(ask.bytes, <<>>, ioff, n, torn)
  BY <1>1, <1>6 DEF ReadInv
<1>13. Readable(Append(ask.bytes, b), rest, BUF_START + 1, m, torn)
  <2>1. PICK B \in Seq(InputBytes) : B = ask.bytes
    BY <1>2
  <2>2. n \in 0..Len(Source) /\ n + k <= Len(Source)
    BY <1>2, <1>4, <1>6
  <2>3. Readable(Append(B, Head(q)), Tail(q), BUF_START + 1, n + k, torn)
    BY <1>2, <1>7, <1>11, <1>12, <2>1, <2>2, MoreReadable
  <2>4. QED
    BY <1>6, <1>9, <2>1, <2>3
<1>14. iread' = m /\ iread' \in 0..Len(Source)
  BY <1>1, <1>3, <1>4, <1>6
<1>15. ReadTypes /\ BUF_START + 1 \in Nat /\ torn' \in BOOLEAN
  BY <1>1, <1>2, <1>3, SMTT(30) DEF ReadInv
<1>16. Readable(Append(ask.bytes, b), rest, BUF_START + 1, iread', torn')
  BY <1>1, <1>13, <1>14
<1>17. QED
  BY <1>5, <1>10, <1>14, <1>15, <1>16, NextByte DEF ReadInv

\* The buffer is empty and the system gives nothing.
LEMMA NothingReads ==
  ASSUME ReadInv, NEW k \in {0, Again}, FillBuffer(k), ~garbled, ~garbled'
  PROVE  ReadInv'
<1>0. k \in {0, -1} /\ ~(k > 0)
  BY DEF Again
<1>1. /\ k \in Given /\ ask # NoAsk /\ ibuf = <<>> /\ iread' = iread
      /\ ask.bytes = <<>> => /\ ask' = NoAsk /\ ibuf' = ibuf /\ got' = got /\ torn' = torn
                             /\ ioff' = IF k = 0 THEN BUF_START ELSE ioff
      /\ ask.bytes # <<>> => /\ Next1(Unknown(ask.bytes[1][1]), <<>>,
                                      IF k = 0 THEN BUF_START ELSE ioff)
                             /\ torn' = TRUE
  BY <1>0 DEF FillBuffer
<1>2. /\ ask.bytes \in Seq(InputBytes) /\ got \in Seq(InputBytes) /\ iread \in 0..Len(Source)
      /\ ask = [op |-> ask.op, bytes |-> ask.bytes] /\ torn \in BOOLEAN /\ ioff \in Nat
      /\ BUF_START \in Nat
  BY PortsAssumption DEF ReadInv, ReadTypes
<1>3. CASE ask.bytes = <<>>
  <2>1. ask' = NoAsk /\ ibuf' = <<>> /\ got' = got /\ torn' = torn /\ iread' = iread
    BY <1>1, <1>3
  <2>2. ioff' \in Nat
    BY <1>1, <1>2, <1>3
  <2>3. ask'.op = "none" /\ ask'.bytes = <<>> /\ ask' = [op |-> "none", bytes |-> <<>>]
    BY <2>1 DEF NoAsk
  <2>4. ReadTypes'
    BY <1>2, <2>1, <2>2, <2>3 DEF ReadTypes
  <2>5. Readable(<<>>, <<>>, ioff, iread, torn)
    BY <1>1, <1>3 DEF ReadInv
  <2>6. Readable(ask.bytes, ibuf, ioff, iread, torn)'
    <3>1. Len(<<>>) <= ioff'
      BY <2>2
    <3>2. QED
      BY <2>1, <2>3, <2>5, <3>1 DEF Readable, InOrder, Whole
  <2>7. QED
    BY <2>3, <2>4, <2>6 DEF ReadInv
<1>4. CASE ask.bytes # <<>>
  <2>1. /\ Len(ask.bytes) + 1 <= BUF_START + 1 /\ BUF_START + 1 <= ioff
        /\ iread < Len(Source)
    BY <1>1, <1>4, WithinCharacter
  <2>2. k # 0
    <3>1. iread # Len(Source) => k # 0
      BY <1>1 DEF Given, Again
    <3>2. QED
      BY <1>2, <2>1, <3>1
  <2>3. PICK b \in InputBytes : b = Unknown(ask.bytes[1][1]) /\ b[2] = 0
    <3>1. ask.bytes[1] \in InputBytes
      BY <1>2, <1>4
    <3>2. PICK c \in Nat : c = ask.bytes[1][1]
      BY <3>1 DEF InputBytes
    <3>3. <<c, 0, 0>> \in InputBytes /\ <<c, 0, 0>>[2] = 0
      BY DEF InputBytes
    <3>4. QED
      BY <3>2, <3>3 DEF Unknown
  <2>4. Next1(b, <<>>, ioff) /\ torn' = TRUE
    BY <1>1, <1>4, <2>2, <2>3
  <2>5. PICK B \in Seq(InputBytes) :
          /\ B = Append(ask.bytes, b) /\ Len(B) = Len(ask.bytes) + 1 /\ Len(ask.bytes) \in Nat
          /\ \A i \in 1..Len(ask.bytes) : B[i] = ask.bytes[i]
          /\ B[Len(ask.bytes) + 1] = b
    <3>1. ask.bytes \in Seq(InputBytes) /\ Len(ask.bytes) \in Nat
      BY <1>2
    <3>2. /\ Append(ask.bytes, b) \in Seq(InputBytes)
          /\ Len(Append(ask.bytes, b)) = Len(ask.bytes) + 1
          /\ \A i \in 1..Len(ask.bytes) : Append(ask.bytes, b)[i] = ask.bytes[i]
          /\ Append(ask.bytes, b)[Len(ask.bytes) + 1] = b
      BY <3>1, AppendCells, SMTT(30)
    <3>3. QED
      BY <3>1, <3>2, ZenonT(30)
  <2>6. Whole(B \o <<>>, Len(Source) - iread)
    <3>1. Whole(ask.bytes, Len(Source) - iread)
      BY <1>1, <1>2, ConcatNone DEF ReadInv, Readable
    <3>2. Len(Source) \in Nat /\ iread \in Nat
      BY <1>2, PortsAssumption
    <3>3. ASSUME NEW i \in 1..Len(B), B[i][2] = 1
          PROVE  B[i][3] \in 1..(BUF_START + 1) /\ i - 1 + B[i][3] <= Len(B) + (Len(Source) - iread)
      <4>1. i \in 1..Len(ask.bytes) /\ B[i] = ask.bytes[i]
        BY <2>3, <2>5, <3>3
      <4>2. /\ B[i][3] \in 1..(BUF_START + 1)
            /\ i - 1 + B[i][3] <= Len(ask.bytes) + (Len(Source) - iread)
        BY <3>1, <3>3, <4>1 DEF Whole
      <4>3. PICK l \in Nat, w \in Nat : l = Len(ask.bytes) /\ w = B[i][3]
        <5>1. \A x \in 1..(BUF_START + 1) : x \in Nat
          BY <1>2
        <5>2. QED
          BY <2>5, <4>2, <5>1
      <4>4. i - 1 + w <= l + 1 + (Len(Source) - iread)
        BY <3>2, <4>2, <4>3
      <4>5. QED
        BY <2>5, <4>2, <4>3, <4>4
    <3>4. B \o <<>> = B
      BY ConcatNone
    <3>5. QED
      BY <3>3, <3>4 DEF Whole
  <2>7. Readable(B, <<>>, ioff, iread, TRUE)
    <3>1. Len(B) <= ioff /\ BUF_START + 1 <= ioff + Len(<<>>)
      BY <1>2, <2>1, <2>5
    <3>2. QED
      BY <2>6, <3>1 DEF Readable
  <2>8. ask.op # "none"
    BY <1>4 DEF ReadInv, CharOps
  <2>9. ReadTypes /\ iread' \in 0..Len(Source) /\ torn' \in BOOLEAN /\ <<>> \in Seq(InputBytes)
        /\ Readable(Append(ask.bytes, b), <<>>, ioff, iread', torn')
    <3>1. ReadTypes
      BY DEF ReadInv
    <3>2. iread' \in 0..Len(Source) /\ torn' \in BOOLEAN /\ <<>> \in Seq(InputBytes)
      BY <1>1, <1>2, <2>4
    <3>3. Readable(Append(ask.bytes, b), <<>>, ioff, iread', torn')
      BY <1>1, <2>4, <2>5, <2>7, Zenon
    <3>4. QED
      BY <3>1, <3>2, <3>3
  <2>10. QED
    BY <1>2, <2>4, <2>8, <2>9, NextByte DEF ReadInv
<1>5. QED
  BY <1>3, <1>4

\* A reader begins.
LEMMA AskReads ==
  ASSUME ReadInv, NEW op \in {"read-u8", "peek-u8"} \cup CharOps, Ask(op)
  PROVE  ReadInv'
<1>1. /\ ask = NoAsk /\ ask' = [op |-> op, bytes |-> <<>>]
      /\ ibuf' = ibuf /\ ioff' = ioff /\ iread' = iread /\ got' = got /\ torn' = torn
  BY DEF Ask
<1>2. ask.bytes = <<>> /\ ask'.bytes = <<>> /\ ask'.op = op
  BY <1>1 DEF NoAsk
<1>3. ReadTypes'
  BY <1>1, <1>2 DEF ReadInv, ReadTypes
<1>4. Readable(ask.bytes, ibuf, ioff, iread, torn)'
  BY <1>1, <1>2 DEF ReadInv, Readable, Whole, InOrder
<1>5. QED
  BY <1>2, <1>3, <1>4 DEF ReadInv

\* What the output port does, and a step that changes nothing.
LEMMA OthersRead ==
  ASSUME ReadInv, UNCHANGED invars
  PROVE  ReadInv'
BY DEF ReadInv, ReadTypes, Readable, Whole, InOrder, invars

\* A port that has been opened.
LEMMA InitReads ==
  ASSUME PortInit
  PROVE  ReadInv
<1>1. ibuf = <<>> /\ ioff = PortSize /\ iread = 0 /\ ask = NoAsk /\ got = <<>> /\ torn = FALSE
  BY DEF PortInit, Opened
<1>2. PortSize \in Nat /\ Len(Source) \in Nat
  BY PortsAssumption
<1>3. ask.op = "none" /\ ask.bytes = <<>> /\ ask = [op |-> "none", bytes |-> <<>>]
  BY <1>1 DEF NoAsk
<1>4. ReadTypes
  <2>1. <<>> \in Seq(InputBytes) /\ 0 \in 0..Len(Source)
    BY <1>2
  <2>2. QED
    BY <1>1, <1>2, <1>3, <2>1 DEF ReadTypes
<1>5. <<>> \o <<>> = <<>> /\ Len(<<>>) = 0
  OBVIOUS
<1>6. Whole(<<>>, Len(Source) - 0) /\ InOrder(<<>>, 0)
  BY <1>5 DEF Whole, InOrder
<1>7. Readable(ask.bytes, ibuf, ioff, iread, torn)
  BY <1>1, <1>2, <1>3, <1>5, <1>6 DEF Readable
<1>8. QED
  BY <1>3, <1>4, <1>7 DEF ReadInv

\* Every step keeps the invariant of the input port, while nothing is garbled.
LEMMA StepReads ==
  ASSUME ReadInv, [PortNext]_portvars, ~garbled, ~garbled'
  PROVE  ReadInv'
<1>1. CASE \E op \in {"read-char", "peek-char", "read-u8", "peek-u8"} : Ask(op)
  BY <1>1, AskReads DEF CharOps
<1>2. ASSUME NEW k \in -1..PortSize, FillBuffer(k) PROVE ReadInv'
  <2>1. (k \in Nat /\ k > 0) \/ k \in {0, Again}
    BY PortsAssumption DEF Again
  <2>2. QED
    BY <1>2, <2>1, GivenReads, NothingReads
<1>3. CASE TakeByte
  BY <1>3, TakeByteReads
<1>4. CASE UNCHANGED invars
  BY <1>4, OthersRead
<1>5. ASSUME NEW t \in Users,
             \/ \E n \in 1..MaxString : Write(t, n, FALSE)
             \/ \E n \in 1..MaxWidth : Write(t, n, TRUE)
             \/ Try(t)
      PROVE  UNCHANGED invars
  BY <1>5 DEF Write, Try, invars
<1>6. ASSUME NEW k \in -1..PortSize,
             WriteFirst(k) \/ FillAndFlush(k) \/ FlushOutput(k) \/ ClosePort(k)
      PROVE  UNCHANGED invars
  BY <1>6, Zenon DEF WriteFirst, FillAndFlush, FlushOutput, ClosePort
<1>7. CASE CopyRest \/ UNCHANGED portvars
  <2>1. UNCHANGED invars
    BY <1>7 DEF CopyRest, portvars
  <2>2. QED
    BY <2>1, OthersRead
<1>8. QED
  BY <1>1, <1>2, <1>3, <1>4, <1>5, <1>6, <1>7 DEF PortNext

\* A port that has been garbled stays so.
LEMMA GarbledStays ==
  ASSUME garbled, [PortNext]_portvars
  PROVE  garbled'
<1>1. ASSUME NEW b, NEW rest, NEW off, Next1(b, rest, off) PROVE garbled'
  BY <1>1 DEF Next1, Answer
<1>2. CASE \E op \in {"read-char", "peek-char", "read-u8", "peek-u8"} : Ask(op)
  BY <1>2 DEF Ask
<1>3. ASSUME NEW k \in -1..PortSize, FillBuffer(k) PROVE garbled'
  BY <1>1, <1>3 DEF FillBuffer
<1>4. CASE TakeByte
  BY <1>1, <1>4 DEF TakeByte
<1>5. CASE UNCHANGED invars
  BY <1>5 DEF invars
<1>6. ASSUME NEW t \in Users,
             \/ \E n \in 1..MaxString : Write(t, n, FALSE)
             \/ \E n \in 1..MaxWidth : Write(t, n, TRUE)
             \/ Try(t)
      PROVE  UNCHANGED invars
  BY <1>6 DEF Write, Try, invars
<1>7. ASSUME NEW k \in -1..PortSize,
             WriteFirst(k) \/ FillAndFlush(k) \/ FlushOutput(k) \/ ClosePort(k)
      PROVE  UNCHANGED invars
  BY <1>7, Zenon DEF WriteFirst, FillAndFlush, FlushOutput, ClosePort
<1>8. CASE CopyRest \/ UNCHANGED portvars
  BY <1>8 DEF CopyRest, portvars, invars
<1>9. QED
  BY <1>2, <1>3, <1>4, <1>5, <1>6, <1>7, <1>8 DEF PortNext

\* The invariant says that the input comes in order and that there is room.
LEMMA ReadInvReads ==
  ASSUME ReadInv
  PROVE  PortReads
<1>1. /\ ask.bytes \in Seq(InputBytes) /\ got \in Seq(InputBytes) /\ ibuf \in Seq(InputBytes)
      /\ ioff \in Nat /\ iread \in 0..Len(Source)
      /\ torn \/ InOrder(got \o ask.bytes \o ibuf, iread)
  BY DEF ReadInv, ReadTypes, Readable
<1>2. ASSUME ~torn
      PROVE  IsPrefix(got \o ask.bytes \o ibuf, Source) /\ Len(got \o ask.bytes \o ibuf) = iread
  <2>1. PICK s \in Seq(InputBytes) : s = got \o ask.bytes \o ibuf
    <3>1. PICK g \in Seq(InputBytes) : g = got \o ask.bytes
      BY <1>1, ConcatCells
    <3>2. g \o ibuf \in Seq(InputBytes)
      BY <1>1, ConcatCells
    <3>3. QED
      BY <3>1, <3>2
  <2>2. Len(s) = iread /\ \A i \in 1..iread : s[i] = Source[i]
    BY <1>1, <1>2, <2>1 DEF InOrder
  <2>3. Source \in Seq(InputBytes) /\ Len(Source) \in Nat
    BY PortsAssumption DEF InputBytes
  <2>4. PICK u \in Seq(InputBytes) :
          u = SubSeq(Source, 1, Len(s)) /\ Len(u) = Len(s) /\ \A j \in 1..Len(s) : u[j] = Source[j]
    <3>1. Len(s) \in 0..Len(Source)
      BY <1>1, <2>2
    <3>2. QED
      BY <2>3, <3>1, PrefixCells
  <2>5. s = u
    BY <2>2, <2>4, SameCells
  <2>6. Len(s) <= Len(Source)
    BY <1>1, <2>2, <2>3
  <2>7. QED
    BY <2>1, <2>2, <2>4, <2>5, <2>6 DEF IsPrefix
<1>3. QED
  BY <1>1, <1>2 DEF PortReads, ReadInOrder, PushBackFits

\* What read-char, peek-char, read-u8 and peek-u8 of several threads return is
\* the input, in order, each byte once, as long as no read of the system was
\* refused within a character and no peek-char met a byte that begins none;
\* and what peek pushes back finds room before the offset of the buffer.  For
\* any buffer, any input and any number of threads.
THEOREM ReadsAlwaysInOrder == PortSpec => []PortReads
<1>1. PortInit => (garbled \/ ReadInv)
  BY InitReads
<1>2. (garbled \/ ReadInv) /\ [PortNext]_portvars => (garbled \/ ReadInv)'
  BY StepReads, GarbledStays
<1>3. garbled \/ ReadInv => PortReads
  BY ReadInvReads DEF PortReads, ReadInOrder, PushBackFits
<1>4. QED
  BY <1>1, <1>2, <1>3, PTL DEF PortSpec

-----------------------------------------------------------------------------
(* Writing.                                                                *)

\* A part of what t wrote.
LEMMA RunPart ==
  ASSUME NEW t \in Users, NEW n \in Nat, NEW s \in Seq(Written), Run(t, n, s),
         NEW l \in Nat, NEW m \in Nat, l <= m, m <= Len(s)
  PROVE  /\ SubSeq(s, l + 1, m) \in Seq(Written) /\ Len(SubSeq(s, l + 1, m)) = m - l
         /\ Run(t, n + l, SubSeq(s, l + 1, m))
<1>1. PICK d \in Seq(Written) :
        /\ d = SubSeq(s, l + 1, m) /\ Len(d) = m - l
        /\ \A j \in 1..(m - l) : d[j] = s[l + j]
  <2>1. /\ SubSeq(s, l + 1, m) \in Seq(Written) /\ Len(SubSeq(s, l + 1, m)) = m - l
        /\ \A j \in 1..(m - l) : SubSeq(s, l + 1, m)[j] = s[l + j]
    BY PartCells
  <2>2. QED
    BY <2>1, Zenon
<1>2. ASSUME NEW k \in 1..Len(d) PROVE d[k] = <<t, n + l + k>>
  <2>1. PICK j \in Nat : j = l + k /\ j \in 1..Len(s) /\ k \in 1..(m - l)
    BY <1>1
  <2>2. d[k] = s[j] /\ s[j] = <<t, n + j>>
    BY <1>1, <2>1 DEF Run
  <2>3. n + j = n + l + k
    BY <2>1
  <2>4. QED
    BY <2>2, <2>3
<1>3. QED
  BY <1>1, <1>2 DEF Run

\* More bytes of t are stored.
LEMMA Feed ==
  ASSUME NEW s \in Seq(Written), NEW d \in Seq(Written), NEW st \in [Users -> Nat], NEW g,
         StreamHas(s, st, g), NEW t \in Users, Run(t, st[t], d),
         \A x \in g : x[1] = t => x[2] <= st[t]
  PROVE  StreamHas(s \o d, [st EXCEPT ![t] = @ + Len(d)], g)
<1>1. PICK a \in Seq(Written) : a = s \o d /\ IsJoin(Written, a, s, d)
  <2>1. IsJoin(Written, s \o d, s, d)
    BY Joined, Zenon
  <2>2. s \o d \in Seq(Written)
    BY <2>1 DEF IsJoin
  <2>3. QED
    BY <2>1, <2>2
<1>2. PICK n \in Nat, m \in Nat : n = Len(s) /\ m = Len(d)
  OBVIOUS
<1>3. Len(a) = n + m /\ \A i \in 1..(n + m) : a[i] = IF i <= n THEN s[i] ELSE d[i - n]
  BY <1>1, <1>2 DEF IsJoin
<1>4. PICK u \in [Users -> Nat] : u = [st EXCEPT ![t] = @ + m]
  <2>1. st[t] + m \in Nat
    OBVIOUS
  <2>2. [st EXCEPT ![t] = @ + m] \in [Users -> Nat]
    BY <2>1
  <2>3. QED
    BY <2>2
<1>5. u[t] = st[t] + m /\ \A v \in Users : v # t => u[v] = st[v]
  BY <1>4
<1>6. st[t] \in Nat /\ \A v \in Users : st[v] \in Nat /\ u[v] \in Nat /\ st[v] <= u[v]
  <2>1. st[t] \in Nat /\ \A v \in Users : st[v] \in Nat /\ u[v] \in Nat
    OBVIOUS
  <2>2. QED
    BY <1>5, <2>1
<1>7. ASSUME NEW i \in 1..n PROVE a[i] = s[i] /\ i \in 1..Len(s)
  BY <1>2, <1>3
<1>8. ASSUME NEW k \in 1..m
      PROVE  a[n + k] = <<t, st[t] + k>> /\ n + k \in 1..(n + m)
  <2>0. n + k \in 1..(n + m) /\ ~(n + k <= n) /\ n + k - n = k
    OBVIOUS
  <2>1. PICK i \in 1..(n + m) : i = n + k /\ ~(i <= n) /\ i - n = k
    BY <2>0
  <2>2. a[i] = d[k]
    BY <1>3, <2>1
  <2>3. d[k] = <<t, st[t] + k>>
    BY <1>2 DEF Run
  <2>4. QED
    BY <2>1, <2>2, <2>3
<1>9. ASSUME NEW i \in 1..(n + m)
      PROVE  \/ i \in 1..n
             \/ \E k \in 1..m : i = n + k
  <2>1. i <= n \/ i - n \in 1..m
    BY <1>2
  <2>2. n + (i - n) = i
    BY <1>2
  <2>3. CASE i <= n
    BY <2>3
  <2>4. CASE i - n \in 1..m
    BY <2>2, <2>4
  <2>5. QED
    BY <2>1, <2>3, <2>4
<1>10. \A i \in 1..n : s[i] \in Written /\ s[i][1] \in Users /\ s[i][2] \in Nat
  BY <1>2, SMTT(30) DEF Written
<1>11. ASSUME NEW i \in 1..(n + m) PROVE a[i][2] \in 1..u[a[i][1]] /\ a[i] \notin g
  <2>1. CASE i \in 1..n
    <3>1. s[i][2] \in 1..st[s[i][1]] /\ s[i] \notin g
      BY <1>7, <2>1 DEF StreamHas
    <3>2. st[s[i][1]] \in Nat /\ u[s[i][1]] \in Nat /\ st[s[i][1]] <= u[s[i][1]]
      BY <1>6, <1>10, <2>1
    <3>3. s[i][2] \in 1..u[s[i][1]]
      BY <3>1, <3>2
    <3>4. QED
      BY <1>7, <2>1, <3>1, <3>3
  <2>2. ASSUME NEW k \in 1..m, i = n + k PROVE a[i][2] \in 1..u[a[i][1]] /\ a[i] \notin g
    <3>1. a[i] = <<t, st[t] + k>>
      BY <1>8, <2>2
    <3>2. a[i][1] = t /\ a[i][2] = st[t] + k
      BY <3>1
    <3>3. a[i][2] \in 1..u[t] /\ ~(a[i][2] <= st[t])
      BY <1>5, <1>6, <3>2
    <3>4. QED
      BY <3>2, <3>3
  <2>3. QED
    BY <1>9, <2>1, <2>2
<1>12. ASSUME NEW v \in Users, NEW k \in 1..u[v]
       PROVE  <<v, k>> \in g \/ \E i \in 1..(n + m) : a[i] = <<v, k>>
  <2>1. CASE k \in 1..st[v]
    <3>1. <<v, k>> \in g \/ \E i \in 1..n : s[i] = <<v, k>>
      BY <1>2, <2>1 DEF StreamHas
    <3>2. \A i \in 1..n : i \in 1..(n + m)
      OBVIOUS
    <3>3. QED
      BY <1>7, <3>1, <3>2
  <2>2. CASE k \notin 1..st[v]
    <3>1. v = t
      BY <1>5, <2>2
    <3>2. k > st[t] /\ k <= st[t] + m /\ k \in Nat
      BY <1>5, <1>6, <2>2, <3>1
    <3>3. PICK j \in 1..m : j = k - st[t]
      BY <1>6, <3>2
    <3>4. st[t] + j = k
      BY <1>6, <3>2, <3>3
    <3>5. a[n + j] = <<t, k>> /\ n + j \in 1..(n + m)
      BY <1>8, <3>4
    <3>6. QED
      BY <3>1, <3>5
  <2>3. QED
    BY <2>1, <2>2
<1>13. ASSUME NEW i \in 1..(n + m), NEW j \in 1..(n + m), i < j, a[i][1] = a[j][1]
       PROVE  a[i][2] < a[j][2]
  <2>1. CASE j \in 1..n
    <3>1. i \in 1..n
      BY <1>13, <2>1
    <3>2. s[i][1] = s[j][1] => s[i][2] < s[j][2]
      BY <1>2, <1>13, <2>1, <3>1 DEF StreamHas
    <3>3. a[i] = s[i] /\ a[j] = s[j]
      BY <1>7, <2>1, <3>1
    <3>4. QED
      BY <1>13, <3>2, <3>3
  <2>2. ASSUME NEW k \in 1..m, j = n + k PROVE a[i][2] < a[j][2]
    <3>1. a[j][1] = t /\ a[j][2] = st[t] + k
      <4>1. a[j] = <<t, st[t] + k>>
        BY <1>8, <2>2
      <4>2. QED
        BY <4>1
    <3>2. CASE i \in 1..n
      <4>1. a[i] = s[i] /\ s[i][2] \in 1..st[s[i][1]]
        BY <1>7, <3>2 DEF StreamHas
      <4>2. s[i][1] = t
        BY <1>13, <3>1, <4>1
      <4>3. QED
        BY <1>6, <3>1, <4>1, <4>2
    <3>3. ASSUME NEW l \in 1..m, i = n + l PROVE a[i][2] < a[j][2]
      <4>1. a[i] = <<t, st[t] + l>>
        BY <1>8, <3>3
      <4>2. a[i][2] = st[t] + l
        BY <4>1
      <4>3. l < k
        BY <1>13, <2>2, <3>3
      <4>4. QED
        BY <1>6, <3>1, <4>2, <4>3
    <3>4. QED
      BY <1>9, <3>2, <3>3
  <2>3. QED
    BY <1>9, <2>1, <2>2
<1>14. StreamHas(a, u, g)
  BY <1>3, <1>11, <1>12, <1>13 DEF StreamHas
<1>15. QED
  BY <1>1, <1>2, <1>4, <1>14

\* The next bytes of t are left out.
LEMMA Skip ==
  ASSUME NEW s \in Seq(Written), NEW d \in Seq(Written), NEW st \in [Users -> Nat], NEW g,
         StreamHas(s, st, g), NEW t \in Users, Run(t, st[t], d)
  PROVE  StreamHas(s, [st EXCEPT ![t] = @ + Len(d)], g \cup Range(d))
<1>2. PICK m \in Nat : m = Len(d)
  OBVIOUS
<1>3. PICK h : h = g \cup Range(d)
  OBVIOUS
<1>4. PICK u \in [Users -> Nat] : u = [st EXCEPT ![t] = @ + m]
  <2>1. st[t] + m \in Nat
    OBVIOUS
  <2>2. [st EXCEPT ![t] = @ + m] \in [Users -> Nat]
    BY <2>1
  <2>3. QED
    BY <2>2
<1>5. u[t] = st[t] + m /\ \A v \in Users : v # t => u[v] = st[v]
  BY <1>4
<1>6. st[t] \in Nat /\ \A v \in Users : st[v] \in Nat /\ u[v] \in Nat /\ st[v] <= u[v]
  <2>1. st[t] \in Nat /\ \A v \in Users : st[v] \in Nat /\ u[v] \in Nat
    OBVIOUS
  <2>2. QED
    BY <1>5, <2>1
<1>7. \A k \in 1..m : <<t, st[t] + k>> \in h
  <2>1. SUFFICES ASSUME NEW k \in 1..m PROVE <<t, st[t] + k>> \in Range(d)
    BY <1>3
  <2>2. d[k] = <<t, st[t] + k>> /\ k \in DOMAIN d
    BY <1>2 DEF Run
  <2>3. QED
    BY <2>2, Zenon DEF Range
<1>8. ASSUME NEW x, x \in h PROVE x \in g \/ \E k \in 1..m : x = <<t, st[t] + k>>
  <2>1. CASE x \in Range(d)
    <3>1. PICK k \in DOMAIN d : x = d[k]
      BY <2>1, Zenon DEF Range
    <3>2. k \in 1..m /\ d[k] = <<t, st[t] + k>>
      <4>1. DOMAIN d = 1..Len(d)
        OBVIOUS
      <4>2. QED
        BY <1>2, <4>1 DEF Run
    <3>3. QED
      BY <3>1, <3>2
  <2>2. QED
    BY <1>3, <1>8, <2>1
<1>10. \A i \in 1..Len(s) : s[i][1] \in Users /\ s[i][2] \in Nat
  BY DEF Written
<1>11. ASSUME NEW i \in 1..Len(s) PROVE s[i][2] \in 1..u[s[i][1]] /\ s[i] \notin h
  <2>1. s[i][2] \in 1..st[s[i][1]] /\ s[i] \notin g
    BY DEF StreamHas
  <2>2. st[s[i][1]] \in Nat /\ u[s[i][1]] \in Nat /\ st[s[i][1]] <= u[s[i][1]]
    BY <1>6, <1>10
  <2>3. ASSUME NEW k \in 1..m, s[i] = <<t, st[t] + k>> PROVE FALSE
    <3>1. s[i][1] = t /\ s[i][2] = st[t] + k
      BY <2>3
    <3>2. st[t] + k <= st[t]
      BY <1>6, <2>1, <3>1
    <3>3. QED
      BY <1>6, <3>2
  <2>4. QED
    BY <1>8, <2>1, <2>2, <2>3
<1>12. ASSUME NEW v \in Users, NEW k \in 1..u[v]
       PROVE  <<v, k>> \in h \/ \E i \in 1..Len(s) : s[i] = <<v, k>>
  <2>1. CASE k \in 1..st[v]
    BY <1>3, <2>1 DEF StreamHas
  <2>2. CASE k \notin 1..st[v]
    <3>1. v = t
      BY <1>5, <2>2
    <3>2. k > st[t] /\ k <= st[t] + m /\ k \in Nat
      BY <1>5, <1>6, <2>2, <3>1
    <3>3. PICK j \in 1..m : j = k - st[t]
      BY <1>6, <3>2
    <3>4. st[t] + j = k
      BY <1>6, <3>2, <3>3
    <3>5. <<t, k>> \in h
      BY <1>7, <3>4
    <3>6. QED
      BY <3>1, <3>5
  <2>3. QED
    BY <2>1, <2>2
<1>13. StreamHas(s, u, h)
  BY <1>11, <1>12 DEF StreamHas
<1>14. QED
  BY <1>2, <1>3, <1>4, <1>13

\* The last bytes of the stream are dropped.
LEMMA Drop ==
  ASSUME NEW s \in Seq(Written), NEW d \in Seq(Written), NEW st \in [Users -> Nat], NEW g,
         StreamHas(s \o d, st, g)
  PROVE  StreamHas(s, st, g \cup Range(d))
<1>1. PICK a \in Seq(Written) : a = s \o d /\ IsJoin(Written, a, s, d)
  <2>1. IsJoin(Written, s \o d, s, d)
    BY Joined, Zenon
  <2>2. s \o d \in Seq(Written)
    BY <2>1 DEF IsJoin
  <2>3. QED
    BY <2>1, <2>2
<1>2. PICK n \in Nat, m \in Nat : n = Len(s) /\ m = Len(d)
  OBVIOUS
<1>3. Len(a) = n + m /\ \A i \in 1..(n + m) : a[i] = IF i <= n THEN s[i] ELSE d[i - n]
  BY <1>1, <1>2 DEF IsJoin
<1>4. /\ \A i \in 1..(n + m) : a[i][2] \in 1..st[a[i][1]] /\ a[i] \notin g
      /\ \A t \in Users : \A k \in 1..st[t] :
           <<t, k>> \in g \/ \E i \in 1..(n + m) : a[i] = <<t, k>>
      /\ \A i, j \in 1..(n + m) : i < j /\ a[i][1] = a[j][1] => a[i][2] < a[j][2]
  BY <1>1, <1>3 DEF StreamHas
<1>5. ASSUME NEW i \in 1..n PROVE a[i] = s[i] /\ i \in 1..(n + m) /\ s[i][2] \in Nat
  <2>1. i \in 1..(n + m) /\ i <= n /\ i \in 1..Len(s)
    BY <1>2
  <2>2. s[i] \in Written
    BY <2>1
  <2>3. s[i][2] \in Nat
    BY <2>2 DEF Written
  <2>4. QED
    BY <1>3, <2>1, <2>3
<1>6. PICK h : h = g \cup Range(d)
  OBVIOUS
<1>7. ASSUME NEW k \in 1..m
      PROVE  n + k \in 1..(n + m) /\ a[n + k] = d[k] /\ d[k] \in h
  <2>1. n + k \in 1..(n + m) /\ ~(n + k <= n) /\ n + k - n = k
    OBVIOUS
  <2>2. a[n + k] = d[k]
    BY <1>3, <2>1
  <2>3. k \in DOMAIN d
    BY <1>2
  <2>4. d[k] \in Range(d)
    BY <2>3, Zenon DEF Range
  <2>5. QED
    BY <1>6, <2>1, <2>2, <2>4
<1>8. ASSUME NEW i \in 1..n PROVE s[i] \notin h
  <2>1. s[i] \notin g
    BY <1>4, <1>5
  <2>2. ASSUME NEW k \in DOMAIN d, s[i] = d[k] PROVE FALSE
    <3>1. k \in 1..m
      BY <1>2
    <3>2. a[n + k] = a[i] /\ i < n + k /\ n + k \in 1..(n + m) /\ i \in 1..(n + m)
      BY <1>5, <1>7, <2>2, <3>1
    <3>3. a[i][2] < a[n + k][2]
      BY <1>4, <3>2
    <3>4. a[i][2] < a[i][2] /\ a[i][2] \in Nat
      BY <1>5, <3>2, <3>3
    <3>5. QED
      BY <3>4
  <2>3. s[i] \notin Range(d)
    BY <2>2, Zenon DEF Range
  <2>4. QED
    BY <1>6, <2>1, <2>3
<1>9. ASSUME NEW t \in Users, NEW k \in 1..st[t]
      PROVE  <<t, k>> \in h \/ \E i \in 1..n : s[i] = <<t, k>>
  <2>1. CASE <<t, k>> \in g
    BY <1>6, <2>1
  <2>2. ASSUME NEW i \in 1..(n + m), a[i] = <<t, k>>
        PROVE  <<t, k>> \in h \/ \E j \in 1..n : s[j] = <<t, k>>
    <3>1. CASE i <= n
      <4>1. i \in 1..n
        BY <3>1
      <4>2. QED
        BY <1>5, <2>2, <4>1
    <3>2. CASE ~(i <= n)
      <4>1. PICK l \in 1..m : l = i - n
        BY <3>2
      <4>2. n + l = i
        BY <4>1
      <4>3. QED
        BY <1>7, <2>2, <4>2
    <3>3. QED
      BY <3>1, <3>2
  <2>3. QED
    BY <1>4, <2>1, <2>2
<1>10. \A i, j \in 1..n : i < j /\ s[i][1] = s[j][1] => s[i][2] < s[j][2]
  BY <1>4, <1>5
<1>11. \A i \in 1..n : s[i][2] \in 1..st[s[i][1]]
  BY <1>4, <1>5
<1>12. StreamHas(s, st, h)
  BY <1>2, <1>8, <1>9, <1>10, <1>11 DEF StreamHas
<1>13. QED
  BY <1>6, <1>12

\* Joining three sequences of bytes written.
LEMMA JoinWritten ==
  \A x, y, z \in Seq(Written) : (x \o y) \o z = x \o (y \o z)
<1>1. SUFFICES ASSUME NEW x \in Seq(Written), NEW y \in Seq(Written), NEW z \in Seq(Written)
               PROVE  (x \o y) \o z = x \o (y \o z)
  OBVIOUS
<1>2. QED
  BY ConcatThree

\* What the system takes and what stays in the buffer.
LEMMA Flushing ==
  ASSUME sink \in Seq(Written), NEW b \in Seq(Written), NEW k \in {Again} \cup 0..Len(b)
  PROVE  /\ Flushed(b, k) \in Seq(Written) /\ Sunk(b, k) \in Seq(Written)
         /\ Sunk(b, k) \o Flushed(b, k) = sink \o b
         /\ Len(Flushed(b, k)) = IF k = Again THEN Len(b) ELSE Len(b) - k
<1>0. PICK z \in Seq(Written) : z = sink
  OBVIOUS
<1>1. CASE k = Again
  BY <1>1 DEF Flushed, Sunk
<1>2. CASE k # Again
  <2>0. k \in 0..Len(b) /\ k \in Nat /\ Len(b) \in Nat
    BY <1>2
  <2>1. PICK p \in Seq(Written) :
          p = SubSeq(b, 1, k) /\ Len(p) = k /\ \A j \in 1..k : p[j] = b[j]
    <3>1. /\ SubSeq(b, 1, k) \in Seq(Written) /\ Len(SubSeq(b, 1, k)) = k
          /\ \A j \in 1..k : SubSeq(b, 1, k)[j] = b[j]
      BY <2>0, PrefixCells
    <3>2. QED
      BY <3>1, Zenon
  <2>2. PICK r \in Seq(Written) :
          /\ r = SubSeq(b, k + 1, Len(b)) /\ Len(r) = Len(b) - k
          /\ \A j \in 1..(Len(b) - k) : r[j] = b[k + j]
    <3>0. PICK n \in Nat : n = Len(b) /\ k <= n
      BY <2>0
    <3>1. /\ SubSeq(b, k + 1, n) \in Seq(Written) /\ Len(SubSeq(b, k + 1, n)) = n - k
          /\ \A j \in 1..(n - k) : SubSeq(b, k + 1, n)[j] = b[k + j]
      BY <2>0, <3>0, PartCells
    <3>2. QED
      BY <3>0, <3>1, Zenon
  <2>3. p \o r = b
    <3>1. PICK a \in Seq(Written) : a = p \o r /\ IsJoin(Written, a, p, r)
      <4>1. IsJoin(Written, p \o r, p, r)
        BY Joined, Zenon
      <4>2. p \o r \in Seq(Written)
        BY <4>1 DEF IsJoin
      <4>3. QED
        BY <4>1, <4>2
    <3>2. Len(a) = Len(b)
      <4>1. Len(a) = Len(p) + Len(r)
        BY <3>1 DEF IsJoin
      <4>2. PICK n \in Nat : n = Len(b)
        BY <2>0
      <4>3. Len(a) = k + (n - k)
        BY <2>1, <2>2, <4>1, <4>2
      <4>4. QED
        BY <2>0, <4>2, <4>3
    <3>3. ASSUME NEW j \in 1..Len(a) PROVE a[j] = b[j]
      <4>1. a[j] = IF j <= k THEN p[j] ELSE r[j - k]
        BY <2>0, <2>1, <2>2, <3>1, <3>2 DEF IsJoin
      <4>2. CASE j <= k
        <5>1. j \in 1..k
          BY <4>2, <2>0
        <5>2. QED
          BY <2>1, <4>1, <4>2, <5>1
      <4>3. CASE ~(j <= k)
        <5>1. PICK l \in 1..(Len(b) - k) : l = j - k
          BY <2>0, <3>2, <4>3
        <5>2. k + l = j
          BY <2>0, <5>1
        <5>3. QED
          BY <2>2, <4>1, <4>3, <5>1, <5>2
      <4>4. QED
        BY <4>2, <4>3
    <3>4. a = b
      BY <3>2, <3>3, SameCells
    <3>5. QED
      BY <3>1, <3>4
  <2>4. Flushed(b, k) = r /\ Sunk(b, k) = z \o p
    BY <1>0, <1>2, <2>1, <2>2 DEF Flushed, Sunk
  <2>5. PICK y \in Seq(Written) : y = z \o p
    BY ConcatCells
  <2>6. (z \o p) \o r = z \o (p \o r)
    BY JoinWritten, ZenonT(60)
  <2>7. QED
    BY <1>0, <1>2, <2>2, <2>3, <2>4, <2>5, <2>6
<1>3. QED
  BY <1>1, <1>2

\* What a thread has written and has yet to write.
LEMMA WriterFacts ==
  ASSUME WriteInv, NEW t \in Users
  PROVE  /\ passed[t] \in Nat /\ pend[t] \in Seq(Written) /\ Len(pend[t]) \in Nat
         /\ Left(t) \in Nat /\ Left(t) <= Len(pend[t]) /\ Len(pend[t]) <= passed[t]
         /\ Stored[t] = passed[t] - Left(t) /\ Stored[t] \in Nat
         /\ LastOf(t, passed[t], pend[t])
<1>1. passed[t] \in Nat /\ pend[t] \in Seq(Written)
  BY DEF WriteInv, WriteTypes
<1>2. LastOf(t, passed[t], pend[t])
  BY DEF WriteInv
<1>3. Len(pend[t]) \in Nat /\ Len(pend[t]) <= passed[t]
  BY <1>1, <1>2 DEF LastOf
<1>4. Left(t) \in Nat /\ Left(t) <= Len(pend[t])
  <2>1. CASE Calling(t)
    <3>1. call.str \in Seq(Written)
      BY DEF WriteInv, WriteTypes
    <3>2. Len(call.str) <= Len(pend[t])
      BY <2>1 DEF WriteInv, CallOK, Calling
    <3>3. Left(t) = Len(call.str)
      BY <2>1 DEF Left
    <3>4. QED
      BY <3>1, <3>2, <3>3
  <2>2. CASE ~Calling(t)
    BY <2>2, <1>3 DEF Left
  <2>3. QED
    BY <2>1, <2>2
<1>5. Stored[t] = passed[t] - Left(t)
  BY DEF Stored
<1>6. QED
  BY <1>1, <1>2, <1>3, <1>4, <1>5

\* The same of all threads together.
LEMMA WriteFacts ==
  ASSUME WriteInv
  PROVE  /\ Stored \in [Users -> Nat]
         /\ sink \in Seq(Written) /\ buf \in Seq(Written) /\ Stream \in Seq(Written)
         /\ StreamHas(Stream, Stored, gone)
         /\ \A t \in Users : \A x \in gone : x[1] = t => x[2] <= Stored[t]
<1>1. \A t \in Users : passed[t] - Left(t) \in Nat
  <2>1. SUFFICES ASSUME NEW t \in Users PROVE passed[t] - Left(t) \in Nat
    OBVIOUS
  <2>2. QED
    BY WriterFacts
<1>2. Stored \in [Users -> Nat]
  BY <1>1 DEF Stored
<1>3. sink \in Seq(Written) /\ buf \in Seq(Written)
  BY DEF WriteInv, WriteTypes
<1>4. Stream \in Seq(Written)
  BY <1>3, ConcatCells DEF Stream
<1>5. ASSUME NEW t \in Users, NEW x \in gone, x[1] = t PROVE x[2] <= Stored[t]
  <2>1. x[2] \in 1..(passed[t] - Len(pend[t]))
    BY <1>5 DEF WriteInv, GoneIn
  <2>2. PICK a \in Nat, l \in Nat, f \in Nat :
          /\ a = passed[t] /\ l = Len(pend[t]) /\ f = Left(t)
          /\ f <= l /\ l <= a /\ Stored[t] = a - f
    BY WriterFacts
  <2>3. QED
    BY <2>1, <2>2
<1>6. QED
  BY <1>2, <1>3, <1>4, <1>5 DEF WriteInv

\* The thread t stores or leaves out its next m bytes.
LEMMA StoredMoves ==
  ASSUME WriteInv, NEW t \in Users, NEW m \in Nat, passed' = passed,
         \A u \in Users : u # t => Left(u)' = Left(u), Left(t)' \in Nat, Left(t) = Left(t)' + m
  PROVE  Stored' = [Stored EXCEPT ![t] = @ + m]
<1>1. Stored \in [Users -> Nat] /\ Stored' = [u \in Users |-> passed[u] - Left(u)']
  BY WriteFacts DEF Stored
<1>2. ASSUME NEW u \in Users
      PROVE  passed[u] - Left(u)' = IF u = t THEN Stored[t] + m ELSE Stored[u]
  <2>1. CASE u = t
    <3>1. passed[t] \in Nat /\ Left(t) \in Nat /\ Stored[t] = passed[t] - Left(t)
      BY WriterFacts
    <3>2. passed[t] - Left(t)' = (passed[t] - Left(t)) + m
      BY <3>1
    <3>3. QED
      BY <2>1, <3>1, <3>2
  <2>2. CASE u # t
    BY <2>2 DEF Stored
  <2>3. QED
    BY <2>1, <2>2
<1>3. QED
  BY <1>1, <1>2

\* Cutting the last bytes of t.
LEMMA CutLast ==
  ASSUME NEW t \in Users, NEW a \in Nat, NEW c \in Seq(Written), LastOf(t, a, c),
         NEW m \in Nat, m <= Len(c)
  PROVE  /\ SubSeq(c, 1, m) \in Seq(Written) /\ Len(SubSeq(c, 1, m)) = m
         /\ Run(t, a - Len(c), SubSeq(c, 1, m))
         /\ SubSeq(c, m + 1, Len(c)) \in Seq(Written)
         /\ Len(SubSeq(c, m + 1, Len(c))) = Len(c) - m
         /\ Run(t, a - Len(c) + m, SubSeq(c, m + 1, Len(c)))
         /\ LastOf(t, a, SubSeq(c, m + 1, Len(c)))
<1>1. PICK l \in Nat, n \in Nat : l = Len(c) /\ n = a - l /\ l <= a
  BY DEF LastOf
<1>2. Run(t, n, c) /\ m <= l
  BY <1>1 DEF LastOf
<1>3. /\ SubSeq(c, 1, m) \in Seq(Written) /\ Len(SubSeq(c, 1, m)) = m
      /\ Run(t, n, SubSeq(c, 1, m))
  <2>1. PICK z \in Nat : z = 0
    OBVIOUS
  <2>2. /\ SubSeq(c, z + 1, m) \in Seq(Written) /\ Len(SubSeq(c, z + 1, m)) = m - z
        /\ Run(t, n + z, SubSeq(c, z + 1, m))
    <3>1. z <= m /\ m <= Len(c)
      BY <1>1, <1>2, <2>1
    <3>2. QED
      BY <1>2, <3>1, RunPart, Zenon
  <2>3. z + 1 = 1 /\ m - z = m /\ n + z = n
    BY <2>1
  <2>4. QED
    BY <2>2, <2>3
<1>4. /\ SubSeq(c, m + 1, l) \in Seq(Written) /\ Len(SubSeq(c, m + 1, l)) = l - m
      /\ Run(t, n + m, SubSeq(c, m + 1, l))
  <2>1. m <= l /\ l <= Len(c)
    BY <1>1, <1>2
  <2>2. QED
    BY <1>2, <2>1, RunPart, Zenon
<1>5. l - m <= a /\ a - (l - m) = n + m
  BY <1>1, <1>2
<1>6. LastOf(t, a, SubSeq(c, m + 1, l))
  BY <1>4, <1>5 DEF LastOf
<1>7. QED
  BY <1>1, <1>3, <1>4, <1>6

\* A part of the last bytes, and those behind it.
LEMMA CutMiddle ==
  ASSUME NEW t \in Users, NEW a \in Nat, NEW s \in Seq(Written), LastOf(t, a, s),
         NEW p \in Nat, NEW q \in Nat, p <= q, q <= Len(s)
  PROVE  /\ SubSeq(s, p + 1, q) \in Seq(Written) /\ Len(SubSeq(s, p + 1, q)) = q - p
         /\ Run(t, a - Len(s) + p, SubSeq(s, p + 1, q))
         /\ SubSeq(s, q + 1, Len(s)) \in Seq(Written)
         /\ Len(SubSeq(s, q + 1, Len(s))) = Len(s) - q
         /\ LastOf(t, a, SubSeq(s, q + 1, Len(s)))
<1>1. PICK l \in Nat, z \in Nat : l = Len(s) /\ z = a - l
  BY DEF LastOf
<1>2. Run(t, z, s)
  BY <1>1 DEF LastOf
<1>3. /\ SubSeq(s, p + 1, q) \in Seq(Written) /\ Len(SubSeq(s, p + 1, q)) = q - p
      /\ Run(t, z + p, SubSeq(s, p + 1, q))
  BY <1>2, RunPart, Zenon
<1>4. /\ SubSeq(s, q + 1, Len(s)) \in Seq(Written)
      /\ Len(SubSeq(s, q + 1, Len(s))) = Len(s) - q
      /\ LastOf(t, a, SubSeq(s, q + 1, Len(s)))
  BY CutLast
<1>5. QED
  BY <1>1, <1>3, <1>4, Zenon

\* The first m bytes of the instruction go to the buffer.
LEMMA CallFeeds ==
  ASSUME WriteInv, call.at # "none", NEW m \in Nat, m <= Len(call.str)
  PROVE  /\ call.t \in Users /\ call.str \in Seq(Written) /\ Left(call.t) = Len(call.str)
         /\ SubSeq(call.str, 1, m) \in Seq(Written) /\ Len(SubSeq(call.str, 1, m)) = m
         /\ StreamHas(Stream \o SubSeq(call.str, 1, m), [Stored EXCEPT ![call.t] = @ + m], gone)
         /\ SubSeq(call.str, m + 1, Len(call.str)) \in Seq(Written)
         /\ Len(SubSeq(call.str, m + 1, Len(call.str))) = Len(call.str) - m
         /\ Run(call.t, Stored[call.t] + m, SubSeq(call.str, m + 1, Len(call.str)))
         /\ LastOf(call.t, passed[call.t], SubSeq(call.str, m + 1, Len(call.str)))
<1>1. PICK t \in Users, c \in Seq(Written) :
        t = call.t /\ c = call.str /\ LastOf(t, passed[t], c)
  BY DEF WriteInv, WriteTypes, CallOK
<1>2. Left(t) = Len(c) /\ Stored[t] = passed[t] - Len(c) /\ passed[t] \in Nat
  <2>1. Left(t) = Len(c)
    BY <1>1 DEF Left, Calling
  <2>2. Stored[t] = passed[t] - Left(t) /\ passed[t] \in Nat
    BY WriterFacts
  <2>3. QED
    BY <2>1, <2>2
<1>3. /\ SubSeq(c, 1, m) \in Seq(Written) /\ Len(SubSeq(c, 1, m)) = m
      /\ Run(t, Stored[t], SubSeq(c, 1, m))
      /\ SubSeq(c, m + 1, Len(c)) \in Seq(Written)
      /\ Len(SubSeq(c, m + 1, Len(c))) = Len(c) - m
      /\ Run(t, Stored[t] + m, SubSeq(c, m + 1, Len(c)))
      /\ LastOf(t, passed[t], SubSeq(c, m + 1, Len(c)))
  <2>1. m <= Len(c)
    BY <1>1
  <2>2. PICK a \in Nat : a = passed[t]
    BY <1>2
  <2>3. /\ SubSeq(c, 1, m) \in Seq(Written) /\ Len(SubSeq(c, 1, m)) = m
        /\ Run(t, a - Len(c), SubSeq(c, 1, m))
        /\ SubSeq(c, m + 1, Len(c)) \in Seq(Written)
        /\ Len(SubSeq(c, m + 1, Len(c))) = Len(c) - m
        /\ Run(t, a - Len(c) + m, SubSeq(c, m + 1, Len(c)))
        /\ LastOf(t, a, SubSeq(c, m + 1, Len(c)))
    <3>1. LastOf(t, a, c)
      BY <1>1, <2>2
    <3>2. QED
      BY <2>1, <3>1, CutLast, Zenon
  <2>4. QED
    BY <1>2, <2>2, <2>3, Zenon
<1>4. PICK d \in Seq(Written) : d = SubSeq(c, 1, m) /\ Len(d) = m /\ Run(t, Stored[t], d)
  BY <1>3, Zenon
<1>8. StreamHas(Stream \o d, [Stored EXCEPT ![t] = @ + Len(d)], gone)
  <2>1. /\ Stored \in [Users -> Nat] /\ Stream \in Seq(Written)
        /\ StreamHas(Stream, Stored, gone) /\ \A x \in gone : x[1] = t => x[2] <= Stored[t]
    BY WriteFacts
  <2>2. QED
    BY <1>4, <2>1, Feed
<1>9. QED
  BY <1>1, <1>2, <1>3, <1>4, <1>8

\* The instruction of t stores its next m bytes, leaves out e, and has pd to
\* write when it is run again.
Moves(t, m, e, pd) ==
  /\ m <= Len(call.str) /\ passed' = passed /\ open' = open /\ kind' = kind
  /\ Stream' = Stream \o SubSeq(call.str, 1, m)
  /\ gone' = gone \cup Range(e) /\ Run(t, Stored[t] + m, e)
  /\ (refused => refused') /\ (e # <<>> => refused' /\ Left(t)' = Len(pd))
  /\ pend' = [pend EXCEPT ![t] = pd] /\ LastOf(t, passed[t], pd)
  /\ Len(pd) <= Len(pend[t])
  /\ Left(t)' \in Nat /\ Left(t) = Left(t)' + (m + Len(e))
  /\ \A u \in Users : u # t => Left(u)' = Left(u)

\* Such a step keeps the invariant.
LEMMA CallMoves ==
  ASSUME WriteInv, call.at # "none", WriteTypes', CallOK', NEW t \in Users, t = call.t,
         NEW m \in Nat, NEW e \in Seq(Written), NEW pd \in Seq(Written), Moves(t, m, e, pd)
  PROVE  WriteInv'
<1>2. PICK d \in Seq(Written) :
        /\ d = SubSeq(call.str, 1, m)
        /\ StreamHas(Stream \o d, [Stored EXCEPT ![t] = @ + m], gone)
  <2>1. m <= Len(call.str)
    BY DEF Moves
  <2>2. /\ SubSeq(call.str, 1, m) \in Seq(Written)
        /\ StreamHas(Stream \o SubSeq(call.str, 1, m), [Stored EXCEPT ![t] = @ + m], gone)
    BY <2>1, CallFeeds
  <2>3. QED
    BY <2>2, Zenon
<1>3. Stored \in [Users -> Nat] /\ Stream \in Seq(Written)
  BY WriteFacts
<1>4. PICK n \in Nat, st \in [Users -> Nat] :
        n = Stored[t] /\ st = [Stored EXCEPT ![t] = @ + m] /\ st[t] = n + m
  <2>1. Stored[t] \in Nat /\ Stored[t] + m \in Nat
    BY <1>3
  <2>2. [Stored EXCEPT ![t] = @ + m] \in [Users -> Nat]
    BY <1>3, <2>1
  <2>3. [Stored EXCEPT ![t] = @ + m][t] = Stored[t] + m
    BY <1>3
  <2>4. QED
    BY <2>1, <2>2, <2>3
<1>5. PICK l \in Nat : l = Len(e)
  OBVIOUS
<1>6. Stored' = [st EXCEPT ![t] = @ + l]
  <2>1. /\ passed' = passed /\ \A u \in Users : u # t => Left(u)' = Left(u)
        /\ Left(t)' \in Nat /\ Left(t) = Left(t)' + (m + l)
    BY <1>5 DEF Moves
  <2>2. PICK z \in Nat : z = m + l
    OBVIOUS
  <2>3. Stored' = [Stored EXCEPT ![t] = @ + z]
    BY <2>1, <2>2, StoredMoves
  <2>4. [st EXCEPT ![t] = @ + l] = [Stored EXCEPT ![t] = @ + z]
    <3>1. st[t] + l = Stored[t] + z
      BY <1>4, <2>2
    <3>2. QED
      BY <1>3, <1>4, <3>1
  <2>5. QED
    BY <2>3, <2>4
<1>7. StreamHas(Stream', Stored', gone')
  <2>1. Run(t, st[t], e)
    BY <1>4 DEF Moves
  <2>2. PICK a \in Seq(Written) : a = Stream \o d
    BY <1>3, ConcatCells
  <2>3. StreamHas(a, st, gone)
    BY <1>2, <1>4, <2>2
  <2>4. StreamHas(a, [st EXCEPT ![t] = @ + Len(e)], gone \cup Range(e))
    BY <2>1, <2>3, Skip
  <2>5. Stream' = a /\ gone' = gone \cup Range(e)
    BY <1>2, <2>2 DEF Moves
  <2>6. QED
    BY <1>5, <1>6, <2>4, <2>5
<1>8. passed' = passed /\ pend' = [pend EXCEPT ![t] = pd] /\ pend \in [Users -> Seq(Written)]
  BY DEF Moves, WriteInv, WriteTypes
<1>9. pend'[t] = pd /\ \A u \in Users : u # t => pend'[u] = pend[u]
  BY <1>8
<1>10. ASSUME NEW u \in Users PROVE LastOf(u, passed'[u], pend'[u])
  <2>1. CASE u = t
    BY <1>8, <1>9, <2>1 DEF Moves
  <2>2. CASE u # t
    BY <1>8, <1>9, <2>2 DEF WriteInv
  <2>3. QED
    BY <2>1, <2>2
<1>11. ASSUME NEW x \in gone' PROVE x[2] \in 1..(passed'[x[1]] - Len(pend'[x[1]]))
  <2>0. PICK a \in Nat, p \in Nat, q \in Nat :
          a = passed[t] /\ p = Len(pd) /\ q = Len(pend[t]) /\ p <= q /\ q <= a
    <3>1. Len(pd) <= Len(pend[t])
      BY DEF Moves
    <3>2. passed[t] \in Nat /\ Len(pend[t]) \in Nat /\ Len(pend[t]) <= passed[t]
      BY WriterFacts
    <3>3. Len(pd) \in Nat
      OBVIOUS
    <3>4. QED
      BY <3>1, <3>2, <3>3
  <2>1. CASE x \in gone
    <3>1. x[1] \in Users /\ x[2] \in 1..(passed[x[1]] - Len(pend[x[1]]))
      BY <2>1 DEF WriteInv, WriteTypes, GoneIn, Written
    <3>2. CASE x[1] # t
      BY <1>8, <1>9, <3>1, <3>2
    <3>3. CASE x[1] = t
      <4>1. x[2] \in 1..(a - q)
        BY <2>0, <3>1, <3>3
      <4>2. x[2] \in 1..(a - p)
        BY <2>0, <4>1, SMTT(30)
      <4>3. QED
        BY <1>8, <1>9, <2>0, <3>3, <4>2
    <3>4. QED
      BY <3>2, <3>3
  <2>2. CASE x \in Range(e)
    <3>1. PICK k \in DOMAIN e : x = e[k]
      BY <2>2, Zenon DEF Range
    <3>2. k \in 1..l
      BY <1>5
    <3>3. x = <<t, n + m + k>>
      <4>1. Run(t, n + m, e)
        BY <1>4 DEF Moves
      <4>2. QED
        BY <1>5, <3>1, <3>2, <4>1 DEF Run
    <3>4. e # <<>>
      BY <1>5, <3>2
    <3>5. Left(t)' = p /\ Left(t) = p + (m + l)
      BY <1>5, <2>0, <3>4 DEF Moves
    <3>6. n = a - (p + (m + l))
      BY <1>4, <2>0, <3>5, WriterFacts
    <3>7. n + m + k \in 1..(a - p)
      BY <3>2, <3>6
    <3>8. x[1] = t /\ x[2] = n + m + k
      BY <3>3
    <3>9. QED
      BY <1>8, <1>9, <2>0, <3>7, <3>8
  <2>3. x \in gone \/ x \in Range(e)
    BY DEF Moves
  <2>4. QED
    BY <2>1, <2>2, <2>3
<1>12. LossKnown'
  <2>1. CASE e = <<>>
    <3>1. Range(e) = {}
      <4>1. DOMAIN e = {}
        BY <2>1
      <4>2. QED
        BY <4>1, Zenon DEF Range
    <3>2. gone' = gone /\ open' = open /\ kind' = kind /\ (refused => refused')
      BY <3>1 DEF Moves
    <3>3. QED
      BY <3>2 DEF LossKnown, WriteInv
  <2>2. CASE e # <<>>
    BY <2>2 DEF LossKnown, Moves
  <2>3. QED
    BY <2>1, <2>2
<1>13. (\A u \in Users : LastOf(u, passed[u], pend[u]))'
  BY <1>10 DEF LastOf, Run
<1>14. GoneIn(gone, pend)'
  BY <1>11 DEF GoneIn
<1>15. StreamHas(Stream, Stored, gone)'
  BY <1>7 DEF StreamHas
<1>16. QED
  BY <1>12, <1>13, <1>14, <1>15 DEF WriteInv

\* The instruction is over, or to be run again with pd.
LEMMA CallEnds ==
  ASSUME WriteInv, call.at # "none", NEW t \in Users, t = call.t, NEW pd,
         call' = NoCall, pend' = [pend EXCEPT ![t] = pd]
  PROVE  /\ Left(t)' = Len(pd) /\ \A u \in Users : u # t => Left(u)' = Left(u)
         /\ CallOK'
<1>1. pend \in [Users -> Seq(Written)]
  BY DEF WriteInv, WriteTypes
<1>2. call'.at = "none" /\ \A u \in Users : ~Calling(u)'
  BY DEF NoCall, Calling
<1>3. pend'[t] = pd /\ \A u \in Users : u # t => pend'[u] = pend[u] /\ ~Calling(u)
  BY <1>1 DEF Calling
<1>4. QED
  BY <1>2, <1>3 DEF Left, CallOK, NoCall

\* The instruction goes on.
LEMMA CallGoesOn ==
  ASSUME WriteInv, call.at # "none", NEW t \in Users, t = call.t,
         call'.at # "none", call'.t = t, pend' = pend
  PROVE  /\ Left(t)' = Len(call'.str) /\ \A u \in Users : u # t => Left(u)' = Left(u)
BY DEF Left, Calling

\* The types of the instruction being executed.
LEMMA CallFacts ==
  ASSUME WriteInv, call.at # "none"
  PROVE  /\ call.t \in Users /\ call.str \in Seq(Written) /\ Len(call.str) \in Nat
         /\ call.written \in Nat /\ call.took \in Nat /\ open
         /\ call.at \in {"char", "tail", "string"}
         /\ pend[call.t] # <<>> /\ Len(call.str) <= Len(pend[call.t])
         /\ LastOf(call.t, passed[call.t], call.str)
         /\ LastOf(call.t, passed[call.t], <<>>)
         /\ pend[call.t] \in Seq(Written) /\ passed[call.t] \in Nat
         /\ Left(call.t) = Len(call.str)
<1>1. call.t \in Users /\ LastOf(call.t, passed[call.t], call.str) /\ open
      /\ pend[call.t] # <<>> /\ Len(call.str) <= Len(pend[call.t])
  BY DEF WriteInv, CallOK
<1>2. call.str \in Seq(Written) /\ call.written \in Nat /\ call.took \in Nat
      /\ call.at \in {"char", "tail", "string"}
  BY DEF WriteInv, WriteTypes
<1>3. Len(call.str) \in Nat
  BY <1>2
<1>4. pend[call.t] \in Seq(Written) /\ passed[call.t] \in Nat
  BY <1>1 DEF WriteInv, WriteTypes
<1>5. LastOf(call.t, passed[call.t], <<>>)
  BY <1>4 DEF LastOf, Run
<1>6. Left(call.t) = Len(call.str)
  BY DEF Left, Calling
<1>7. QED
  BY <1>1, <1>2, <1>3, <1>4, <1>5, <1>6

\* The rest of a string goes to the buffer.
LEMMA CopyRestWrites ==
  ASSUME WriteInv, CopyRest
  PROVE  WriteInv'
<1>1. /\ call.at # "none" /\ Len(buf) + Len(call.str) < PortSize
      /\ buf' = buf \o call.str /\ call' = NoCall /\ pend' = [pend EXCEPT ![call.t] = <<>>]
      /\ UNCHANGED <<kind, open, sink, wide, passed, gone, refused>>
  BY DEF CopyRest, Finish
<1>2. PICK t \in Users, c \in Seq(Written), l \in Nat :
        /\ t = call.t /\ c = call.str /\ l = Len(c) /\ LastOf(t, passed[t], <<>>)
        /\ Left(t) = l
  BY <1>1, CallFacts
<1>3. PICK z \in Seq(Written), b \in Seq(Written) : z = sink /\ b = buf
  BY DEF WriteInv, WriteTypes
<1>4. PICK e \in Seq(Written) : e = <<>>
  <2>1. <<>> \in Seq(Written)
    OBVIOUS
  <2>2. QED
    BY <2>1
<1>5. b \o c \in Seq(Written) /\ Len(b \o c) = Len(b) + l
  BY <1>2, ConcatCells
<1>6. pend' = [pend EXCEPT ![t] = e] /\ pend' \in [Users -> Seq(Written)]
  <2>1. pend \in [Users -> Seq(Written)]
    BY DEF WriteInv, WriteTypes
  <2>2. QED
    BY <1>1, <1>2, <1>4, <2>1
<1>7. WriteTypes'
  <2>1. NoCall \in [t : Users \cup {0}, at : {"none", "char", "tail", "string"},
                    str : Seq(Written), written : Nat, took : Nat]
    BY DEF NoCall
  <2>2. buf' \in Seq(Written) /\ Len(buf') <= PortSize
    <3>1. Len(b) + l < PortSize /\ Len(b) \in Nat /\ PortSize \in Nat
      BY <1>1, <1>2, <1>3, PortsAssumption
    <3>2. QED
      BY <1>1, <1>2, <1>3, <1>5, <3>1
  <2>3. QED
    BY <1>1, <1>6, <2>1, <2>2 DEF WriteInv, WriteTypes
<1>8. /\ Left(t)' = Len(e) /\ \A u \in Users : u # t => Left(u)' = Left(u)
      /\ CallOK'
  BY <1>1, <1>2, <1>6, CallEnds
<1>9. Moves(t, l, e, e)
  <2>1. SubSeq(call.str, 1, l) = c
    BY <1>2
  <2>2. Stream' = Stream \o c
    <3>1. (z \o b) \o c = z \o (b \o c)
      BY JoinWritten, ZenonT(60)
    <3>2. Stream' = z \o (b \o c) /\ Stream = z \o b
      BY <1>1, <1>2, <1>3 DEF Stream
    <3>3. QED
      BY <3>1, <3>2
  <2>3. Len(e) = 0 /\ Range(e) = {} /\ Run(t, Stored[t] + l, e)
    <3>1. Len(e) = 0 /\ DOMAIN e = {} /\ 1..0 = {}
      BY <1>4
    <3>2. Range(e) = {}
      BY <3>1, Zenon DEF Range
    <3>3. QED
      BY <3>1, <3>2 DEF Run
  <2>4. Left(t)' \in Nat /\ Left(t) = Left(t)' + (l + Len(e)) /\ l <= Len(call.str)
    BY <1>2, <1>8, <2>3
  <2>5. Len(e) <= Len(pend[t])
    BY <2>3, WriterFacts
  <2>6. /\ gone' = gone \cup Range(e) /\ passed' = passed /\ open' = open
        /\ refused' = refused /\ kind' = kind
    BY <1>1, <2>3
  <2>7. QED
    BY <1>2, <1>4, <1>6, <1>8, <2>1, <2>2, <2>3, <2>4, <2>5, <2>6 DEF Moves
<1>10. QED
  BY <1>1, <1>2, <1>7, <1>8, <1>9, CallMoves

\* The parts of a turn of sexp_buffered_write_string_n that copies n bytes.
Copies(n) == n = PortSize - Len(buf) /\ n <= Len(call.str)

Turn(n, k) ==
  LET full == buf \o SubSeq(call.str, 1, n)
  IN  /\ call.at \in {"tail", "string"} /\ k \in Taken(Len(full))
      /\ buf' = Flushed(full, k) /\ sink' = Sunk(full, k)
      /\ refused' = (refused \/ k = Again)
      /\ UNCHANGED <<kind, open, wide, passed>>

TurnOn(n) ==
  /\ call' = [call EXCEPT !.str = SubSeq(@, n + 1, Len(@)), !.took = call.took + n,
                          !.written = @ + PortSize]
  /\ UNCHANGED <<pend, gone>>

TurnLast(n) ==
  /\ Finish(call.t)
  /\ gone' = gone \cup Range(SubSeq(call.str, n + 1, Len(call.str)))

TurnAgain(n) ==
  LET count == call.written + n
      len == Len(pend[call.t])
  IN  /\ call.at = "string" /\ count < len
      /\ pend' = [pend EXCEPT ![call.t] = SubSeq(@, count + 1, len)]
      /\ gone' = gone \cup Range(SubSeq(pend[call.t], call.took + n + 1, count))
      /\ call' = NoCall

\* FillAndFlush by its parts.
LEMMA TurnParts ==
  ASSUME WriteInv, NEW k, FillAndFlush(k)
  PROVE  \E n \in Nat :
           /\ Copies(n) /\ Turn(n, k)
           /\ \/ k # Again /\ TurnOn(n)
              \/ k = Again /\ (TurnLast(n) \/ TurnAgain(n))
<1>1. call.at # "none" /\ Len(buf) + Len(call.str) >= PortSize
  BY DEF FillAndFlush
<1>2. Len(call.str) \in Nat /\ call.written \in Nat /\ Len(pend[call.t]) \in Nat
  <2>1. /\ Len(call.str) \in Nat /\ call.written \in Nat /\ pend[call.t] \in Seq(Written)
    BY <1>1, CallFacts
  <2>2. QED
    BY <2>1
<1>3. PICK n \in Nat : n = PortSize - Len(buf) /\ n <= Len(call.str)
  <2>1. Len(buf) \in Nat /\ Len(buf) <= PortSize /\ PortSize \in Nat
    BY PortsAssumption DEF WriteInv, WriteTypes
  <2>2. QED
    BY <1>1, <1>2, <2>1, SMTT(30)
<1>9. Copies(n)
  BY <1>3 DEF Copies
<1>4. Turn(n, k)
  BY <1>3, Zenon DEF FillAndFlush, Turn
<1>5. CASE k # Again
  <2>1. TurnOn(n)
    BY <1>3, <1>5, Zenon DEF FillAndFlush, TurnOn
  <2>2. QED
    BY <1>9, <1>4, <1>5, <2>1, Zenon
<1>6. CASE k = Again /\ (call.at = "tail" \/ call.written + n >= Len(pend[call.t]))
  <2>1. TurnLast(n)
    BY <1>3, <1>6, Zenon DEF FillAndFlush, TurnLast
  <2>2. QED
    BY <1>9, <1>4, <1>6, <2>1, Zenon
<1>7. CASE k = Again /\ ~(call.at = "tail" \/ call.written + n >= Len(pend[call.t]))
  <2>1. call.at = "string" /\ call.written + n < Len(pend[call.t])
    BY <1>2, <1>4, <1>7 DEF Turn
  <2>2. TurnAgain(n)
    BY <1>3, <1>7, <2>1, Zenon DEF FillAndFlush, TurnAgain
  <2>3. QED
    BY <1>9, <1>4, <1>7, <2>2, Zenon
<1>8. QED
  BY <1>5, <1>6, <1>7

\* What a turn does to the stream.
LEMMA TurnStream ==
  ASSUME WriteInv, NEW n \in Nat, Copies(n), NEW k, Turn(n, k)
  PROVE  /\ call.at # "none" /\ sink' \in Seq(Written) /\ buf' \in Seq(Written)
         /\ Len(buf') <= PortSize
         /\ Stream' = Stream \o SubSeq(call.str, 1, n)
<1>1. call.at # "none"
  BY DEF Turn
<1>2. PICK z \in Seq(Written), b \in Seq(Written), d \in Seq(Written) :
        z = sink /\ b = buf /\ d = SubSeq(call.str, 1, n) /\ Len(d) = n
  <2>0. n <= Len(call.str)
    BY DEF Copies
  <2>1. SubSeq(call.str, 1, n) \in Seq(Written) /\ Len(SubSeq(call.str, 1, n)) = n
    BY <1>1, <2>0, CallFeeds
  <2>2. sink \in Seq(Written) /\ buf \in Seq(Written)
    BY WriteFacts
  <2>3. QED
    BY <2>1, <2>2, Zenon
<1>3. PICK full \in Seq(Written) : full = b \o d /\ Len(full) = Len(b) + n
  <2>1. b \o d \in Seq(Written) /\ Len(b \o d) = Len(b) + n
    BY <1>2, ConcatCells
  <2>2. QED
    BY <2>1
<1>4. Len(full) = PortSize /\ PortSize \in Nat \ {0}
  <2>1. Len(b) \in Nat /\ n = PortSize - Len(b) /\ PortSize \in Nat \ {0}
    BY <1>2, PortsAssumption DEF Copies
  <2>2. PICK l \in Nat, size \in Nat : l = Len(b) /\ size = PortSize
    BY <2>1
  <2>3. n = size - l /\ Len(full) = l + n
    BY <1>3, <2>1, <2>2
  <2>4. Len(full) = size
    BY <2>3
  <2>5. QED
    BY <2>1, <2>2, <2>4
<1>5. k \in Taken(Len(full)) /\ buf' = Flushed(full, k) /\ sink' = Sunk(full, k)
  BY <1>2, <1>3, Zenon DEF Turn
<1>6. k \in {Again} \cup 0..Len(full)
  BY <1>4, <1>5 DEF Taken, Again
<1>7. /\ Flushed(full, k) \in Seq(Written) /\ Sunk(full, k) \in Seq(Written)
      /\ Sunk(full, k) \o Flushed(full, k) = z \o full
      /\ Len(Flushed(full, k)) = IF k = Again THEN Len(full) ELSE Len(full) - k
  BY <1>2, <1>6, Flushing
<1>8. Len(buf') <= PortSize
  <2>1. CASE k = Again
    BY <1>4, <1>5, <1>7, <2>1
  <2>2. CASE k # Again
    <3>1. k \in 0..PortSize
      BY <1>4, <1>6, <2>2
    <3>2. Len(buf') = PortSize - k
      BY <1>4, <1>5, <1>7, <2>2
    <3>3. QED
      BY <1>4, <3>1, <3>2
  <2>3. QED
    BY <2>1, <2>2
<1>9. Stream' = Stream \o d
  <2>1. (z \o b) \o d = z \o (b \o d)
    BY JoinWritten, ZenonT(60)
  <2>2. Stream' = z \o full /\ Stream = z \o b
    BY <1>2, <1>5, <1>7 DEF Stream
  <2>3. QED
    BY <1>3, <2>1, <2>2
<1>10. QED
  BY <1>1, <1>2, <1>5, <1>7, <1>8, <1>9

\* The loop goes on.
LEMMA TurnOnWrites ==
  ASSUME WriteInv, NEW n \in Nat, Copies(n), NEW k, Turn(n, k), TurnOn(n)
  PROVE  WriteInv'
<1>1. /\ call.at # "none" /\ sink' \in Seq(Written) /\ buf' \in Seq(Written)
      /\ Len(buf') <= PortSize /\ Stream' = Stream \o SubSeq(call.str, 1, n)
  BY TurnStream
<1>2. PICK t \in Users, r \in Seq(Written), c \in Nat :
        /\ t = call.t /\ r = SubSeq(call.str, n + 1, Len(call.str)) /\ c = Len(call.str)
        /\ Len(r) = c - n /\ LastOf(t, passed[t], r)
  <2>0. n <= Len(call.str)
    BY DEF Copies
  <2>1. call.t \in Users /\ Len(call.str) \in Nat
    BY <1>1, CallFacts
  <2>2. /\ SubSeq(call.str, n + 1, Len(call.str)) \in Seq(Written)
        /\ Len(SubSeq(call.str, n + 1, Len(call.str))) = Len(call.str) - n
        /\ LastOf(call.t, passed[call.t], SubSeq(call.str, n + 1, Len(call.str)))
    BY <1>1, <2>0, CallFeeds
  <2>3. QED
    BY <2>1, <2>2, Zenon
<1>3. /\ call.t \in Users /\ call.written \in Nat /\ call.took \in Nat /\ open
      /\ call.at \in {"tail", "string"} /\ Left(t) = c /\ PortSize \in Nat
      /\ pend[t] # <<>> /\ c <= Len(pend[t]) /\ Len(pend[t]) \in Nat
  <2>1. /\ call.written \in Nat /\ call.took \in Nat /\ open
        /\ pend[t] # <<>> /\ c <= Len(pend[t]) /\ Left(t) = c
    BY <1>1, <1>2, CallFacts
  <2>2. call.at \in {"tail", "string"}
    BY DEF Turn
  <2>3. Len(pend[t]) \in Nat /\ PortSize \in Nat
    BY WriterFacts, PortsAssumption
  <2>4. QED
    BY <1>2, <2>1, <2>2, <2>3
<1>4. /\ call'.t = t /\ call'.at = call.at /\ call'.str = r /\ call'.took = call.took + n
      /\ call'.written = call.written + PortSize
      /\ call' \in [t : Users \cup {0}, at : {"none", "char", "tail", "string"},
                    str : Seq(Written), written : Nat, took : Nat]
  <2>1. call \in [t : Users \cup {0}, at : {"none", "char", "tail", "string"},
                  str : Seq(Written), written : Nat, took : Nat]
    BY DEF WriteInv, WriteTypes
  <2>2. call.took + n \in Nat /\ call.written + PortSize \in Nat
    BY <1>3
  <2>3. call' = [call EXCEPT !.str = r, !.took = call.took + n,
                             !.written = call.written + PortSize]
    BY <1>2 DEF TurnOn
  <2>4. QED
    BY <1>2, <2>1, <2>2, <2>3
<1>5. /\ pend' = pend /\ gone' = gone /\ passed' = passed /\ open' = open
      /\ kind' = kind /\ wide' = wide /\ refused' = (refused \/ k = Again)
  BY DEF TurnOn, Turn
<1>6. WriteTypes'
  BY <1>1, <1>4, <1>5 DEF WriteInv, WriteTypes
<1>7. Left(t)' = Len(r) /\ \A u \in Users : u # t => Left(u)' = Left(u)
  <2>1. call'.at # "none"
    BY <1>1, <1>4
  <2>2. QED
    BY <1>1, <1>2, <1>4, <1>5, <2>1, CallGoesOn
<1>8. CallOK'
  <2>1. Len(r) <= Len(pend[t])
    BY <1>2, <1>3
  <2>2. ASSUME call.at = "string"
        PROVE  call'.took = Len(pend[t]) - Len(r) /\ call'.took <= call'.written
    <3>1. call.took = Len(pend[t]) - c /\ call.took <= call.written
      BY <1>1, <1>2, <2>2 DEF WriteInv, CallOK
    <3>2. call'.took = Len(pend[t]) - Len(r)
      <4>1. PICK l \in Nat : l = Len(pend[t])
        BY <1>3
      <4>2. call.took = l - c /\ Len(r) = c - n /\ call'.took = call.took + n
        BY <1>2, <1>4, <3>1, <4>1
      <4>3. l - c + n = l - (c - n)
        BY <1>2
      <4>4. QED
        BY <4>1, <4>2, <4>3
    <3>3. n <= PortSize
      <4>1. Len(buf) \in Nat
        BY WriteFacts
      <4>2. QED
        BY <1>3, <4>1 DEF Copies
    <3>4. call.took + n <= call.written + PortSize
      BY <1>3, <3>1, <3>3
    <3>5. QED
      BY <1>4, <3>2, <3>4
  <2>3. call'.at # "none" /\ call'.at # "char" /\ open' /\ call'.t \in Users
    BY <1>2, <1>3, <1>4, <1>5
  <2>4. LastOf(call'.t, passed'[call'.t], call'.str)
    BY <1>2, <1>4, <1>5
  <2>5. QED
    BY <1>2, <1>3, <1>4, <1>5, <2>1, <2>2, <2>3, <2>4 DEF CallOK, LastOf, Run
<1>9. PICK e \in Seq(Written), pd \in Seq(Written) : e = <<>> /\ pd = pend[t]
  <2>1. <<>> \in Seq(Written) /\ pend[t] \in Seq(Written)
    BY WriterFacts
  <2>2. QED
    BY <2>1
<1>10. Moves(t, n, e, pd)
  <2>1. Len(e) = 0 /\ Range(e) = {} /\ Run(t, Stored[t] + n, e)
    <3>1. Len(e) = 0 /\ DOMAIN e = {} /\ 1..0 = {}
      BY <1>9
    <3>2. Range(e) = {}
      BY <3>1, Zenon DEF Range
    <3>3. QED
      BY <3>1, <3>2 DEF Run
  <2>2. Left(t)' \in Nat /\ Left(t) = Left(t)' + (n + Len(e)) /\ n <= Len(call.str)
    <3>1. n <= c
      BY <1>2 DEF Copies
    <3>2. c - n \in Nat /\ c = (c - n) + (n + 0)
      BY <3>1
    <3>3. Left(t)' = c - n /\ Left(t) = c /\ Len(e) = 0
      BY <1>2, <1>3, <1>7, <2>1
    <3>4. QED
      BY <1>2, <3>1, <3>2, <3>3, Zenon
  <2>3. pend' = [pend EXCEPT ![t] = pd] /\ LastOf(t, passed[t], pd) /\ Len(pd) <= Len(pend[t])
    <3>1. pend \in [Users -> Seq(Written)]
      BY DEF WriteInv, WriteTypes
    <3>2. LastOf(t, passed[t], pend[t])
      BY DEF WriteInv
    <3>3. QED
      BY <1>3, <1>5, <1>9, <3>1, <3>2
  <2>4. gone' = gone \cup Range(e)
    BY <1>5, <2>1
  <2>5. QED
    BY <1>1, <1>5, <1>7, <1>9, <2>1, <2>2, <2>3, <2>4 DEF Moves
<1>11. QED
  BY <1>1, <1>2, <1>6, <1>8, <1>10, CallMoves

\* The flush was refused, and what is left of the string is left out.
LEMMA TurnLastWrites ==
  ASSUME WriteInv, NEW n \in Nat, Copies(n), Turn(n, Again), TurnLast(n)
  PROVE  WriteInv'
<1>1. /\ call.at # "none" /\ sink' \in Seq(Written) /\ buf' \in Seq(Written)
      /\ Len(buf') <= PortSize /\ Stream' = Stream \o SubSeq(call.str, 1, n)
  BY TurnStream
<1>2. PICK t \in Users, e \in Seq(Written), c \in Nat :
        /\ t = call.t /\ e = SubSeq(call.str, n + 1, Len(call.str)) /\ c = Len(call.str)
        /\ Len(e) = c - n /\ Run(t, Stored[t] + n, e)
  <2>0. n <= Len(call.str)
    BY DEF Copies
  <2>1. call.t \in Users /\ Len(call.str) \in Nat
    BY <1>1, CallFacts
  <2>2. /\ SubSeq(call.str, n + 1, Len(call.str)) \in Seq(Written)
        /\ Len(SubSeq(call.str, n + 1, Len(call.str))) = Len(call.str) - n
        /\ Run(call.t, Stored[call.t] + n, SubSeq(call.str, n + 1, Len(call.str)))
    BY <1>1, <2>0, CallFeeds
  <2>3. QED
    BY <2>1, <2>2, Zenon
<1>3. Left(t) = c /\ LastOf(t, passed[t], <<>>)
  BY <1>1, <1>2, CallFacts
<1>4. PICK pd \in Seq(Written) : pd = <<>> /\ Len(pd) = 0
  <2>1. <<>> \in Seq(Written) /\ Len(<<>>) = 0
    OBVIOUS
  <2>2. QED
    BY <2>1
<1>5. /\ call' = NoCall /\ gone' = gone \cup Range(e) /\ passed' = passed /\ open' = open
      /\ kind' = kind /\ wide' = wide /\ refused' = TRUE
      /\ pend' = [pend EXCEPT ![t] = pd] /\ pend' \in [Users -> Seq(Written)]
  <2>1. pend \in [Users -> Seq(Written)]
    BY DEF WriteInv, WriteTypes
  <2>2. pend' = [pend EXCEPT ![t] = pd] /\ call' = NoCall
    BY <1>2, <1>4 DEF TurnLast, Finish
  <2>3. gone' = gone \cup Range(e)
    BY <1>2 DEF TurnLast
  <2>4. QED
    BY <2>1, <2>2, <2>3 DEF Turn
<1>6. WriteTypes'
  <2>1. NoCall \in [t : Users \cup {0}, at : {"none", "char", "tail", "string"},
                    str : Seq(Written), written : Nat, took : Nat]
    BY DEF NoCall
  <2>2. gone' \subseteq Written
    <3>1. Range(e) \subseteq Written
      <4>1. \A i \in DOMAIN e : e[i] \in Written
        OBVIOUS
      <4>2. QED
        BY <4>1, Zenon DEF Range
    <3>2. gone \subseteq Written
      BY DEF WriteInv, WriteTypes
    <3>3. QED
      BY <1>5, <3>1, <3>2
  <2>3. QED
    BY <1>1, <1>5, <2>1, <2>2 DEF WriteInv, WriteTypes
<1>7. /\ Left(t)' = Len(pd) /\ \A u \in Users : u # t => Left(u)' = Left(u)
      /\ CallOK'
  BY <1>1, <1>2, <1>5, CallEnds
<1>8. Moves(t, n, e, pd)
  <2>1. Left(t)' \in Nat /\ Left(t) = Left(t)' + (n + Len(e)) /\ n <= Len(call.str)
    <3>1. n + (c - n) = c
      BY <1>2
    <3>2. QED
      BY <1>2, <1>3, <1>4, <1>7, <3>1 DEF Copies
  <2>2. Len(pd) <= Len(pend[t])
    BY <1>4, WriterFacts
  <2>3. QED
    BY <1>1, <1>2, <1>3, <1>4, <1>5, <1>7, <2>1, <2>2 DEF Moves
<1>9. QED
  BY <1>1, <1>2, <1>6, <1>7, <1>8, CallMoves

\* The flush was refused, and write-string will go on behind the count that
\* came back.
LEMMA TurnAgainWrites ==
  ASSUME WriteInv, NEW n \in Nat, Copies(n), Turn(n, Again), TurnAgain(n)
  PROVE  WriteInv'
<1>1. /\ call.at # "none" /\ sink' \in Seq(Written) /\ buf' \in Seq(Written)
      /\ Len(buf') <= PortSize /\ Stream' = Stream \o SubSeq(call.str, 1, n)
  BY TurnStream
<1>2. PICK t \in Users, s \in Seq(Written), c \in Nat, w \in Nat, k \in Nat :
        /\ t = call.t /\ s = pend[t] /\ c = Len(call.str) /\ w = call.written /\ k = call.took
        /\ LastOf(t, passed[t], s) /\ Left(t) = c
  <2>1. /\ call.t \in Users /\ Len(call.str) \in Nat /\ call.written \in Nat /\ call.took \in Nat
        /\ Left(call.t) = Len(call.str)
    BY <1>1, CallFacts
  <2>2. pend[call.t] \in Seq(Written) /\ LastOf(call.t, passed[call.t], pend[call.t])
    BY <2>1, WriterFacts
  <2>3. QED
    BY <2>1, <2>2
<1>3. PICK l \in Nat, a \in Nat : l = Len(s) /\ a = passed[t] /\ l <= a /\ Stored[t] = a - c
  BY <1>2, WriterFacts
<1>4. k = l - c /\ k <= w /\ n <= c /\ w + n < l
  BY <1>1, <1>2, <1>3 DEF WriteInv, CallOK, Copies, TurnAgain
<1>5. PICK p \in Nat, q \in Nat : p = k + n /\ q = w + n /\ p <= q /\ q <= l
  BY <1>4
<1>6. /\ SubSeq(s, p + 1, q) \in Seq(Written) /\ Len(SubSeq(s, p + 1, q)) = q - p
      /\ Run(t, a - l + p, SubSeq(s, p + 1, q))
      /\ SubSeq(s, q + 1, l) \in Seq(Written) /\ Len(SubSeq(s, q + 1, l)) = l - q
      /\ LastOf(t, a, SubSeq(s, q + 1, l))
  <2>1. LastOf(t, a, s) /\ p <= q /\ q <= Len(s)
    BY <1>2, <1>3, <1>5
  <2>2. /\ SubSeq(s, p + 1, q) \in Seq(Written) /\ Len(SubSeq(s, p + 1, q)) = q - p
        /\ Run(t, a - Len(s) + p, SubSeq(s, p + 1, q))
        /\ SubSeq(s, q + 1, Len(s)) \in Seq(Written)
        /\ Len(SubSeq(s, q + 1, Len(s))) = Len(s) - q
        /\ LastOf(t, a, SubSeq(s, q + 1, Len(s)))
    BY <2>1, CutMiddle, Zenon
  <2>3. QED
    BY <1>3, <2>2, Zenon
<1>7. PICK e \in Seq(Written) :
        e = SubSeq(s, p + 1, q) /\ Len(e) = q - p /\ Run(t, Stored[t] + n, e)
  <2>1. a - l + ((l - c) + n) = (a - c) + n
    OBVIOUS
  <2>2. a - l + p = (a - c) + n
    BY <1>4, <1>5, <2>1, Zenon
  <2>3. QED
    BY <1>3, <1>6, <2>2, Zenon
<1>8. PICK pd \in Seq(Written) :
        pd = SubSeq(s, q + 1, l) /\ Len(pd) = l - q /\ LastOf(t, passed[t], pd)
  BY <1>3, <1>6, Zenon
<1>9. /\ call' = NoCall /\ gone' = gone \cup Range(e) /\ passed' = passed /\ open' = open
      /\ kind' = kind /\ wide' = wide /\ refused' = TRUE
      /\ pend' = [pend EXCEPT ![t] = pd] /\ pend' \in [Users -> Seq(Written)]
  <2>1. pend \in [Users -> Seq(Written)]
    BY DEF WriteInv, WriteTypes
  <2>2. pend' = [pend EXCEPT ![t] = SubSeq(s, q + 1, l)] /\ call' = NoCall
    BY <1>2, <1>3, <1>5, <2>1 DEF TurnAgain
  <2>3. gone' = gone \cup Range(SubSeq(s, p + 1, q))
    BY <1>2, <1>5, Zenon DEF TurnAgain
  <2>4. QED
    BY <1>7, <1>8, <2>1, <2>2, <2>3 DEF Turn
<1>10. WriteTypes'
  <2>1. NoCall \in [t : Users \cup {0}, at : {"none", "char", "tail", "string"},
                    str : Seq(Written), written : Nat, took : Nat]
    BY DEF NoCall
  <2>2. gone' \subseteq Written
    <3>1. Range(e) \subseteq Written
      <4>1. \A i \in DOMAIN e : e[i] \in Written
        OBVIOUS
      <4>2. QED
        BY <4>1, Zenon DEF Range
    <3>2. gone \subseteq Written
      BY DEF WriteInv, WriteTypes
    <3>3. QED
      BY <1>9, <3>1, <3>2
  <2>3. QED
    BY <1>1, <1>9, <2>1, <2>2 DEF WriteInv, WriteTypes
<1>11. /\ Left(t)' = Len(pd) /\ \A u \in Users : u # t => Left(u)' = Left(u)
       /\ CallOK'
  BY <1>1, <1>2, <1>9, CallEnds
<1>12. Moves(t, n, e, pd)
  <2>1. Left(t)' \in Nat /\ Left(t) = Left(t)' + (n + Len(e)) /\ n <= Len(call.str)
    <3>1. c = (l - q) + (n + (q - p)) /\ l - q \in Nat
      BY <1>4, <1>5
    <3>2. QED
      BY <1>2, <1>7, <1>8, <1>11, <3>1 DEF Copies
  <2>2. Len(pd) <= Len(pend[t])
    BY <1>2, <1>3, <1>5, <1>8, SMTT(30)
  <2>3. QED
    BY <1>1, <1>7, <1>8, <1>9, <1>11, <2>1, <2>2 DEF Moves
<1>13. QED
  BY <1>1, <1>2, <1>10, <1>11, <1>12, CallMoves

\* One turn of the loop of sexp_buffered_write_string_n.
LEMMA FillAndFlushWrites ==
  ASSUME WriteInv, NEW k, FillAndFlush(k)
  PROVE  WriteInv'
<1>1. PICK n \in Nat :
        /\ Copies(n) /\ Turn(n, k)
        /\ \/ k # Again /\ TurnOn(n)
           \/ k = Again /\ (TurnLast(n) \/ TurnAgain(n))
  BY TurnParts
<1>2. CASE k # Again
  BY <1>1, <1>2, TurnOnWrites
<1>3. CASE k = Again
  BY <1>1, <1>3, TurnLastWrites, TurnAgainWrites
<1>4. QED
  BY <1>2, <1>3

\* A step that stores nothing, leaves out nothing and ends no instruction.
Stays ==
  /\ Stream' = Stream /\ gone' = gone /\ passed' = passed /\ pend' = pend
  /\ (refused => refused') /\ (open' => open) /\ kind' = kind
  /\ \A u \in Users : Left(u)' = Left(u)

\* Such a step keeps the invariant.
LEMMA StaysWrites ==
  ASSUME WriteInv, WriteTypes', CallOK', Stays
  PROVE  WriteInv'
<1>1. Stored' = Stored
  <2>1. ASSUME NEW u \in Users PROVE passed'[u] - Left(u)' = passed[u] - Left(u)
    BY DEF Stays
  <2>2. QED
    BY <2>1, Zenon DEF Stored
<1>2. StreamHas(Stream, Stored, gone)'
  <2>1. StreamHas(Stream, Stored, gone) /\ Stream' = Stream /\ gone' = gone
    BY DEF WriteInv, Stays
  <2>2. QED
    BY <1>1, <2>1 DEF StreamHas
<1>3. \A t \in Users : LastOf(t, passed[t], pend[t])'
  <2>1. ASSUME NEW t \in Users PROVE LastOf(t, passed[t], pend[t])'
    <3>1. LastOf(t, passed[t], pend[t]) /\ passed' = passed /\ pend' = pend
      BY DEF WriteInv, Stays
    <3>2. QED
      BY <3>1 DEF LastOf, Run
  <2>2. QED
    BY <2>1
<1>4. GoneIn(gone, pend)'
  BY DEF WriteInv, Stays, GoneIn
<1>5. LossKnown'
  BY DEF WriteInv, Stays, LossKnown
<1>6. QED
  BY <1>2, <1>3, <1>4, <1>5 DEF WriteInv

\* The first byte of a character goes to the buffer.
LEMMA FirstStream ==
  ASSUME WriteInv, NEW k, WriteFirst(k)
  PROVE  /\ call.at = "char" /\ sink' \in Seq(Written) /\ buf' \in Seq(Written)
         /\ Len(buf') <= PortSize /\ (refused => refused') /\ refused' \in BOOLEAN
         /\ Stream' = IF k = Again THEN Stream ELSE Stream \o SubSeq(call.str, 1, 1)
<1>1. call.at = "char" /\ call.at # "none"
  BY DEF WriteFirst
<1>2. PICK z \in Seq(Written), b \in Seq(Written), c \in Seq(Written), l \in Nat, size \in Nat :
        /\ z = sink /\ b = buf /\ c = call.str /\ c # <<>>
        /\ l = Len(b) /\ size = PortSize /\ l <= size
  <2>1. sink \in Seq(Written) /\ buf \in Seq(Written) /\ Len(buf) <= PortSize
    BY DEF WriteInv, WriteTypes
  <2>2. call.str \in Seq(Written) /\ call.str # <<>>
    BY <1>1 DEF WriteInv, WriteTypes, CallOK
  <2>3. Len(buf) \in Nat /\ PortSize \in Nat
    BY <2>1, PortsAssumption
  <2>4. QED
    BY <2>1, <2>2, <2>3
<1>3. PICK d \in Seq(Written) : d = SubSeq(c, 1, 1) /\ d = <<Head(c)>> /\ Len(d) = 1
  <2>1. Len(c) \in Nat \ {0} /\ Head(c) = c[1] /\ c[1] \in Written
    BY <1>2
  <2>2. /\ SubSeq(c, 1, 1) \in Seq(Written) /\ Len(SubSeq(c, 1, 1)) = 1
        /\ SubSeq(c, 1, 1)[1] = c[1]
    BY <2>1
  <2>3. PICK d \in Seq(Written) : d = SubSeq(c, 1, 1) /\ Len(d) = 1 /\ d[1] = c[1]
    BY <2>2
  <2>4. d = <<c[1]>>
    <3>0. \A x \in Written : <<x>> \in Seq(Written) /\ Len(<<x>>) = 1 /\ <<x>>[1] = x
      OBVIOUS
    <3>1. PICK e \in Seq(Written) : e = <<c[1]>> /\ Len(e) = 1 /\ e[1] = c[1]
      BY <2>1, <3>0, Zenon
    <3>2. \A i \in 1..Len(d) : d[i] = e[i]
      BY <2>3, <3>1
    <3>3. QED
      BY <2>3, <3>1, <3>2, SameCells
  <2>5. QED
    BY <2>1, <2>3, <2>4
<1>4. CASE l < size
  <2>1. k = 0 /\ buf' = Append(b, Head(c)) /\ sink' = z /\ refused' = refused
    BY <1>2, <1>4 DEF WriteFirst
  <2>2. k # Again
    BY <2>1 DEF Again
  <2>3. Append(b, Head(c)) = b \o d /\ b \o d \in Seq(Written) /\ Len(b \o d) = l + 1
    BY <1>2, <1>3
  <2>4. (z \o b) \o d = z \o (b \o d)
    BY JoinWritten, ZenonT(60)
  <2>5. Stream' = Stream \o SubSeq(call.str, 1, 1)
    BY <1>2, <1>3, <2>1, <2>3, <2>4 DEF Stream
  <2>6. Len(buf') <= PortSize
    BY <1>2, <1>4, <2>1, <2>3
  <2>7. refused \in BOOLEAN
    BY DEF WriteInv, WriteTypes
  <2>8. QED
    BY <1>1, <1>2, <2>1, <2>2, <2>3, <2>5, <2>6, <2>7
<1>5. CASE ~(l < size)
  <2>1. /\ k \in Taken(l) /\ sink' = Sunk(b, k) /\ refused' = (refused \/ k = Again)
        /\ buf' = IF k = Again THEN b ELSE Append(Flushed(b, k), Head(c))
    BY <1>2, <1>5 DEF WriteFirst
  <2>2. l = size /\ l \in Nat \ {0}
    BY <1>2, <1>5, PortsAssumption
  <2>3. k \in {Again} \cup 0..Len(b)
    BY <1>2, <2>1, <2>2 DEF Taken, Again
  <2>4. /\ Flushed(b, k) \in Seq(Written) /\ Sunk(b, k) \in Seq(Written)
        /\ Sunk(b, k) \o Flushed(b, k) = z \o b
        /\ Len(Flushed(b, k)) = IF k = Again THEN Len(b) ELSE Len(b) - k
    BY <1>2, <2>3, Flushing
  <2>5. CASE k = Again
    <3>1. buf' = b /\ sink' = z
      BY <1>2, <2>1, <2>5 DEF Sunk
    <3>2. Stream' = Stream
      BY <1>2, <3>1 DEF Stream
    <3>3. QED
      BY <1>1, <1>2, <2>1, <2>5, <3>1, <3>2
  <2>6. CASE k # Again
    <3>1. k \in 1..l
      BY <2>1, <2>2, <2>6 DEF Taken
    <3>2. PICK f \in Seq(Written), y \in Seq(Written) :
            f = Flushed(b, k) /\ y = Sunk(b, k) /\ y \o f = z \o b /\ Len(f) = l - k
      BY <1>2, <2>4, <2>6
    <3>3. Append(f, Head(c)) = f \o d /\ f \o d \in Seq(Written) /\ Len(f \o d) = Len(f) + 1
      BY <1>2, <1>3
    <3>4. buf' = f \o d /\ sink' = y
      BY <2>1, <2>6, <3>2, <3>3
    <3>5. (y \o f) \o d = y \o (f \o d)
      BY JoinWritten, ZenonT(60)
    <3>6. Stream' = Stream \o SubSeq(call.str, 1, 1)
      BY <1>2, <1>3, <3>2, <3>4, <3>5 DEF Stream
    <3>7. Len(buf') <= PortSize
      BY <1>2, <2>2, <3>1, <3>2, <3>3, <3>4
    <3>8. QED
      BY <1>1, <2>1, <2>6, <3>3, <3>4, <3>6, <3>7
  <2>7. QED
    BY <2>5, <2>6
<1>6. QED
  BY <1>4, <1>5

\* write-char was refused, and is to be run again as a whole.
LEMMA FirstRefusedWrites ==
  ASSUME WriteInv, NEW k, WriteFirst(k), k = Again
  PROVE  WriteInv'
<1>1. /\ call.at = "char" /\ sink' \in Seq(Written) /\ buf' \in Seq(Written)
      /\ Len(buf') <= PortSize /\ (refused => refused') /\ refused' \in BOOLEAN
      /\ Stream' = Stream
  BY FirstStream
<1>2. call' = NoCall /\ UNCHANGED <<kind, open, wide, passed, gone, pend>>
  BY DEF WriteFirst
<1>3. WriteTypes'
  <2>1. NoCall \in [t : Users \cup {0}, at : {"none", "char", "tail", "string"},
                    str : Seq(Written), written : Nat, took : Nat]
    BY DEF NoCall
  <2>2. QED
    BY <1>1, <1>2, <2>1 DEF WriteInv, WriteTypes
<1>4. CallOK'
  BY <1>2 DEF CallOK, NoCall
<1>5. ASSUME NEW u \in Users PROVE Left(u)' = Left(u)
  <2>1. Left(u)' = Len(pend[u])
    BY <1>2 DEF Left, Calling, NoCall
  <2>2. call.t = u => Len(call.str) = Len(pend[u])
    BY <1>1 DEF WriteInv, CallOK
  <2>3. QED
    BY <2>1, <2>2 DEF Left, Calling
<1>6. Stays
  BY <1>1, <1>2, <1>5 DEF Stays
<1>7. QED
  BY <1>3, <1>4, <1>6, StaysWrites

\* A character of one byte is complete.
LEMMA FirstLastWrites ==
  ASSUME WriteInv, NEW k, WriteFirst(k), k # Again, Len(call.str) = 1
  PROVE  WriteInv'
<1>1. /\ call.at # "none" /\ sink' \in Seq(Written) /\ buf' \in Seq(Written)
      /\ Len(buf') <= PortSize /\ (refused => refused') /\ refused' \in BOOLEAN
      /\ Stream' = Stream \o SubSeq(call.str, 1, 1)
  BY FirstStream
<1>2. PICK t \in Users, e \in Seq(Written), m \in Nat :
        t = call.t /\ e = <<>> /\ m = 1 /\ LastOf(t, passed[t], <<>>) /\ Left(t) = 1
  <2>1. <<>> \in Seq(Written) /\ 1 \in Nat
    OBVIOUS
  <2>2. QED
    BY <1>1, <2>1, CallFacts
<1>3. /\ call' = NoCall /\ UNCHANGED <<kind, open, wide, passed, gone>>
      /\ pend' = [pend EXCEPT ![t] = e] /\ pend' \in [Users -> Seq(Written)]
  <2>1. pend \in [Users -> Seq(Written)]
    BY DEF WriteInv, WriteTypes
  <2>2. QED
    BY <1>2, <2>1 DEF WriteFirst, Finish
<1>4. WriteTypes'
  <2>1. NoCall \in [t : Users \cup {0}, at : {"none", "char", "tail", "string"},
                    str : Seq(Written), written : Nat, took : Nat]
    BY DEF NoCall
  <2>2. QED
    BY <1>1, <1>3, <2>1 DEF WriteInv, WriteTypes
<1>5. /\ Left(t)' = Len(e) /\ \A u \in Users : u # t => Left(u)' = Left(u)
      /\ CallOK'
  BY <1>1, <1>2, <1>3, CallEnds
<1>6. Moves(t, m, e, e)
  <2>1. Len(e) = 0 /\ Range(e) = {} /\ Run(t, Stored[t] + m, e)
    <3>1. Len(e) = 0 /\ DOMAIN e = {} /\ 1..0 = {}
      BY <1>2
    <3>2. Range(e) = {}
      BY <3>1, Zenon DEF Range
    <3>3. QED
      BY <3>1, <3>2 DEF Run
  <2>2. Left(t)' \in Nat /\ Left(t) = Left(t)' + (m + Len(e)) /\ m <= Len(call.str)
    BY <1>2, <1>5, <2>1
  <2>3. Len(e) <= Len(pend[t])
    BY <2>1, WriterFacts
  <2>4. gone' = gone \cup Range(e) /\ passed' = passed /\ open' = open /\ kind' = kind
    BY <1>3, <2>1
  <2>5. QED
    BY <1>1, <1>2, <1>3, <1>5, <2>1, <2>2, <2>3, <2>4 DEF Moves
<1>7. QED
  BY <1>1, <1>2, <1>4, <1>5, <1>6, CallMoves

\* The other bytes of a character follow.
LEMMA FirstGoesOnWrites ==
  ASSUME WriteInv, NEW k, WriteFirst(k), k # Again, Len(call.str) # 1
  PROVE  WriteInv'
<1>1. /\ call.at # "none" /\ sink' \in Seq(Written) /\ buf' \in Seq(Written)
      /\ Len(buf') <= PortSize /\ (refused => refused') /\ refused' \in BOOLEAN
      /\ Stream' = Stream \o SubSeq(call.str, 1, 1) /\ call.at = "char"
  BY FirstStream
<1>2. PICK t \in Users, c \in Seq(Written), e \in Seq(Written), pd \in Seq(Written),
           m \in Nat, l \in Nat :
        /\ t = call.t /\ c = call.str /\ e = <<>> /\ pd = pend[t] /\ m = 1 /\ l = Len(c)
        /\ c # <<>> /\ Left(t) = l /\ l <= Len(pd) /\ pd # <<>> /\ open
        /\ LastOf(t, passed[t], pd)
  <2>1. <<>> \in Seq(Written) /\ 1 \in Nat
    OBVIOUS
  <2>2. call.str # <<>>
    BY <1>1 DEF WriteInv, CallOK
  <2>3. call.t \in Users /\ LastOf(call.t, passed[call.t], pend[call.t])
    BY <1>1, CallFacts DEF WriteInv
  <2>4. QED
    BY <1>1, <2>1, <2>2, <2>3, CallFacts
<1>3. l > 1 /\ m <= Len(call.str)
  <2>1. l # 0 /\ l # 1 /\ l = Len(call.str)
    BY <1>2
  <2>2. \A n \in Nat : n # 0 /\ n # 1 => n > 1 /\ 1 <= n
    OBVIOUS
  <2>3. QED
    BY <1>2, <2>1, <2>2, Zenon
<1>4. PICK r \in Seq(Written) : r = Tail(c) /\ Len(r) = l - 1 /\ LastOf(t, passed[t], r)
  <2>1. /\ SubSeq(call.str, m + 1, Len(call.str)) \in Seq(Written)
        /\ Len(SubSeq(call.str, m + 1, Len(call.str))) = Len(call.str) - m
        /\ LastOf(call.t, passed[call.t], SubSeq(call.str, m + 1, Len(call.str)))
    BY <1>1, <1>3, CallFeeds
  <2>2. SubSeq(c, 2, l) = Tail(c)
    BY <1>2, <1>3
  <2>3. m + 1 = 2
    BY <1>2
  <2>4. QED
    BY <1>2, <2>1, <2>2, <2>3
<1>5. call' = [call EXCEPT !.at = "tail", !.str = r]
      /\ UNCHANGED <<kind, open, wide, passed, gone, pend>>
  BY <1>2, <1>4 DEF WriteFirst
<1>6. /\ call'.at = "tail" /\ call'.t = t /\ call'.str = r
      /\ call' \in [t : Users \cup {0}, at : {"none", "char", "tail", "string"},
                    str : Seq(Written), written : Nat, took : Nat]
  <2>1. call \in [t : Users \cup {0}, at : {"none", "char", "tail", "string"},
                  str : Seq(Written), written : Nat, took : Nat]
    BY DEF WriteInv, WriteTypes
  <2>2. QED
    BY <1>2, <1>5, <2>1
<1>7. WriteTypes'
  BY <1>1, <1>5, <1>6 DEF WriteInv, WriteTypes
<1>8. Left(t)' = Len(r) /\ \A u \in Users : u # t => Left(u)' = Left(u)
  <2>1. call'.at # "none" /\ pend' = pend
    BY <1>5, <1>6
  <2>2. QED
    BY <1>1, <1>2, <1>6, <2>1, CallGoesOn
<1>9. CallOK'
  <2>1. Len(r) <= Len(pend[t])
    BY <1>2, <1>4
  <2>2. LastOf(call'.t, passed'[call'.t], call'.str)
    BY <1>4, <1>5, <1>6
  <2>3. call'.at # "none" /\ call'.at # "char" /\ call'.at # "string" /\ open' /\ call'.t \in Users
    BY <1>2, <1>5, <1>6
  <2>4. QED
    BY <1>2, <1>5, <1>6, <2>1, <2>2, <2>3 DEF CallOK, LastOf, Run
<1>10. Moves(t, m, e, pd)
  <2>1. Len(e) = 0 /\ Range(e) = {} /\ Run(t, Stored[t] + m, e)
    <3>1. Len(e) = 0 /\ DOMAIN e = {} /\ 1..0 = {}
      BY <1>2
    <3>2. Range(e) = {}
      BY <3>1, Zenon DEF Range
    <3>3. QED
      BY <3>1, <3>2 DEF Run
  <2>2. Left(t)' \in Nat /\ Left(t) = Left(t)' + (m + Len(e))
    <3>1. l - 1 \in Nat /\ l = (l - 1) + (1 + 0)
      BY <1>3
    <3>2. QED
      BY <1>2, <1>4, <1>8, <2>1, <3>1, Zenon
  <2>3. pend' = [pend EXCEPT ![t] = pd] /\ Len(pd) <= Len(pend[t])
    <3>1. pend \in [Users -> Seq(Written)]
      BY DEF WriteInv, WriteTypes
    <3>2. QED
      BY <1>2, <1>5, <3>1
  <2>4. gone' = gone \cup Range(e) /\ passed' = passed /\ open' = open /\ kind' = kind
    BY <1>5, <2>1
  <2>5. Stream' = Stream \o SubSeq(call.str, 1, m)
    BY <1>1, <1>2
  <2>6. QED
    BY <1>1, <1>2, <1>3, <1>8, <2>1, <2>2, <2>3, <2>4, <2>5 DEF Moves
<1>11. QED
  BY <1>1, <1>2, <1>7, <1>9, <1>10, CallMoves

\* The first byte of write-char.
LEMMA WriteFirstWrites ==
  ASSUME WriteInv, NEW k, WriteFirst(k)
  PROVE  WriteInv'
BY FirstRefusedWrites, FirstLastWrites, FirstGoesOnWrites

\* Nothing of the output port changes.
LEMMA OthersWrite ==
  ASSUME WriteInv, UNCHANGED outvars
  PROVE  WriteInv'
<1>1. UNCHANGED <<kind, open, buf, sink, pend, wide, call, passed, gone, refused>>
  BY DEF outvars
<1>2. WriteTypes'
  BY <1>1 DEF WriteInv, WriteTypes
<1>3. CallOK'
  BY <1>1 DEF WriteInv, CallOK, LastOf, Run
<1>4. Stays
  BY <1>1 DEF Stays, Stream, Left, Calling
<1>5. QED
  BY <1>2, <1>3, <1>4, StaysWrites

\* What the functions that flush do to the stream.
LEMMA FlushStream ==
  ASSUME WriteInv, NEW k \in {Again} \cup 0..Len(buf)
  PROVE  /\ Flushed(buf, k) \in Seq(Written) /\ Sunk(buf, k) \in Seq(Written)
         /\ Sunk(buf, k) \o Flushed(buf, k) = Stream
         /\ Len(Flushed(buf, k)) <= PortSize
<1>1. PICK b \in Seq(Written), l \in Nat, size \in Nat :
        b = buf /\ l = Len(b) /\ size = PortSize /\ l <= size /\ sink \in Seq(Written)
  <2>1. buf \in Seq(Written) /\ sink \in Seq(Written) /\ Len(buf) <= PortSize
    BY DEF WriteInv, WriteTypes
  <2>2. Len(buf) \in Nat /\ PortSize \in Nat
    BY <2>1, PortsAssumption
  <2>3. QED
    BY <2>1, <2>2
<1>2. k \in {Again} \cup 0..Len(b)
  BY <1>1
<1>3. /\ Flushed(b, k) \in Seq(Written) /\ Sunk(b, k) \in Seq(Written)
      /\ Sunk(b, k) \o Flushed(b, k) = sink \o b
      /\ Len(Flushed(b, k)) = IF k = Again THEN Len(b) ELSE Len(b) - k
  BY <1>1, <1>2, Flushing
<1>4. Len(Flushed(b, k)) <= size
  BY <1>1, <1>2, <1>3 DEF Again
<1>5. QED
  BY <1>1, <1>3, <1>4 DEF Stream

\* flush-output.
LEMMA FlushOutputWrites ==
  ASSUME WriteInv, NEW k, FlushOutput(k)
  PROVE  WriteInv'
<1>1. /\ buf' = Flushed(buf, k) /\ sink' = Sunk(buf, k) /\ refused' = (refused \/ k = Again)
      /\ UNCHANGED <<kind, open, pend, wide, call, passed, gone>>
  BY DEF FlushOutput
<1>2. k \in {Again} \cup 0..Len(buf)
  <2>1. buf \in Seq(Written) /\ buf # <<>> /\ k \in Taken(Len(buf))
    BY DEF WriteInv, WriteTypes, FlushOutput
  <2>2. Len(buf) \in Nat \ {0}
    BY <2>1
  <2>3. QED
    BY <2>1, <2>2 DEF Taken, Again
<1>3. /\ buf' \in Seq(Written) /\ sink' \in Seq(Written) /\ Len(buf') <= PortSize
      /\ Stream' = Stream
  BY <1>1, <1>2, FlushStream DEF Stream
<1>4. WriteTypes'
  BY <1>1, <1>3 DEF WriteInv, WriteTypes
<1>5. CallOK'
  BY <1>1 DEF WriteInv, CallOK, LastOf, Run
<1>6. Stays
  BY <1>1, <1>3 DEF Stays, Left, Calling
<1>7. QED
  BY <1>4, <1>5, <1>6, StaysWrites

\* close-port.
LEMMA ClosePortWrites ==
  ASSUME WriteInv, NEW k, ClosePort(k)
  PROVE  WriteInv'
<1>1. /\ call = NoCall /\ open' = FALSE /\ sink' = Sunk(buf, k) /\ buf' = <<>>
      /\ gone' = gone \cup Range(Flushed(buf, k))
      /\ refused' = (refused \/ (kind = "fd" /\ Flushed(buf, k) # <<>>))
      /\ UNCHANGED <<kind, pend, wide, call, passed>> /\ open
  BY DEF ClosePort
<1>2. k \in {Again} \cup 0..Len(buf)
  <2>1. buf \in Seq(Written) /\ Len(buf) \in Nat
    BY DEF WriteInv, WriteTypes
  <2>2. CASE buf = <<>> \/ kind = "string"
    BY <2>1, <2>2 DEF ClosePort
  <2>3. CASE ~(buf = <<>> \/ kind = "string")
    <3>1. Len(buf) \in Nat \ {0} /\ k \in Taken(Len(buf))
      BY <2>1, <2>3 DEF ClosePort
    <3>2. QED
      BY <3>1 DEF Taken, Again
  <2>4. QED
    BY <2>2, <2>3
<1>3. PICK y \in Seq(Written), f \in Seq(Written) :
        /\ y = Sunk(buf, k) /\ f = Flushed(buf, k) /\ y \o f = Stream
  BY <1>2, FlushStream
<1>4. Stream' = y /\ Stored' = Stored /\ Len(buf') = 0 /\ buf' \in Seq(Written)
  <2>1. y \o <<>> = y
    BY ConcatNone
  <2>2. Stored' = Stored
    BY <1>1 DEF Stored, Left, Calling
  <2>3. QED
    BY <1>1, <1>3, <2>1, <2>2 DEF Stream
<1>5. PICK st \in [Users -> Nat] : st = Stored /\ StreamHas(y \o f, st, gone)
  BY <1>3, WriteFacts
<1>6. StreamHas(y, st, gone \cup Range(f))
  BY <1>5, Drop, Zenon
<1>7. StreamHas(Stream, Stored, gone)'
  <2>1. StreamHas(y, Stored, gone \cup Range(f))
    BY <1>5, <1>6
  <2>2. gone' = gone \cup Range(f)
    BY <1>1, <1>3
  <2>3. QED
    BY <1>4, <2>1, <2>2 DEF StreamHas
<1>8. ASSUME NEW x \in Range(f) PROVE x \in Written /\ x[2] \in 1..(passed[x[1]] - Len(pend[x[1]]))
  <2>1. PICK j \in DOMAIN f : x = f[j]
    BY Zenon DEF Range
  <2>2. PICK a \in Seq(Written) : a = y \o f /\ IsJoin(Written, a, y, f)
    <3>1. IsJoin(Written, y \o f, y, f)
      BY Joined, Zenon
    <3>2. y \o f \in Seq(Written)
      BY <3>1 DEF IsJoin
    <3>3. QED
      BY <3>1, <3>2
  <2>3. PICK i \in 1..Len(a) : a[i] = x
    <3>1. PICK n \in Nat, m \in Nat : n = Len(y) /\ m = Len(f)
      OBVIOUS
    <3>2. j \in 1..m /\ j \in Nat
      BY <2>1, <3>1
    <3>3. n + j \in 1..(n + m) /\ ~(n + j <= n) /\ (n + j) - n = j
      BY <3>2
    <3>4. a[n + j] = f[j] /\ Len(a) = n + m
      BY <2>2, <3>1, <3>3 DEF IsJoin
    <3>5. QED
      BY <2>1, <3>3, <3>4
  <2>4. x \in Written /\ x[2] \in 1..Stored[x[1]]
    <3>1. a[i] \in Written
      OBVIOUS
    <3>2. a[i][2] \in 1..st[a[i][1]]
      BY <1>5, <2>2, <2>3 DEF StreamHas
    <3>3. QED
      BY <1>5, <2>3, <3>1, <3>2
  <2>5. x[1] \in Users
    BY <2>4 DEF Written
  <2>6. Stored[x[1]] = passed[x[1]] - Len(pend[x[1]])
    BY <1>1, <2>5 DEF Stored, Left, Calling, NoCall
  <2>7. QED
    BY <2>4, <2>6
<1>9. GoneIn(gone, pend)'
  <2>1. \A x \in gone : x[2] \in 1..(passed[x[1]] - Len(pend[x[1]]))
    BY DEF WriteInv, GoneIn
  <2>2. gone' = gone \cup Range(f) /\ passed' = passed /\ pend' = pend
    BY <1>1, <1>3
  <2>3. \A x \in gone' : x[2] \in 1..(passed'[x[1]] - Len(pend'[x[1]]))
    BY <1>8, <2>1, <2>2, Zenon
  <2>4. QED
    BY <2>3, Zenon DEF GoneIn
<1>10. WriteTypes'
  <2>1. gone' \subseteq Written
    <3>1. gone \subseteq Written
      BY DEF WriteInv, WriteTypes
    <3>2. QED
      BY <1>1, <1>3, <1>8, <3>1, Zenon
  <2>2. sink' \in Seq(Written) /\ Len(buf') <= PortSize
    BY <1>1, <1>3, <1>4, PortsAssumption
  <2>3. refused' \in BOOLEAN
    BY <1>1
  <2>4. QED
    BY <1>1, <1>4, <2>1, <2>2, <2>3 DEF WriteInv, WriteTypes
<1>11. \A t \in Users : LastOf(t, passed[t], pend[t])'
  BY <1>1 DEF WriteInv, LastOf, Run
<1>12. CallOK' /\ LossKnown'
  <2>1. CallOK'
    BY <1>1 DEF CallOK, NoCall
  <2>2. kind \in {"fd", "string"}
    BY <1>1 DEF WriteInv, WriteTypes
  <2>3. CASE f = <<>>
    <3>1. DOMAIN f = {}
      BY <2>3
    <3>2. Range(f) = {}
      BY <3>1, Zenon DEF Range
    <3>3. gone' = gone
      BY <1>1, <1>3, <3>2
    <3>4. QED
      BY <1>1, <2>1, <3>3 DEF WriteInv, LossKnown
  <2>4. CASE f # <<>>
    BY <1>1, <1>3, <2>1, <2>2, <2>4 DEF LossKnown
  <2>5. QED
    BY <2>3, <2>4
<1>13. QED
  BY <1>7, <1>9, <1>10, <1>11, <1>12 DEF WriteInv

\* A thread comes to a write instruction: its bytes follow those it has begun
\* to write before, and the instruction that is executed is another's.
LEMMA WriteWrites ==
  ASSUME WriteInv, NEW t \in Users, NEW n \in Nat, NEW charp \in BOOLEAN, Write(t, n, charp)
  PROVE  WriteInv'
<1>1. PICK a \in Nat : a = passed[t] /\ a + n \in Nat
  BY WriterFacts
<1>2. PICK s : s = [k \in 1..n |-> <<t, a + k>>]
  OBVIOUS
<1>3. /\ pend[t] = <<>> /\ open /\ pend' = [pend EXCEPT ![t] = s]
      /\ wide' = [wide EXCEPT ![t] = charp] /\ passed' = [passed EXCEPT ![t] = a + n]
      /\ UNCHANGED <<kind, open, buf, sink, call, gone, refused>>
  BY <1>1, <1>2 DEF Write
<1>4. s \in Seq(Written) /\ Len(s) = n
  <2>1. \A k \in 1..n : <<t, a + k>> \in Written
    BY DEF Written
  <2>2. s \in [1..n -> Written]
    BY <1>2, <2>1
  <2>3. \A m \in Nat : \A f \in [1..m -> Written] : f \in Seq(Written) /\ Len(f) = m
    OBVIOUS
  <2>4. QED
    BY <2>2, <2>3, Zenon
<1>5. LastOf(t, a + n, s)
  <2>1. (a + n) - n = a /\ n <= a + n
    OBVIOUS
  <2>2. \A k \in 1..n : s[k] = <<t, a + k>>
    BY <1>2
  <2>3. QED
    BY <1>4, <2>1, <2>2 DEF LastOf, Run
<1>6. WriteTypes'
  BY <1>1, <1>3, <1>4 DEF WriteInv, WriteTypes
<1>7. /\ pend'[t] = s /\ passed'[t] = a + n
      /\ \A u \in Users : u # t => pend'[u] = pend[u] /\ passed'[u] = passed[u]
  BY <1>3 DEF WriteInv, WriteTypes
<1>8. call.at # "none" => call.t # t
  BY <1>3 DEF WriteInv, CallOK
<1>9. CallOK'
  <2>1. CASE call.at = "none"
    BY <1>3, <2>1 DEF WriteInv, CallOK, NoCall
  <2>2. CASE call.at # "none"
    <3>1. PICK u \in Users : u = call.t /\ u # t
      BY <1>8, <2>2, CallFacts
    <3>2. pend'[u] = pend[u] /\ passed'[u] = passed[u] /\ call' = call /\ open' = open
      BY <1>3, <1>7, <3>1
    <3>3. QED
      BY <2>2, <3>1, <3>2 DEF WriteInv, CallOK, LastOf, Run
  <2>3. QED
    BY <2>1, <2>2
<1>10. ASSUME NEW u \in Users
       PROVE  /\ LastOf(u, passed[u], pend[u])'
              /\ passed'[u] - Left(u)' = passed[u] - Left(u)
              /\ passed'[u] - Len(pend'[u]) = passed[u] - Len(pend[u])
  <2>1. CASE u # t
    <3>1. pend'[u] = pend[u] /\ passed'[u] = passed[u] /\ call' = call
      BY <1>3, <1>7, <2>1
    <3>2. Left(u)' = Left(u)
      BY <3>1 DEF Left, Calling
    <3>3. LastOf(u, passed[u], pend[u])
      BY DEF WriteInv
    <3>4. QED
      BY <3>1, <3>2, <3>3 DEF LastOf, Run
  <2>2. CASE u = t
    <3>1. Left(t) = 0 /\ Len(pend[t]) = 0
      BY <1>3, <1>8 DEF Left, Calling
    <3>2. Left(t)' = n /\ Len(pend'[t]) = n
      BY <1>3, <1>4, <1>7, <1>8 DEF Left, Calling
    <3>3. (a + n) - n = a - 0
      OBVIOUS
    <3>4. LastOf(t, passed[t], pend[t])'
      BY <1>5, <1>7 DEF LastOf, Run
    <3>5. QED
      BY <1>1, <1>7, <2>2, <3>1, <3>2, <3>3, <3>4
  <2>3. QED
    BY <2>1, <2>2
<1>11. Stored' = Stored
  BY <1>10, Zenon DEF Stored
<1>12. StreamHas(Stream, Stored, gone)'
  <2>1. StreamHas(Stream, Stored, gone) /\ Stream' = Stream /\ gone' = gone
    BY <1>3 DEF WriteInv, Stream
  <2>2. QED
    BY <1>11, <2>1 DEF StreamHas
<1>13. GoneIn(gone, pend)'
  <2>1. ASSUME NEW x \in gone PROVE x[2] \in 1..(passed'[x[1]] - Len(pend'[x[1]]))
    <3>1. x[1] \in Users
      BY DEF WriteInv, WriteTypes, Written
    <3>2. x[2] \in 1..(passed[x[1]] - Len(pend[x[1]]))
      BY DEF WriteInv, GoneIn
    <3>3. QED
      BY <1>10, <3>1, <3>2
  <2>2. QED
    BY <1>3, <2>1, Zenon DEF GoneIn
<1>14. LossKnown'
  BY <1>3 DEF WriteInv, LossKnown
<1>15. QED
  BY <1>6, <1>9, <1>10, <1>12, <1>13, <1>14 DEF WriteInv

\* An instruction begins, or is tried again.
LEMMA TryOpenWrites ==
  ASSUME WriteInv, NEW t \in Users, Try(t), open
  PROVE  WriteInv'
<1>1. PICK at \in {"char", "string"} :
        /\ call = NoCall /\ pend[t] # <<>>
        /\ call' = [NoCall EXCEPT !.t = t, !.str = pend[t], !.at = at]
        /\ UNCHANGED <<kind, open, buf, sink, wide, passed, refused, pend, gone>>
  BY DEF Try
<1>2. PICK s \in Seq(Written) : s = pend[t] /\ LastOf(t, passed[t], s) /\ Len(s) \in Nat
  BY WriterFacts
<1>3. call' = [t |-> t, at |-> at, str |-> s, written |-> 0, took |-> 0]
  BY <1>1, <1>2 DEF NoCall
<1>4. WriteTypes'
  <2>1. call' \in [t : Users \cup {0}, at : {"none", "char", "tail", "string"},
                   str : Seq(Written), written : Nat, took : Nat]
    BY <1>3
  <2>2. QED
    BY <1>1, <2>1 DEF WriteInv, WriteTypes
<1>5. CallOK'
  <2>1. 0 = Len(s) - Len(s)
    BY <1>2
  <2>2. LastOf(t, passed'[t], s) /\ pend'[t] = s /\ s # <<>> /\ open' /\ Len(s) <= Len(s)
    BY <1>1, <1>2
  <2>3. /\ call'.t = t /\ call'.str = s /\ call'.at = at /\ call'.took = 0 /\ call'.written = 0
        /\ at # "none"
    BY <1>3
  <2>4. QED
    BY <2>1, <2>2, <2>3 DEF CallOK, LastOf, Run
<1>6. \A u \in Users : Left(u)' = Left(u)
  BY <1>1, <1>2, <1>3 DEF Left, Calling, NoCall
<1>7. Stays
  BY <1>1, <1>6 DEF Stays, Stream
<1>8. QED
  BY <1>4, <1>5, <1>7, StaysWrites

\* The port was closed, and the instruction raises: what is left of it is not
\* among the bytes to be written.
LEMMA TryClosedWrites ==
  ASSUME WriteInv, NEW t \in Users, Try(t), ~open
  PROVE  WriteInv'
<1>1. PICK s \in Seq(Written), a \in Nat, l \in Nat, z \in Nat :
        s = pend[t] /\ a = passed[t] /\ l = Len(s) /\ z = a - l /\ l <= a
  <2>1. PICK s \in Seq(Written), a \in Nat :
          s = pend[t] /\ a = passed[t] /\ LastOf(t, a, s)
    BY WriterFacts
  <2>2. PICK l \in Nat : l = Len(s) /\ l <= a
    BY <2>1 DEF LastOf
  <2>3. a - l \in Nat
    BY <2>2
  <2>4. QED
    BY <2>1, <2>2, <2>3
<1>2. PICK e \in Seq(Written) : e = <<>> /\ Len(e) = 0
  <2>1. <<>> \in Seq(Written) /\ Len(<<>>) = 0
    OBVIOUS
  <2>2. QED
    BY <2>1
<1>3. /\ call = NoCall /\ call' = call /\ pend' = [pend EXCEPT ![t] = e]
      /\ passed' = [passed EXCEPT ![t] = @ - Len(pend[t])]
      /\ UNCHANGED <<kind, open, buf, sink, wide, gone, refused>>
  BY <1>1, <1>2 DEF Try
<1>4. /\ pend'[t] = e /\ pend' \in [Users -> Seq(Written)]
      /\ \A u \in Users : u # t => pend'[u] = pend[u]
  BY <1>3 DEF WriteInv, WriteTypes
<1>5. /\ passed'[t] = z /\ passed' \in [Users -> Nat]
      /\ \A u \in Users : u # t => passed'[u] = passed[u]
  <2>1. passed \in [Users -> Nat] /\ passed' = [passed EXCEPT ![t] = z]
    BY <1>1, <1>3 DEF WriteInv, WriteTypes
  <2>2. QED
    BY <2>1
<1>6. \A u \in Users : passed'[u] - Len(pend'[u]) = passed[u] - Len(pend[u])
  <2>1. z - 0 = a - l
    BY <1>1
  <2>2. passed'[t] - Len(pend'[t]) = passed[t] - Len(pend[t])
    BY <1>1, <1>2, <1>4, <1>5, <2>1
  <2>3. QED
    BY <1>4, <1>5, <2>2
<1>7. Stored' = Stored /\ Stream' = Stream /\ CallOK'
  <2>1. \A u \in Users : Left(u) = Len(pend[u]) /\ Left(u)' = Len(pend'[u])
    BY <1>3 DEF Left, Calling, NoCall
  <2>2. Stored' = Stored
    BY <1>6, <2>1 DEF Stored
  <2>3. QED
    BY <1>3, <2>2 DEF CallOK, NoCall, Stream
<1>8. StreamHas(Stream, Stored, gone)'
  <2>1. StreamHas(Stream, Stored, gone)
    BY DEF WriteInv
  <2>2. QED
    BY <1>3, <1>7, <2>1 DEF StreamHas
<1>9. GoneIn(gone, pend)'
  <2>1. ASSUME NEW x \in gone PROVE x[2] \in 1..(passed'[x[1]] - Len(pend'[x[1]]))
    <3>1. x[2] \in 1..(passed[x[1]] - Len(pend[x[1]])) /\ x[1] \in Users
      BY <2>1 DEF WriteInv, GoneIn, WriteTypes, Written
    <3>2. QED
      BY <1>6, <3>1
  <2>2. QED
    BY <1>3, <2>1, Zenon DEF GoneIn
<1>10. WriteTypes'
  BY <1>3, <1>4, <1>5 DEF WriteInv, WriteTypes
<1>11. ASSUME NEW u \in Users PROVE LastOf(u, passed[u], pend[u])'
  <2>1. CASE u # t
    <3>1. LastOf(u, passed[u], pend[u]) /\ passed'[u] = passed[u] /\ pend'[u] = pend[u]
      BY <1>4, <1>5, <2>1 DEF WriteInv
    <3>2. QED
      BY <3>1 DEF LastOf, Run
  <2>2. CASE u = t
    <3>1. LastOf(t, z, e)
      BY <1>2 DEF LastOf, Run
    <3>2. QED
      BY <1>4, <1>5, <2>2, <3>1 DEF LastOf, Run
  <2>3. QED
    BY <2>1, <2>2
<1>12. LossKnown'
  BY <1>3 DEF WriteInv, LossKnown
<1>13. QED
  BY <1>7, <1>8, <1>9, <1>10, <1>11, <1>12 DEF WriteInv

\* At first nothing was written.
LEMMA InitWrites ==
  ASSUME PortInit
  PROVE  WriteInv
<1>1. PICK k \in {"fd", "string", "input"} : Opened(k)
  BY DEF PortInit
<1>2. /\ kind = k /\ open = (k # "input") /\ buf = <<>> /\ sink = <<>>
      /\ pend = [t \in Users |-> <<>>] /\ wide = [t \in Users |-> FALSE]
      /\ call = NoCall /\ passed = [t \in Users |-> 0] /\ gone = {} /\ refused = FALSE
  BY <1>1 DEF Opened
<1>3. WriteTypes
  <2>1. NoCall \in [t : Users \cup {0}, at : {"none", "char", "tail", "string"},
                    str : Seq(Written), written : Nat, took : Nat]
    BY DEF NoCall
  <2>2. Len(buf) <= PortSize
    BY <1>2, PortsAssumption
  <2>3. <<>> \in Seq(Written)
    OBVIOUS
  <2>4. /\ pend \in [Users -> Seq(Written)] /\ passed \in [Users -> Nat]
        /\ wide \in [Users -> BOOLEAN]
    BY <1>2, <2>3
  <2>5. /\ kind \in {"fd", "string", "input"} /\ open \in BOOLEAN /\ refused \in BOOLEAN
        /\ gone \subseteq Written
    BY <1>2
  <2>6. QED
    BY <1>2, <2>1, <2>2, <2>3, <2>4, <2>5 DEF WriteTypes
<1>4. ASSUME NEW t \in Users
      PROVE  LastOf(t, passed[t], pend[t]) /\ Stored[t] = 0
  <2>1. passed[t] = 0 /\ pend[t] = <<>>
    BY <1>2
  <2>2. QED
    BY <1>2, <2>1 DEF LastOf, Run, Stored, Left, Calling, NoCall
<1>5. CallOK
  BY <1>2 DEF CallOK, NoCall
<1>6. StreamHas(Stream, Stored, gone)
  <2>1. Len(Stream) = 0
    BY <1>2 DEF Stream
  <2>2. \A t \in Users : Stored[t] = 0
    BY <1>4
  <2>3. QED
    BY <2>1, <2>2 DEF StreamHas
<1>7. GoneIn(gone, pend) /\ LossKnown
  BY <1>2 DEF GoneIn, LossKnown
<1>8. QED
  BY <1>3, <1>4, <1>5, <1>6, <1>7 DEF WriteInv

\* Every step keeps the writing in order.
LEMMA StepWrites ==
  ASSUME WriteInv, [PortNext]_portvars
  PROVE  WriteInv'
<1>1. CASE UNCHANGED portvars
  BY <1>1, OthersWrite DEF portvars
<1>2. CASE PortNext
  <2>1. ASSUME NEW t \in Users, NEW n \in 1..MaxString, Write(t, n, FALSE)
        PROVE  WriteInv'
    <3>1. n \in Nat
      BY PortsAssumption
    <3>2. QED
      BY <2>1, <3>1, WriteWrites
  <2>2. ASSUME NEW t \in Users, NEW n \in 1..MaxWidth, Write(t, n, TRUE)
        PROVE  WriteInv'
    <3>1. n \in Nat
      BY PortsAssumption
    <3>2. QED
      BY <2>2, <3>1, WriteWrites
  <2>3. ASSUME NEW t \in Users, Try(t)
        PROVE  WriteInv'
    BY <2>3, TryOpenWrites, TryClosedWrites
  <2>4. ASSUME NEW op, Ask(op)
        PROVE  WriteInv'
    BY <2>4, OthersWrite DEF Ask
  <2>5. ASSUME NEW k, WriteFirst(k) \/ FillAndFlush(k) \/ FlushOutput(k) \/ ClosePort(k)
        PROVE  WriteInv'
    BY <2>5, WriteFirstWrites, FillAndFlushWrites, FlushOutputWrites, ClosePortWrites
  <2>6. ASSUME NEW k, FillBuffer(k)
        PROVE  WriteInv'
    BY <2>6, OthersWrite DEF FillBuffer
  <2>7. CASE CopyRest
    BY <2>7, CopyRestWrites
  <2>8. CASE TakeByte
    BY <2>8, OthersWrite DEF TakeByte
  <2>9. QED
    BY <1>2, <2>1, <2>2, <2>3, <2>4, <2>5, <2>6, <2>7, <2>8 DEF PortNext
<1>3. QED
  BY <1>1, <1>2

\* Only a descriptor refuses.
RefusedByFd == refused => kind = "fd"

LEMMA StepRefuses ==
  ASSUME WriteInv, RefusedByFd, [PortNext]_portvars
  PROVE  RefusedByFd'
<1>1. buf \in Seq(Written) /\ Len(buf) \in Nat /\ kind \in {"fd", "string", "input"}
  BY DEF WriteInv, WriteTypes
<1>2. ASSUME NEW n \in Nat, Again \in Taken(n), open PROVE kind = "fd"
  BY <1>1, <1>2 DEF Taken, Again, WriteInv, WriteTypes
<1>3. call.at # "none" => open
  BY DEF WriteInv, CallOK
<1>4. ASSUME NEW k, WriteFirst(k) PROVE RefusedByFd'
  <2>1. refused' = refused \/ (refused' = (refused \/ k = Again) /\ k \in Taken(Len(buf)))
    BY <1>4 DEF WriteFirst
  <2>2. kind' = kind /\ open
    BY <1>3, <1>4 DEF WriteFirst
  <2>3. QED
    BY <1>1, <1>2, <2>1, <2>2 DEF RefusedByFd
<1>5. ASSUME NEW k, FillAndFlush(k) PROVE RefusedByFd'
  <2>1. PICK n \in Nat : Copies(n) /\ Turn(n, k)
    BY <1>5, TurnParts
  <2>2. call.at # "none" /\ kind' = kind /\ refused' = (refused \/ k = Again)
        /\ k \in Taken(Len(buf \o SubSeq(call.str, 1, n)))
    BY <2>1 DEF Turn
  <2>3. Len(buf \o SubSeq(call.str, 1, n)) \in Nat
    <3>1. call.str \in Seq(Written) /\ n <= Len(call.str)
      BY <2>1, <2>2, CallFacts DEF Copies
    <3>2. SubSeq(call.str, 1, n) \in Seq(Written)
      BY <3>1
    <3>3. buf \o SubSeq(call.str, 1, n) \in Seq(Written)
      BY <1>1, <3>2, ConcatCells
    <3>4. QED
      BY <3>3
  <2>4. QED
    BY <1>2, <1>3, <2>2, <2>3 DEF RefusedByFd
<1>6. ASSUME NEW k, FlushOutput(k) PROVE RefusedByFd'
  BY <1>1, <1>2, <1>6 DEF FlushOutput, RefusedByFd
<1>7. ASSUME NEW k, ClosePort(k) PROVE RefusedByFd'
  BY <1>7 DEF ClosePort, RefusedByFd
<1>8. ASSUME UNCHANGED <<kind, refused>> PROVE RefusedByFd'
  BY <1>8 DEF RefusedByFd
<1>9. ASSUME NEW t \in Users, (\E n, c : Write(t, n, c)) \/ Try(t) PROVE UNCHANGED <<kind, refused>>
  BY <1>9 DEF Write, Try
<1>10. ASSUME NEW k, FillBuffer(k) PROVE UNCHANGED <<kind, refused>>
  BY <1>10 DEF FillBuffer, outvars
<1>11. ASSUME NEW op, Ask(op) PROVE UNCHANGED <<kind, refused>>
  BY <1>11 DEF Ask, outvars
<1>12. CASE CopyRest \/ TakeByte \/ UNCHANGED portvars
  BY <1>8, <1>12 DEF CopyRest, TakeByte, portvars, outvars
<1>13. CASE PortNext
  BY <1>4, <1>5, <1>6, <1>7, <1>8, <1>9, <1>10, <1>11, <1>12, <1>13 DEF PortNext
<1>14. QED
  BY <1>12, <1>13

\* What the invariant says between two instructions: the stream has what was
\* written and is not gone, in order.
LEMMA WriteInvWrites ==
  ASSUME WriteInv, RefusedByFd
  PROVE  PortWrites
<1>1. PICK s \in Seq(Written) : s = sink \o buf /\ StreamHas(s, Stored, gone)
  BY WriteFacts DEF Stream
<1>. DEFINE done(t) == passed[t] - Len(pend[t])
            written == UNION {{<<t, k>> : k \in 1..done(t)} : t \in Users}
<1>2. ASSUME call = NoCall
      PROVE  /\ Range(s) = written \ gone
             /\ \A i, j \in 1..Len(s) : i < j /\ s[i][1] = s[j][1] => s[i][2] < s[j][2]
  <2>1. \A t \in Users : Stored[t] = done(t)
    BY <1>2 DEF Stored, Left, Calling, NoCall
  <2>. HIDE DEF done
  <2>2. ASSUME NEW x \in Range(s) PROVE x \in written \ gone
    <3>1. PICK i \in DOMAIN s : x = s[i]
      BY Zenon DEF Range
    <3>2. i \in 1..Len(s) /\ s[i] \in Written
      BY <3>1
    <3>3. s[i][2] \in 1..Stored[s[i][1]] /\ s[i] \notin gone
      BY <1>1, <3>2 DEF StreamHas
    <3>4. PICK t \in Users, k \in Nat : x = <<t, k>> /\ x[1] = t /\ x[2] = k
      BY <3>1, <3>2 DEF Written
    <3>5. k \in 1..done(t) /\ x \notin gone
      BY <2>1, <3>1, <3>3, <3>4
    <3>6. x \in {<<t, j>> : j \in 1..done(t)}
      BY <3>4, <3>5
    <3>7. QED
      BY <3>5, <3>6, Zenon
  <2>3. ASSUME NEW x \in written \ gone PROVE x \in Range(s)
    <3>1. PICK t \in Users : x \in {<<t, k>> : k \in 1..done(t)}
      BY Zenon
    <3>2. PICK k \in 1..done(t) : x = <<t, k>>
      BY <3>1
    <3>3. k \in 1..Stored[t]
      BY <2>1, <3>2
    <3>4. PICK i \in 1..Len(s) : s[i] = <<t, k>>
      BY <1>1, <3>2, <3>3 DEF StreamHas
    <3>5. i \in DOMAIN s
      OBVIOUS
    <3>6. QED
      BY <3>2, <3>4, <3>5, Zenon DEF Range
  <2>4. \A i, j \in 1..Len(s) : i < j /\ s[i][1] = s[j][1] => s[i][2] < s[j][2]
    BY <1>1 DEF StreamHas
  <2>5. QED
    BY <2>2, <2>3, <2>4, Zenon
<1>3. WritesDelivered
  BY <1>1, <1>2, Zenon DEF WritesDelivered
<1>4. LossNeedsRefusal
  BY DEF WriteInv, LossKnown, LossNeedsRefusal, RefusedByFd
<1>5. QED
  BY <1>3, <1>4 DEF PortWrites

\* However the writes of the system are cut short or refused and however the
\* turns of the threads fall, the bytes of finished write instructions are in
\* the file and the buffer, once and in the order of their thread, except
\* those counted as gone: nothing is gone from a descriptor's port unless a
\* write was refused or the last one cut short, nor from a string port that
\* is open.
THEOREM WritesAlwaysDelivered == PortSpec => []PortWrites
<1>1. PortInit => WriteInv /\ RefusedByFd
  BY InitWrites DEF PortInit, Opened, RefusedByFd
<1>2. WriteInv /\ RefusedByFd /\ [PortNext]_portvars => (WriteInv /\ RefusedByFd)'
  BY StepWrites, StepRefuses
<1>3. WriteInv /\ RefusedByFd => PortWrites
  BY WriteInvWrites
<1>4. QED
  BY <1>1, <1>2, <1>3, PTL DEF PortSpec


-----------------------------------------------------------------------------
(***************************************************************************)
(* Strings                                                                 *)
(***************************************************************************)
Points == {c \in Nat : c \div 65536 < 17}
Bytes == 0..255
Width(c) == utf8_char_byte_count(c)
Code(c) == utf8_encode_char(c)

-----------------------------------------------------------------------------
(* One character.                                                          *)

\* The number of bytes of a character, by its code point.
LEMMA Widths ==
  ASSUME NEW c \in Points
  PROVE  /\ Width(c) \in 1..4
         /\ c < 128 <=> Width(c) = 1
         /\ (c >= 128 /\ c < 2048) <=> Width(c) = 2
         /\ (c >= 2048 /\ c < 65536) <=> Width(c) = 3
         /\ c >= 65536 <=> Width(c) = 4
BY SMTT(30) DEF Points, Width, utf8_char_byte_count

\* A continuation byte has six bits.
LEMMA MoreByte ==
  ASSUME NEW c \in Nat, NEW shift \in {1, 64, 4096}
  PROVE  /\ More(c, shift) \in 128..191 /\ More(c, shift) \in Bytes
         /\ More(c, shift) \div 64 = 2
         /\ More(c, shift) % 64 = (c \div shift) % 64
<1>1. PICK x : x = c \div shift
  OBVIOUS
<1>2. x \in Nat
  BY <1>1
<1>3. x % 64 \in 0..63
  BY <1>2
<1>4. PICK r \in 0..63 : r = x % 64
  BY <1>3
<1>5. (128 + r) \div 64 = 2 /\ (128 + r) % 64 = r
  BY <1>4
<1>6. More(c, shift) = 128 + r
  BY <1>1, <1>4 DEF More
<1>7. QED
  BY <1>1, <1>4, <1>5, <1>6 DEF Bytes

\* The bytes of a character of each width.
LEMMA Codes ==
  ASSUME NEW c \in Points
  PROVE  /\ Width(c) = 1 => Code(c) = <<c>>
         /\ Width(c) = 2 => Code(c) = <<192 + c \div 64, More(c, 1)>>
         /\ Width(c) = 3 => Code(c) = <<224 + c \div 4096, More(c, 64), More(c, 1)>>
         /\ Width(c) = 4 => Code(c) = <<240 + (c \div 4096) \div 64, More(c, 4096), More(c, 64), More(c, 1)>>
<1>1. Width(c) \in 1..4
  BY Widths, SMTT(30)
<1>2. QED
  BY <1>1, SMTT(30) DEF Code, Width, utf8_encode_char

\* The first byte tells the width, and no other byte looks like a first one.
LEMMA CodeBytes ==
  ASSUME NEW c \in Points
  PROVE  /\ Width(c) \in 1..4 /\ Code(c) \in Seq(Bytes) /\ Len(Code(c)) = Width(c)
         /\ utf8_initial_byte_count(Code(c)[1]) = Width(c)
         /\ Code(c)[1] \div 64 # 2
         /\ \A k \in 2..Width(c) : Code(c)[k] \in 128..191 /\ Code(c)[k] \div 64 = 2
         /\ Width(c) = 1 => Code(c)[1] = c
         /\ Width(c) # 1 => Code(c)[1] \in 192..255
<1>1. Width(c) \in 1..4
  BY Widths, SMTT(30)
<1>2. More(c, 1) \in 128..191 /\ More(c, 1) \in Bytes /\ More(c, 1) \div 64 = 2
  BY MoreByte, SMTT(30) DEF Points
<1>3. More(c, 64) \in 128..191 /\ More(c, 64) \in Bytes /\ More(c, 64) \div 64 = 2
  BY MoreByte, SMTT(30) DEF Points
<1>4. More(c, 4096) \in 128..191 /\ More(c, 4096) \in Bytes /\ More(c, 4096) \div 64 = 2
  BY MoreByte, SMTT(30) DEF Points
<1>5. CASE Width(c) = 1
  <2>1. Code(c) = <<c>> /\ c \in 0..127
    BY <1>5, Codes, Widths, SMTT(30) DEF Points
  <2>2. c \div 64 # 2 /\ utf8_initial_byte_count(c) = 1 /\ c \in Bytes
    BY <2>1 DEF utf8_initial_byte_count, Bytes
  <2>3. QED
    BY <1>5, <2>1, <2>2
<1>6. CASE Width(c) = 2
  <2>1. PICK b : b = 192 + c \div 64
    OBVIOUS
  <2>2. c \in 128..2047
    BY <1>6, Widths, SMTT(30) DEF Points
  <2>3. b \in 192..223
    BY <2>1, <2>2, SMTT(30)
  <2>4. b \div 64 # 2 /\ utf8_initial_byte_count(b) = 2 /\ b \in Bytes /\ b \in 192..255
    BY <2>3 DEF utf8_initial_byte_count, Bytes
  <2>5. Code(c) = <<b, More(c, 1)>>
    BY <1>6, <2>1, Codes, SMTT(30)
  <2>6. QED
    BY <1>2, <1>6, <2>4, <2>5
<1>7. CASE Width(c) = 3
  <2>1. PICK b : b = 224 + c \div 4096
    OBVIOUS
  <2>2. c \in Nat /\ c >= 2048 /\ c < 65536
    BY <1>7, Widths, SMTT(30) DEF Points
  <2>3. b \in 224..239
    BY <2>1, <2>2, SMTT(30)
  <2>4. b \div 64 # 2 /\ utf8_initial_byte_count(b) = 3 /\ b \in Bytes /\ b \in 192..255
    BY <2>3 DEF utf8_initial_byte_count, Bytes
  <2>5. Code(c) = <<b, More(c, 64), More(c, 1)>>
    BY <1>7, <2>1, Codes, SMTT(30)
  <2>6. QED
    BY <1>2, <1>3, <1>7, <2>4, <2>5
<1>8. CASE Width(c) = 4
  <2>1. PICK b : b = 240 + (c \div 4096) \div 64
    OBVIOUS
  <2>2. c \in Nat /\ c >= 65536 /\ c \div 65536 < 17
    BY <1>8, Widths, SMTT(30) DEF Points
  <2>3. b \in 240..244
    BY <2>1, <2>2, SMTT(30)
  <2>4. b \div 64 # 2 /\ utf8_initial_byte_count(b) = 4 /\ b \in Bytes /\ b \in 192..255
    BY <2>3 DEF utf8_initial_byte_count, Bytes
  <2>5. Code(c) = <<b, More(c, 4096), More(c, 64), More(c, 1)>>
    BY <1>8, <2>1, Codes, SMTT(30)
  <2>6. QED
    BY <1>2, <1>3, <1>4, <1>8, <2>4, <2>5
<1>9. QED
  BY <1>1, <1>5, <1>6, <1>7, <1>8

\* The six bits a continuation byte brings.
LEMMA LowBits ==
  ASSUME NEW c \in Nat
  PROVE  /\ More(c, 1) \in Nat /\ More(c, 1) % 64 = c % 64
         /\ More(c, 64) \in Nat /\ More(c, 64) % 64 = (c \div 64) % 64
         /\ More(c, 4096) \in Nat /\ More(c, 4096) % 64 = (c \div 4096) % 64
<1>1. More(c, 1) \in Nat /\ More(c, 1) % 64 = c % 64
  <2>1. PICK r : r = c % 64
    OBVIOUS
  <2>2. r \in 0..63
    BY <2>1
  <2>3. c \div 1 = c
    OBVIOUS
  <2>4. (128 + r) % 64 = r /\ 128 + r \in Nat
    BY <2>2
  <2>5. More(c, 1) = 128 + r
    BY <2>1, <2>3 DEF More
  <2>6. QED
    BY <2>1, <2>4, <2>5
<1>2. More(c, 64) \in 128..191 /\ More(c, 64) % 64 = (c \div 64) % 64
  BY MoreByte, SMTT(30)
<1>3. More(c, 4096) \in 128..191 /\ More(c, 4096) % 64 = (c \div 4096) % 64
  BY MoreByte, SMTT(30)
<1>4. \A x \in 128..191 : x \in Nat
  OBVIOUS
<1>5. QED
  BY <1>1, <1>2, <1>3, <1>4, SMTT(30)

\* Where the bytes of c are, c is decoded.
LEMMA Decodes ==
  ASSUME NEW c \in Points, NEW d, NEW i \in Nat, \A k \in 1..Width(c) : d[i + k] = Code(c)[k]
  PROVE  utf8_ref(d, i) = c
<1>1. Width(c) \in 1..4
  BY CodeBytes
<1>2. d[i + 1] = Code(c)[1] /\ c \in Nat
  BY <1>1, SMTT(30) DEF Points
<1>3. CASE Width(c) = 1
  <2>1. Code(c) = <<c>> /\ c \in Nat /\ c < 128
    BY <1>3, Codes, Widths, SMTT(30) DEF Points
  <2>2. d[i + 1 + 0] = c
    BY <1>2, <2>1
  <2>3. QED
    BY <2>1, <2>2 DEF utf8_ref
<1>4. CASE Width(c) = 2
  <2>1. Code(c) = <<192 + c \div 64, More(c, 1)>> /\ c \in Nat /\ c < 2048
    BY <1>4, Codes, Widths, SMTT(30) DEF Points
  <2>2. PICK x, y, b : x = d[i + 1 + 0] /\ y = d[i + 1 + 1] /\ b = c \div 64
    OBVIOUS
  <2>3. b \in 0..31 /\ x = 192 + b
    BY <1>2, <2>1, <2>2
  <2>4. y \in Nat /\ y % 64 = c % 64
    <3>1. y = More(c, 1)
      BY <1>4, <2>1, <2>2
    <3>2. c \in Nat
      BY <2>1
    <3>. HIDE DEF More
    <3>3. QED
      BY <3>1, <3>2, LowBits, SMTT(30)
  <2>5. x \in Nat /\ x % 64 = b /\ x >= 192 /\ x < 224
    BY <2>3
  <2>6. utf8_ref(d, i) = (x % 64) * 64 + (y % 64)
    <3>1. ~(x < 128) /\ ~(x < 192 \/ x > 247) /\ x < 224
      BY <2>5
    <3>2. QED
      BY <2>2, <2>4, <2>5, <3>1, SMTT(30) DEF utf8_ref
  <2>7. QED
    BY <2>1, <2>2, <2>4, <2>5, <2>6
<1>5. CASE Width(c) = 3
  <2>1. Code(c) = <<224 + c \div 4096, More(c, 64), More(c, 1)>> /\ c \in Nat /\ c < 65536
    BY <1>5, Codes, Widths, SMTT(30) DEF Points
  <2>2. PICK x, y, z, b : x = d[i + 1 + 0] /\ y = d[i + 1 + 1] /\ z = d[i + 1 + 2] /\ b = c \div 4096
    OBVIOUS
  <2>3. b \in 0..15 /\ x = 224 + b
    BY <1>2, <2>1, <2>2, SMTT(30)
  <2>4. y \in Nat /\ z \in Nat /\ y % 64 = (c \div 64) % 64 /\ z % 64 = c % 64
    <3>1. y = More(c, 64) /\ z = More(c, 1)
      BY <1>5, <2>1, <2>2, SMTT(30)
    <3>2. c \in Nat
      BY <2>1
    <3>. HIDE DEF More
    <3>3. QED
      BY <3>1, <3>2, LowBits, SMTT(30)
  <2>5. x \in Nat /\ x % 32 = b /\ x >= 224 /\ x < 240
    BY <2>3
  <2>6. utf8_ref(d, i) = (x % 32) * 4096 + (y % 64) * 64 + (z % 64)
    <3>1. ~(x < 128) /\ ~(x < 192 \/ x > 247) /\ ~(x < 224) /\ x < 240
      BY <2>5
    <3>2. QED
      BY <2>2, <2>4, <2>5, <3>1, SMTT(30) DEF utf8_ref
  <2>7. c = (c \div 4096) * 4096 + ((c \div 64) % 64) * 64 + (c % 64)
    BY <2>1, SMTT(30)
  <2>8. QED
    BY <2>2, <2>4, <2>5, <2>6, <2>7, SMTT(30)
<1>6. CASE Width(c) = 4
  <2>1. Code(c) = <<240 + (c \div 4096) \div 64, More(c, 4096), More(c, 64), More(c, 1)>>
        /\ c \in Nat /\ c \div 65536 < 17
    BY <1>6, Codes, Widths, SMTT(30) DEF Points
  <2>2. PICK x, y, z, w, b : /\ x = d[i + 1 + 0] /\ y = d[i + 1 + 1] /\ z = d[i + 1 + 2] /\ w = d[i + 1 + 3]
                             /\ b = (c \div 4096) \div 64
    OBVIOUS
  <2>3. b \in 0..4 /\ x = 240 + b
    BY <1>2, <2>1, <2>2, SMTT(30)
  <2>4. /\ y \in Nat /\ z \in Nat /\ w \in Nat
        /\ y % 64 = (c \div 4096) % 64 /\ z % 64 = (c \div 64) % 64 /\ w % 64 = c % 64
    <3>1. y = More(c, 4096) /\ z = More(c, 64) /\ w = More(c, 1)
      BY <1>6, <2>1, <2>2, SMTT(30)
    <3>2. c \in Nat
      BY <2>1
    <3>. HIDE DEF More
    <3>3. QED
      BY <3>1, <3>2, LowBits, SMTT(30)
  <2>5. x \in Nat /\ x % 16 = b /\ x >= 240 /\ x < 248
    BY <2>3
  <2>6. utf8_ref(d, i) = ((x % 16) * 64 + (y % 64)) * 4096 + (z % 64) * 64 + (w % 64)
    <3>1. ~(x < 128) /\ ~(x < 192 \/ x > 247) /\ ~(x < 224) /\ ~(x < 240)
      BY <2>5
    <3>2. QED
      BY <2>2, <2>4, <2>5, <3>1, SMTT(30) DEF utf8_ref
  <2>7. c = (c \div 4096) * 4096 + ((c \div 64) % 64) * 64 + (c % 64)
    BY <2>1, SMTT(30)
  <2>8. c \div 4096 = ((c \div 4096) \div 64) * 64 + ((c \div 4096) % 64)
    BY <2>1, SMTT(30)
  <2>9. QED
    BY <2>2, <2>4, <2>5, <2>6, <2>7, <2>8, SMTT(30)
<1>7. QED
  BY <1>1, <1>3, <1>4, <1>5, <1>6

\* The first byte of a character, by its width.
LEMMA FirstByte ==
  ASSUME NEW c \in Points
  PROVE  /\ Width(c) = 1 => Code(c)[1] \in 0..127
         /\ Width(c) = 2 => Code(c)[1] \in 192..223
         /\ Width(c) = 3 => Code(c)[1] \in 224..239
         /\ Width(c) = 4 => Code(c)[1] \in 240..244
<1>1. CASE Width(c) = 1
  <2>1. c \in 0..127
    BY <1>1, Widths, SMTT(30) DEF Points
  <2>2. Code(c)[1] = c
    BY <1>1, CodeBytes
  <2>3. QED
    BY <1>1, <2>1, <2>2
<1>2. CASE Width(c) = 2
  <2>1. c \in 128..2047 /\ Code(c)[1] = 192 + c \div 64
    BY <1>2, Codes, Widths, SMTT(30) DEF Points
  <2>2. QED
    BY <1>2, <2>1, SMTT(30)
<1>3. CASE Width(c) = 3
  <2>1. c \in Nat /\ c < 65536 /\ Code(c)[1] = 224 + c \div 4096
    BY <1>3, Codes, Widths, SMTT(30) DEF Points
  <2>2. c \div 4096 \in 0..15
    BY <2>1, SMTT(30)
  <2>3. QED
    BY <1>3, <2>1, <2>2, SMTT(30)
<1>4. CASE Width(c) = 4
  <2>1. c \in Nat /\ c \div 65536 < 17 /\ Code(c)[1] = 240 + (c \div 4096) \div 64
    BY <1>4, Codes, SMTT(30) DEF Points
  <2>2. (c \div 4096) \div 64 \in 0..4
    BY <2>1, SMTT(30)
  <2>3. QED
    BY <1>4, <2>1, <2>2, SMTT(30)
<1>5. QED
  BY <1>1, <1>2, <1>3, <1>4

\* The bytes of two characters compare as the characters do.
LEMMA CodeOrder ==
  ASSUME NEW c \in Points, NEW e \in Points, c < e
  PROVE  \E m \in 1..4 : /\ m <= Width(c) /\ m <= Width(e) /\ Code(c)[m] < Code(e)[m]
                         /\ \A k \in 1..(m - 1) : Code(c)[k] = Code(e)[k]
<1>1. Width(c) \in 1..4 /\ Width(e) \in 1..4 /\ c \in Nat /\ e \in Nat
  BY CodeBytes, SMTT(30) DEF Points
<1>2. Width(c) <= Width(e)
  BY <1>1, Widths, SMTT(30)
<1>3. CASE Width(c) < Width(e)
  <2>1. /\ Width(c) = 1 => Code(c)[1] \in 0..127
        /\ Width(c) = 2 => Code(c)[1] \in 192..223
        /\ Width(c) = 3 => Code(c)[1] \in 224..239
    BY FirstByte
  <2>2. /\ Width(e) = 2 => Code(e)[1] \in 192..223
        /\ Width(e) = 3 => Code(e)[1] \in 224..239
        /\ Width(e) = 4 => Code(e)[1] \in 240..244
    BY FirstByte
  <2>3. Code(c)[1] < Code(e)[1]
    BY <1>1, <1>3, <2>1, <2>2, SMTT(30)
  <2>4. QED
    BY <1>1, <2>3
<1>4. CASE Width(c) = 1 /\ Width(e) = 1
  <2>1. Code(c)[1] = c /\ Code(e)[1] = e
    BY <1>4, CodeBytes
  <2>2. QED
    BY <1>4, <2>1
<1>5. CASE Width(c) = 2 /\ Width(e) = 2
  <2>1. /\ Code(c)[1] = 192 + c \div 64 /\ Code(c)[2] = 128 + (c % 64)
        /\ Code(e)[1] = 192 + e \div 64 /\ Code(e)[2] = 128 + (e % 64)
    <3>1. c \div 1 = c /\ e \div 1 = e
      BY <1>1
    <3>2. QED
      BY <1>5, <3>1, Codes, SMTT(30) DEF More
  <2>2. c \div 64 < e \div 64 \/ (c \div 64 = e \div 64 /\ c % 64 < e % 64)
    BY <1>1, SMTT(30)
  <2>3. c \div 64 \in Nat /\ e \div 64 \in Nat /\ c % 64 \in Nat /\ e % 64 \in Nat
    BY <1>1
  <2>4. CASE c \div 64 < e \div 64
    BY <1>5, <2>1, <2>3, <2>4, SMTT(30)
  <2>5. CASE c \div 64 = e \div 64 /\ c % 64 < e % 64
    <3>1. Code(c)[2] < Code(e)[2] /\ Code(c)[1] = Code(e)[1]
      BY <2>1, <2>3, <2>5, SMTT(30)
    <3>2. QED
      BY <1>5, <3>1
  <2>6. QED
    BY <2>2, <2>4, <2>5
<1>6. CASE Width(c) = 3 /\ Width(e) = 3
  <2>1. /\ Code(c)[1] = 224 + c \div 4096 /\ Code(c)[2] = 128 + ((c \div 64) % 64) /\ Code(c)[3] = 128 + (c % 64)
        /\ Code(e)[1] = 224 + e \div 4096 /\ Code(e)[2] = 128 + ((e \div 64) % 64) /\ Code(e)[3] = 128 + (e % 64)
    <3>1. c \div 1 = c /\ e \div 1 = e
      BY <1>1
    <3>2. QED
      BY <1>6, <3>1, Codes, SMTT(30) DEF More
  <2>2. PICK p, q, r : p = c \div 4096 /\ q = (c \div 64) % 64 /\ r = c % 64
    OBVIOUS
  <2>3. PICK x, y, z : x = e \div 4096 /\ y = (e \div 64) % 64 /\ z = e % 64
    OBVIOUS
  <2>4. /\ p \in Nat /\ q \in 0..63 /\ r \in 0..63 /\ c = p * 4096 + q * 64 + r
        /\ x \in Nat /\ y \in 0..63 /\ z \in 0..63 /\ e = x * 4096 + y * 64 + z
    BY <1>1, <2>2, <2>3, SMTT(30)
  <2>5. p < x \/ (p = x /\ q < y) \/ (p = x /\ q = y /\ r < z)
    BY <2>4, SMTT(30)
  <2>6. /\ Code(c)[1] = 224 + p /\ Code(c)[2] = 128 + q /\ Code(c)[3] = 128 + r
        /\ Code(e)[1] = 224 + x /\ Code(e)[2] = 128 + y /\ Code(e)[3] = 128 + z
    BY <2>1, <2>2, <2>3, SMTT(30)
  <2>7. /\ p \in Nat /\ q \in Nat /\ r \in Nat /\ x \in Nat /\ y \in Nat /\ z \in Nat
    BY <2>4
  <2>8. CASE p < x
    BY <1>6, <2>6, <2>7, <2>8
  <2>9. CASE p = x /\ q < y
    <3>1. Code(c)[2] < Code(e)[2] /\ Code(c)[1] = Code(e)[1]
      BY <2>6, <2>7, <2>9
    <3>2. QED
      BY <1>6, <3>1
  <2>10. CASE p = x /\ q = y /\ r < z
    <3>1. Code(c)[3] < Code(e)[3] /\ Code(c)[2] = Code(e)[2] /\ Code(c)[1] = Code(e)[1]
      BY <2>6, <2>7, <2>10
    <3>2. QED
      BY <1>6, <3>1
  <2>11. QED
    BY <2>5, <2>8, <2>9, <2>10
<1>7. CASE Width(c) = 4 /\ Width(e) = 4
  <2>1. /\ Code(c)[1] = 240 + (c \div 4096) \div 64 /\ Code(c)[2] = 128 + ((c \div 4096) % 64)
        /\ Code(c)[3] = 128 + ((c \div 64) % 64) /\ Code(c)[4] = 128 + (c % 64)
        /\ Code(e)[1] = 240 + (e \div 4096) \div 64 /\ Code(e)[2] = 128 + ((e \div 4096) % 64)
        /\ Code(e)[3] = 128 + ((e \div 64) % 64) /\ Code(e)[4] = 128 + (e % 64)
    <3>1. c \div 1 = c /\ e \div 1 = e
      BY <1>1
    <3>2. QED
      BY <1>7, <3>1, Codes, SMTT(30) DEF More
  <2>2. PICK o, p, q, r : o = (c \div 4096) \div 64 /\ p = (c \div 4096) % 64 /\ q = (c \div 64) % 64 /\ r = c % 64
    OBVIOUS
  <2>3. PICK w, x, y, z : w = (e \div 4096) \div 64 /\ x = (e \div 4096) % 64 /\ y = (e \div 64) % 64 /\ z = e % 64
    OBVIOUS
  <2>4. /\ o \in Nat /\ p \in 0..63 /\ q \in 0..63 /\ r \in 0..63 /\ c = (o * 64 + p) * 4096 + q * 64 + r
        /\ w \in Nat /\ x \in 0..63 /\ y \in 0..63 /\ z \in 0..63 /\ e = (w * 64 + x) * 4096 + y * 64 + z
    BY <1>1, <2>2, <2>3, SMTT(30)
  <2>5. o < w \/ (o = w /\ p < x) \/ (o = w /\ p = x /\ q < y) \/ (o = w /\ p = x /\ q = y /\ r < z)
    BY <2>4, SMTT(30)
  <2>6. /\ Code(c)[1] = 240 + o /\ Code(c)[2] = 128 + p /\ Code(c)[3] = 128 + q /\ Code(c)[4] = 128 + r
        /\ Code(e)[1] = 240 + w /\ Code(e)[2] = 128 + x /\ Code(e)[3] = 128 + y /\ Code(e)[4] = 128 + z
    BY <2>1, <2>2, <2>3, SMTT(30)
  <2>7. /\ o \in Nat /\ p \in Nat /\ q \in Nat /\ r \in Nat /\ w \in Nat /\ x \in Nat /\ y \in Nat /\ z \in Nat
    BY <2>4
  <2>8. CASE o < w
    BY <1>7, <2>6, <2>7, <2>8
  <2>9. CASE o = w /\ p < x
    <3>1. Code(c)[2] < Code(e)[2] /\ Code(c)[1] = Code(e)[1]
      BY <2>6, <2>7, <2>9
    <3>2. QED
      BY <1>7, <3>1
  <2>10. CASE o = w /\ p = x /\ q < y
    <3>1. Code(c)[3] < Code(e)[3] /\ Code(c)[2] = Code(e)[2] /\ Code(c)[1] = Code(e)[1]
      BY <2>6, <2>7, <2>10
    <3>2. QED
      BY <1>7, <3>1
  <2>11. CASE o = w /\ p = x /\ q = y /\ r < z
    <3>1. Code(c)[4] < Code(e)[4] /\ Code(c)[3] = Code(e)[3] /\ Code(c)[2] = Code(e)[2] /\ Code(c)[1] = Code(e)[1]
      BY <2>6, <2>7, <2>11
    <3>2. QED
      BY <1>7, <3>1
  <2>12. QED
    BY <2>5, <2>8, <2>9, <2>10, <2>11
<1>8. QED
  BY <1>1, <1>2, <1>3, <1>4, <1>5, <1>6, <1>7

\* No byte of a character other than NUL is zero.
LEMMA NoNul ==
  ASSUME NEW c \in Points, c # 0, NEW k \in 1..Width(c)
  PROVE  Code(c)[k] # 0
<1>1. Width(c) \in 1..4
  BY CodeBytes
<1>2. CASE k = 1
  <2>1. Code(c)[1] = c \/ Code(c)[1] \in 192..255
    BY CodeBytes
  <2>2. QED
    BY <1>2, <2>1
<1>3. CASE k # 1
  BY <1>1, <1>3, CodeBytes
<1>4. QED
  BY <1>2, <1>3

-----------------------------------------------------------------------------
(* The bytes d are the characters cs, one behind the other: at[i] is the   *)
(* place behind the i-th.                                                  *)
Cuts(d, cs, at) ==
  /\ d \in Seq(Bytes) /\ cs \in Seq(Points)
  /\ at \in [0..Len(cs) -> Nat]
  /\ at[0] = 0 /\ at[Len(cs)] = Len(d)
  /\ \A i \in 1..Len(cs) : /\ at[i] = at[i - 1] + Width(cs[i])
                           /\ \A k \in 1..Width(cs[i]) : d[at[i - 1] + k] = Code(cs[i])[k]

Encodes(d, cs) == \E at : Cuts(d, cs, at)

\* What a cut says, with the types of its parts.
LEMMA CutFacts ==
  ASSUME NEW d, NEW cs, NEW at, Cuts(d, cs, at)
  PROVE  /\ d \in Seq(Bytes) /\ cs \in Seq(Points) /\ Len(d) \in Nat /\ Len(cs) \in Nat
         /\ \A i \in 0..Len(cs) : at[i] \in Nat
         /\ at[0] = 0 /\ at[Len(cs)] = Len(d)
         /\ \A i \in 1..Len(cs) : /\ cs[i] \in Points /\ Width(cs[i]) \in 1..4
                                  /\ at[i] = at[i - 1] + Width(cs[i])
                                  /\ \A k \in 1..Width(cs[i]) : d[at[i - 1] + k] = Code(cs[i])[k]
<1>1. d \in Seq(Bytes) /\ cs \in Seq(Points) /\ at \in [0..Len(cs) -> Nat]
  BY DEF Cuts
<1>2. Len(d) \in Nat /\ Len(cs) \in Nat /\ \A i \in 1..Len(cs) : cs[i] \in Points
  BY <1>1
<1>3. \A i \in 1..Len(cs) : Width(cs[i]) \in 1..4
  BY <1>2, CodeBytes
<1>4. \A i \in 0..Len(cs) : at[i] \in Nat
  BY <1>1
<1>5. QED
  BY <1>1, <1>2, <1>3, <1>4, Zenon DEF Cuts

\* The cuts grow.
LEMMA CutsGrow ==
  ASSUME NEW d, NEW cs, NEW at, Cuts(d, cs, at)
  PROVE  /\ \A j \in 0..Len(cs) : \A i \in 0..(j - 1) : at[i] < at[j]
         /\ \A j \in 0..Len(cs) : at[j] \in 0..Len(d) /\ j <= at[j]
         /\ Len(cs) <= Len(d)
<1>1. /\ Len(d) \in Nat /\ Len(cs) \in Nat /\ \A i \in 0..Len(cs) : at[i] \in Nat
      /\ at[0] = 0 /\ at[Len(cs)] = Len(d)
      /\ \A i \in 1..Len(cs) : /\ Width(cs[i]) \in 1..4 /\ at[i] = at[i - 1] + Width(cs[i])
                               /\ \A k \in 1..Width(cs[i]) : d[at[i - 1] + k] = Code(cs[i])[k]
  BY CutFacts, SMTT(30)
<1>. DEFINE S == {j \in 0..Len(cs) : j <= at[j] /\ \A i \in 0..(j - 1) : at[i] < at[j]}
<1>2. ASSUME NEW n \in 0..Len(cs), \A m \in 0..(n - 1) : m \in S
      PROVE  n \in S
  <2>1. CASE n = 0
    BY <1>1, <2>1
  <2>2. CASE n # 0
    <3>1. n - 1 \in 0..(n - 1) /\ n \in 1..Len(cs)
      BY <2>2
    <3>2. n - 1 <= at[n - 1] /\ \A i \in 0..(n - 1 - 1) : at[i] < at[n - 1]
      BY <1>2, <3>1
    <3>3. at[n] \in Nat /\ at[n - 1] \in Nat /\ at[n] > at[n - 1]
      BY <1>1, <3>1, SMTT(30)
    <3>4. n <= at[n]
      BY <3>2, <3>3
    <3>5. ASSUME NEW i \in 0..(n - 1) PROVE at[i] < at[n]
      <4>1. at[i] \in Nat
        BY <1>1
      <4>2. i = n - 1 \/ i \in 0..(n - 1 - 1)
        OBVIOUS
      <4>3. QED
        BY <3>2, <3>3, <4>1, <4>2
    <3>6. QED
      BY <3>4, <3>5
  <2>3. QED
    BY <2>1, <2>2
<1>. HIDE DEF S
<1>3. \A n \in 0..Len(cs) : n \in S
  BY <1>1, <1>2, UpTo
<1>4. \A j \in 0..Len(cs) : j <= at[j] /\ \A i \in 0..(j - 1) : at[i] < at[j]
  BY <1>3 DEF S
<1>5. ASSUME NEW j \in 0..Len(cs) PROVE at[j] \in 0..Len(d)
  <2>1. Len(cs) \in 0..Len(cs) /\ (j = Len(cs) \/ j \in 0..(Len(cs) - 1))
    BY <1>1
  <2>2. at[j] = at[Len(cs)] \/ at[j] < at[Len(cs)]
    BY <1>4, <2>1
  <2>3. QED
    BY <1>1, <2>2
<1>6. Len(cs) <= Len(d)
  BY <1>1, <1>4
<1>7. QED
  BY <1>4, <1>5, <1>6

\* Every byte is a byte of one of the characters.
LEMMA CutsCover ==
  ASSUME NEW d, NEW cs, NEW at, Cuts(d, cs, at), NEW m \in 0..Len(cs), NEW p \in 1..at[m]
  PROVE  \E i \in 1..m : \E k \in 1..Width(cs[i]) : p = at[i - 1] + k /\ d[p] = Code(cs[i])[k]
<1>1. /\ Len(d) \in Nat /\ Len(cs) \in Nat /\ \A i \in 0..Len(cs) : at[i] \in Nat
      /\ at[0] = 0
      /\ \A i \in 1..Len(cs) : /\ Width(cs[i]) \in 1..4 /\ at[i] = at[i - 1] + Width(cs[i])
                               /\ \A k \in 1..Width(cs[i]) : d[at[i - 1] + k] = Code(cs[i])[k]
  BY CutFacts, SMTT(30)
<1>. DEFINE T == {j \in 0..m : p <= at[j]}
<1>2. T \subseteq Nat /\ m \in T
  BY <1>1
<1>3. PICK i : i \in T /\ \A j \in T : i <= j
  <2>. HIDE DEF T
  <2>1. QED
    BY <1>2, MinInSet
<1>4. i \in 1..m
  BY <1>1, <1>3
<1>5. i - 1 \in 0..m /\ at[i - 1] < p /\ at[i - 1] \in Nat /\ p <= at[i]
  BY <1>1, <1>3, <1>4
<1>6. i \in 1..Len(cs) /\ p - at[i - 1] \in 1..Width(cs[i])
  <2>1. i \in 1..Len(cs)
    BY <1>1, <1>4
  <2>2. Width(cs[i]) \in Nat /\ at[i] = at[i - 1] + Width(cs[i])
    BY <1>1, <2>1, SMTT(30)
  <2>3. QED
    BY <1>5, <2>1, <2>2
<1>7. PICK k : k = p - at[i - 1]
  OBVIOUS
<1>8. k \in 1..Width(cs[i]) /\ p = at[i - 1] + k
  BY <1>5, <1>6, <1>7
<1>9. d[p] = Code(cs[i])[k]
  BY <1>1, <1>6, <1>8
<1>10. QED
  BY <1>4, <1>8, <1>9

-----------------------------------------------------------------------------
(* Walking over the bytes.                                                 *)

\* The cursor behind a character.
LEMMA CutNext ==
  ASSUME NEW d, NEW cs, NEW at, Cuts(d, cs, at), NEW i \in 1..Len(cs)
  PROVE  /\ cursor_next(d, at[i - 1]) = at[i] /\ utf8_ref(d, at[i - 1]) = cs[i]
         /\ d[at[i - 1] + 1] \div 64 # 2
         /\ \A p \in (at[i - 1] + 1)..(at[i] - 1) : d[p + 1] \div 64 = 2
<1>1. /\ at[i - 1] \in Nat /\ at[i] \in Nat /\ cs[i] \in Points /\ Width(cs[i]) \in 1..4
      /\ at[i] = at[i - 1] + Width(cs[i])
      /\ \A k \in 1..Width(cs[i]) : d[at[i - 1] + k] = Code(cs[i])[k]
  <2>1. i - 1 \in 0..Len(cs) /\ i \in 0..Len(cs)
    OBVIOUS
  <2>2. QED
    BY <2>1, CutFacts, SMTT(30)
<1>2. d[at[i - 1] + 1] = Code(cs[i])[1]
  BY <1>1
<1>3. /\ utf8_initial_byte_count(Code(cs[i])[1]) = Width(cs[i])
      /\ Code(cs[i])[1] \div 64 # 2
      /\ \A k \in 2..Width(cs[i]) : Code(cs[i])[k] \div 64 = 2
  BY <1>1, CodeBytes
<1>4. cursor_next(d, at[i - 1]) = at[i]
  BY <1>1, <1>2, <1>3 DEF cursor_next
<1>5. utf8_ref(d, at[i - 1]) = cs[i]
  BY <1>1, Decodes
<1>6. ASSUME NEW p \in (at[i - 1] + 1)..(at[i] - 1) PROVE d[p + 1] \div 64 = 2
  <2>1. p + 1 - at[i - 1] \in 2..Width(cs[i])
    <3>1. PICK a, w : a = at[i - 1] /\ w = Width(cs[i])
      OBVIOUS
    <3>2. a \in Nat /\ w \in Nat /\ p \in (a + 1)..(a + w - 1)
      BY <1>1, <3>1, SMTT(30)
    <3>3. p + 1 - a \in 2..w
      BY <3>2
    <3>4. QED
      BY <3>1, <3>3
  <2>2. PICK k : k = p + 1 - at[i - 1]
    OBVIOUS
  <2>3. k \in 2..Width(cs[i]) /\ k \in 1..Width(cs[i]) /\ p + 1 = at[i - 1] + k
    BY <1>1, <2>1, <2>2, SMTT(30)
  <2>4. QED
    BY <1>1, <1>3, <2>3, SMTT(30)
<1>7. QED
  BY <1>2, <1>3, <1>4, <1>5, <1>6

\* The walk from the start stands at the cuts, and then at the end.
LEMMA CutsWalk ==
  ASSUME NEW d, NEW cs, NEW at, Cuts(d, cs, at)
  PROVE  \A i \in 0..Len(d) : Steps(d, 0)[i] = IF i <= Len(cs) THEN at[i] ELSE Len(d)
<1>1. Len(d) \in Nat /\ Len(cs) \in Nat /\ at[0] = 0 /\ at[Len(cs)] = Len(d)
  BY CutFacts, SMTT(30)
<1>2. \A i \in 1..Len(cs) : cursor_next(d, at[i - 1]) = at[i]
  BY CutNext
<1>3. \A j \in 0..Len(cs) : at[j] \in 0..Len(d) /\ \A i \in 0..(j - 1) : at[i] < at[j]
  BY CutsGrow
<1>. DEFINE F(g) == g = [i \in 0..Len(d) |->
                           IF i = 0 THEN 0
                           ELSE IF g[i - 1] >= Len(d) THEN g[i - 1]
                           ELSE cursor_next(d, g[i - 1])]
            V(i) == IF i <= Len(cs) THEN at[i] ELSE Len(d)
<1>4. ASSUME NEW i \in 1..Len(d)
      PROVE  V(i) = IF V(i - 1) >= Len(d) THEN V(i - 1) ELSE cursor_next(d, V(i - 1))
  <2>1. CASE i <= Len(cs)
    <3>1. V(i) = at[i] /\ V(i - 1) = at[i - 1] /\ i \in 1..Len(cs) /\ i \in 0..Len(cs) /\ i - 1 \in 0..(i - 1)
      BY <1>1, <2>1
    <3>2. at[i - 1] < at[i] /\ at[i] \in 0..Len(d) /\ i - 1 \in 0..Len(cs)
      BY <1>1, <1>3, <3>1
    <3>3. at[i - 1] \in 0..Len(d) /\ ~(at[i - 1] >= Len(d))
      BY <1>1, <1>3, <3>2
    <3>4. QED
      BY <1>2, <3>1, <3>3
  <2>2. CASE i > Len(cs)
    <3>1. V(i) = Len(d)
      BY <1>1, <2>2
    <3>2. V(i - 1) = Len(d)
      <4>1. CASE i - 1 = Len(cs)
        BY <1>1, <4>1
      <4>2. CASE i - 1 # Len(cs)
        <5>1. ~(i - 1 <= Len(cs))
          BY <1>1, <2>2, <4>2
        <5>2. QED
          BY <5>1
      <4>3. QED
        BY <4>1, <4>2
    <3>3. QED
      BY <1>1, <3>1, <3>2
  <2>3. QED
    BY <1>1, <2>1, <2>2
<1>5. V(0) = 0
  BY <1>1
<1>. HIDE DEF V
<1>6. \E g : F(g)
  <2>1. PICK g : g = [i \in 0..Len(d) |-> V(i)]
    OBVIOUS
  <2>2. ASSUME NEW i \in 0..Len(d)
        PROVE  g[i] = IF i = 0 THEN 0 ELSE IF g[i - 1] >= Len(d) THEN g[i - 1] ELSE cursor_next(d, g[i - 1])
    <3>1. CASE i = 0
      BY <1>5, <2>1, <3>1
    <3>2. CASE i # 0
      <4>1. i \in 1..Len(d) /\ i - 1 \in 0..Len(d)
        BY <3>2
      <4>2. g[i] = V(i) /\ g[i - 1] = V(i - 1)
        BY <2>1, <4>1
      <4>3. QED
        BY <1>4, <3>2, <4>1, <4>2
    <3>3. QED
      BY <3>1, <3>2
  <2>3. F(g)
    BY <2>1, <2>2
  <2>4. QED
    BY <2>3
<1>7. PICK g : g = CHOOSE f : F(f)
  OBVIOUS
<1>8. F(g)
  BY <1>6, <1>7, Zenon
<1>9. Steps(d, 0) = g
  BY <1>7 DEF Steps
<1>. DEFINE S == {i \in 0..Len(d) : g[i] = V(i)}
<1>10. ASSUME NEW n \in 0..Len(d), \A m \in 0..(n - 1) : m \in S
       PROVE  n \in S
  <2>1. CASE n = 0
    BY <1>5, <1>8, <2>1
  <2>2. CASE n # 0
    <3>1. n - 1 \in 0..(n - 1) /\ n \in 1..Len(d)
      BY <2>2
    <3>2. g[n - 1] = V(n - 1)
      BY <1>10, <3>1
    <3>3. g[n] = IF g[n - 1] >= Len(d) THEN g[n - 1] ELSE cursor_next(d, g[n - 1])
      BY <1>8, <2>2
    <3>4. QED
      BY <1>4, <3>1, <3>2, <3>3
  <2>3. QED
    BY <2>1, <2>2
<1>. HIDE DEF S, F
<1>11. \A n \in 0..Len(d) : n \in S
  BY <1>1, <1>10, UpTo
<1>12. QED
  BY <1>9, <1>11 DEF S, V

\* utf8_length counts the characters, and index_to_cursor finds them.
LEMMA CutsLength ==
  ASSUME NEW d, NEW cs, NEW at, Cuts(d, cs, at)
  PROVE  /\ utf8_length(d) = Len(cs)
         /\ \A i \in 0..Len(cs) : index_to_cursor(d, i) = at[i]
         /\ \A i \in Nat : index_to_cursor(d, i) # Raised => i \in 0..Len(cs)
<1>1. Len(d) \in Nat /\ Len(cs) \in Nat /\ at[Len(cs)] = Len(d) /\ Len(cs) <= Len(d)
  BY CutFacts, CutsGrow
<1>2. \A i \in 0..Len(d) : Steps(d, 0)[i] = IF i <= Len(cs) THEN at[i] ELSE Len(d)
  BY CutsWalk
<1>3. \A j \in 0..Len(cs) : at[j] \in 0..Len(d) /\ \A i \in 0..(j - 1) : at[i] < at[j]
  BY CutsGrow
<1>4. \A i \in 0..Len(cs) : Steps(d, 0)[i] = at[i] /\ at[i] \in Nat /\ i \in 0..Len(d)
  BY <1>1, <1>2, <1>3
<1>5. \A i \in 0..(Len(cs) - 1) : Steps(d, 0)[i] < Len(d)
  <2>1. \A i \in 0..(Len(cs) - 1) : i \in 0..Len(cs) /\ at[i] < at[Len(cs)]
    BY <1>1, <1>3
  <2>2. QED
    BY <1>1, <1>4, <2>1
<1>. DEFINE P(i) == Steps(d, 0)[i] >= Len(d) /\ \A k \in 0..(i - 1) : Steps(d, 0)[k] < Len(d)
<1>6. Len(cs) \in 0..Len(d) /\ P(Len(cs))
  BY <1>1, <1>4, <1>5
<1>7. ASSUME NEW i \in 0..Len(d), P(i) PROVE i = Len(cs)
  <2>1. CASE i < Len(cs)
    <3>1. i \in 0..(Len(cs) - 1) /\ i \in 0..Len(cs)
      BY <1>1, <2>1
    <3>2. Steps(d, 0)[i] \in Nat /\ Steps(d, 0)[i] < Len(d)
      BY <1>4, <1>5, <3>1
    <3>3. QED
      BY <1>1, <1>7, <3>2
  <2>2. CASE i > Len(cs)
    <3>1. Len(cs) \in 0..(i - 1)
      BY <1>1, <2>2
    <3>2. Steps(d, 0)[Len(cs)] < Len(d)
      BY <1>7, <3>1
    <3>3. QED
      BY <1>1, <1>4, <3>2
  <2>3. QED
    BY <1>1, <2>1, <2>2
<1>8. utf8_length(d) = CHOOSE i \in 0..Len(d) : P(i)
  BY DEF utf8_length
<1>. HIDE DEF P
<1>9. utf8_length(d) = Len(cs)
  BY <1>6, <1>7, <1>8
<1>10. \A i \in 0..Len(cs) : index_to_cursor(d, i) = at[i]
  BY <1>1, <1>4, <1>9 DEF index_to_cursor
<1>11. \A i \in Nat : index_to_cursor(d, i) # Raised => i \in 0..Len(cs)
  BY <1>1, <1>9 DEF index_to_cursor
<1>12. QED
  BY <1>9, <1>10, <1>11

\* string-ref gives the characters, and raises behind the last one.
LEMMA CutsRef ==
  ASSUME NEW d, NEW cs, NEW at, Cuts(d, cs, at), NEW i \in 0..Len(cs)
  PROVE  index_ref(d, i) = IF i < Len(cs) THEN cs[i + 1] ELSE Raised
<1>1. Len(d) \in Nat /\ Len(cs) \in Nat /\ at[Len(cs)] = Len(d)
  BY CutFacts, SMTT(30)
<1>2. index_to_cursor(d, i) = at[i]
  BY CutsLength
<1>3. \A j \in 0..Len(cs) : at[j] \in 0..Len(d) /\ \A k \in 0..(j - 1) : at[k] < at[j]
  BY CutsGrow
<1>4. CASE i < Len(cs)
  <2>1. i + 1 \in 1..Len(cs) /\ i + 1 - 1 = i /\ i \in 0..(Len(cs) - 1)
    BY <1>1, <1>4
  <2>2. at[i] \in Nat /\ at[i] < Len(d)
    BY <1>1, <1>3, <2>1
  <2>3. utf8_ref(d, at[i]) = cs[i + 1]
    BY <2>1, CutNext
  <2>4. at[i] # Raised /\ ~(at[i] >= Len(d))
    BY <1>1, <2>2 DEF Raised
  <2>5. QED
    BY <1>2, <1>4, <2>3, <2>4, Zenon DEF index_ref
<1>5. CASE ~(i < Len(cs))
  <2>1. at[i] >= Len(d)
    BY <1>1, <1>5
  <2>2. QED
    BY <1>2, <1>5, <2>1, Zenon DEF index_ref
<1>6. QED
  BY <1>4, <1>5

\* The bytes between two cuts are the characters between them.
LEMMA CutsPart ==
  ASSUME NEW d, NEW cs, NEW at, Cuts(d, cs, at), NEW i \in 0..Len(cs), NEW j \in i..Len(cs)
  PROVE  /\ Cuts(SubSeq(d, at[i] + 1, at[j]), SubSeq(cs, i + 1, j), [k \in 0..(j - i) |-> at[i + k] - at[i]])
         /\ Len(SubSeq(cs, i + 1, j)) = j - i
<1>1. /\ d \in Seq(Bytes) /\ cs \in Seq(Points) /\ Len(d) \in Nat /\ Len(cs) \in Nat
      /\ \A k \in 0..Len(cs) : at[k] \in Nat
      /\ at[0] = 0 /\ at[Len(cs)] = Len(d)
      /\ \A k \in 1..Len(cs) : /\ cs[k] \in Points /\ Width(cs[k]) \in 1..4
                               /\ at[k] = at[k - 1] + Width(cs[k])
                               /\ \A l \in 1..Width(cs[k]) : d[at[k - 1] + l] = Code(cs[k])[l]
  <2>1. /\ d \in Seq(Bytes) /\ cs \in Seq(Points) /\ Len(d) \in Nat /\ Len(cs) \in Nat
        /\ at[0] = 0 /\ at[Len(cs)] = Len(d)
    BY CutFacts, SMTT(30)
  <2>2. ASSUME NEW k \in 0..Len(cs) PROVE at[k] \in Nat
    BY CutFacts, SMTT(30)
  <2>3. ASSUME NEW k \in 1..Len(cs)
        PROVE  /\ cs[k] \in Points /\ Width(cs[k]) \in 1..4
               /\ at[k] = at[k - 1] + Width(cs[k])
    BY CutFacts, SMTT(30)
  <2>4. ASSUME NEW k \in 1..Len(cs), NEW l \in 1..Width(cs[k])
        PROVE  d[at[k - 1] + l] = Code(cs[k])[l]
    BY CutFacts, SMTT(30)
  <2>5. QED
    BY <2>1, <2>2, <2>3, <2>4, Zenon
<1>2. \A k \in 0..Len(cs) : at[k] \in 0..Len(d) /\ \A l \in 0..(k - 1) : at[l] < at[k]
  BY CutsGrow
<1>3. PICK e, ds, f : /\ e = SubSeq(d, at[i] + 1, at[j]) /\ ds = SubSeq(cs, i + 1, j)
                      /\ f = [k \in 0..(j - i) |-> at[i + k] - at[i]]
  OBVIOUS
<1>4. at[i] \in 0..Len(d) /\ at[j] \in at[i]..Len(d) /\ at[i] \in Nat
  <2>1. j \in 0..Len(cs) /\ (i = j \/ i \in 0..(j - 1))
    BY <1>1
  <2>2. at[i] \in 0..Len(d) /\ at[j] \in 0..Len(d) /\ (at[i] = at[j] \/ at[i] < at[j])
    BY <1>2, <2>1
  <2>3. QED
    BY <2>2
<1>5. /\ e \in Seq(Bytes) /\ Len(e) = at[j] - at[i]
      /\ \A p \in 1..(at[j] - at[i]) : e[p] = d[at[i] + p]
  <2>1. PICK a, b : a = at[i] /\ b = at[j]
    OBVIOUS
  <2>2. a \in 0..Len(d) /\ b \in a..Len(d)
    BY <1>4, <2>1
  <2>3. e = SubSeq(d, a + 1, b) /\ d \in Seq(Bytes)
    BY <1>1, <1>3, <2>1
  <2>4. e \in Seq(Bytes) /\ Len(e) = b - a /\ \A p \in 1..(b - a) : e[p] = d[a + p]
    BY <2>2, <2>3, PartCells
  <2>5. QED
    BY <2>1, <2>4
<1>6. /\ ds \in Seq(Points) /\ Len(ds) = j - i
      /\ \A k \in 1..(j - i) : ds[k] = cs[i + k]
  <2>1. ds = SubSeq(cs, i + 1, j) /\ cs \in Seq(Points)
    BY <1>1, <1>3
  <2>2. QED
    BY <2>1, PartCells
<1>7. ASSUME NEW k \in 0..(j - i)
      PROVE  f[k] = at[i + k] - at[i] /\ f[k] \in Nat /\ f[k] <= at[j] - at[i] /\ at[i + k] \in Nat
  <2>1. i + k \in 0..Len(cs) /\ (k = 0 \/ i \in 0..(i + k - 1)) /\ i + k \in 0..j /\ (i + k = j \/ i + k \in 0..(j - 1)) /\ j \in 0..Len(cs)
    BY <1>1
  <2>2. at[i + k] \in Nat /\ at[i] \in Nat /\ at[j] \in Nat
    BY <1>1, <2>1
  <2>3. at[i + k] = at[i] \/ at[i] < at[i + k]
    <3>1. CASE k = 0
      BY <3>1
    <3>2. CASE k # 0
      BY <1>2, <2>1, <3>2
    <3>3. QED
      BY <3>1, <3>2
  <2>4. at[i + k] = at[j] \/ at[i + k] < at[j]
    BY <1>2, <2>1
  <2>5. f[k] = at[i + k] - at[i]
    BY <1>3
  <2>6. PICK x, y, z : x = at[i + k] /\ y = at[i] /\ z = at[j]
    OBVIOUS
  <2>7. x \in Nat /\ y \in Nat /\ z \in Nat /\ y <= x /\ x <= z
    BY <2>2, <2>3, <2>4, <2>6
  <2>8. x - y \in Nat /\ x - y <= z - y
    BY <2>7
  <2>9. QED
    BY <2>2, <2>5, <2>6, <2>8
<1>8. f \in [0..Len(ds) -> Nat]
  <2>1. f = [k \in 0..Len(ds) |-> f[k]]
    BY <1>3, <1>6
  <2>2. \A k \in 0..Len(ds) : f[k] \in Nat
    BY <1>6, <1>7
  <2>3. QED
    BY <2>1, <2>2
<1>9. f[0] = 0 /\ f[Len(ds)] = Len(e)
  <2>1. 0 \in 0..(j - i) /\ j - i \in 0..(j - i) /\ i + 0 = i /\ i + (j - i) = j
    OBVIOUS
  <2>2. f[0] = at[i] - at[i] /\ f[j - i] = at[j] - at[i]
    BY <1>7, <2>1
  <2>3. QED
    BY <1>4, <1>5, <1>6, <2>2
<1>10. ASSUME NEW k \in 1..Len(ds)
       PROVE  /\ f[k] = f[k - 1] + Width(ds[k])
              /\ \A l \in 1..Width(ds[k]) : e[f[k - 1] + l] = Code(ds[k])[l]
  <2>1. k \in 1..(j - i) /\ k \in 0..(j - i) /\ k - 1 \in 0..(j - i) /\ i + k \in 1..Len(cs) /\ i + (k - 1) = (i + k) - 1
    BY <1>1, <1>6
  <2>2. ds[k] = cs[i + k] /\ Width(cs[i + k]) \in 1..4 /\ at[i + k] = at[i + (k - 1)] + Width(cs[i + k])
    BY <1>1, <1>6, <2>1
  <2>3. /\ f[k] = at[i + k] - at[i] /\ f[k - 1] = at[i + (k - 1)] - at[i]
        /\ f[k - 1] \in Nat /\ f[k] <= at[j] - at[i] /\ at[i + (k - 1)] \in Nat /\ at[i + k] \in Nat
    BY <1>7, <2>1
  <2>4. PICK x, y, z, w, u : /\ x = at[i + k] /\ y = at[i] /\ z = at[j] /\ w = Width(ds[k])
                             /\ u = at[i + (k - 1)]
    OBVIOUS
  <2>5. x \in Nat /\ y \in Nat /\ z \in Nat /\ w \in 1..4 /\ u \in Nat /\ x = u + w
    BY <1>4, <2>2, <2>3, <2>4, SMTT(30)
  <2>6. f[k] = x - y /\ f[k - 1] = u - y /\ u - y \in Nat /\ x - y <= z - y
    BY <2>3, <2>4
  <2>7. f[k] = f[k - 1] + Width(ds[k])
    <3>1. x - y = (u - y) + w
      BY <2>5
    <3>2. QED
      BY <2>4, <2>6, <3>1, Zenon
  <2>8. ASSUME NEW l \in 1..Width(ds[k]) PROVE e[f[k - 1] + l] = Code(ds[k])[l]
    <3>0. l \in 1..w
      BY <2>4
    <3>1. f[k - 1] + l \in 1..(at[j] - at[i]) /\ at[i] + (f[k - 1] + l) = at[(i + k) - 1] + l
      <4>1. (u - y) + l \in 1..(z - y) /\ y + ((u - y) + l) = u + l
        BY <2>5, <2>6, <3>0
      <4>2. QED
        BY <2>1, <2>4, <2>6, <4>1
    <3>2. e[f[k - 1] + l] = d[at[(i + k) - 1] + l]
      BY <1>5, <3>1
    <3>3. d[at[(i + k) - 1] + l] = Code(cs[i + k])[l]
      BY <1>1, <2>1, <2>2
    <3>4. QED
      BY <2>2, <3>2, <3>3
  <2>9. QED
    BY <2>7, <2>8
<1>11. Cuts(e, ds, f)
  BY <1>5, <1>6, <1>8, <1>9, <1>10, Zenon DEF Cuts
<1>12. QED
  BY <1>3, <1>6, <1>11

\* Cursors and indices: the three ways from a cut to the next one and back.
LEMMA CutsCursors ==
  ASSUME NEW d, NEW cs, NEW at, Cuts(d, cs, at)
  PROVE  /\ \A i \in 0..Len(cs) : cursor_to_index(d, at[i]) = i
         /\ \A i \in 1..Len(cs) : /\ utf8_next(d, at[i - 1], Len(d)) = at[i]
                                  /\ cursor_prev(d, at[i]) = at[i - 1]
                                  /\ utf8_prev(d, at[i], 0) = at[i - 1]
<1>1. Len(d) \in Nat /\ Len(cs) \in Nat /\ at[0] = 0
  BY CutFacts, SMTT(30)
<1>2. \A k \in 0..Len(cs) : at[k] \in 0..Len(d) /\ \A l \in 0..(k - 1) : at[l] < at[k]
  BY CutsGrow
<1>3. ASSUME NEW i \in 0..Len(cs) PROVE cursor_to_index(d, at[i]) = i
  <2>1. 0 \in 0..Len(cs) /\ i \in 0..Len(cs) /\ at[i] \in 0..Len(d)
    BY <1>1, <1>2
  <2>2. PICK ds, f : Cuts(SubSeq(d, 1, at[i]), ds, f) /\ Len(ds) = i
    <3>1. Cuts(SubSeq(d, at[0] + 1, at[i]), SubSeq(cs, 0 + 1, i), [k \in 0..(i - 0) |-> at[0 + k] - at[0]])
          /\ Len(SubSeq(cs, 0 + 1, i)) = i - 0
      BY <2>1, CutsPart
    <3>2. at[0] + 1 = 1 /\ i - 0 = i
      BY <1>1
    <3>3. QED
      BY <3>1, <3>2
  <2>3. utf8_length(SubSeq(d, 1, at[i])) = i
    BY <2>2, CutsLength
  <2>4. ~(at[i] < 0 \/ at[i] > Len(d))
    BY <1>1, <2>1
  <2>5. QED
    BY <2>3, <2>4, Zenon DEF cursor_to_index
<1>4. ASSUME NEW i \in 1..Len(cs)
      PROVE  /\ utf8_next(d, at[i - 1], Len(d)) = at[i]
             /\ cursor_prev(d, at[i]) = at[i - 1]
             /\ utf8_prev(d, at[i], 0) = at[i - 1]
  <2>1. /\ i \in 0..Len(cs) /\ i - 1 \in 0..Len(cs) /\ i - 1 \in 0..(i - 1)
    OBVIOUS
  <2>2. at[i - 1] \in Nat /\ at[i] \in Nat /\ at[i - 1] < at[i] /\ at[i] <= Len(d)
    BY <1>1, <1>2, <2>1
  <2>3. /\ cursor_next(d, at[i - 1]) = at[i]
        /\ d[at[i - 1] + 1] \div 64 # 2
        /\ \A p \in (at[i - 1] + 1)..(at[i] - 1) : d[p + 1] \div 64 = 2
    BY CutNext
  <2>4. utf8_next(d, at[i - 1], Len(d)) = at[i]
    <3>1. ~(at[i - 1] >= Len(d)) /\ ~(at[i] > Len(d))
      BY <1>1, <2>2
    <3>2. QED
      BY <2>3, <3>1 DEF utf8_next
  <2>5. PICK T : T = {k \in 0..(at[i] - 1) : d[k + 1] \div 64 # 2}
    OBVIOUS
  <2>6. at[i - 1] \in T /\ \A l \in T : l <= at[i - 1]
    BY <2>2, <2>3, <2>5
  <2>7. T \subseteq Int
    BY <2>2, <2>5
  <2>8. PICK x : x = CHOOSE k \in T : \A l \in T : l <= k
    OBVIOUS
  <2>9. x \in T /\ \A l \in T : l <= x
    BY <2>6, <2>8, Zenon
  <2>10. x = at[i - 1]
    <3>1. PICK a : a = at[i - 1]
      OBVIOUS
    <3>2. a \in Int /\ x \in Int /\ a <= x /\ x <= a
      BY <2>6, <2>7, <2>9, <3>1
    <3>3. QED
      BY <3>1, <3>2
  <2>11. cursor_prev(d, at[i]) = x
    BY <2>5, <2>8, Zenon DEF cursor_prev
  <2>12. utf8_prev(d, at[i], 0) = x
    <3>1. T # {}
      BY <2>6
    <3>2. QED
      BY <2>5, <2>8, <3>1, Zenon DEF utf8_prev
  <2>13. QED
    BY <2>4, <2>10, <2>11, <2>12
<1>5. QED
  BY <1>3, <1>4

-----------------------------------------------------------------------------
(* Putting bytes together.                                                 *)

\* The empty string and a string of one character.
LEMMA EncodesOne ==
  /\ Encodes(<<>>, <<>>)
  /\ \A c \in Points : Encodes(Code(c), <<c>>)
<1>1. Encodes(<<>>, <<>>)
  <2>1. PICK f : f = [i \in 0..0 |-> 0]
    OBVIOUS
  <2>2. f \in [0..0 -> Nat] /\ f[0] = 0
    BY <2>1
  <2>3. PICK z : z = <<>>
    OBVIOUS
  <2>4. z \in Seq(Bytes) /\ z \in Seq(Points) /\ Len(z) = 0
    BY <2>3
  <2>5. Cuts(z, z, f)
    BY <2>2, <2>4 DEF Cuts
  <2>6. QED
    BY <2>3, <2>5 DEF Encodes
<1>2. ASSUME NEW c \in Points PROVE Encodes(Code(c), <<c>>)
  <2>1. Width(c) \in 1..4 /\ Code(c) \in Seq(Bytes) /\ Len(Code(c)) = Width(c)
    BY CodeBytes
  <2>2. PICK f : f = [i \in 0..1 |-> IF i = 0 THEN 0 ELSE Width(c)]
    OBVIOUS
  <2>3. f \in [0..1 -> Nat] /\ f[0] = 0 /\ f[1] = Width(c)
    BY <2>1, <2>2
  <2>4. PICK ds : ds = <<c>>
    OBVIOUS
  <2>5. ds \in Seq(Points) /\ Len(ds) = 1 /\ ds[1] = c
    BY <2>4
  <2>6. ASSUME NEW i \in 1..Len(ds)
        PROVE  /\ f[i] = f[i - 1] + Width(ds[i])
               /\ \A k \in 1..Width(ds[i]) : Code(c)[f[i - 1] + k] = Code(ds[i])[k]
    <3>1. i = 1 /\ f[i - 1] = 0 /\ ds[i] = c /\ f[i] = Width(c)
      BY <2>3, <2>5
    <3>2. Width(c) \in Nat
      BY <2>1
    <3>3. QED
      BY <3>1, <3>2
  <2>7. f[Len(ds)] = Len(Code(c)) /\ f \in [0..Len(ds) -> Nat]
    BY <2>1, <2>3, <2>5
  <2>8. Cuts(Code(c), ds, f)
    BY <2>1, <2>3, <2>5, <2>6, <2>7, Zenon DEF Cuts
  <2>9. QED
    BY <2>4, <2>8 DEF Encodes
<1>3. QED
  BY <1>1, <1>2

\* The bytes of two strings, one behind the other.
LEMMA EncodesBoth ==
  ASSUME NEW d, NEW a, Encodes(d, a), NEW e, NEW b, Encodes(e, b)
  PROVE  Encodes(d \o e, a \o b)
<1>1. PICK f : Cuts(d, a, f)
  BY DEF Encodes
<1>2. PICK g : Cuts(e, b, g)
  BY DEF Encodes
<1>3. /\ d \in Seq(Bytes) /\ a \in Seq(Points) /\ Len(d) \in Nat /\ Len(a) \in Nat
      /\ \A i \in 0..Len(a) : f[i] \in Nat
      /\ f[0] = 0 /\ f[Len(a)] = Len(d)
      /\ \A i \in 1..Len(a) : /\ a[i] \in Points /\ Width(a[i]) \in 1..4
                              /\ f[i] = f[i - 1] + Width(a[i])
                              /\ \A k \in 1..Width(a[i]) : d[f[i - 1] + k] = Code(a[i])[k]
  BY <1>1, CutFacts, SMTT(30)
<1>4. /\ e \in Seq(Bytes) /\ b \in Seq(Points) /\ Len(e) \in Nat /\ Len(b) \in Nat
      /\ \A i \in 0..Len(b) : g[i] \in Nat
      /\ g[0] = 0 /\ g[Len(b)] = Len(e)
      /\ \A i \in 1..Len(b) : /\ b[i] \in Points /\ Width(b[i]) \in 1..4
                              /\ g[i] = g[i - 1] + Width(b[i])
                              /\ \A k \in 1..Width(b[i]) : e[g[i - 1] + k] = Code(b[i])[k]
  BY <1>2, CutFacts, SMTT(30)
<1>5. \A i \in 0..Len(a) : f[i] \in 0..Len(d)
  BY <1>1, CutsGrow
<1>6. \A i \in 0..Len(b) : g[i] \in 0..Len(e)
  BY <1>2, CutsGrow
<1>7. PICK y, cs : y = d \o e /\ cs = a \o b
  OBVIOUS
<1>8. /\ y \in Seq(Bytes) /\ Len(y) = Len(d) + Len(e)
      /\ \A p \in 1..(Len(d) + Len(e)) : y[p] = IF p <= Len(d) THEN d[p] ELSE e[p - Len(d)]
  BY <1>3, <1>4, <1>7, ConcatCells
<1>9. /\ cs \in Seq(Points) /\ Len(cs) = Len(a) + Len(b)
      /\ \A i \in 1..(Len(a) + Len(b)) : cs[i] = IF i <= Len(a) THEN a[i] ELSE b[i - Len(a)]
  BY <1>3, <1>4, <1>7, ConcatCells
<1>10. PICK h : h = [i \in 0..Len(cs) |-> IF i <= Len(a) THEN f[i] ELSE Len(d) + g[i - Len(a)]]
  OBVIOUS
<1>11. /\ \A i \in 0..Len(a) : h[i] = f[i]
       /\ \A i \in 0..Len(b) : h[Len(a) + i] = Len(d) + g[i]
  <2>1. ASSUME NEW i \in 0..Len(a) PROVE h[i] = f[i]
    BY <1>3, <1>4, <1>9, <1>10
  <2>2. ASSUME NEW i \in 0..Len(b) PROVE h[Len(a) + i] = Len(d) + g[i]
    <3>1. CASE i = 0
      <4>1. Len(a) \in 0..Len(a) /\ Len(a) + i = Len(a) /\ g[i] = 0 /\ Len(d) + 0 = Len(d)
        BY <1>3, <1>4, <3>1
      <4>2. h[Len(a)] = Len(d)
        BY <1>3, <2>1, <4>1
      <4>3. QED
        BY <4>1, <4>2
    <3>2. CASE i # 0
      <4>1. Len(a) + i \in 0..Len(cs) /\ ~(Len(a) + i <= Len(a)) /\ (Len(a) + i) - Len(a) = i
        BY <1>3, <1>4, <1>9, <3>2
      <4>2. QED
        BY <1>10, <4>1
    <3>3. QED
      BY <3>1, <3>2
  <2>3. QED
    BY <2>1, <2>2
<1>12. h \in [0..Len(cs) -> Nat]
  <2>1. ASSUME NEW i \in 0..Len(cs) PROVE h[i] \in Nat
    <3>1. CASE i <= Len(a)
      BY <1>3, <1>11, <3>1
    <3>2. CASE i > Len(a)
      <4>1. PICK j : j = i - Len(a)
        OBVIOUS
      <4>2. j \in 0..Len(b) /\ i = Len(a) + j
        BY <1>3, <1>4, <1>9, <3>2, <4>1
      <4>3. QED
        BY <1>3, <1>4, <1>11, <4>2, SMTT(30)
    <3>3. QED
      BY <1>3, <3>1, <3>2
  <2>2. QED
    BY <1>10, <2>1
<1>13. h[0] = 0 /\ h[Len(cs)] = Len(y)
  <2>1. 0 \in 0..Len(a) /\ Len(b) \in 0..Len(b)
    BY <1>3, <1>4
  <2>2. h[0] = f[0] /\ h[Len(a) + Len(b)] = Len(d) + g[Len(b)]
    BY <1>11, <2>1
  <2>3. QED
    BY <1>3, <1>4, <1>8, <1>9, <2>2
<1>14. ASSUME NEW i \in 1..Len(cs)
       PROVE  /\ h[i] = h[i - 1] + Width(cs[i])
              /\ \A k \in 1..Width(cs[i]) : y[h[i - 1] + k] = Code(cs[i])[k]
  <2>1. CASE i <= Len(a)
    <3>1. /\ i \in 1..Len(a) /\ i \in 0..Len(a) /\ i - 1 \in 0..Len(a) /\ cs[i] = a[i]
      BY <1>3, <1>4, <1>9, <2>1
    <3>2. h[i] = f[i] /\ h[i - 1] = f[i - 1] /\ f[i] \in 0..Len(d) /\ f[i - 1] \in Nat /\ Width(a[i]) \in 1..4
          /\ f[i] = f[i - 1] + Width(a[i])
      BY <1>3, <1>5, <1>11, <3>1
    <3>3. ASSUME NEW k \in 1..Width(cs[i]) PROVE y[h[i - 1] + k] = Code(cs[i])[k]
      <4>1. PICK p, w : p = f[i - 1] /\ w = Width(a[i])
        OBVIOUS
      <4>2. p \in Nat /\ w \in 1..4 /\ k \in 1..w /\ p + w <= Len(d)
        BY <1>3, <3>1, <3>2, <4>1
      <4>3. p + k \in 1..(Len(d) + Len(e)) /\ p + k <= Len(d)
        BY <1>3, <1>4, <4>2
      <4>4. y[p + k] = d[p + k]
        BY <1>8, <4>3
      <4>5. QED
        BY <1>3, <3>1, <3>2, <4>1, <4>4
    <3>4. QED
      BY <3>1, <3>2, <3>3
  <2>2. CASE i > Len(a)
    <3>1. PICK j : j = i - Len(a)
      OBVIOUS
    <3>2. /\ j \in 1..Len(b) /\ j \in 0..Len(b) /\ j - 1 \in 0..Len(b) /\ i = Len(a) + j /\ i - 1 = Len(a) + (j - 1)
      BY <1>3, <1>4, <1>9, <2>2, <3>1
    <3>3. cs[i] = b[j]
      <4>1. ~(i <= Len(a)) /\ i \in 1..(Len(a) + Len(b))
        BY <1>3, <1>9, <2>2
      <4>2. QED
        BY <1>9, <3>1, <4>1
    <3>4. h[i] = Len(d) + g[j] /\ h[i - 1] = Len(d) + g[j - 1] /\ g[j] \in 0..Len(e) /\ g[j - 1] \in Nat /\ Width(b[j]) \in 1..4
          /\ g[j] = g[j - 1] + Width(b[j])
      BY <1>4, <1>6, <1>11, <3>2
    <3>5. PICK p, w : p = g[j - 1] /\ w = Width(b[j])
      OBVIOUS
    <3>6. p \in Nat /\ w \in 1..4 /\ p + w <= Len(e) /\ h[i - 1] = Len(d) + p /\ h[i] = Len(d) + (p + w)
      BY <1>4, <3>4, <3>5
    <3>7. h[i] = h[i - 1] + Width(cs[i])
      <4>1. Len(d) + (p + w) = (Len(d) + p) + w
        BY <1>3, <3>6
      <4>2. QED
        BY <3>3, <3>5, <3>6, <4>1, Zenon
    <3>8. ASSUME NEW k \in 1..Width(cs[i]) PROVE y[h[i - 1] + k] = Code(cs[i])[k]
      <4>1. k \in 1..w
        BY <3>3, <3>5
      <4>2. PICK q : q = (Len(d) + p) + k
        OBVIOUS
      <4>3. q \in 1..(Len(d) + Len(e)) /\ ~(q <= Len(d)) /\ q - Len(d) = p + k
        <5>1. PICK m, n : m = Len(d) /\ n = Len(e)
          OBVIOUS
        <5>2. m \in Nat /\ n \in Nat /\ p + w <= n /\ q = (m + p) + k /\ k \in Nat /\ k >= 1 /\ k <= w
          BY <1>3, <1>4, <3>6, <4>1, <4>2, <5>1
        <5>3. q \in 1..(m + n) /\ ~(q <= m) /\ q - m = p + k
          BY <3>6, <5>2
        <5>4. QED
          BY <5>1, <5>3
      <4>4. y[q] = e[p + k]
        BY <1>8, <4>3
      <4>5. e[p + k] = Code(b[j])[k]
        BY <1>4, <3>2, <3>5, <4>1
      <4>6. QED
        BY <3>3, <3>6, <4>2, <4>4, <4>5
    <3>9. QED
      BY <3>7, <3>8
  <2>3. QED
    BY <1>3, <1>9, <2>1, <2>2
<1>15. Cuts(y, cs, h)
  BY <1>8, <1>9, <1>12, <1>13, <1>14, Zenon DEF Cuts
<1>16. QED
  BY <1>7, <1>15 DEF Encodes

\* The bytes between two cursors.
LEMMA EncodesPart ==
  ASSUME NEW d, NEW cs, NEW at, Cuts(d, cs, at), NEW i \in 0..Len(cs), NEW j \in i..Len(cs)
  PROVE  Encodes(SubSeq(d, at[i] + 1, at[j]), SubSeq(cs, i + 1, j))
BY CutsPart DEF Encodes

\* A string of n times the same character.
LEMMA EncodesMany ==
  ASSUME NEW c \in Points, NEW n \in Nat
  PROVE  Encodes(FlattenSeq([k \in 1..n |-> Code(c)]), [k \in 1..n |-> c])
<1>1. Code(c) \in Seq(Bytes) /\ Encodes(Code(c), <<c>>)
  BY CodeBytes, EncodesOne
<1>2. PICK ss, cs : ss = [k \in 1..n |-> Code(c)] /\ cs = [k \in 1..n |-> c]
  OBVIOUS
<1>3. ss \in Seq(Seq(Bytes)) /\ Len(ss) = n /\ \A k \in 1..n : ss[k] = Code(c)
  BY <1>1, <1>2
<1>4. cs \in Seq(Points) /\ Len(cs) = n /\ \A k \in 1..n : cs[k] = c
  BY <1>2
<1>5. CASE n = 0
  <2>1. ss = <<>> /\ cs = <<>>
    BY <1>3, <1>4, <1>5
  <2>2. FlattenSeq(ss) = <<>>
    BY <1>3, <1>5, <2>1 DEF FlattenSeq
  <2>3. QED
    BY <1>2, <2>1, <2>2, EncodesOne
<1>6. CASE n # 0
  <2>. DEFINE F(g) == g = [i \in 1..Len(ss) |-> IF i = 1 THEN ss[i] ELSE g[i - 1] \o ss[i]]
  <2>1. \E g : F(g)
    <3>1. PICK step : step = [i \in 1..n |-> [s \in Seq(Bytes) |-> s \o Code(c)]]
      OBVIOUS
    <3>2. step \in [1..n -> [Seq(Bytes) -> Seq(Bytes)]]
      BY <1>1, <3>1
    <3>3. <<>> \in Seq(Bytes)
      OBVIOUS
    <3>4. PICK f \in [0..n -> Seq(Bytes)] : f[0] = <<>> /\ \A i \in 1..n : f[i] = step[i][f[i - 1]]
      <4>1. \E f : Iterates(f, n, Seq(Bytes), <<>>, step)
        BY <3>2, <3>3, Recursion
      <4>2. QED
        BY <4>1 DEF Iterates
    <3>5. ASSUME NEW i \in 1..n PROVE f[i] = f[i - 1] \o Code(c)
      <4>1. f[i - 1] \in Seq(Bytes) /\ f[i] = step[i][f[i - 1]]
        BY <3>4
      <4>2. QED
        BY <3>1, <4>1
    <3>6. PICK g : g = [i \in 1..Len(ss) |-> f[i]]
      OBVIOUS
    <3>7. ASSUME NEW i \in 1..Len(ss)
          PROVE  g[i] = IF i = 1 THEN ss[i] ELSE g[i - 1] \o ss[i]
      <4>1. i \in 1..n /\ ss[i] = Code(c) /\ g[i] = f[i] /\ f[i] = f[i - 1] \o Code(c)
        BY <1>3, <3>5, <3>6
      <4>2. CASE i = 1
        <5>1. f[i - 1] = <<>>
          BY <3>4, <4>2
        <5>2. QED
          BY <1>1, <4>1, <4>2, <5>1
      <4>3. CASE i # 1
        <5>1. i - 1 \in 1..Len(ss)
          BY <4>3
        <5>2. g[i - 1] = f[i - 1]
          BY <3>6, <5>1
        <5>3. QED
          BY <4>1, <4>3, <5>2
      <4>4. QED
        BY <4>2, <4>3
    <3>8. F(g)
      BY <3>6, <3>7
    <3>9. QED
      BY <3>8
  <2>2. PICK g : g = CHOOSE f : F(f)
    OBVIOUS
  <2>3. F(g)
    BY <2>1, <2>2, Zenon
  <2>4. FlattenSeq(ss) = g[n]
    <3>1. ~(Len(ss) = 0)
      BY <1>3, <1>6
    <3>2. FlattenSeq(ss) = g[Len(ss)]
      BY <2>2, <3>1 DEF FlattenSeq
    <3>3. QED
      BY <1>3, <3>2
  <2>. DEFINE S == {i \in 0..n : i = 0 \/ Encodes(g[i], SubSeq(cs, 1, i))}
  <2>5. ASSUME NEW m \in 0..n, \A l \in 0..(m - 1) : l \in S
        PROVE  m \in S
    <3>1. CASE m = 0
      BY <3>1
    <3>2. CASE m = 1
      <4>1. g[1] = Code(c)
        BY <1>3, <1>6, <2>3, <3>2
      <4>2. SubSeq(cs, 1, 1) = <<c>>
        <5>1. PICK p, q : p = SubSeq(cs, 1, 1) /\ q = <<c>>
          OBVIOUS
        <5>2. p \in Seq(Points) /\ Len(p) = 1 /\ p[1] = c
          BY <1>4, <3>2, <5>1
        <5>3. q \in Seq(Points) /\ Len(q) = 1 /\ q[1] = c
          BY <5>1
        <5>4. p = q
          BY <5>2, <5>3, SameCells
        <5>5. QED
          BY <5>1, <5>4
      <4>3. QED
        BY <1>1, <3>2, <4>1, <4>2
    <3>3. CASE m # 0 /\ m # 1
      <4>1. m \in 1..n /\ m - 1 \in 0..(m - 1) /\ m - 1 # 0
        BY <3>3
      <4>2. Encodes(g[m - 1], SubSeq(cs, 1, m - 1))
        BY <2>5, <4>1
      <4>3. g[m] = g[m - 1] \o Code(c)
        <5>1. m \in 1..Len(ss) /\ ss[m] = Code(c)
          BY <1>3, <4>1
        <5>2. QED
          BY <2>3, <3>3, <5>1
      <4>4. SubSeq(cs, 1, m) = SubSeq(cs, 1, m - 1) \o <<c>>
        <5>1. /\ SubSeq(cs, 1, m) \in Seq(Points) /\ Len(SubSeq(cs, 1, m)) = m
              /\ \A k \in 1..m : SubSeq(cs, 1, m)[k] = c
          BY <1>4, <4>1
        <5>2. PICK p : p = SubSeq(cs, 1, m - 1)
          OBVIOUS
        <5>3. p \in Seq(Points) /\ Len(p) = m - 1 /\ \A k \in 1..(m - 1) : p[k] = c
          BY <1>4, <4>1, <5>2
        <5>4. /\ p \o <<c>> \in Seq(Points) /\ Len(p \o <<c>>) = m
              /\ \A k \in 1..m : (p \o <<c>>)[k] = c
          BY <4>1, <5>3
        <5>5. QED
          BY <5>1, <5>2, <5>4, SameCells
      <4>5. Encodes(g[m - 1] \o Code(c), SubSeq(cs, 1, m - 1) \o <<c>>)
        BY <1>1, <4>2, EncodesBoth
      <4>6. QED
        BY <4>1, <4>3, <4>4, <4>5
    <3>4. QED
      BY <3>1, <3>2, <3>3
  <2>. HIDE DEF S, F
  <2>6. n \in S
    BY <2>5, UpTo
  <2>7. SubSeq(cs, 1, n) = cs
    BY <1>4
  <2>8. QED
    BY <1>2, <1>6, <2>4, <2>6, <2>7 DEF S
<1>7. QED
  BY <1>5, <1>6

-----------------------------------------------------------------------------
(* Comparing and counting.                                                 *)

\* Where the characters are the same, so are the cuts and the bytes.
LEMMA CutsAgree ==
  ASSUME NEW d, NEW a, NEW f, Cuts(d, a, f), NEW e, NEW b, NEW g, Cuts(e, b, g),
         NEW m \in Nat, m <= Len(a), m <= Len(b), \A i \in 1..m : a[i] = b[i]
  PROVE  f[m] = g[m] /\ \A p \in 1..f[m] : d[p] = e[p]
<1>1. /\ Len(a) \in Nat /\ f[0] = 0 /\ \A i \in 0..Len(a) : f[i] \in Nat
      /\ \A i \in 1..Len(a) : /\ a[i] \in Points /\ Width(a[i]) \in 1..4 /\ f[i] = f[i - 1] + Width(a[i])
                              /\ \A k \in 1..Width(a[i]) : d[f[i - 1] + k] = Code(a[i])[k]
  BY CutFacts, SMTT(30)
<1>2. /\ Len(b) \in Nat /\ g[0] = 0 /\ \A i \in 0..Len(b) : g[i] \in Nat
      /\ \A i \in 1..Len(b) : /\ b[i] \in Points /\ Width(b[i]) \in 1..4 /\ g[i] = g[i - 1] + Width(b[i])
                              /\ \A k \in 1..Width(b[i]) : e[g[i - 1] + k] = Code(b[i])[k]
  BY CutFacts, SMTT(30)
<1>. DEFINE S == {i \in 0..m : f[i] = g[i]}
<1>3. ASSUME NEW n \in 0..m, \A l \in 0..(n - 1) : l \in S
      PROVE  n \in S
  <2>1. CASE n = 0
    BY <1>1, <1>2, <2>1
  <2>2. CASE n # 0
    <3>1. n \in 1..m /\ n - 1 \in 0..(n - 1) /\ n \in 1..Len(a) /\ n \in 1..Len(b)
      BY <1>1, <1>2, <2>2
    <3>2. f[n - 1] = g[n - 1] /\ a[n] = b[n]
      BY <1>3, <3>1
    <3>3. f[n] = f[n - 1] + Width(a[n]) /\ g[n] = g[n - 1] + Width(b[n])
      BY <1>1, <1>2, <3>1
    <3>4. f[n] = g[n]
      BY <3>2, <3>3
    <3>5. QED
      BY <3>4
  <2>3. QED
    BY <2>1, <2>2
<1>. HIDE DEF S
<1>4. \A i \in 0..m : i \in S
  BY <1>3, UpTo
<1>5. \A i \in 0..m : f[i] = g[i]
  BY <1>4 DEF S
<1>6. ASSUME NEW p \in 1..f[m] PROVE d[p] = e[p]
  <2>1. m \in 0..Len(a)
    BY <1>1
  <2>2. PICK i \in 1..m : \E k \in 1..Width(a[i]) : p = f[i - 1] + k /\ d[p] = Code(a[i])[k]
    BY <2>1, CutsCover
  <2>3. PICK k \in 1..Width(a[i]) : p = f[i - 1] + k /\ d[p] = Code(a[i])[k]
    BY <2>2
  <2>4. i \in 1..Len(b) /\ i - 1 \in 0..m /\ a[i] = b[i]
    BY <1>2
  <2>5. f[i - 1] = g[i - 1] /\ k \in 1..Width(b[i])
    BY <1>5, <2>3, <2>4
  <2>6. e[g[i - 1] + k] = Code(b[i])[k]
    BY <1>2, <2>4, <2>5
  <2>7. QED
    BY <2>3, <2>4, <2>5, <2>6
<1>7. QED
  BY <1>5, <1>6

\* string_cmp, when the first byte that differs comes before any NUL.
LEMMA CmpDiffer ==
  ASSUME NEW d \in Seq(Bytes), NEW e \in Seq(Bytes), NEW p \in Nat, 1 <= p, p <= Len(d), p <= Len(e),
         d[p] # e[p], \A q \in 1..(p - 1) : d[q] = e[q] /\ d[q] # 0
  PROVE  string_cmp(d, e) = IF d[p] < e[p] THEN -1 ELSE 1
<1>1. Len(d) \in Nat /\ Len(e) \in Nat
  OBVIOUS
<1>2. PICK n : n = IF Len(d) < Len(e) THEN Len(d) ELSE Len(e)
  OBVIOUS
<1>3. PICK T : T = {k \in 1..n : d[k] # e[k] \/ d[k] = 0}
  OBVIOUS
<1>4. n \in Nat /\ p \in 1..n
  BY <1>1, <1>2
<1>5. p \in T
  BY <1>3, <1>4
<1>6. \A y \in T : y \in Nat /\ p <= y
  BY <1>3, <1>4
<1>7. PICK k : k = CHOOSE x \in T : \A y \in T : x <= y
  OBVIOUS
<1>8. k \in T /\ \A y \in T : k <= y
  BY <1>5, <1>6, <1>7, Zenon
<1>9. k = p
  BY <1>4, <1>5, <1>6, <1>8
<1>. DEFINE sign(x) == IF x < 0 THEN -1 ELSE IF x > 0 THEN 1 ELSE 0
<1>10. string_cmp(d, e) = IF T # {} /\ d[k] # e[k] THEN sign(d[k] - e[k]) ELSE sign(Len(d) - Len(e))
  BY <1>2, <1>3, <1>7, Zenon DEF string_cmp
<1>11. string_cmp(d, e) = sign(d[p] - e[p])
  <2>. HIDE DEF sign
  <2>1. QED
    BY <1>5, <1>9, <1>10
<1>12. d[p] \in Int /\ e[p] \in Int
  <2>1. d[p] \in Bytes /\ e[p] \in Bytes
    BY <1>1
  <2>2. \A x \in Bytes : x \in Int
    BY DEF Bytes
  <2>3. QED
    BY <2>1, <2>2
<1>13. PICK x, y : x = d[p] /\ y = e[p]
  OBVIOUS
<1>14. x \in Int /\ y \in Int /\ x # y
  BY <1>12, <1>13
<1>15. sign(x - y) = IF x < y THEN -1 ELSE 1
  BY <1>14
<1>16. QED
  BY <1>11, <1>13, <1>15

\* string_cmp, when one string starts with the other.
LEMMA CmpPrefix ==
  ASSUME NEW d \in Seq(Bytes), NEW e \in Seq(Bytes),
         \A q \in 1..Len(d) : q <= Len(e) => d[q] = e[q]
  PROVE  string_cmp(d, e) = IF Len(d) < Len(e) THEN -1 ELSE IF Len(d) > Len(e) THEN 1 ELSE 0
<1>1. Len(d) \in Nat /\ Len(e) \in Nat
  OBVIOUS
<1>2. PICK n : n = IF Len(d) < Len(e) THEN Len(d) ELSE Len(e)
  OBVIOUS
<1>3. PICK T : T = {k \in 1..n : d[k] # e[k] \/ d[k] = 0}
  OBVIOUS
<1>4. n \in Nat /\ n <= Len(d) /\ n <= Len(e)
  BY <1>1, <1>2
<1>5. PICK k : k = CHOOSE x \in T : \A y \in T : x <= y
  OBVIOUS
<1>6. T # {} => k \in T
  <2>1. SUFFICES ASSUME T # {} PROVE k \in T
    OBVIOUS
  <2>2. T \subseteq Nat
    BY <1>3, <1>4
  <2>3. \E x \in T : \A y \in T : x <= y
    BY <2>1, <2>2, MinInSet
  <2>4. QED
    BY <1>5, <2>3, Zenon
<1>7. T # {} => d[k] = e[k]
  BY <1>1, <1>3, <1>4, <1>6, SMTT(30)
<1>. DEFINE sign(x) == IF x < 0 THEN -1 ELSE IF x > 0 THEN 1 ELSE 0
<1>8. string_cmp(d, e) = IF T # {} /\ d[k] # e[k] THEN sign(d[k] - e[k]) ELSE sign(Len(d) - Len(e))
  BY <1>2, <1>3, <1>5, Zenon DEF string_cmp
<1>9. string_cmp(d, e) = sign(Len(d) - Len(e))
  <2>. HIDE DEF sign
  <2>1. QED
    BY <1>7, <1>8
<1>10. PICK x, y : x = Len(d) /\ y = Len(e)
  OBVIOUS
<1>11. x \in Nat /\ y \in Nat
  BY <1>1, <1>10
<1>12. sign(x - y) = IF x < y THEN -1 ELSE IF x > y THEN 1 ELSE 0
  BY <1>11
<1>13. QED
  BY <1>9, <1>10, <1>12

\* Strings whose k-th characters are the first that differ.
LEMMA CompareDiffer ==
  ASSUME NEW d, NEW a, NEW f, Cuts(d, a, f), NEW e, NEW b, NEW g, Cuts(e, b, g),
         NEW k \in Nat, 1 <= k, k <= Len(a), k <= Len(b), a[k] # b[k],
         \A i \in 1..(k - 1) : a[i] = b[i], \A i \in 1..Len(a) : a[i] # 0
  PROVE  string_cmp(d, e) = IF a[k] < b[k] THEN -1 ELSE 1
<1>1. /\ d \in Seq(Bytes) /\ Len(d) \in Nat /\ Len(a) \in Nat
      /\ \A i \in 0..Len(a) : f[i] \in Nat
      /\ \A i \in 1..Len(a) : /\ a[i] \in Points /\ Width(a[i]) \in 1..4 /\ f[i] = f[i - 1] + Width(a[i])
                              /\ \A l \in 1..Width(a[i]) : d[f[i - 1] + l] = Code(a[i])[l]
  BY CutFacts, SMTT(30)
<1>2. /\ e \in Seq(Bytes) /\ Len(e) \in Nat /\ Len(b) \in Nat
      /\ \A i \in 0..Len(b) : g[i] \in Nat
      /\ \A i \in 1..Len(b) : /\ b[i] \in Points /\ Width(b[i]) \in 1..4 /\ g[i] = g[i - 1] + Width(b[i])
                              /\ \A l \in 1..Width(b[i]) : e[g[i - 1] + l] = Code(b[i])[l]
  BY CutFacts, SMTT(30)
<1>3. f[k] \in 0..Len(d) /\ g[k] \in 0..Len(e)
  <2>1. k \in 0..Len(a) /\ k \in 0..Len(b)
    BY <1>1, <1>2
  <2>2. QED
    BY <2>1, CutsGrow
<1>4. f[k - 1] = g[k - 1] /\ \A p \in 1..f[k - 1] : d[p] = e[p]
  <2>1. PICK n : n = k - 1
    OBVIOUS
  <2>2. n \in Nat /\ n <= Len(a) /\ n <= Len(b) /\ \A i \in 1..n : a[i] = b[i]
    BY <1>1, <1>2, <2>1
  <2>3. f[n] = g[n] /\ \A p \in 1..f[n] : d[p] = e[p]
    BY <2>2, CutsAgree
  <2>4. QED
    BY <2>1, <2>3
<1>5. PICK s, v, w : s = f[k - 1] /\ v = Width(a[k]) /\ w = Width(b[k])
  OBVIOUS
<1>6. /\ s \in Nat /\ v \in 1..4 /\ w \in 1..4 /\ s + v <= Len(d) /\ s + w <= Len(e)
      /\ \A l \in 1..v : d[s + l] = Code(a[k])[l]
      /\ \A l \in 1..w : e[s + l] = Code(b[k])[l]
  <2>1. k \in 1..Len(a) /\ k \in 1..Len(b) /\ k - 1 \in 0..Len(a)
    BY <1>1, <1>2
  <2>2. /\ v \in 1..4 /\ f[k] = s + v /\ s \in Nat
        /\ \A l \in 1..v : d[s + l] = Code(a[k])[l]
    BY <1>1, <1>5, <2>1
  <2>3. /\ w \in 1..4 /\ g[k] = s + w
        /\ \A l \in 1..w : e[s + l] = Code(b[k])[l]
    BY <1>2, <1>4, <1>5, <2>1
  <2>4. QED
    BY <1>3, <2>2, <2>3
<1>7. a[k] \in Points /\ b[k] \in Points /\ a[k] \in Nat /\ b[k] \in Nat
  <2>1. k \in 1..Len(a) /\ k \in 1..Len(b)
    BY <1>1, <1>2
  <2>2. \A c \in Points : c \in Nat
    BY SMTT(30) DEF Points
  <2>3. QED
    BY <1>1, <1>2, <2>1, <2>2
<1>8. PICK m \in 1..4 : /\ m <= v /\ m <= w
                        /\ IF a[k] < b[k] THEN Code(a[k])[m] < Code(b[k])[m] ELSE Code(b[k])[m] < Code(a[k])[m]
                        /\ \A l \in 1..(m - 1) : Code(a[k])[l] = Code(b[k])[l]
  <2>1. CASE a[k] < b[k]
    BY <1>5, <1>7, <2>1, CodeOrder
  <2>2. CASE b[k] < a[k]
    <3>1. ~(a[k] < b[k])
      BY <1>7, <2>2
    <3>2. PICK m \in 1..4 : /\ m <= v /\ m <= w /\ Code(b[k])[m] < Code(a[k])[m]
                            /\ \A l \in 1..(m - 1) : Code(b[k])[l] = Code(a[k])[l]
      BY <1>5, <1>7, <2>2, CodeOrder
    <3>3. QED
      BY <3>1, <3>2
  <2>3. QED
    BY <1>7, <2>1, <2>2
<1>9. PICK p : p = s + m
  OBVIOUS
<1>10. p \in Nat /\ 1 <= p /\ p <= Len(d) /\ p <= Len(e) /\ m \in 1..v /\ m \in 1..w
  BY <1>1, <1>2, <1>6, <1>8, <1>9
<1>11. d[p] = Code(a[k])[m] /\ e[p] = Code(b[k])[m] /\ Code(a[k])[m] \in Nat /\ Code(b[k])[m] \in Nat
  <2>1. d[p] = Code(a[k])[m] /\ e[p] = Code(b[k])[m]
    BY <1>6, <1>9, <1>10
  <2>2. d[p] \in Bytes /\ e[p] \in Bytes
    BY <1>1, <1>2, <1>10
  <2>3. \A x \in Bytes : x \in Nat
    BY DEF Bytes
  <2>4. QED
    BY <2>1, <2>2, <2>3
<1>12. d[p] # e[p] /\ (d[p] < e[p] <=> a[k] < b[k])
  BY <1>8, <1>11
<1>13. ASSUME NEW q \in 1..(p - 1) PROVE d[q] = e[q] /\ d[q] # 0
  <2>1. d[q] # 0
    <3>1. k \in 0..Len(a) /\ q \in 1..f[k]
      <4>1. k \in 1..Len(a) /\ k \in 0..Len(a)
        BY <1>1
      <4>2. f[k] = s + v
        BY <1>1, <1>5, <4>1
      <4>3. QED
        BY <1>6, <1>8, <1>9, <4>1, <4>2
    <3>2. PICK i \in 1..k : \E l \in 1..Width(a[i]) : q = f[i - 1] + l /\ d[q] = Code(a[i])[l]
      BY <3>1, CutsCover
    <3>3. i \in 1..Len(a) /\ a[i] \in Points /\ a[i] # 0
      BY <1>1
    <3>4. QED
      BY <3>2, <3>3, NoNul
  <2>2. CASE q <= s
    <3>1. q \in 1..f[k - 1]
      BY <1>5, <1>6, <1>10, <2>2
    <3>2. QED
      BY <1>4, <2>1, <3>1
  <2>3. CASE q > s
    <3>1. PICK l : l = q - s
      OBVIOUS
    <3>2. l \in 1..(m - 1) /\ l \in 1..v /\ l \in 1..w /\ q = s + l
      BY <1>6, <1>8, <1>9, <1>10, <2>3, <3>1
    <3>3. d[q] = Code(a[k])[l] /\ e[q] = Code(b[k])[l]
      BY <1>6, <3>2
    <3>4. QED
      BY <1>8, <2>1, <3>2, <3>3
  <2>4. QED
    BY <1>6, <2>2, <2>3
<1>14. string_cmp(d, e) = IF d[p] < e[p] THEN -1 ELSE 1
  BY <1>1, <1>2, <1>10, <1>12, <1>13, CmpDiffer
<1>15. QED
  BY <1>12, <1>14

\* Strings of which one starts with the other.
LEMMA ComparePrefix ==
  ASSUME NEW d, NEW a, NEW f, Cuts(d, a, f), NEW e, NEW b, NEW g, Cuts(e, b, g),
         \A i \in 1..Len(a) : i <= Len(b) => a[i] = b[i]
  PROVE  string_cmp(d, e) = IF Len(a) < Len(b) THEN -1 ELSE IF Len(a) > Len(b) THEN 1 ELSE 0
<1>1. /\ d \in Seq(Bytes) /\ Len(d) \in Nat /\ Len(a) \in Nat /\ f[Len(a)] = Len(d)
      /\ e \in Seq(Bytes) /\ Len(e) \in Nat /\ Len(b) \in Nat /\ g[Len(b)] = Len(e)
  BY CutFacts, SMTT(30)
<1>2. /\ \A j \in 0..Len(a) : \A i \in 0..(j - 1) : f[i] < f[j]
      /\ \A j \in 0..Len(b) : \A i \in 0..(j - 1) : g[i] < g[j]
  BY CutsGrow
<1>3. CASE Len(a) <= Len(b)
  <2>1. f[Len(a)] = g[Len(a)] /\ \A p \in 1..f[Len(a)] : d[p] = e[p]
    BY <1>1, <1>3, CutsAgree, SMTT(30)
  <2>2. \A q \in 1..Len(d) : q <= Len(e) => d[q] = e[q]
    BY <1>1, <2>1
  <2>3. string_cmp(d, e) = IF Len(d) < Len(e) THEN -1 ELSE IF Len(d) > Len(e) THEN 1 ELSE 0
    BY <1>1, <2>2, CmpPrefix
  <2>4. CASE Len(a) = Len(b)
    <3>1. Len(d) = Len(e)
      BY <1>1, <2>1, <2>4
    <3>2. QED
      BY <1>1, <2>3, <2>4, <3>1
  <2>5. CASE Len(a) # Len(b)
    <3>1. Len(a) \in 0..(Len(b) - 1) /\ Len(b) \in 0..Len(b) /\ Len(a) < Len(b)
      BY <1>1, <1>3, <2>5
    <3>2. Len(d) < Len(e)
      BY <1>1, <1>2, <2>1, <3>1
    <3>3. QED
      BY <2>3, <3>1, <3>2
  <2>6. QED
    BY <2>4, <2>5
<1>4. CASE Len(b) < Len(a)
  <2>1. Len(b) <= Len(a) /\ \A i \in 1..Len(b) : a[i] = b[i]
    BY <1>1, <1>4
  <2>2. f[Len(b)] = g[Len(b)] /\ \A p \in 1..f[Len(b)] : d[p] = e[p]
    BY <1>1, <2>1, CutsAgree
  <2>3. Len(b) \in 0..(Len(a) - 1) /\ Len(a) \in 0..Len(a)
    BY <1>1, <1>4
  <2>4. Len(e) < Len(d)
    BY <1>1, <1>2, <2>2, <2>3
  <2>5. \A q \in 1..Len(d) : q <= Len(e) => d[q] = e[q]
    BY <1>1, <2>2
  <2>6. string_cmp(d, e) = IF Len(d) < Len(e) THEN -1 ELSE IF Len(d) > Len(e) THEN 1 ELSE 0
    BY <1>1, <2>5, CmpPrefix
  <2>7. QED
    BY <1>1, <1>4, <2>4, <2>6
<1>5. QED
  BY <1>1, <1>3, <1>4

\* A set and its image under a one-to-one map have as many members.
LEMMA SameCount ==
  ASSUME NEW S, IsFiniteSet(S), NEW h, \A i \in S : \A j \in S : h[i] = h[j] => i = j
  PROVE  Cardinality({h[i] : i \in S}) = Cardinality(S)
<1>1. PICK T, g : T = {h[i] : i \in S} /\ g = [i \in S |-> h[i]]
  OBVIOUS
<1>2. g \in [S -> T] /\ \A i \in S : g[i] = h[i]
  BY <1>1
<1>3. g \in Injection(S, T)
  BY <1>2 DEF Injection, IsInjective
<1>4. g \in Surjection(S, T)
  BY <1>1, <1>2 DEF Surjection
<1>5. ExistsBijection(S, T)
  BY <1>3, <1>4 DEF ExistsBijection, Bijection
<1>6. QED
  BY <1>1, <1>5, FS_Bijection

\* string-count counts an ASCII character, which is no byte of another one, by
\* its bytes.
LEMMA CutsCount ==
  ASSUME NEW d, NEW cs, NEW at, Cuts(d, cs, at), NEW c \in Points, c < 128
  PROVE  string_count(d, c, 0, Len(d)) = Cardinality({i \in DOMAIN cs : cs[i] = c})
<1>1. /\ cs \in Seq(Points) /\ Len(d) \in Nat /\ Len(cs) \in Nat /\ at[Len(cs)] = Len(d)
      /\ \A i \in 0..Len(cs) : at[i] \in Nat
      /\ \A i \in 1..Len(cs) : /\ cs[i] \in Points /\ Width(cs[i]) \in 1..4 /\ at[i] = at[i - 1] + Width(cs[i])
                               /\ \A k \in 1..Width(cs[i]) : d[at[i - 1] + k] = Code(cs[i])[k]
  BY CutFacts, SMTT(30)
<1>2. /\ \A j \in 0..Len(cs) : at[j] \in 0..Len(d) /\ \A i \in 0..(j - 1) : at[i] < at[j]
      /\ Len(cs) <= Len(d)
  BY CutsGrow
<1>3. PICK S, h : S = {i \in DOMAIN cs : cs[i] = c} /\ h = [i \in 1..Len(cs) |-> at[i - 1]]
  OBVIOUS
<1>4. S \subseteq 1..Len(cs) /\ \A i \in 1..Len(cs) : i \in S <=> cs[i] = c
  BY <1>1, <1>3
<1>5. \A i \in 1..Len(cs) : h[i] = at[i - 1] /\ h[i] \in Nat /\ h[i] < Len(d)
  <2>1. SUFFICES ASSUME NEW i \in 1..Len(cs) PROVE at[i - 1] \in Nat /\ at[i - 1] < Len(d)
    BY <1>3
  <2>2. i - 1 \in 0..(Len(cs) - 1) /\ i - 1 \in 0..Len(cs) /\ Len(cs) \in 0..Len(cs)
    BY <1>1
  <2>3. QED
    BY <1>1, <1>2, <2>2
<1>6. Cardinality({h[i] : i \in S}) = Cardinality(S)
  <2>1. IsFiniteSet(S)
    <3>1. IsFiniteSet(1..Len(cs))
      BY <1>1, FS_Interval
    <3>2. QED
      BY <1>4, <3>1, FS_Subset
  <2>2. ASSUME NEW i \in S, NEW j \in S, h[i] = h[j] PROVE i = j
    <3>1. i \in 1..Len(cs) /\ j \in 1..Len(cs) /\ at[i - 1] = at[j - 1]
      BY <1>4, <1>5, <2>2
    <3>2. /\ i - 1 \in 0..Len(cs) /\ j - 1 \in 0..Len(cs) /\ at[i - 1] \in Nat
          /\ (i < j => i - 1 \in 0..(j - 1 - 1)) /\ (j < i => j - 1 \in 0..(i - 1 - 1))
      BY <1>1, <3>1
    <3>3. ~(i < j) /\ ~(j < i)
      BY <1>2, <3>1, <3>2
    <3>4. QED
      BY <3>1, <3>3
  <2>3. QED
    BY <2>1, <2>2, SameCount
<1>7. string_count(d, c, 0, Len(d)) = Cardinality({i \in DOMAIN cs : cs[i] = c})
  <2>0. c \in Nat
    BY SMTT(30) DEF Points
  <2>1. ASSUME NEW j \in 0..(Len(d) - 1), d[j + 1] = c
        PROVE  \E i \in S : h[i] = j
    <3>1. Len(cs) \in 0..Len(cs) /\ j + 1 \in 1..at[Len(cs)]
      BY <1>1
    <3>2. PICK i \in 1..Len(cs) : \E k \in 1..Width(cs[i]) : j + 1 = at[i - 1] + k /\ d[j + 1] = Code(cs[i])[k]
      BY <3>1, CutsCover
    <3>3. PICK k \in 1..Width(cs[i]) : j + 1 = at[i - 1] + k /\ d[j + 1] = Code(cs[i])[k]
      BY <3>2
    <3>4. cs[i] \in Points /\ Width(cs[i]) \in 1..4 /\ at[i - 1] \in Nat
      <4>1. i - 1 \in 0..Len(cs)
        OBVIOUS
      <4>2. QED
        BY <1>1, <4>1
    <3>5. /\ \A l \in 2..Width(cs[i]) : Code(cs[i])[l] \in 128..191
          /\ Width(cs[i]) = 1 => Code(cs[i])[1] = cs[i]
          /\ Width(cs[i]) # 1 => Code(cs[i])[1] \in 192..255
      BY <3>4, CodeBytes
    <3>6. k = 1
      <4>1. SUFFICES ASSUME k # 1 PROVE FALSE
        OBVIOUS
      <4>2. k \in 2..Width(cs[i])
        BY <3>4, <4>1
      <4>3. c = Code(cs[i])[k]
        BY <2>1, <3>3
      <4>4. c \in 128..191
        BY <3>5, <4>2, <4>3
      <4>5. QED
        BY <4>4
    <3>7. cs[i] = c
      <4>1. Code(cs[i])[1] = c
        BY <2>1, <3>3, <3>6
      <4>2. ~(c \in 192..255)
        BY <2>0
      <4>3. QED
        BY <3>5, <4>1, <4>2
    <3>8. at[i - 1] = j
      BY <3>3, <3>4, <3>6
    <3>9. QED
      BY <1>4, <1>5, <3>7, <3>8
  <2>2. ASSUME NEW i \in S PROVE h[i] \in 0..(Len(d) - 1) /\ d[h[i] + 1] = c
    <3>1. i \in 1..Len(cs) /\ cs[i] = c
      BY <1>4
    <3>2. Width(c) = 1 /\ Code(c)[1] = c
      <4>1. Width(c) = 1
        BY Widths, SMTT(30)
      <4>2. QED
        BY <4>1, CodeBytes
    <3>3. d[at[i - 1] + 1] = c
      <4>1. 1 \in 1..Width(cs[i])
        BY <3>1, <3>2
      <4>2. d[at[i - 1] + 1] = Code(cs[i])[1]
        BY <1>1, <3>1, <4>1
      <4>3. QED
        BY <3>1, <3>2, <4>2
    <3>4. QED
      BY <1>1, <1>5, <3>1, <3>3
  <2>3. {j \in 0..(Len(d) - 1) : d[j + 1] = c} = {h[i] : i \in S}
    BY <2>1, <2>2
  <2>4. ~(Len(d) > Len(d))
    BY <1>1
  <2>5. string_count(d, c, 0, Len(d)) = Cardinality({j \in 0..(Len(d) - 1) : d[j + 1] = c})
    BY <2>4 DEF string_count
  <2>6. QED
    BY <1>3, <1>6, <2>3, <2>5
<1>8. QED
  BY <1>7

-----------------------------------------------------------------------------
(* The properties of strings whose bytes are their characters.             *)

\* The bytes of every live string are its characters, and a string whose
\* bytes another one shares is not changed in place.
Shared(s, t) == s # t /\ strs[s].array = strs[t].array
StrType ==
  /\ arrays \in Seq(Seq(Bytes))
  /\ strs \in [StringIds -> [array : Nat, size : Nat, cow : BOOLEAN, immutable : BOOLEAN]]
  /\ \A s \in StringIds : strs[s].array <= Len(arrays)
  /\ chars \in [StringIds -> Seq(Points)]
StrInv ==
  /\ StrType
  /\ \A s \in Live : /\ strs[s].size = Len(arrays[strs[s].array])
                     /\ Encodes(arrays[strs[s].array], chars[s])
  /\ \A s, t \in Live : Shared(s, t) => strs[s].cow \/ strs[s].immutable

\* The bytes of a live string.
LEMMA LiveData ==
  ASSUME StrInv, NEW s \in Live
  PROVE  /\ s \in StringIds /\ strs[s].array \in 1..Len(arrays) /\ Len(arrays) \in Nat
         /\ arrays[strs[s].array] \in Seq(Bytes)
         /\ data(s) = arrays[strs[s].array] /\ strs[s].size = Len(data(s))
         /\ Encodes(data(s), chars[s]) /\ chars[s] \in Seq(Points)
<1>1. s \in StringIds /\ strs[s].array # 0
  BY DEF Live
<1>2. /\ arrays \in Seq(Seq(Bytes)) /\ strs[s].array \in Nat /\ strs[s].array <= Len(arrays)
      /\ chars[s] \in Seq(Points)
  BY <1>1 DEF StrInv, StrType
<1>3. strs[s].array \in 1..Len(arrays) /\ Len(arrays) \in Nat /\ arrays[strs[s].array] \in Seq(Bytes)
  BY <1>1, <1>2
<1>4. strs[s].size = Len(arrays[strs[s].array]) /\ Encodes(arrays[strs[s].array], chars[s])
  BY DEF StrInv
<1>5. data(s) = arrays[strs[s].array]
  BY <1>3, <1>4 DEF data
<1>6. QED
  BY <1>1, <1>2, <1>3, <1>4, <1>5

\* Every string decodes to its characters.
LEMMA InvDecodes == StrInv => StringsDecode
<1>1. SUFFICES ASSUME StrInv, NEW s \in Live
               PROVE  /\ utf8_length(data(s)) = Len(chars[s])
                      /\ \A i \in 0..Len(chars[s]) :
                           index_ref(data(s), i) = IF i < Len(chars[s]) THEN chars[s][i + 1] ELSE Raised
  BY Zenon DEF StringsDecode
<1>2. PICK at : Cuts(data(s), chars[s], at)
  BY <1>1, LiveData DEF Encodes
<1>3. QED
  BY <1>2, CutsLength, CutsRef

\* Cursors and indices agree.
LEMMA InvCursors == StrInv => CursorsAgree
<1>1. SUFFICES ASSUME StrInv, NEW s \in Live, NEW d, d = data(s), NEW i \in 0..Len(chars[s]),
                      NEW j, j = index_to_cursor(d, i)
               PROVE  /\ cursor_to_index(d, j) = i
                      /\ i < Len(chars[s]) => /\ cursor_next(d, j) = index_to_cursor(d, i + 1)
                                              /\ utf8_next(d, j, Len(d)) = cursor_next(d, j)
                                              /\ cursor_prev(d, cursor_next(d, j)) = j
                                              /\ utf8_prev(d, cursor_next(d, j), 0) = j
  BY Zenon DEF CursorsAgree
<1>2. PICK at : Cuts(d, chars[s], at)
  BY <1>1, LiveData DEF Encodes
<1>3. j = at[i] /\ \A k \in 0..Len(chars[s]) : index_to_cursor(d, k) = at[k]
  BY <1>1, <1>2, CutsLength
<1>4. Len(chars[s]) \in Nat
  BY <1>2, CutFacts, SMTT(30)
<1>5. cursor_to_index(d, j) = i
  BY <1>2, <1>3, CutsCursors
<1>6. ASSUME i < Len(chars[s])
      PROVE  /\ cursor_next(d, j) = index_to_cursor(d, i + 1)
             /\ utf8_next(d, j, Len(d)) = cursor_next(d, j)
             /\ cursor_prev(d, cursor_next(d, j)) = j
             /\ utf8_prev(d, cursor_next(d, j), 0) = j
  <2>1. PICK n : n = i + 1
    OBVIOUS
  <2>2. n \in 1..Len(chars[s]) /\ n \in 0..Len(chars[s]) /\ n - 1 = i
    BY <1>4, <1>6, <2>1
  <2>3. cursor_next(d, at[n - 1]) = at[n]
    BY <1>2, <2>2, CutNext
  <2>4. /\ utf8_next(d, at[n - 1], Len(d)) = at[n]
        /\ cursor_prev(d, at[n]) = at[n - 1]
        /\ utf8_prev(d, at[n], 0) = at[n - 1]
    BY <1>2, <2>2, CutsCursors
  <2>5. QED
    BY <1>3, <2>1, <2>2, <2>3, <2>4
<1>7. QED
  BY <1>5, <1>6

\* Comparing and counting bytes is comparing and counting characters.
LEMMA InvOrder == StrInv => OrderIsByChar
<1>. DEFINE Least(D) == CHOOSE x \in D : \A y \in D : x <= y
            Shorter(a, b) == IF Len(a) < Len(b) THEN Len(a) ELSE Len(b)
            Differ(a, b) == {k \in 1..Shorter(a, b) : a[k] # b[k]}
            Before(a, b) == IF Differ(a, b) = {} THEN Len(a) < Len(b)
                            ELSE a[Least(Differ(a, b))] < b[Least(Differ(a, b))]
            Sign(a, b) == IF a = b THEN 0 ELSE IF Before(a, b) THEN -1 ELSE 1
<1>0. SUFFICES ASSUME StrInv, NEW s \in Live, NEW t \in Live
               PROVE  /\ 0 \notin Range(chars[s]) \cup Range(chars[t]) =>
                           string_cmp(data(s), data(t)) = Sign(chars[s], chars[t])
                      /\ s = t => \A c \in Chars : c < 128 =>
                           string_count(data(s), c, 0, Len(data(s)))
                           = Cardinality({i \in DOMAIN chars[s] : chars[s][i] = c})
  BY Zenon DEF OrderIsByChar
<1>. HIDE DEF Least, Before, Differ, Shorter
<1>1. PICK a, b, n, D, k : /\ a = chars[s] /\ b = chars[t] /\ n = Shorter(a, b)
                           /\ D = Differ(a, b) /\ k = Least(D)
  OBVIOUS
<1>2. PICK f : Cuts(data(s), a, f)
  BY <1>0, <1>1, LiveData DEF Encodes
<1>3. PICK g : Cuts(data(t), b, g)
  BY <1>0, <1>1, LiveData DEF Encodes
<1>4. /\ a \in Seq(Points) /\ b \in Seq(Points) /\ Len(a) \in Nat /\ Len(b) \in Nat
      /\ n \in Nat /\ n <= Len(a) /\ n <= Len(b) /\ (n = Len(a) \/ n = Len(b))
  <2>1. a \in Seq(Points) /\ b \in Seq(Points) /\ Len(a) \in Nat /\ Len(b) \in Nat
    BY <1>2, <1>3, CutFacts, SMTT(30)
  <2>2. QED
    BY <1>1, <2>1 DEF Shorter
<1>5. ASSUME 0 \notin Range(a) \cup Range(b)
      PROVE  string_cmp(data(s), data(t)) = Sign(a, b)
  <2>1. \A i \in 1..Len(a) : a[i] # 0
    BY <1>4, <1>5 DEF Range
  <2>2. CASE D = {}
    <3>1. \A i \in 1..Len(a) : i <= Len(b) => a[i] = b[i]
      BY <1>1, <1>4, <2>2 DEF Differ
    <3>2. string_cmp(data(s), data(t)) = IF Len(a) < Len(b) THEN -1 ELSE IF Len(a) > Len(b) THEN 1 ELSE 0
      BY <1>2, <1>3, <3>1, ComparePrefix
    <3>3. a = b <=> Len(a) = Len(b)
      <4>1. ASSUME Len(a) = Len(b) PROVE a = b
        BY <1>4, <3>1, <4>1, SameCells
      <4>2. QED
        BY <4>1
    <3>4. Before(a, b) <=> Len(a) < Len(b)
      BY <1>1, <2>2 DEF Before
    <3>5. QED
      BY <1>4, <3>2, <3>3, <3>4
  <2>3. CASE D # {}
    <3>1. D = {i \in 1..n : a[i] # b[i]} /\ D \subseteq Nat
      BY <1>1, <1>4 DEF Differ
    <3>2. \E x \in D : \A y \in D : x <= y
      BY <2>3, <3>1, MinInSet
    <3>3. k \in D /\ \A y \in D : k <= y
      BY <1>1, <3>2, Zenon DEF Least
    <3>4. k \in 1..n /\ a[k] # b[k]
      BY <3>1, <3>3
    <3>5. ASSUME NEW i \in 1..(k - 1) PROVE a[i] = b[i]
      <4>1. i \in 1..n /\ ~(k <= i)
        BY <1>4, <3>4
      <4>2. QED
        BY <3>1, <3>3, <4>1
    <3>6. k \in Nat /\ 1 <= k /\ k <= Len(a) /\ k <= Len(b)
      BY <1>4, <3>4
    <3>7. string_cmp(data(s), data(t)) = IF a[k] < b[k] THEN -1 ELSE 1
      BY <1>2, <1>3, <2>1, <3>4, <3>5, <3>6, CompareDiffer
    <3>8. a # b
      BY <3>4
    <3>9. Before(a, b) <=> a[k] < b[k]
      BY <1>1, <2>3 DEF Before
    <3>10. QED
      BY <3>7, <3>8, <3>9
  <2>4. QED
    BY <2>2, <2>3
<1>6. ASSUME NEW c \in Chars, c < 128
      PROVE  string_count(data(s), c, 0, Len(data(s))) = Cardinality({i \in DOMAIN a : a[i] = c})
  <2>1. c \in Points
    BY StringsAssumption, SMTT(30) DEF Points
  <2>2. QED
    BY <1>2, <1>6, <2>1, CutsCount
<1>7. QED
  BY <1>1, <1>5, <1>6

-----------------------------------------------------------------------------
(* Every step keeps the bytes of every string its characters.              *)

\* No string is live at the start.
LEMMA InvInit == StrInit => StrInv
<1>1. SUFFICES ASSUME StrInit PROVE StrInv
  OBVIOUS
<1>2. /\ arrays = <<>> /\ strs = [s \in StringIds |-> None]
      /\ chars = [s \in StringIds |-> <<>>]
  BY <1>1 DEF StrInit
<1>3. None \in [array : Nat, size : Nat, cow : BOOLEAN, immutable : BOOLEAN] /\ None.array = 0
  BY DEF None
<1>4. /\ arrays \in Seq(Seq(Bytes)) /\ Len(arrays) = 0
  BY <1>2
<1>5. strs \in [StringIds -> [array : Nat, size : Nat, cow : BOOLEAN, immutable : BOOLEAN]]
  BY <1>2, <1>3
<1>6. \A s \in StringIds : strs[s].array = 0
  BY <1>2, <1>3
<1>7. chars \in [StringIds -> Seq(Points)]
  BY <1>2
<1>8. StrType
  BY <1>4, <1>5, <1>6, <1>7 DEF StrType
<1>9. Live = {}
  BY <1>6 DEF Live
<1>10. QED
  BY <1>8, <1>9 DEF StrInv

\* A new string with bytes of its own.
LEMMA NewKeeps ==
  ASSUME StrInv, NEW s \in StringIds, s \notin Live, NEW d, NEW cs, Encodes(d, cs), New(s, d, cs)
  PROVE  StrInv'
<1>1. /\ arrays \in Seq(Seq(Bytes)) /\ Len(arrays) \in Nat
      /\ strs \in [StringIds -> [array : Nat, size : Nat, cow : BOOLEAN, immutable : BOOLEAN]]
      /\ \A t \in StringIds : strs[t].array \in Nat /\ strs[t].array <= Len(arrays)
      /\ chars \in [StringIds -> Seq(Points)]
  BY DEF StrInv, StrType
<1>2. d \in Seq(Bytes) /\ cs \in Seq(Points) /\ Len(d) \in Nat
  <2>1. PICK at : Cuts(d, cs, at)
    BY DEF Encodes
  <2>2. QED
    BY <2>1, CutFacts, SMTT(30)
<1>3. PICK n : n = Len(arrays) + 1
  OBVIOUS
<1>4. /\ arrays' = Append(arrays, d) /\ arrays' \in Seq(Seq(Bytes)) /\ Len(arrays') = n /\ n \in Nat /\ n > Len(arrays)
      /\ arrays'[n] = d /\ \A i \in 1..Len(arrays) : arrays'[i] = arrays[i]
  BY <1>1, <1>2, <1>3 DEF New
<1>5. PICK w : w = Window(n, Len(d))
  OBVIOUS
<1>6. /\ w \in [array : Nat, size : Nat, cow : BOOLEAN, immutable : BOOLEAN]
      /\ w.array = n /\ w.size = Len(d)
  BY <1>2, <1>4, <1>5 DEF Window, None
<1>7. /\ strs' = [strs EXCEPT ![s] = w] /\ chars' = [chars EXCEPT ![s] = cs]
  BY <1>4, <1>5 DEF New
<1>8. /\ strs' \in [StringIds -> [array : Nat, size : Nat, cow : BOOLEAN, immutable : BOOLEAN]]
      /\ strs'[s] = w /\ \A t \in StringIds \ {s} : strs'[t] = strs[t]
  BY <1>1, <1>6, <1>7
<1>9. /\ chars' \in [StringIds -> Seq(Points)]
      /\ chars'[s] = cs /\ \A t \in StringIds \ {s} : chars'[t] = chars[t]
  BY <1>1, <1>2, <1>7
<1>10. StrType'
  <2>1. ASSUME NEW t \in StringIds PROVE strs'[t].array <= Len(arrays')
    <3>1. CASE t = s
      BY <1>4, <1>6, <1>8, <3>1
    <3>2. CASE t # s
      <4>1. strs'[t] = strs[t]
        BY <1>8, <3>2
      <4>2. QED
        BY <1>1, <1>4, <4>1
    <3>3. QED
      BY <3>1, <3>2
  <2>2. QED
    BY <1>4, <1>8, <1>9, <2>1 DEF StrType
<1>11. ASSUME NEW t \in Live', t # s
       PROVE  /\ t \in Live /\ strs'[t] = strs[t] /\ chars'[t] = chars[t]
              /\ strs[t].array \in 1..Len(arrays) /\ arrays'[strs[t].array] = arrays[strs[t].array]
  <2>1. t \in StringIds /\ strs'[t].array # 0
    BY DEF Live
  <2>2. strs'[t] = strs[t] /\ chars'[t] = chars[t]
    BY <1>8, <1>9, <1>11, <2>1
  <2>3. t \in Live
    BY <2>1, <2>2 DEF Live
  <2>4. strs[t].array \in 1..Len(arrays)
    BY <2>3, LiveData
  <2>5. QED
    BY <1>4, <2>2, <2>3, <2>4
<1>12. ASSUME NEW t \in Live'
       PROVE  strs'[t].size = Len(arrays'[strs'[t].array]) /\ Encodes(arrays'[strs'[t].array], chars'[t])
  <2>1. CASE t = s
    BY <1>4, <1>6, <1>8, <1>9, <2>1
  <2>2. CASE t # s
    <3>1. strs[t].size = Len(arrays[strs[t].array]) /\ Encodes(arrays[strs[t].array], chars[t])
      BY <1>11, <2>2 DEF StrInv
    <3>2. QED
      BY <1>11, <2>2, <3>1
  <2>3. QED
    BY <2>1, <2>2
<1>13. ASSUME NEW t \in Live', NEW u \in Live', Shared(t, u)'
       PROVE  strs'[t].cow \/ strs'[t].immutable
  <2>1. t # u /\ strs'[t].array = strs'[u].array
    BY <1>13 DEF Shared
  <2>2. CASE t = s
    <3>1. strs'[u].array \in 1..Len(arrays) /\ strs'[u].array = n
      BY <1>6, <1>8, <1>11, <2>1, <2>2
    <3>2. QED
      BY <1>1, <1>4, <3>1
  <2>3. CASE u = s
    <3>1. strs'[t].array \in 1..Len(arrays) /\ strs'[t].array = n
      BY <1>6, <1>8, <1>11, <2>1, <2>3
    <3>2. QED
      BY <1>1, <1>4, <3>1
  <2>4. CASE t # s /\ u # s
    <3>1. t \in Live /\ u \in Live /\ strs'[t] = strs[t] /\ strs'[u] = strs[u]
      BY <1>11, <2>4
    <3>2. Shared(t, u)
      BY <2>1, <3>1 DEF Shared
    <3>3. strs[t].cow \/ strs[t].immutable
      BY <3>1, <3>2 DEF StrInv
    <3>4. QED
      BY <3>1, <3>3
  <2>5. QED
    BY <2>2, <2>3, <2>4
<1>14. QED
  BY <1>10, <1>12, <1>13 DEF StrInv

\* A new string that shares the bytes of t.
LEMMA ImmutableKeeps ==
  ASSUME StrInv, NEW s \in StringIds, NEW t \in StringIds, immutable_string(s, t)
  PROVE  StrInv'
<1>1. /\ arrays \in Seq(Seq(Bytes)) /\ Len(arrays) \in Nat
      /\ strs \in [StringIds -> [array : Nat, size : Nat, cow : BOOLEAN, immutable : BOOLEAN]]
      /\ \A u \in StringIds : strs[u].array \in Nat /\ strs[u].array <= Len(arrays)
      /\ chars \in [StringIds -> Seq(Points)]
  BY DEF StrInv, StrType
<1>2. s \notin Live /\ t \in Live /\ s # t /\ arrays' = arrays /\ chars' = [chars EXCEPT ![s] = chars[t]]
  BY DEF immutable_string, Fresh
<1>3. PICK x, y : /\ x = [strs[t] EXCEPT !.immutable = TRUE, !.cow = FALSE]
                  /\ y = [strs[t] EXCEPT !.cow = TRUE]
  OBVIOUS
<1>4. /\ x \in [array : Nat, size : Nat, cow : BOOLEAN, immutable : BOOLEAN]
      /\ x.array = strs[t].array /\ x.size = strs[t].size /\ x.immutable
      /\ y \in [array : Nat, size : Nat, cow : BOOLEAN, immutable : BOOLEAN]
      /\ y.array = strs[t].array /\ y.size = strs[t].size /\ y.cow
  BY <1>1, <1>3
<1>5. strs' = [strs EXCEPT ![s] = x, ![t] = y]
  BY <1>1, <1>2, <1>3 DEF immutable_string
<1>6. /\ strs' \in [StringIds -> [array : Nat, size : Nat, cow : BOOLEAN, immutable : BOOLEAN]]
      /\ strs'[s] = x /\ strs'[t] = y /\ \A u \in StringIds \ {s, t} : strs'[u] = strs[u]
  BY <1>1, <1>2, <1>4, <1>5
<1>7. /\ chars' \in [StringIds -> Seq(Points)]
      /\ chars'[s] = chars[t] /\ \A u \in StringIds \ {s} : chars'[u] = chars[u]
  BY <1>1, <1>2
<1>8. StrType'
  <2>1. ASSUME NEW u \in StringIds PROVE strs'[u].array <= Len(arrays')
    BY <1>1, <1>2, <1>4, <1>6
  <2>2. QED
    BY <1>1, <1>2, <1>6, <1>7, <2>1 DEF StrType
<1>9. strs[t].size = Len(arrays[strs[t].array]) /\ Encodes(arrays[strs[t].array], chars[t])
  BY <1>2 DEF StrInv
<1>10. ASSUME NEW u \in Live', u # s
       PROVE  u \in Live /\ strs'[u].array = strs[u].array /\ strs'[u].size = strs[u].size
              /\ (strs[u].cow => strs'[u].cow) /\ (strs[u].immutable => strs'[u].immutable \/ strs'[u].cow)
  <2>1. u \in StringIds /\ strs'[u].array # 0
    BY DEF Live
  <2>2. CASE u = t
    BY <1>2, <1>4, <1>6, <2>2
  <2>3. CASE u # t
    <3>1. strs'[u] = strs[u]
      BY <1>6, <1>10, <2>1, <2>3
    <3>2. u \in Live
      BY <2>1, <3>1 DEF Live
    <3>3. QED
      BY <3>1, <3>2
  <2>4. QED
    BY <2>2, <2>3
<1>11. ASSUME NEW u \in Live'
       PROVE  strs'[u].size = Len(arrays'[strs'[u].array]) /\ Encodes(arrays'[strs'[u].array], chars'[u])
  <2>1. CASE u = s
    BY <1>2, <1>4, <1>6, <1>7, <1>9, <2>1
  <2>2. CASE u # s
    <3>1. strs[u].size = Len(arrays[strs[u].array]) /\ Encodes(arrays[strs[u].array], chars[u])
      BY <1>10, <2>2 DEF StrInv
    <3>2. chars'[u] = chars[u]
      BY <1>7, <2>2 DEF Live
    <3>3. QED
      BY <1>2, <1>10, <2>2, <3>1, <3>2
  <2>3. QED
    BY <2>1, <2>2
<1>12. ASSUME NEW u \in Live', NEW v \in Live', Shared(u, v)'
       PROVE  strs'[u].cow \/ strs'[u].immutable
  <2>1. u # v /\ strs'[u].array = strs'[v].array
    BY <1>12 DEF Shared
  <2>2. CASE u = s
    BY <1>4, <1>6, <2>2
  <2>3. CASE u = t
    BY <1>4, <1>6, <2>3
  <2>4. CASE u # s /\ u # t
    <3>1. u \in Live /\ strs'[u].array = strs[u].array
      BY <1>10, <2>4
    <3>2. PICK w \in Live : w # u /\ strs[w].array = strs[u].array
      <4>1. CASE v = s
        <5>1. strs[t].array = strs[u].array /\ t # u
          BY <1>4, <1>6, <2>1, <2>4, <3>1, <4>1
        <5>2. QED
          BY <1>2, <5>1
      <4>2. CASE v # s
        BY <1>10, <2>1, <3>1, <4>2
      <4>3. QED
        BY <4>1, <4>2
    <3>3. Shared(u, w)
      BY <3>2 DEF Shared
    <3>4. strs[u].cow \/ strs[u].immutable
      BY <3>1, <3>3 DEF StrInv
    <3>5. QED
      BY <1>10, <2>4, <3>4
  <2>5. QED
    BY <2>2, <2>3, <2>4
<1>13. QED
  BY <1>8, <1>11, <1>12 DEF StrInv

\* A list with one cell replaced, in three parts.
LEMMA ReplaceCell ==
  ASSUME NEW S, NEW q \in Seq(S), NEW i \in 1..Len(q), NEW x \in S
  PROVE  [q EXCEPT ![i] = x] = SubSeq(q, 1, i - 1) \o <<x>> \o SubSeq(q, i + 1, Len(q))
<1>1. PICK a, b, e : a = SubSeq(q, 1, i - 1) /\ b = SubSeq(q, i + 1, Len(q)) /\ e = <<x>>
  OBVIOUS
<1>2. a \in Seq(S) /\ Len(a) = i - 1 /\ \A j \in 1..(i - 1) : a[j] = q[j]
  BY <1>1
<1>3. b \in Seq(S) /\ Len(b) = Len(q) - i /\ \A j \in 1..(Len(q) - i) : b[j] = q[i + j]
  BY <1>1
<1>4. e \in Seq(S) /\ Len(e) = 1 /\ e[1] = x
  BY <1>1
<1>5. PICK f : f = a \o e
  OBVIOUS
<1>6. f \in Seq(S) /\ Len(f) = i /\ f[i] = x /\ \A j \in 1..(i - 1) : f[j] = q[j]
  BY <1>1, <1>2, <1>5
<1>14. PICK g : g = f \o b
  OBVIOUS
<1>7. /\ g \in Seq(S) /\ Len(g) = Len(f) + Len(b)
      /\ \A j \in 1..(Len(f) + Len(b)) : g[j] = IF j <= Len(f) THEN f[j] ELSE b[j - Len(f)]
  BY <1>3, <1>6, <1>14, ConcatCells
<1>8. Len(q) \in Nat /\ Len(f) = i /\ Len(f) + Len(b) = Len(q)
  BY <1>3, <1>6
<1>9. ASSUME NEW j \in 1..Len(q) PROVE g[j] = IF j = i THEN x ELSE q[j]
  <2>1. CASE j <= i
    <3>1. g[j] = f[j]
      BY <1>7, <1>8, <2>1
    <3>2. QED
      BY <1>6, <2>1, <3>1
  <2>2. CASE j > i
    <3>1. g[j] = b[j - i]
      BY <1>7, <1>8, <2>2
    <3>2. PICK k : k = j - i
      OBVIOUS
    <3>3. k \in 1..(Len(q) - i) /\ i + k = j
      BY <1>8, <2>2, <3>2
    <3>4. QED
      BY <1>3, <2>2, <3>1, <3>2, <3>3
  <2>3. QED
    BY <2>1, <2>2
<1>10. PICK r : r = [q EXCEPT ![i] = x]
  OBVIOUS
<1>11. r \in Seq(S) /\ Len(r) = Len(q) /\ \A j \in 1..Len(q) : r[j] = IF j = i THEN x ELSE q[j]
  BY <1>10
<1>12. r = g
  BY <1>7, <1>8, <1>9, <1>11, SameCells
<1>13. QED
  BY <1>1, <1>5, <1>10, <1>12, <1>14

\* The bytes d with the ones at j+1 .. j+w replaced by e.
Spliced(d, j, w, e) == SubSeq(d, 1, j) \o e \o SubSeq(d, j + w + 1, Len(d))
Replaced(cs, i, c) == [cs EXCEPT ![i] = c]

\* The bytes around a character that is replaced, whatever its width.
LEMMA EncodesSet ==
  ASSUME NEW d, NEW cs, NEW at, Cuts(d, cs, at), NEW i \in 1..Len(cs), NEW c \in Points,
         NEW j, j = at[i - 1], NEW w, w = Width(cs[i])
  PROVE  /\ Encodes(Spliced(d, j, w, Code(c)), Replaced(cs, i, c))
         /\ Len(Spliced(d, j, w, Code(c))) = Len(d) + Len(Code(c)) - w
         /\ j \in Nat /\ w \in 1..4 /\ j + w <= Len(d) /\ w = utf8_initial_byte_count(d[j + 1])
<1>1. /\ d \in Seq(Bytes) /\ cs \in Seq(Points) /\ Len(d) \in Nat /\ Len(cs) \in Nat
      /\ \A k \in 0..Len(cs) : at[k] \in Nat
      /\ at[0] = 0 /\ at[Len(cs)] = Len(d)
      /\ \A k \in 1..Len(cs) : /\ cs[k] \in Points /\ Width(cs[k]) \in 1..4
                               /\ at[k] = at[k - 1] + Width(cs[k])
                               /\ \A l \in 1..Width(cs[k]) : d[at[k - 1] + l] = Code(cs[k])[l]
  <2>1. /\ d \in Seq(Bytes) /\ cs \in Seq(Points) /\ Len(d) \in Nat /\ Len(cs) \in Nat
        /\ at[0] = 0 /\ at[Len(cs)] = Len(d)
    BY CutFacts, SMTT(30)
  <2>2. ASSUME NEW k \in 0..Len(cs) PROVE at[k] \in Nat
    BY CutFacts, SMTT(30)
  <2>3. ASSUME NEW k \in 1..Len(cs)
        PROVE  /\ cs[k] \in Points /\ Width(cs[k]) \in 1..4
               /\ at[k] = at[k - 1] + Width(cs[k])
    BY CutFacts, SMTT(30)
  <2>4. ASSUME NEW k \in 1..Len(cs), NEW l \in 1..Width(cs[k])
        PROVE  d[at[k - 1] + l] = Code(cs[k])[l]
    BY CutFacts, SMTT(30)
  <2>5. QED
    BY <2>1, <2>2, <2>3, <2>4, Zenon
<1>2. /\ i - 1 \in 0..Len(cs) /\ i \in 0..Len(cs) /\ 0 \in 0..Len(cs) /\ i - 1 \in 0..Len(cs)
      /\ Len(cs) \in i..Len(cs)
  BY <1>1
<1>3. j \in Nat /\ w \in 1..4 /\ at[i] = j + w /\ cs[i] \in Points
  BY <1>1, <1>2
<1>4. at[i] \in 0..Len(d)
  BY <1>2, CutsGrow
<1>5. w = utf8_initial_byte_count(d[j + 1])
  <2>1. d[j + 1] = Code(cs[i])[1]
    BY <1>1, <1>3, SMTT(30)
  <2>2. QED
    BY <1>3, <2>1, CodeBytes
<1>6. PICK a, b : a = SubSeq(d, 1, j) /\ b = SubSeq(d, j + w + 1, Len(d))
  OBVIOUS
<1>7. Encodes(a, SubSeq(cs, 1, i - 1))
  <2>1. Encodes(SubSeq(d, at[0] + 1, at[i - 1]), SubSeq(cs, 0 + 1, i - 1))
    BY <1>2, EncodesPart
  <2>2. at[0] + 1 = 1 /\ 0 + 1 = 1
    BY <1>1
  <2>3. QED
    BY <1>6, <2>1, <2>2
<1>8. Encodes(b, SubSeq(cs, i + 1, Len(cs)))
  <2>1. Encodes(SubSeq(d, at[i] + 1, at[Len(cs)]), SubSeq(cs, i + 1, Len(cs)))
    BY <1>2, EncodesPart
  <2>2. QED
    BY <1>1, <1>3, <1>6, <2>1
<1>9. Encodes(Code(c), <<c>>)
  BY EncodesOne
<1>10. Encodes((a \o Code(c)) \o b, (SubSeq(cs, 1, i - 1) \o <<c>>) \o SubSeq(cs, i + 1, Len(cs)))
  BY <1>7, <1>8, <1>9, EncodesBoth
<1>11. [cs EXCEPT ![i] = c] = SubSeq(cs, 1, i - 1) \o <<c>> \o SubSeq(cs, i + 1, Len(cs))
  <2>1. cs \in Seq(Points)
    BY <1>1
  <2>2. QED
    BY <2>1, ReplaceCell
<1>12. Len((a \o Code(c)) \o b) = Len(d) + Len(Code(c)) - w
  <2>1. Code(c) \in Seq(Bytes) /\ Len(Code(c)) \in Nat
    BY CodeBytes
  <2>2. a \in Seq(Bytes) /\ Len(a) = j
    <3>1. j \in 0..Len(d) /\ d \in Seq(Bytes)
      BY <1>1, <1>3, <1>4
    <3>2. QED
      BY <1>6, <3>1, PrefixCells
  <2>3. b \in Seq(Bytes) /\ Len(b) = Len(d) - (j + w)
    <3>1. j + w \in 0..Len(d) /\ Len(d) \in (j + w)..Len(d) /\ d \in Seq(Bytes)
      BY <1>1, <1>3, <1>4
    <3>2. b = SubSeq(d, (j + w) + 1, Len(d))
      BY <1>6
    <3>3. QED
      BY <3>1, <3>2, PartCells
  <2>4. (a \o Code(c)) \in Seq(Bytes) /\ Len(a \o Code(c)) = j + Len(Code(c))
    BY <2>1, <2>2, SMTT(30)
  <2>5. Len((a \o Code(c)) \o b) = (j + Len(Code(c))) + (Len(d) - (j + w))
    <3>1. PICK x : x = a \o Code(c)
      OBVIOUS
    <3>2. x \in Seq(Bytes) /\ Len(x) = j + Len(Code(c))
      BY <2>4, <3>1
    <3>3. Len(x \o b) = Len(x) + Len(b)
      BY <2>3, <3>2, ConcatCells
    <3>4. QED
      BY <2>3, <3>1, <3>2, <3>3
  <2>6. QED
    BY <1>1, <1>3, <2>1, <2>5
<1>13. Encodes((a \o Code(c)) \o b, [cs EXCEPT ![i] = c])
  BY <1>10, <1>11
<1>14. j + w <= Len(d)
  BY <1>1, <1>3, <1>4
<1>15. QED
  BY <1>3, <1>5, <1>6, <1>12, <1>13, <1>14 DEF Spliced, Replaced

\* Overwriting bytes in place is cutting them out and putting others in.
LEMMA InPlace ==
  ASSUME NEW d \in Seq(Bytes), NEW e \in Seq(Bytes), NEW j \in Nat, j + Len(e) <= Len(d)
  PROVE  [k \in DOMAIN d |-> IF k \in (j + 1)..(j + Len(e)) THEN e[k - j] ELSE d[k]]
         = SubSeq(d, 1, j) \o e \o SubSeq(d, j + Len(e) + 1, Len(d))
<1>1. PICK w, n : w = Len(e) /\ n = Len(d)
  OBVIOUS
<1>2. w \in Nat /\ n \in Nat /\ j + w <= n
  BY <1>1
<1>3. PICK a, b : a = SubSeq(d, 1, j) /\ b = SubSeq(d, j + w + 1, n)
  OBVIOUS
<1>4. a \in Seq(Bytes) /\ Len(a) = j /\ \A k \in 1..j : a[k] = d[k]
  BY <1>1, <1>2, <1>3
<1>5. b \in Seq(Bytes) /\ Len(b) = n - (j + w) /\ \A k \in 1..(n - (j + w)) : b[k] = d[(j + w) + k]
  <2>1. j + w \in 0..Len(d) /\ n \in (j + w)..Len(d)
    BY <1>1, <1>2
  <2>2. b = SubSeq(d, (j + w) + 1, n)
    BY <1>3
  <2>3. QED
    BY <2>1, <2>2, PartCells
<1>6. PICK f : f = a \o e
  OBVIOUS
<1>7. /\ f \in Seq(Bytes) /\ Len(f) = j + w
      /\ \A k \in 1..(j + w) : f[k] = IF k <= j THEN a[k] ELSE e[k - j]
  BY <1>1, <1>4, <1>6, ConcatCells
<1>15. PICK g : g = f \o b
  OBVIOUS
<1>8. /\ g \in Seq(Bytes) /\ Len(g) = Len(f) + Len(b)
      /\ \A k \in 1..(Len(f) + Len(b)) : g[k] = IF k <= Len(f) THEN f[k] ELSE b[k - Len(f)]
  BY <1>5, <1>7, <1>15, ConcatCells
<1>9. Len(f) + Len(b) = n /\ Len(f) = j + w
  BY <1>2, <1>5, <1>7
<1>10. PICK r : r = [k \in DOMAIN d |-> IF k \in (j + 1)..(j + w) THEN e[k - j] ELSE d[k]]
  OBVIOUS
<1>11. ASSUME NEW k \in 1..n
       PROVE  r[k] = g[k]
  <2>1. r[k] = IF k \in (j + 1)..(j + w) THEN e[k - j] ELSE d[k]
    BY <1>1, <1>10
  <2>2. g[k] = IF k <= j + w THEN f[k] ELSE b[k - (j + w)]
    BY <1>8, <1>9
  <2>3. r[k] = g[k]
    <3>1. CASE k <= j
      BY <1>2, <1>4, <1>7, <2>1, <2>2, <3>1
    <3>2. CASE k > j /\ k <= j + w
      BY <1>2, <1>7, <2>1, <2>2, <3>2
    <3>3. CASE k > j + w
      <4>1. PICK l : l = k - (j + w)
        OBVIOUS
      <4>2. l \in 1..(n - (j + w)) /\ (j + w) + l = k
        BY <1>2, <3>3, <4>1
      <4>3. b[l] = d[k]
        BY <1>5, <4>2
      <4>4. ~(k <= j + w) /\ ~(k \in (j + 1)..(j + w))
        BY <1>2, <3>3
      <4>5. QED
        BY <2>1, <2>2, <4>1, <4>3, <4>4
    <3>4. QED
      BY <1>2, <3>1, <3>2, <3>3
  <2>4. QED
    BY <2>3
<1>12. r = [k \in 1..n |-> g[k]]
  <2>1. DOMAIN d = 1..n
    BY <1>1
  <2>2. r = [k \in 1..n |-> IF k \in (j + 1)..(j + w) THEN e[k - j] ELSE d[k]]
    BY <1>10, <2>1
  <2>3. \A k \in 1..n : (IF k \in (j + 1)..(j + w) THEN e[k - j] ELSE d[k]) = g[k]
    BY <1>11, <2>2
  <2>4. QED
    BY <2>2, <2>3
<1>13. r = g
  BY <1>8, <1>9, <1>12
<1>14. QED
  BY <1>1, <1>3, <1>6, <1>10, <1>13, <1>15

\* A character of s is replaced, in place or in bytes of its own.
LEMMA SetKeeps ==
  ASSUME StrInv, NEW s \in StringIds, NEW i \in Nat, NEW c \in Points, string_set(s, i, c)
  PROVE  StrInv'
<1>1. /\ arrays \in Seq(Seq(Bytes)) /\ Len(arrays) \in Nat
      /\ strs \in [StringIds -> [array : Nat, size : Nat, cow : BOOLEAN, immutable : BOOLEAN]]
      /\ \A u \in StringIds : strs[u].array \in Nat /\ strs[u].array <= Len(arrays)
      /\ chars \in [StringIds -> Seq(Points)]
  BY DEF StrInv, StrType
<1>2. s \in Live /\ ~strs[s].immutable
  BY DEF string_set
<1>3. PICK d, cs, x : d = data(s) /\ cs = chars[s] /\ x = strs[s]
  OBVIOUS
<1>4. /\ x.array \in 1..Len(arrays) /\ d = arrays[x.array] /\ x.size = Len(d) /\ d \in Seq(Bytes)
      /\ Encodes(d, cs) /\ cs \in Seq(Points)
  BY <1>2, <1>3, LiveData
<1>5. PICK at : Cuts(d, cs, at)
  BY <1>4 DEF Encodes
<1>6. PICK j : j = index_to_cursor(d, i)
  OBVIOUS
<1>7. j # Raised /\ j < x.size /\ utf8_set(s, j, c) /\ chars' = [chars EXCEPT ![s] = [@ EXCEPT ![i + 1] = c]]
  BY <1>3, <1>6 DEF string_set
<1>8. i \in 0..Len(cs) /\ j = at[i]
  BY <1>5, <1>6, <1>7, CutsLength
<1>9. i # Len(cs) /\ Len(cs) \in Nat
  <2>1. at[Len(cs)] = Len(d) /\ Len(d) \in Nat /\ Len(cs) \in Nat
    BY <1>5, CutFacts, SMTT(30)
  <2>2. QED
    BY <1>4, <1>7, <1>8, <2>1
<1>10. PICK n : n = i + 1
  OBVIOUS
<1>11. n \in 1..Len(cs) /\ n - 1 = i
  BY <1>8, <1>9, <1>10
<1>12. PICK w, e, y, ds : /\ w = utf8_initial_byte_count(d[j + 1]) /\ e = Code(c)
                          /\ y = SubSeq(d, 1, j) \o e \o SubSeq(d, j + w + 1, Len(d))
                          /\ ds = [cs EXCEPT ![n] = c]
  OBVIOUS
<1>13. Encodes(y, ds) /\ Len(y) = Len(d) + Len(e) - w /\ j \in Nat /\ w \in 1..4 /\ j + w <= Len(d)
  <2>1. PICK v : v = Width(cs[n])
    OBVIOUS
  <2>2. j = at[n - 1]
    BY <1>8, <1>11
  <2>3. /\ Encodes(Spliced(d, j, v, Code(c)), Replaced(cs, n, c))
        /\ Len(Spliced(d, j, v, Code(c))) = Len(d) + Len(Code(c)) - v
        /\ j \in Nat /\ v \in 1..4 /\ j + v <= Len(d) /\ v = utf8_initial_byte_count(d[j + 1])
    BY <1>5, <1>11, <2>1, <2>2, EncodesSet
  <2>4. v = w
    BY <1>12, <2>3
  <2>5. QED
    BY <1>12, <2>3, <2>4 DEF Spliced, Replaced
<1>14. y \in Seq(Bytes) /\ ds \in Seq(Points) /\ Len(y) \in Nat /\ e \in Seq(Bytes) /\ Len(d) \in Nat
  <2>1. PICK f : Cuts(y, ds, f)
    BY <1>13 DEF Encodes
  <2>2. y \in Seq(Bytes) /\ ds \in Seq(Points) /\ Len(y) \in Nat
    BY <2>1, CutFacts, SMTT(30)
  <2>3. e \in Seq(Bytes)
    BY <1>12, CodeBytes
  <2>4. Len(d) \in Nat
    BY <1>4
  <2>5. QED
    BY <2>2, <2>3, <2>4
<1>15. /\ chars' \in [StringIds -> Seq(Points)]
       /\ chars'[s] = ds /\ \A u \in StringIds \ {s} : chars'[u] = chars[u]
  <2>1. chars' = [chars EXCEPT ![s] = ds]
    BY <1>1, <1>3, <1>7, <1>10, <1>12
  <2>2. QED
    BY <1>1, <1>14, <2>1
<1>16. CASE x.cow \/ Len(e) # w
  <2>1. PICK m : m = Len(arrays) + 1
    OBVIOUS
  <2>2. /\ arrays' = Append(arrays, y)
        /\ strs' = [strs EXCEPT ![s] = [x EXCEPT !.array = Len(arrays'), !.cow = FALSE,
                                                 !.size = x.size + Len(e) - w]]
    BY <1>3, <1>7, <1>12, <1>16, Zenon DEF utf8_set, Code
  <2>3. /\ arrays' \in Seq(Seq(Bytes)) /\ Len(arrays') = m /\ m \in Nat /\ m > Len(arrays)
        /\ arrays'[m] = y /\ \A k \in 1..Len(arrays) : arrays'[k] = arrays[k]
    BY <1>1, <1>14, <2>1, <2>2
  <2>4. PICK z : z = [x EXCEPT !.array = m, !.cow = FALSE, !.size = Len(y)]
    OBVIOUS
  <2>5. /\ z \in [array : Nat, size : Nat, cow : BOOLEAN, immutable : BOOLEAN]
        /\ z.array = m /\ z.size = Len(y)
    BY <1>1, <1>3, <1>14, <2>3, <2>4
  <2>6. strs' = [strs EXCEPT ![s] = z]
    BY <1>4, <1>13, <2>2, <2>3, <2>4
  <2>7. /\ strs' \in [StringIds -> [array : Nat, size : Nat, cow : BOOLEAN, immutable : BOOLEAN]]
        /\ strs'[s] = z /\ \A u \in StringIds \ {s} : strs'[u] = strs[u]
    BY <1>1, <2>5, <2>6
  <2>8. StrType'
    <3>1. ASSUME NEW t \in StringIds PROVE strs'[t].array <= Len(arrays')
      <4>1. CASE t = s
        BY <2>3, <2>5, <2>7, <4>1
      <4>2. CASE t # s
        <5>1. strs'[t] = strs[t]
          BY <2>7, <4>2
        <5>2. QED
          BY <1>1, <2>3, <5>1
      <4>3. QED
        BY <4>1, <4>2
    <3>2. QED
      BY <1>15, <2>3, <2>7, <3>1 DEF StrType
  <2>9. ASSUME NEW t \in Live', t # s
        PROVE  /\ t \in Live /\ strs'[t] = strs[t] /\ chars'[t] = chars[t]
               /\ strs[t].array \in 1..Len(arrays) /\ arrays'[strs[t].array] = arrays[strs[t].array]
    <3>1. t \in StringIds /\ strs'[t].array # 0
      BY DEF Live
    <3>2. strs'[t] = strs[t] /\ chars'[t] = chars[t]
      BY <1>15, <2>7, <2>9, <3>1
    <3>3. t \in Live
      BY <3>1, <3>2 DEF Live
    <3>4. strs[t].array \in 1..Len(arrays)
      BY <3>3, LiveData
    <3>5. QED
      BY <2>3, <3>2, <3>3, <3>4
  <2>10. ASSUME NEW t \in Live'
         PROVE  strs'[t].size = Len(arrays'[strs'[t].array]) /\ Encodes(arrays'[strs'[t].array], chars'[t])
    <3>1. CASE t = s
      BY <1>13, <1>15, <2>3, <2>5, <2>7, <3>1
    <3>2. CASE t # s
      <4>1. strs[t].size = Len(arrays[strs[t].array]) /\ Encodes(arrays[strs[t].array], chars[t])
        BY <2>9, <3>2 DEF StrInv
      <4>2. QED
        BY <2>9, <3>2, <4>1
    <3>3. QED
      BY <3>1, <3>2
  <2>11. ASSUME NEW t \in Live', NEW u \in Live', Shared(t, u)'
         PROVE  strs'[t].cow \/ strs'[t].immutable
    <3>1. t # u /\ strs'[t].array = strs'[u].array
      BY <2>11 DEF Shared
    <3>2. CASE t = s
      <4>1. strs'[u].array \in 1..Len(arrays) /\ strs'[u].array = m
        BY <2>5, <2>7, <2>9, <3>1, <3>2
      <4>2. QED
        BY <1>1, <2>3, <4>1
    <3>3. CASE u = s
      <4>1. strs'[t].array \in 1..Len(arrays) /\ strs'[t].array = m
        BY <2>5, <2>7, <2>9, <3>1, <3>3
      <4>2. QED
        BY <1>1, <2>3, <4>1
    <3>4. CASE t # s /\ u # s
      <4>1. t \in Live /\ u \in Live /\ strs'[t] = strs[t] /\ strs'[u] = strs[u]
        BY <2>9, <3>4
      <4>2. Shared(t, u)
        BY <3>1, <4>1 DEF Shared
      <4>3. strs[t].cow \/ strs[t].immutable
        BY <4>1, <4>2 DEF StrInv
      <4>4. QED
        BY <4>1, <4>3
    <3>5. QED
      BY <3>2, <3>3, <3>4
  <2>12. QED
    BY <2>8, <2>10, <2>11 DEF StrInv
<1>17. CASE ~(x.cow \/ Len(e) # w)
  <2>1. strs' = strs /\ arrays' = [arrays EXCEPT ![x.array] = y]
    <3>1. /\ strs' = strs
          /\ arrays' = [arrays EXCEPT ![x.array] =
                 [k \in DOMAIN @ |-> IF k \in (j + 1)..(j + w) THEN e[k - j] ELSE @[k]]]
      BY <1>3, <1>7, <1>12, <1>17, Zenon DEF utf8_set, Code
    <3>2. arrays' = [arrays EXCEPT ![x.array] =
                 [k \in DOMAIN d |-> IF k \in (j + 1)..(j + w) THEN e[k - j] ELSE d[k]]]
      BY <1>1, <1>4, <3>1
    <3>3. [k \in DOMAIN d |-> IF k \in (j + 1)..(j + w) THEN e[k - j] ELSE d[k]] = y
      <4>1. w = Len(e)
        BY <1>17
      <4>2. [k \in DOMAIN d |-> IF k \in (j + 1)..(j + Len(e)) THEN e[k - j] ELSE d[k]]
            = SubSeq(d, 1, j) \o e \o SubSeq(d, j + Len(e) + 1, Len(d))
        BY <1>4, <1>13, <1>14, <4>1, InPlace
      <4>3. QED
        BY <1>12, <4>1, <4>2
    <3>4. QED
      BY <3>1, <3>2, <3>3
  <2>2. /\ arrays' \in Seq(Seq(Bytes)) /\ Len(arrays') = Len(arrays)
        /\ arrays'[x.array] = y /\ \A k \in 1..Len(arrays) : k # x.array => arrays'[k] = arrays[k]
    BY <1>1, <1>4, <1>14, <2>1
  <2>3. StrType'
    BY <1>1, <1>15, <2>1, <2>2 DEF StrType
  <2>4. Live' = Live
    BY <2>1 DEF Live
  <2>5. ASSUME NEW t \in Live, t # s PROVE strs[t].array # x.array
    <3>1. SUFFICES ASSUME strs[t].array = x.array PROVE FALSE
      OBVIOUS
    <3>2. Shared(s, t)
      BY <1>3, <2>5, <3>1 DEF Shared
    <3>3. strs[s].cow \/ strs[s].immutable
      BY <1>2, <3>2 DEF StrInv
    <3>4. QED
      BY <1>2, <1>3, <1>17, <3>3
  <2>6. ASSUME NEW t \in Live
        PROVE  strs[t].size = Len(arrays'[strs[t].array]) /\ Encodes(arrays'[strs[t].array], chars'[t])
    <3>1. CASE t = s
      <4>1. x.size = Len(y)
        <5>1. w \in Nat /\ Len(d) \in Nat /\ Len(y) = Len(d) + w - w
          <6>1. w \in Nat /\ Len(d) \in Nat /\ Len(e) = w
            BY <1>13, <1>14, <1>17
          <6>2. Len(y) = Len(d) + Len(e) - w
            BY <1>13
          <6>3. QED
            BY <6>1, <6>2
        <5>2. QED
          BY <1>4, <5>1
      <4>2. QED
        BY <1>3, <1>13, <1>15, <2>2, <3>1, <4>1
    <3>2. CASE t # s
      <4>1. strs[t].size = Len(arrays[strs[t].array]) /\ Encodes(arrays[strs[t].array], chars[t])
        BY DEF StrInv
      <4>2. t \in StringIds /\ strs[t].array \in 1..Len(arrays)
        BY LiveData
      <4>3. arrays'[strs[t].array] = arrays[strs[t].array] /\ chars'[t] = chars[t]
        BY <1>15, <2>2, <2>5, <3>2, <4>2
      <4>4. QED
        BY <4>1, <4>3
    <3>3. QED
      BY <3>1, <3>2
  <2>7. ASSUME NEW t \in Live, NEW u \in Live, Shared(t, u)'
        PROVE  strs[t].cow \/ strs[t].immutable
    <3>1. Shared(t, u)
      BY <2>1, <2>7 DEF Shared
    <3>2. QED
      BY <3>1 DEF StrInv
  <2>8. QED
    BY <2>1, <2>3, <2>4, <2>6, <2>7 DEF StrInv
<1>18. QED
  BY <1>16, <1>17

\* A step that changes no string.
LEMMA StutterKeeps ==
  ASSUME StrInv, UNCHANGED strvars
  PROVE  StrInv'
BY DEF StrInv, StrType, strvars, Live, Shared

\* Every step.
LEMMA InvStep == StrInv /\ [StrNext]_strvars => StrInv'
<1>1. SUFFICES ASSUME StrInv, [StrNext]_strvars PROVE StrInv'
  OBVIOUS
<1>2. \A c \in Chars : c \in Points
  BY StringsAssumption, SMTT(30) DEF Points
<1>3. MaxLength \in Nat
  BY StringsAssumption, SMTT(30)
<1>4. ASSUME NEW s \in StringIds, NEW n \in 0..MaxLength, NEW c \in Chars, make_string(s, n, c)
      PROVE  StrInv'
  <2>1. s \notin Live /\ New(s, FlattenSeq([k \in 1..n |-> Code(c)]), [k \in 1..n |-> c])
    BY <1>4, Zenon DEF make_string, Fresh, Code
  <2>2. n \in Nat /\ c \in Points
    BY <1>2, <1>3
  <2>3. Encodes(FlattenSeq([k \in 1..n |-> Code(c)]), [k \in 1..n |-> c])
    BY <2>2, EncodesMany
  <2>4. QED
    BY <1>1, <2>1, <2>3, NewKeeps
<1>5. ASSUME NEW s \in StringIds, NEW t \in StringIds, NEW i \in 0..MaxLength, NEW j \in 0..MaxLength,
             substring(s, t, i, j)
      PROVE  StrInv'
  <2>1. PICK d, cs, a, b : d = data(t) /\ cs = chars[t] /\ a = index_to_cursor(d, i) /\ b = index_to_cursor(d, j)
    OBVIOUS
  <2>2. /\ s \notin Live /\ t \in Live /\ a # Raised /\ b # Raised /\ a <= b
        /\ New(s, SubSeq(d, a + 1, b), SubSeq(cs, i + 1, j))
    BY <1>5, <2>1 DEF substring, Fresh
  <2>3. PICK at : Cuts(d, cs, at)
    BY <1>1, <2>1, <2>2, LiveData DEF Encodes
  <2>4. i \in Nat /\ j \in Nat
    BY <1>3
  <2>5. i \in 0..Len(cs) /\ j \in 0..Len(cs) /\ a = at[i] /\ b = at[j]
    BY <2>1, <2>2, <2>3, <2>4, CutsLength
  <2>6. j \in i..Len(cs)
    <3>1. \A k \in 0..Len(cs) : at[k] \in 0..Len(d) /\ \A l \in 0..(k - 1) : at[l] < at[k]
      BY <2>3, CutsGrow
    <3>2. Len(d) \in Nat /\ Len(cs) \in Nat
      BY <2>3, CutFacts, SMTT(30)
    <3>3. ~(j < i)
      <4>1. SUFFICES ASSUME j < i PROVE FALSE
        OBVIOUS
      <4>2. j \in 0..(i - 1)
        BY <2>4, <4>1
      <4>3. at[j] < at[i] /\ at[j] \in 0..Len(d) /\ at[i] \in 0..Len(d)
        BY <2>5, <3>1, <4>2
      <4>4. QED
        BY <2>2, <2>5, <3>2, <4>3
    <3>4. QED
      BY <2>4, <2>5, <3>2, <3>3
  <2>7. Encodes(SubSeq(d, a + 1, b), SubSeq(cs, i + 1, j))
    BY <2>3, <2>5, <2>6, EncodesPart
  <2>8. QED
    BY <1>1, <2>2, <2>7, NewKeeps
<1>6. ASSUME NEW s \in StringIds, NEW t \in StringIds, NEW u \in StringIds, NEW sep \in StringIds,
             string_concatenate(s, t, u, sep)
      PROVE  StrInv'
  <2>1. /\ s \notin Live /\ t \in Live /\ u \in Live /\ sep \in Live
        /\ New(s, data(t) \o data(sep) \o data(u), chars[t] \o chars[sep] \o chars[u])
    BY <1>6 DEF string_concatenate, Fresh
  <2>2. Encodes(data(t), chars[t]) /\ Encodes(data(sep), chars[sep]) /\ Encodes(data(u), chars[u])
    BY <1>1, <2>1, LiveData
  <2>3. Encodes(data(t) \o data(sep) \o data(u), chars[t] \o chars[sep] \o chars[u])
    BY <2>2, EncodesBoth
  <2>4. QED
    BY <1>1, <2>1, <2>3, NewKeeps
<1>7. ASSUME NEW s \in StringIds, NEW t \in StringIds, immutable_string(s, t)
      PROVE  StrInv'
  BY <1>1, <1>7, ImmutableKeeps
<1>8. ASSUME NEW s \in StringIds, NEW i \in 0..MaxLength, NEW c \in Chars, string_set(s, i, c)
      PROVE  StrInv'
  <2>1. i \in Nat /\ c \in Points
    BY <1>2, <1>3
  <2>2. QED
    BY <1>1, <1>8, <2>1, SetKeeps
<1>9. CASE UNCHANGED strvars
  BY <1>1, <1>9, StutterKeeps
<1>10. QED
  BY <1>1, <1>4, <1>5, <1>6, <1>7, <1>8, <1>9 DEF StrNext

\* For any characters, lengths and numbers of strings: while strings are
\* made, cut, joined, shared and changed character by character, every one
\* decodes to the characters put into it, its cursors and indices name the
\* same places, comparing bytes is comparing characters, and counting the
\* bytes of an ASCII character is counting it.
THEOREM StringsAlwaysSound == StrSpec => []StringsSound
<1>1. StrInit => StrInv
  BY InvInit
<1>2. StrInv /\ [StrNext]_strvars => StrInv'
  BY InvStep
<1>3. StrInv => StringsSound
  BY InvDecodes, InvCursors, InvOrder DEF StringsSound
<1>4. QED
  BY <1>1, <1>2, <1>3, PTL DEF StrSpec
=============================================================================
