------------------------------- MODULE Ports -------------------------------
(***************************************************************************)
(* Buffered ports (sexp.c, eval.c, lib/chibi/io/port.c) under the          *)
(* instructions of the virtual machine that read and write them (vm.c).    *)
(* One output port and one input port, on non-blocking descriptors, are    *)
(* used by several green threads.  A read or write of the system may take  *)
(* any part of what it is offered, or refuse it (EAGAIN): the instruction  *)
(* then gives up its turn and is run again later, while other threads use  *)
(* the same port.  The two ports do not touch each other, and a behaviour  *)
(* uses one of them.                                                       *)
(*                                                                         *)
(* A C function runs to its end before another thread has a turn, and      *)
(* each of its system calls is a step here.  A byte written is known by    *)
(* its writer and its number, so that what arrives can be compared with    *)
(* what was written; a character of the input is known by its number.      *)
(***************************************************************************)
EXTENDS Integers, Sequences, SequencesExt

CONSTANTS Users,       \* the green threads that share the ports
          PortSize,    \* SEXP_PORT_BUFFER_SIZE
          BUF_START,   \* the room kept free for characters pushed back
          MaxWidth,    \* the bytes of the longest code of a character
          Source,      \* the input: <<c, b, w>> is byte b of the w of character c
          MaxString,   \* the longest string written
          MaxWritten   \* the bytes one thread writes

\* every character of the input is complete, and its code fits the room kept
\* free and one more byte
ASSUME PortsAssumption ==
  /\ PortSize \in Nat /\ BUF_START \in 1..PortSize /\ MaxWidth \in 1..(BUF_START + 1)
  /\ Source \in Seq(Nat \X Nat \X Nat)
  /\ \A i \in 1..Len(Source) :
       /\ Source[i][2] \in 1..Source[i][3] /\ Source[i][3] <= MaxWidth
       /\ Source[i][2] <= i /\ i - Source[i][2] + Source[i][3] <= Len(Source)
       /\ \A b \in 1..Source[i][3] :
            Source[i - Source[i][2] + b] = <<Source[i][1], b, Source[i][3]>>
  /\ MaxString \in Nat /\ MaxWritten \in Nat

VARIABLES
  kind,      \* "fd" or "string", where the output port writes, or "input"
  open,      \* the output port is open
  buf,       \* the output buffer up to its offset
  sink,      \* what the system, or the string port's list, has got
  pend,      \* pend[t]: the bytes of t's instruction that are to be written
  wide,      \* wide[t]: that instruction is write-char
  call,      \* the C function that is writing, and for whom
  passed,    \* passed[t]: bytes of the instructions of t that began and did not raise
  gone,      \* bytes of those that are neither written nor to be written
  refused,   \* a write was refused, or cut short by closing the port
  ibuf,      \* the input buffer from its offset to its size
  ioff,      \* the offset of the input buffer
  iread,     \* bytes the system has given
  ask,       \* the C function that is reading
  got,       \* history: the characters read-char and read-u8 returned
  torn,      \* a character was read while its last bytes had not come
  garbled    \* peek-char met a byte that begins no character

outvars == <<kind, open, buf, sink, pend, wide, call, passed, gone, refused>>
invars  == <<ibuf, ioff, iread, ask, got, torn, garbled>>
portvars == <<outvars, invars>>

NoCall == [t |-> 0, at |-> "none", str |-> <<>>, written |-> 0, took |-> 0]
NoAsk  == [op |-> "none", bytes |-> <<>>]

Opened(k) ==
  /\ kind = k /\ open = (k # "input") /\ buf = <<>> /\ sink = <<>>
  /\ pend = [t \in Users |-> <<>>] /\ wide = [t \in Users |-> FALSE]
  /\ call = NoCall /\ passed = [t \in Users |-> 0] /\ gone = {} /\ refused = FALSE
  /\ ibuf = <<>> /\ ioff = PortSize /\ iread = 0 /\ ask = NoAsk
  /\ got = <<>> /\ torn = FALSE /\ garbled = FALSE

PortInit == \E k \in {"fd", "string", "input"} : Opened(k)

(***************************************************************************)
(* Output                                                                  *)
(***************************************************************************)
Again == -1     \* the result of a system call that is refused

\* what write(2) may take of n bytes; a string port takes all of them
Taken(n) == IF kind = "string" THEN {n} ELSE (1..n) \cup {Again}

\* A variant with a bug: one byte more than the system took is dropped.
FlushedOneMore(b, k) == IF k = Again THEN b ELSE SubSeq(b, k + 2, Len(b))

\* sexp_buffered_flush of the buffer b when the system takes k of it: the
\* rest moves to the front.  A buffer that is empty is not written.
Flushed(b, k) == IF k = Again THEN b ELSE SubSeq(b, k + 1, Len(b))
Sunk(b, k) == IF k = Again THEN sink ELSE sink \o SubSeq(b, 1, k)

\* the thread t comes to a write instruction for n bytes
Write(t, n, charp) ==
  /\ pend[t] = <<>> /\ open
  /\ passed[t] + n <= MaxWritten
  /\ pend' = [pend EXCEPT ![t] = [k \in 1..n |-> <<t, passed[t] + k>>]]
  /\ wide' = [wide EXCEPT ![t] = charp]
  /\ passed' = [passed EXCEPT ![t] = @ + n]
  /\ UNCHANGED <<kind, open, buf, sink, call, gone, refused, invars>>

\* SEXP_OP_WRITE_CHAR, SEXP_OP_WRITE_STRING and sexp_write_u8, begun or
\* tried again; on a port that was closed in between they raise, and what is
\* left of them is not written
Try(t) ==
  /\ call = NoCall /\ pend[t] # <<>>
  /\ IF open
     THEN /\ call' = [NoCall EXCEPT !.t = t, !.str = pend[t],
                                    !.at = IF wide[t] THEN "char" ELSE "string"]
          /\ UNCHANGED <<pend, passed>>
     ELSE /\ pend' = [pend EXCEPT ![t] = <<>>]
          /\ passed' = [passed EXCEPT ![t] = @ - Len(pend[t])]
          /\ UNCHANGED call
  /\ UNCHANGED <<kind, open, buf, sink, wide, gone, refused, invars>>

\* the instruction is complete
Finish(t) == pend' = [pend EXCEPT ![t] = <<>>] /\ call' = NoCall

\* sexp_write_char of the first byte: into the buffer, or when that is full
\* (sexp_buffered_write_char) after a flush.  A refusal repeats the whole
\* instruction.
WriteFirst(k) ==
  /\ call.at = "char"
  /\ IF Len(buf) < PortSize
     THEN k = 0 /\ buf' = Append(buf, Head(call.str)) /\ UNCHANGED <<sink, refused>>
     ELSE /\ k \in Taken(Len(buf))
          /\ buf' = IF k = Again THEN buf ELSE Append(Flushed(buf, k), Head(call.str))
          /\ sink' = Sunk(buf, k)
          /\ refused' = (refused \/ k = Again)
  /\ IF k = Again THEN call' = NoCall /\ UNCHANGED pend
     ELSE IF Len(call.str) = 1 THEN Finish(call.t)
     ELSE /\ call' = [call EXCEPT !.at = "tail", !.str = Tail(@)]
          /\ UNCHANGED pend
  /\ UNCHANGED <<kind, open, wide, passed, gone, invars>>

\* sexp_buffered_write_string_n, one turn of its loop: fill the buffer,
\* flush it.  "written" grows by the size of the buffer and not by what was
\* copied.  When the flush fails the count goes back to the caller:
\* sexp_write_utf8_char ignores it, WRITE_STRING goes on behind it.
FillAndFlush(k) ==
  LET n == PortSize - Len(buf)
      full == buf \o SubSeq(call.str, 1, n)
      count == call.written + n           \* what a failing call returns
      len == Len(pend[call.t])
      took == call.took + n               \* what it has really copied
  IN  /\ call.at \in {"tail", "string"} /\ Len(buf) + Len(call.str) >= PortSize
      /\ k \in Taken(Len(full))
      /\ buf' = Flushed(full, k)
      /\ sink' = Sunk(full, k)
      /\ refused' = (refused \/ k = Again)
      /\ IF k # Again
         THEN /\ call' = [call EXCEPT !.str = SubSeq(@, n + 1, Len(@)), !.took = took,
                                      !.written = @ + PortSize]
              /\ UNCHANGED <<pend, gone>>
         ELSE IF call.at = "tail" \/ count >= len
         THEN /\ Finish(call.t)
              /\ gone' = gone \cup Range(SubSeq(call.str, n + 1, Len(call.str)))
         ELSE /\ pend' = [pend EXCEPT ![call.t] = SubSeq(@, count + 1, len)]
              /\ gone' = gone \cup Range(SubSeq(pend[call.t], took + 1, count))
              /\ call' = NoCall
      /\ UNCHANGED <<kind, open, wide, passed, invars>>

\* the rest fits
CopyRest ==
  /\ call.at \in {"tail", "string"} /\ Len(buf) + Len(call.str) < PortSize
  /\ buf' = buf \o call.str
  /\ Finish(call.t)
  /\ UNCHANGED <<kind, open, sink, wide, passed, gone, refused, invars>>

\* flush-output
FlushOutput(k) ==
  /\ call = NoCall /\ open /\ buf # <<>> /\ k \in Taken(Len(buf))
  /\ buf' = Flushed(buf, k) /\ sink' = Sunk(buf, k)
  /\ refused' = (refused \/ k = Again)
  /\ UNCHANGED <<kind, open, pend, wide, call, passed, gone, invars>>

\* close-port or the finalizer.  openp is cleared before the forced flush,
\* which then makes one last write to a descriptor and does nothing for a
\* string port; whatever is left in the buffer is dropped.
ClosePort(k) ==
  /\ call = NoCall /\ open
  /\ IF buf = <<>> \/ kind = "string" THEN k = 0 ELSE k \in Taken(Len(buf))
  /\ open' = FALSE
  /\ sink' = Sunk(buf, k)
  /\ gone' = gone \cup Range(Flushed(buf, k))
  /\ refused' = (refused \/ (kind = "fd" /\ Flushed(buf, k) # <<>>))
  /\ buf' = <<>>
  /\ UNCHANGED <<kind, pend, wide, call, passed, invars>>

(***************************************************************************)
(* Input                                                                   *)
(***************************************************************************)
\* what read(2) may give: a part of the room, nothing at the end, or Again
Given == IF iread = Len(Source) THEN {0, Again}
         ELSE {k \in 1..(PortSize - BUF_START) : iread + k <= Len(Source)} \cup {Again}

\* READ_CHAR, PEEK_CHAR, sexp_read_u8 and sexp_peek_u8 begin.  The model goes
\* no further than a push-back in front of the buffer.
Ask(op) ==
  /\ kind = "input" /\ ask = NoAsk /\ ioff >= 0
  /\ ask' = [op |-> op, bytes |-> <<>>]
  /\ UNCHANGED <<outvars, ibuf, ioff, iread, got, torn, garbled>>

(***************************************************************************)
(* peek-char pushes back the encoded character that was read.  At a byte   *)
(* that begins no character sexp_read_utf8_char answers with an exception, *)
(* which is unboxed as if it were a character: the byte is replaced by the *)
(* code of some number, and then the exception is raised.  Such a code has *)
(* 1..MaxWidth bytes and may begin with any byte; whatever is decoded from *)
(* it later may have a code of another length.                             *)
(***************************************************************************)
JunkBytes == {<<0, 0, 0>>} \cup {<<0, 1, w>> : w \in 1..MaxWidth}
Junk == UNION {[1..n -> JunkBytes] : n \in 1..MaxWidth}

Invalid(bytes) == ask.op = "peek-char" /\ bytes[1][2] # 1
PushedBack(bytes) ==
  IF Invalid(bytes) \/ (garbled /\ ask.op = "peek-char") THEN Junk ELSE {bytes}

\* A variant with a bug: peek pushes back the last byte only.
AnswerLastByte(bytes, rest, off) ==
  /\ ask' = NoAsk
  /\ IF ask.op \in {"peek-char", "peek-u8"}
     THEN ibuf' = <<Last(bytes)>> \o rest /\ ioff' = off - 1 /\ UNCHANGED got
     ELSE ibuf' = rest /\ ioff' = off /\ got' = got \o bytes
  /\ garbled' = (garbled \/ Invalid(bytes))

\* the character or byte is complete: it is returned, and peek pushes it
\* back, encoded, below the offset (sexp_push_char, sexp_push_utf8_char);
\* read-char at a byte that begins no character takes it off and raises.
\* The history ends where the input is garbled.
Answer(bytes, rest, off) ==
  /\ ask' = NoAsk
  /\ IF ask.op \in {"peek-char", "peek-u8"}
     THEN \E p \in PushedBack(bytes) : ibuf' = p \o rest /\ ioff' = off - Len(p) /\ UNCHANGED got
     ELSE ibuf' = rest /\ ioff' = off /\ got' = IF garbled THEN got ELSE got \o bytes
  /\ garbled' = (garbled \/ Invalid(bytes))

\* the byte b follows those of ask: whether more are to be read depends on
\* the first (sexp_read_utf8_char)
Next1(b, rest, off) ==
  LET bytes == Append(ask.bytes, b)
      w == IF ask.op \in {"read-u8", "peek-u8"} \/ bytes[1][2] # 1 THEN 1 ELSE bytes[1][3]
  IN  IF Len(bytes) = w THEN Answer(bytes, rest, off)
      ELSE /\ ask' = [ask EXCEPT !.bytes = bytes]
           /\ ibuf' = rest /\ ioff' = off /\ UNCHANGED <<got, garbled>>

Unknown(c) == <<c, 0, 0>>     \* the byte a failed read gives: EOF & 0x3F

\* sexp_read_char, from the buffer
TakeByte ==
  /\ ask # NoAsk /\ ibuf # <<>>
  /\ Next1(Head(ibuf), Tail(ibuf), ioff + 1)
  /\ UNCHANGED <<outvars, iread, torn>>

\* sexp_buffered_read_char of an empty buffer.  A refusal or the end of the
\* input answers EOF: before the first byte the instruction is run again or
\* returns the end of file, within a character EOF counts as its next byte.
FillBuffer(k) ==
  /\ ask # NoAsk /\ ibuf = <<>> /\ k \in Given
  /\ IF k > 0
     THEN /\ Next1(Source[iread + 1], SubSeq(Source, iread + 2, iread + k), BUF_START + 1)
          /\ iread' = iread + k
          /\ UNCHANGED torn
     ELSE /\ IF ask.bytes = <<>>
             THEN ask' = NoAsk /\ UNCHANGED <<ibuf, got, torn, garbled>>
                  /\ ioff' = IF k = 0 THEN BUF_START ELSE ioff
             ELSE Next1(Unknown(ask.bytes[1][1]), <<>>, IF k = 0 THEN BUF_START ELSE ioff)
                  /\ torn' = TRUE
          /\ UNCHANGED iread
  /\ UNCHANGED outvars

PortNext ==
  \/ \E t \in Users : \/ \E n \in 1..MaxString : Write(t, n, FALSE)
                      \/ \E n \in 1..MaxWidth : Write(t, n, TRUE)
                      \/ Try(t)
  \/ \E op \in {"read-char", "peek-char", "read-u8", "peek-u8"} : Ask(op)
  \/ \E k \in -1..PortSize : \/ WriteFirst(k) \/ FillAndFlush(k)
                             \/ FlushOutput(k) \/ ClosePort(k) \/ FillBuffer(k)
  \/ CopyRest \/ TakeByte

PortSpec == PortInit /\ [][PortNext]_portvars
-----------------------------------------------------------------------------
(* Every byte a finished write instruction was given is in the file or in   *)
(* the buffer, once, and in the order its thread wrote it, however writes   *)
(* are cut short or refused and however the turns of the threads fall; a    *)
(* byte that is missing was left out by a refused flush within a string or  *)
(* a character, or dropped when the port was closed.                        *)
WritesDelivered ==
  LET s == sink \o buf
      written == UNION {{<<t, k>> : k \in 1..(passed[t] - Len(pend[t]))} : t \in Users}
  IN  call = NoCall =>
        /\ Range(s) = written \ gone
        /\ \A i, j \in 1..Len(s) : i < j /\ s[i][1] = s[j][1] => s[i][2] < s[j][2]

(* Nothing is left out of a port on a descriptor, closing included, unless  *)
(* the system refused a write or took only a part of the last one; a string *)
(* port loses nothing while it is open, and its buffer when it is closed.   *)
LossNeedsRefusal ==
  gone # {} => (kind = "fd" /\ refused) \/ (kind = "string" /\ ~open)

(* Output: in order and complete, or accounted for by a refusal or by the   *)
(* closing of a string port.                                                *)
PortWrites == WritesDelivered /\ LossNeedsRefusal

(* What is read is the input: no character is skipped, repeated or out of   *)
(* order, whether it was peeked at, lay across two reads of the system or   *)
(* was read as single bytes, unless a read was refused within a character   *)
(* or peek-char met a byte that begins no character.                        *)
ReadInOrder ==
  ~torn /\ ~garbled => /\ IsPrefix(got \o ask.bytes \o ibuf, Source)
                       /\ Len(got \o ask.bytes \o ibuf) = iread

(* A character that is pushed back always finds room before the offset,     *)
(* until peek-char has pushed back what was not there.                      *)
PushBackFits == ~garbled => ioff >= 0

(* Input: in order and complete, and pushing back stays inside the buffer.  *)
PortReads == ReadInOrder /\ PushBackFits
=============================================================================
