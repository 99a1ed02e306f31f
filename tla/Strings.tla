------------------------------ MODULE Strings ------------------------------
(***************************************************************************)
(* Scheme strings (sexp.c, eval.c, vm.c): a string has a size and a byte   *)
(* array that holds its UTF-8, several strings may share one array, and a  *)
(* character may be replaced by one of another width.  Cursors are byte    *)
(* offsets.  Windows into the middle of an array, which only               *)
(* utf8->string! makes, are left out.                                      *)
(*                                                                         *)
(* Bytes are numbers 0..255 and characters are code points, coded and      *)
(* decoded as the C does it.  An operation that raises gives Raised.       *)
(***************************************************************************)
EXTENDS Integers, Sequences, FiniteSets, SequencesExt

CONSTANTS Chars,        \* the code points the program uses
          MaxStrings,   \* the number of string objects it makes
          MaxArrays,    \* the number of byte arrays made for them
          MaxLength     \* the longest string it makes

\* code points, of 17 planes, and bounds of the model
ASSUME StringsAssumption ==
  /\ \A c \in Chars : c \in Nat /\ c \div 65536 < 17
  /\ {MaxStrings, MaxArrays, MaxLength} \subseteq Nat

StringIds == 1..MaxStrings

Raised == -1

(***************************************************************************)
(* UTF-8                                                                   *)
(***************************************************************************)
utf8_initial_byte_count(b) ==
  IF b < 192 THEN 1 ELSE IF b < 224 THEN 2 ELSE ((b \div 16) % 2) + 3

utf8_char_byte_count(c) ==
  IF c < 128 THEN 1 ELSE IF c < 2048 THEN 2 ELSE IF c < 65536 THEN 3 ELSE 4

\* six bits of c, above those that shift (a power of two) takes off, as a continuation byte
More(c, shift) == 128 + ((c \div shift) % 64)

utf8_encode_char(c) ==
  LET n == utf8_char_byte_count(c)
  IN  IF n = 1 THEN <<c>>
      ELSE IF n = 2 THEN <<192 + c \div 64, More(c, 1)>>
      ELSE IF n = 3 THEN <<224 + c \div 4096, More(c, 64), More(c, 1)>>
      ELSE <<240 + (c \div 4096) \div 64, More(c, 4096), More(c, 64), More(c, 1)>>

\* the character whose first byte is at 0-based place i of the bytes d
utf8_ref(d, i) ==
  LET At(k) == d[i + 1 + k]
      low(k) == At(k) % 64
  IN  IF At(0) < 128 THEN At(0)
      ELSE IF At(0) < 192 \/ At(0) > 247 THEN Raised
      ELSE IF At(0) < 224 THEN low(0) * 64 + low(1)
      ELSE IF At(0) < 240 THEN (At(0) % 32) * 4096 + low(1) * 64 + low(2)
      ELSE ((At(0) % 16) * 64 + low(1)) * 4096 + low(2) * 64 + low(3)

(***************************************************************************)
(* Cursors over the bytes d of a string                                    *)
(***************************************************************************)
cursor_next(d, j) == j + utf8_initial_byte_count(d[j + 1])

\* sexp_string_utf8_prev: back over the continuation bytes
cursor_prev(d, j) ==
  LET firsts == {k \in 0..(j - 1) : d[k + 1] \div 64 # 2}
  IN  CHOOSE k \in firsts : \A l \in firsts : l <= k

\* the cursors met by walking from start; the walk stops at or behind the limit
Steps(d, start) ==
  LET walk[i \in 0..Len(d)] ==
        IF i = 0 THEN start
        ELSE IF walk[i - 1] >= Len(d) THEN walk[i - 1]
        ELSE cursor_next(d, walk[i - 1])
  IN  walk

utf8_length(d) ==
  LET at == Steps(d, 0)
  IN  CHOOSE i \in 0..Len(d) : at[i] >= Len(d) /\ \A k \in 0..(i - 1) : at[k] < Len(d)

index_to_cursor(d, i) ==
  IF i < 0 \/ i > utf8_length(d) THEN Raised ELSE Steps(d, 0)[i]

cursor_to_index(d, j) ==
  IF j < 0 \/ j > Len(d) THEN Raised ELSE utf8_length(SubSeq(d, 1, j))

\* sexp_utf8_next and sexp_utf8_prev of (chibi io), on a byte vector
utf8_next(d, j, end) ==
  IF j >= end THEN Raised
  ELSE LET r == cursor_next(d, j) IN IF r > end THEN Raised ELSE r

utf8_prev(d, j, start) ==
  LET firsts == {k \in start..(j - 1) : d[k + 1] \div 64 # 2}
  IN  IF firsts = {} THEN Raised ELSE CHOOSE k \in firsts : \A l \in firsts : l <= k

\* string-ref by index
index_ref(d, i) ==
  LET off == index_to_cursor(d, i)
  IN  IF off = Raised \/ off >= Len(d) THEN Raised ELSE utf8_ref(d, off)

\* the cursor that a fixnum stands for when it is unboxed as one: the number
\* is under one tag bit, and a cursor's offset under three
fixnum_as_cursor(i) == i \div 4

\* the number of the occurrences of c between the offsets start and end:
\* every byte is compared with an ASCII c.  For another c the walk goes from
\* character to character, but each offset is passed as a fixnum to
\* sexp_string_utf8_ref, which takes it for a cursor.
string_count(d, c, start, end) ==
  LET cursors == {Steps(d, start)[i] : i \in 0..Len(d)}
  IN  IF c < 128
      THEN IF end > Len(d) THEN Raised
           ELSE Cardinality({j \in start..(end - 1) : d[j + 1] = c})
      ELSE Cardinality({j \in cursors : j < end /\ utf8_ref(d, fixnum_as_cursor(j)) = c})

\* the sign of string-cmp: strncmp, which ends at a NUL, then the sizes
string_cmp(d, e) ==
  LET n == IF Len(d) < Len(e) THEN Len(d) ELSE Len(e)
      stops == {k \in 1..n : d[k] # e[k] \/ d[k] = 0}
      k == CHOOSE x \in stops : \A y \in stops : x <= y
      sign(x) == IF x < 0 THEN -1 ELSE IF x > 0 THEN 1 ELSE 0
  IN  IF stops # {} /\ d[k] # e[k] THEN sign(d[k] - e[k]) ELSE sign(Len(d) - Len(e))

(***************************************************************************)
(* The string objects                                                      *)
(***************************************************************************)
VARIABLES
  arrays,   \* arrays[n]: the n-th byte array
  strs,     \* strs[s]: window and flags of the string s
  chars     \* history: the characters the program put into s

strvars == <<arrays, strs, chars>>

None == [array |-> 0, size |-> 0, cow |-> FALSE, immutable |-> FALSE]
Window(n, size) == [None EXCEPT !.array = n, !.size = size]

\* sexp_string_data
data(s) == SubSeq(arrays[strs[s].array], 1, strs[s].size)

Live == {s \in StringIds : strs[s].array # 0}

\* the object and the byte array the next allocation gives
Fresh(s) == s \notin Live /\ \A t \in 1..(s - 1) : t \in Live
Room == Len(arrays) < MaxArrays

StrInit ==
  /\ arrays = <<>>
  /\ strs = [s \in StringIds |-> None]
  /\ chars = [s \in StringIds |-> <<>>]

\* s is made with the bytes d, which are the characters cs
New(s, d, cs) ==
  /\ Room
  /\ arrays' = Append(arrays, d)
  /\ strs' = [strs EXCEPT ![s] = Window(Len(arrays'), Len(d))]
  /\ chars' = [chars EXCEPT ![s] = cs]

make_string(s, n, c) ==
  Fresh(s) /\ New(s, FlattenSeq([k \in 1..n |-> utf8_encode_char(c)]), [k \in 1..n |-> c])

\* sexp_substring_op, by the cursors of the characters i (from) and j (to)
substring(s, t, i, j) ==
  LET d == data(t)
      a == index_to_cursor(d, i)
      b == index_to_cursor(d, j)
  IN  /\ Fresh(s) /\ t \in Live
      /\ a # Raised /\ b # Raised /\ a <= b
      /\ New(s, SubSeq(d, a + 1, b), SubSeq(chars[t], i + 1, j))

string_concatenate(s, t, u, sep) ==
  /\ Fresh(s) /\ {t, u, sep} \subseteq Live
  /\ Len(chars[t]) + Len(chars[sep]) + Len(chars[u]) <= MaxLength
  /\ New(s, data(t) \o data(sep) \o data(u), chars[t] \o chars[sep] \o chars[u])

\* A variant with a bug: t may go on to change the bytes it now shares.
immutable_string_shared(s, t) ==
  /\ Fresh(s) /\ t \in Live
  /\ strs' = [strs EXCEPT ![s] = [strs[t] EXCEPT !.immutable = TRUE, !.cow = FALSE]]
  /\ chars' = [chars EXCEPT ![s] = chars[t]]
  /\ UNCHANGED arrays

\* sexp_immutable_string_op: the new string shares t's bytes, and t copies
\* them before its next change
immutable_string(s, t) ==
  /\ Fresh(s) /\ t \in Live
  /\ strs' = [strs EXCEPT ![s] = [strs[t] EXCEPT !.immutable = TRUE, !.cow = FALSE],
                          ![t].cow = TRUE]
  /\ chars' = [chars EXCEPT ![s] = chars[t]]
  /\ UNCHANGED arrays

\* sexp_string_utf8_set: in place when the width is the same and nobody
\* shares the bytes, in a fresh array otherwise
utf8_set(s, j, c) ==
  LET d == data(s)
      old == utf8_initial_byte_count(d[j + 1])
      e == utf8_encode_char(c)
      spliced == SubSeq(d, 1, j) \o e \o SubSeq(d, j + old + 1, Len(d))
      x == strs[s]
  IN  IF x.cow \/ Len(e) # old
      THEN /\ Room
           /\ arrays' = Append(arrays, spliced)
           /\ strs' = [strs EXCEPT ![s] = [x EXCEPT !.array = Len(arrays'), !.cow = FALSE,
                                                    !.size = x.size + Len(e) - old]]
      ELSE /\ arrays' = [arrays EXCEPT ![x.array] =
                 [k \in DOMAIN @ |-> IF k \in (j + 1)..(j + old)
                                     THEN e[k - j] ELSE @[k]]]
           /\ UNCHANGED strs

string_set(s, i, c) ==
  /\ s \in Live /\ ~strs[s].immutable
  /\ LET off == index_to_cursor(data(s), i)
     IN  /\ off # Raised /\ off < strs[s].size
         /\ utf8_set(s, off, c)
  /\ chars' = [chars EXCEPT ![s] = [@ EXCEPT ![i + 1] = c]]

StrNext ==
  \/ \E s \in StringIds, n \in 0..MaxLength, c \in Chars : make_string(s, n, c)
  \/ \E s, t \in StringIds, i, j \in 0..MaxLength : substring(s, t, i, j)
  \/ \E s, t, u, sep \in StringIds : string_concatenate(s, t, u, sep)
  \/ \E s, t \in StringIds : immutable_string(s, t)
  \/ \E s \in StringIds, i \in 0..MaxLength, c \in Chars : string_set(s, i, c)

StrSpec == StrInit /\ [][StrNext]_strvars

-----------------------------------------------------------------------------
(* Every string decodes to the characters that were put into it: a change   *)
(* of a character's width moves the characters behind it, and a change of   *)
(* one string never shows in another that shares its bytes.                 *)
StringsDecode ==
  \A s \in Live :
    LET d == data(s)
        n == Len(chars[s])
    IN  /\ utf8_length(d) = n
        /\ \A i \in 0..n : index_ref(d, i) = IF i < n THEN chars[s][i + 1] ELSE Raised

(* Cursors and indexes name the same places: cursor_to_index undoes          *)
(* index_to_cursor, next and prev undo each other, and the byte vector       *)
(* versions of (chibi io) agree with the ones on strings.                    *)
CursorsAgree ==
  \A s \in Live : LET d == data(s)
                      n == Len(chars[s])
                  IN \A i \in 0..n :
    LET j == index_to_cursor(d, i)
    IN  /\ cursor_to_index(d, j) = i
        /\ i < n => /\ cursor_next(d, j) = index_to_cursor(d, i + 1)
                    /\ utf8_next(d, j, Len(d)) = cursor_next(d, j)
                    /\ cursor_prev(d, cursor_next(d, j)) = j
                    /\ utf8_prev(d, cursor_next(d, j), 0) = j

(* Comparing bytes is comparing characters: string-cmp has the sign of the   *)
(* lexicographic order on code points, as long as no NUL is in the strings,  *)
(* and string-count counts the occurrences of an ASCII character.            *)
OrderIsByChar ==
  \A s, t \in Live :
    LET d == data(s)
        a == chars[s]
        b == chars[t]
        n == IF Len(a) < Len(b) THEN Len(a) ELSE Len(b)
        differ == {k \in 1..n : a[k] # b[k]}
        k == CHOOSE x \in differ : \A y \in differ : x <= y
        lt == IF differ = {} THEN Len(a) < Len(b) ELSE a[k] < b[k]
    IN  /\ 0 \notin Range(a) \cup Range(b) =>
             string_cmp(d, data(t)) = (IF a = b THEN 0 ELSE IF lt THEN -1 ELSE 1)
        /\ s = t => \A c \in Chars : c < 128 =>
             string_count(d, c, 0, Len(d)) = Cardinality({i \in DOMAIN a : a[i] = c})

(* The three together: the bytes of a string are its characters, by index,  *)
(* by cursor and in comparisons, while strings share and replace bytes.     *)
StringsSound == StringsDecode /\ CursorsAgree /\ OrderIsByChar
=============================================================================
