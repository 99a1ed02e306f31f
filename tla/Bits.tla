-------------------------------- MODULE Bits --------------------------------
(***************************************************************************)
(* The bitwise operations of SRFI 151 (lib/srfi/151/bit.c) on the integers *)
(* of Numbers.  A negative bignum is taken to its two's complement, word   *)
(* by word, with the sign left at -1 to stand for the ones above.          *)
(***************************************************************************)
EXTENDS Numbers, Bitwise

\* Every word inverted, plus one, the last carry dropped; the sign is kept.
set_twos_complement(a) ==
  Big(a.sign, WordLoop(Len(a.data), LAMBDA i, c : (UMax - a.data[i] + c) % B,
                                    LAMBDA i, c : Bit(UMax - a.data[i] > UMax - c), 1).data)

complement_if(cond, a) == IF cond THEN set_twos_complement(a) ELSE a

twos_complement(x) == complement_if(x.t = "big" /\ exact_negativep(x), x)

\* A negative fixnum as a two's complement of len words.
fixnum_to_twos_complement(x, len) ==
  Big(-1, [i \in 1 .. len |-> IF i = 1 THEN (UMax - Abs(x.v) + 1) % B ELSE UMax])

Word(n) == n % B                      \* a fixnum's value as a word

\* Word i of a two's complement, extended by its sign.
ext(a, i) == IF i <= Len(a.data) THEN a.data[i] ELSE IF a.sign < 0 THEN UMax ELSE 0

TopBit(a) == a.data[Len(a.data)] >= B \div 2

bit_and_big(x, y) ==
  LET x2 == twos_complement(x)
      y2 == IF y.t = "fix" /\ y.v < 0
              THEN fixnum_to_twos_complement(y, Len(x2.data))
              ELSE twos_complement(y)
      c   == IF Len(y2.data) < Len(x2.data) THEN x2 ELSE y2
      res == [c EXCEPT !.data = [i \in DOMAIN c.data |-> ext(x2, i) & ext(y2, i)]]
  IN  bignum_normalize(
        IF y2.t = "fix"
          THEN Fix(y2.v & x2.data[1])
          ELSE IF (x2.sign < 0 \/ y2.sign < 0) /\ TopBit(res)
                 THEN [set_twos_complement(res) EXCEPT !.sign = -1]
                 ELSE [res EXCEPT !.sign = 1])

bit_and(x, y) ==
  CASE x.t = "fix" /\ y.t = "fix" -> Fix(Word(x.v) & Word(y.v))
    [] x.t = "fix" /\ y.t = "big" -> bit_and_big(y, x)
    [] OTHER -> bit_and_big(x, y)

\* A bignum with the low word of a fixnum that is not negative.
low_word(x, w(_)) ==
  LET c == complement_if(x.sign < 0, x)
  IN  complement_if(x.sign < 0, Big(x.sign, <<w(c.data[1])>> \o rest(c, 1)))

bit_ior_big(x, y) ==
  LET first == y.t = "fix" \/ Len(x.data) >= Len(y.data)
      c   == IF first THEN x ELSE y
      tmp == CASE y.t = "fix" -> fixnum_to_twos_complement(y, Len(x.data))
               [] y.t = "big" /\ first -> twos_complement(y)
               [] OTHER -> twos_complement(x)
      c2  == complement_if(c.sign < 0, c)
      res == [c2 EXCEPT !.data = [i \in DOMAIN c2.data |-> c2.data[i] | ext(tmp, i)]]
  IN  bignum_normalize(
        CASE y.t = "fix" /\ y.v >= 0 -> low_word(x, LAMBDA w : w | y.v)
          [] ~(y.t = "fix" /\ y.v >= 0) /\ (res.sign < 0 \/ tmp.sign < 0) /\ TopBit(res) ->
               [set_twos_complement(res) EXCEPT !.sign = -1]
          [] OTHER -> res)

bit_ior(x, y) ==
  CASE x.t = "fix" /\ y.t = "fix" -> Fix(Word(x.v) | Word(y.v))
    [] x.t = "fix" /\ y.t = "big" -> bit_ior_big(y, x)
    [] OTHER -> bit_ior_big(x, y)

\* When y is the longer of two bignums, both sides of the xor are y.
bit_xor_big(x, y) ==
  LET first == y.t = "fix" \/ Len(x.data) >= Len(y.data)
      yneg  == y.t = "fix" \/ y.sign < 0
      c   == IF first THEN x ELSE y
      tmp == IF y.t = "fix" THEN fixnum_to_twos_complement(y, Len(x.data))
                            ELSE twos_complement(y)
      c2  == complement_if(c.sign < 0, c)
      x3  == [c2 EXCEPT !.data = [i \in DOMAIN c2.data |->
                IF i <= Len(tmp.data) THEN c2.data[i] ^^ tmp.data[i] ELSE c2.data[i]]]
      res == complement_if((x.sign < 0) # yneg, x3)
  IN  bignum_normalize(
        CASE y.t = "fix" /\ y.v >= 0 -> low_word(x, LAMBDA w : w ^^ y.v)
          [] OTHER -> IF yneg THEN negate_exact(res) ELSE res)

bit_xor(x, y) ==
  CASE x.t = "fix" /\ y.t = "fix" -> Fix(Word(x.v) ^^ Word(y.v))
    [] x.t = "fix" /\ y.t = "big" -> bit_xor_big(y, x)
    [] OTHER -> bit_xor_big(x, y)

\* The position of the highest one of a word; 0 of 0.
log2i(v) == CHOOSE i \in 0 .. WordBits : 2^(i + 1) > v /\ (i = 0 \/ 2^i <= v)

shift_right(i, c) ==
  LET len == bignum_hi(i)
      off == c \div WordBits
      bit == c % WordBits
      word(j) == (i.data[j + off] \div 2^bit)
                 + (IF bit = 0 \/ j + off >= len THEN 0
                    ELSE (i.data[j + off + 1] * 2^(WordBits - bit)) % B)
      res == Big(i.sign, [j \in 1 .. len - off + 1 |-> IF j > len - off THEN 0 ELSE word(j)])
  IN  IF len < off THEN Fix(IF i.sign > 0 THEN 0 ELSE -1)
      ELSE IF i.sign < 0 THEN bignum_fxadd(res, 1) ELSE res

shift_left(i, c) ==
  LET len == bignum_hi(i)
      off == c \div WordBits
      bit == c % WordBits
      word(j) == (IF j <= len THEN (i.data[j] * 2^bit) % B ELSE 0)
                 + (IF j = 1 \/ bit = 0 THEN 0 ELSE i.data[j - 1] \div 2^(WordBits - bit))
  IN  Big(i.sign, [j \in 1 .. len + off + 1 |-> IF j <= off THEN 0 ELSE word(j - off)])

arithmetic_shift(i, c) ==
  bignum_normalize(
    CASE c = 0 -> i
      [] c < 0 /\ i.t = "fix" -> Fix(IF c > -WordBits THEN i.v \div 2^(-c) ELSE 0)
      [] c > 0 /\ i.t = "fix" ->
           IF log2i(Word(i.v)) + c + 1 < WordBits - 1
             THEN Fix(((Word(i.v) * 2^c) % B) * Sign(i.v))
             ELSE shift_left(fixnum_to_bignum(i), c)
      [] c < 0 /\ i.t = "big" -> shift_right(i, -c)
      [] OTHER -> shift_left(i, c))

(***************************************************************************)
(* The bit tricks work on whole bytes.  The words of Numbers are shorter,   *)
(* so they are counted in a register of RegisterBits bits instead of 64.    *)
(***************************************************************************)
RegisterBits == 16
Ones == 2^RegisterBits - 1                  \* ~(sexp_uint_t)0

\* The ones of a register: of every two bits, of four, of a byte, of all bytes.
bit_count(i) ==
  LET pairs == i - ((i \div 2) & (Ones \div 3))
      two   == 3 * (Ones \div 15)
      fours == (pairs & two) + ((pairs \div 4) & two)
      bytes == (fours + (fours \div 16)) & (15 * (Ones \div 255))
  IN  ((bytes * (Ones \div 255)) % 2^RegisterBits) \div 2^(RegisterBits - 8)

\* The ones of a fixnum or its inverse; the ones of the magnitude of a bignum.
sexp_bit_count(x) ==
  IF x.t = "fix" THEN bit_count(IF x.v < 0 THEN -x.v - 1 ELSE x.v)
  ELSE FoldLeftDomain(LAMBDA n, i : n + bit_count(x.data[i]), 0, x.data)

\* The table: sixteen entries, and rows of sixteen equal ones.
log_table_256 ==
  LET first == <<0, 1, 2, 2, 3, 3, 3, 3, 4, 4, 4, 4, 4, 4, 4, 4>>
      LT == <<5, 6, 6, 7, 7, 7, 7, 8, 8, 8, 8, 8, 8, 8, 8>>
  IN  [n \in 0 .. 255 |-> IF n < 16 THEN first[n + 1] ELSE LT[n \div 16]]

\* The bits of a number of 32 bits, by its highest byte; one of 64 bits is split
\* in two of them in the same way.
integer_log2(x) ==
  LET tt == x \div 2^16
  IN  CASE tt >= 256 -> 24 + log_table_256[tt \div 256]
        [] tt \in 1 .. 255 -> 16 + log_table_256[tt]
        [] tt = 0 /\ x >= 256 -> 8 + log_table_256[x \div 256]
        [] OTHER -> log_table_256[x]

integer_length(x) ==
  IF x.t = "fix" THEN integer_log2(IF x.v < 0 THEN -x.v - 1 ELSE x.v)
  ELSE integer_log2(x.data[bignum_hi(x)]) + (bignum_hi(x) - 1) * WordBits

bit_set_p(pos, x) ==
  IF x.t = "fix"
    THEN IF pos < WordBits THEN (Word(x.v) \div 2^pos) % 2 = 1 ELSE x.v < 0
    ELSE LET w == pos \div WordBits + 1
         IN  IF w <= Len(x.data) THEN (x.data[w] \div 2^(pos % WordBits)) % 2 = 1
                                 ELSE x.sign < 0
=============================================================================
