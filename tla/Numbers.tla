------------------------------ MODULE Numbers ------------------------------
(***************************************************************************)
(* The exact numbers of Chibi Scheme: fixnums, bignums, ratios and complex *)
(* numbers with exact parts (bignum.c, the number part of sexp.c, the      *)
(* fixnum macros of sexp.h and the arithmetic opcodes of vm.c).            *)
(*                                                                         *)
(* A word (sexp_uint_t) has WordBits bits instead of 64, so that carries,  *)
(* borrows, the fixnum limits and numbers of several words all occur among *)
(* small integers.  A fixnum is a word with a one-bit tag.  A bignum is a  *)
(* sign and a sequence of words, the least significant one first, possibly *)
(* with zero words at the end: the C code compares and adds with           *)
(* bignum_hi, the number of significant words, and never trims the data.   *)
(*                                                                         *)
(* The C functions write into freshly allocated bignums; the operators     *)
(* return them.  A destination argument is only ever NULL or an operand    *)
(* that is overwritten, so it is left out.  Flonums are left out.          *)
(***************************************************************************)
EXTENDS Integers, Sequences, SequencesExt

CONSTANT WordBits

ASSUME WordBitsAssumption == WordBits \in {4, 6, 8}

B == 2^WordBits                     \* one more than SEXP_UINT_T_MAX
UMax == B - 1
HalfBits == 2^(WordBits \div 2)     \* 1 << (sizeof(sexp_uint_t)*4)
MaxFixnum == 2^(WordBits - 2) - 1
MinFixnum == -MaxFixnum - 1

Abs(n) == IF n < 0 THEN -n ELSE n
Sign(n) == IF n < 0 THEN -1 ELSE 1

\* C division and remainder truncate towards zero.
Quo(n, d) == Sign(n) * Sign(d) * (Abs(n) \div Abs(d))
Rem(n, d) == n - d * Quo(n, d)

(***************************************************************************)
(* Representation.                                                         *)
(***************************************************************************)

\* sexp_make_fixnum shifts the value left and loses its top bit.
Fix(n) ==
  LET u == n % (B \div 2)
  IN  [t |-> "fix", v |-> IF u > MaxFixnum THEN u - B \div 2 ELSE u]

Big(s, d) == [t |-> "big", sign |-> s, data |-> d]
Rat(n, d) == [t |-> "rat", num |-> n, den |-> d]
Cpx(r, i) == [t |-> "cpx", re |-> r, im |-> i]
Exn == [t |-> "exn"]                \* an exception object

Zero == Fix(0)
One == Fix(1)
NegOne == Fix(-1)

IsInt(x) == x.t \in {"fix", "big"}
Zeros(n) == SubSeq(<<0, 0, 0, 0, 0, 0, 0, 0, 0, 0, 0, 0>>, 1, n)

make_bignum(len) == Big(1, Zeros(len))

fixnum_to_bignum(a) == Big(Sign(a.v), <<Abs(a.v)>>)

\* The words of a, cut or padded with zeros to len words.
copy_bignum(a, len) == Big(a.sign, SubSeq(a.data \o Zeros(len), 1, len))

\* The number of significant words, at least 1.
bignum_hi(a) ==
  LET S == {i \in 2 .. Len(a.data) : a.data[i] # 0}
  IN  IF S = {} THEN 1 ELSE CHOOSE i \in S : \A j \in S : j <= i

bignum_zerop(a) == \A i \in DOMAIN a.data : a.data[i] = 0

bignum_compare_abs(a, b) ==
  LET ai == bignum_hi(a)
      bi == bignum_hi(b)
      D  == {i \in 1 .. ai : a.data[i] # b.data[i]}
      top == CHOOSE i \in D : \A j \in D : j <= i
  IN  CASE ai # bi -> ai - bi
        [] ai = bi /\ D = {} -> 0
        [] OTHER -> IF a.data[top] > b.data[top] THEN 1 ELSE -1

\* A variant with a bug: the signs are not looked at.
bignum_compare_unsigned(a, b) == bignum_compare_abs(a, b)

bignum_compare(a, b) ==
  IF a.sign # b.sign THEN a.sign ELSE a.sign * bignum_compare_abs(a, b)

\* A variant with a bug: the smallest fixnum stays a bignum.
bignum_normalize_short(a) ==
  IF a.t # "big" \/ bignum_hi(a) > 1 \/ a.data[1] > MaxFixnum
    THEN a ELSE Fix(a.data[1] * a.sign)

\* A bignum that fits becomes a fixnum, -(MaxFixnum + 1) included.
bignum_normalize(a) ==
  IF \/ a.t # "big" \/ bignum_hi(a) > 1
     \/ a.data[1] > MaxFixnum /\ ~(a.sign = -1 /\ a.data[1] = MaxFixnum + 1)
    THEN a
    ELSE Fix(a.data[1] * a.sign)

\* A double word is turned into a fixnum, a bignum of one or of two words.
make_integer_from_lsint(x) ==
  LET lo == x % B
      hi == (x \div B) % B
  IN  CASE x \in MinFixnum .. MaxFixnum -> Fix(x)
        [] x \notin MinFixnum .. MaxFixnum /\ x \in -(B \div 2) .. B \div 2 - 1 ->
             Big(Sign(x), <<Abs(x) % B>>)
        [] OTHER -> IF x < 0 THEN Big(-1, <<(-lo) % B, UMax - hi>>)
                             ELSE Big(1, <<lo, hi>>)

(***************************************************************************)
(* Words and bignums.                                                      *)
(***************************************************************************)

\* A loop over the words 1 .. n that carries a word c from each to the next: the
\* words it stores and the last carry.
WordLoop(n, word(_, _), carry(_, _), c0) ==
  FoldLeftDomain(LAMBDA s, i : [data  |-> Append(s.data, word(i, s.carry)),
                                carry |-> carry(i, s.carry)],
                 [data |-> <<>>, carry |-> c0], Zeros(n))

Bit(cond) == IF cond THEN 1 ELSE 0

\* The words of a from the n-th on.
rest(a, n) == SubSeq(a.data, n + 1, Len(a.data))

\* a + b for a word b: the carry runs through the significant words and may
\* add one.
bignum_fxadd(a, b) ==
  LET len == bignum_hi(a)
      r == WordLoop(len, LAMBDA i, c : (a.data[i] + c) % B,
                         LAMBDA i, c : Bit(a.data[i] > UMax - c), b)
  IN  Big(a.sign, IF r.carry = 0 THEN r.data \o rest(a, len) ELSE Append(r.data, 1))

\* a - b for a word b; only a one-word a may be the smaller of the two.
bignum_fxsub(a, b) ==
  LET r == WordLoop(Len(a.data), LAMBDA i, c : (a.data[i] - c) % B,
                                 LAMBDA i, c : Bit(a.data[i] < c), b)
  IN  IF bignum_hi(a) = 1 /\ b > a.data[1]
        THEN Big(-a.sign, <<b - a.data[1]>> \o rest(a, 1))
        ELSE Big(a.sign, r.data)

bignum_fxmul(a, b) ==
  LET r == WordLoop(Len(a.data), LAMBDA i, c : (a.data[i] * b + c) % B,
                                 LAMBDA i, c : (a.data[i] * b + c) \div B, 0)
  IN  Big(1, IF r.carry = 0 THEN r.data ELSE Append(r.data, r.carry))

\* The quotient of a by the word b, and the remainder.
bignum_fxdiv(a, b) ==
  LET len == bignum_hi(a)
      n(k, c) == c * B + a.data[len + 1 - k]
      r == WordLoop(len, LAMBDA k, c : (n(k, c) \div b) % B,
                         LAMBDA k, c : n(k, c) - b * ((n(k, c) \div b) % B), 0)
  IN  [q |-> Big(a.sign, Reverse(r.data) \o rest(a, len)), r |-> r.carry]

bignum_fxrem(a, b) ==
  CASE b > 0 /\ b \in {2^k : k \in 0 .. WordBits} -> Fix(a.sign * (a.data[1] % b))
    [] b = 0 -> Exn
    [] OTHER -> Fix(a.sign * bignum_fxdiv(a, Abs(b)).r)

bignum_add_fixnum(a, b) ==
  IF a.sign = Sign(b.v) THEN bignum_fxadd(a, Abs(b.v))
                        ELSE bignum_fxsub(a, Abs(b.v))

(***************************************************************************)
(* Bignums.                                                                *)
(***************************************************************************)

\* |a| - |b| or |b| - |a|, whichever is not negative.
bignum_sub_digits(a0, b0) ==
  LET swap == \/ bignum_hi(a0) < bignum_hi(b0)
              \/ bignum_hi(a0) = bignum_hi(b0) /\ bignum_compare_abs(a0, b0) < 0
      a == IF swap THEN b0 ELSE a0
      b == IF swap THEN a0 ELSE b0
      alen == bignum_hi(a)
      bw(i) == IF i <= bignum_hi(b) THEN b.data[i] ELSE 0
      r == WordLoop(alen, LAMBDA i, c : (a.data[i] - bw(i) - c) % B,
                          LAMBDA i, c : Bit(~(a.data[i] > bw(i) \/ (a.data[i] = bw(i) /\ c = 0))), 0)
  IN  Big(a.sign, r.data \o rest(a, alen))

bignum_add_digits(a0, b0) ==
  LET swap == bignum_hi(a0) < bignum_hi(b0)
      a == IF swap THEN b0 ELSE a0
      b == IF swap THEN a0 ELSE b0
      alen == bignum_hi(a)
      bw(i) == IF i <= bignum_hi(b) THEN b.data[i] ELSE 0
      sum(i) == (a.data[i] + bw(i)) % B
      r == WordLoop(alen, LAMBDA i, c : (sum(i) + c) % B,
                          LAMBDA i, c : Bit(a.data[i] > UMax - bw(i)) + Bit(sum(i) > UMax - c), 0)
  IN  Big(a.sign, IF r.carry = 0 THEN r.data \o rest(a, alen) ELSE Append(r.data, 1))

bignum_add(a, b) ==
  IF a.sign = b.sign
    THEN [bignum_add_digits(a, b) EXCEPT !.sign = a.sign]
    ELSE [bignum_sub_digits(a, b) EXCEPT
            !.sign = IF bignum_compare_abs(a, b) >= 0 THEN a.sign ELSE b.sign]

bignum_sub(a, b) ==
  IF a.sign = b.sign
    THEN [bignum_sub_digits(a, b) EXCEPT
            !.sign = IF bignum_compare_abs(a, b) >= 0 THEN a.sign ELSE -a.sign]
    ELSE [bignum_add_digits(a, b) EXCEPT !.sign = a.sign]

\* The low k words and the others.
bignum_split(a, k) ==
  LET alen == bignum_hi(a)
  IN  [lo |-> Big(1, SubSeq(a.data, 1, k)),
       hi |-> Big(1, SubSeq(a.data, k + 1, alen) \o <<0>>)]

bignum_shift(a, k) ==
  Big(1, Zeros(k) \o SubSeq(a.data, 1, bignum_hi(a)) \o <<0>>)

\* Karatsuba's multiplication, down to one-word factors.
RECURSIVE bignum_mul(_, _)
bignum_mul(a, b) ==
  LET blen == bignum_hi(b)
      k  == blen \div 2
      as == bignum_split(a, k)
      bs == bignum_split(b, k)
      z0 == bignum_mul(as.lo, bs.lo)
      z2 == bignum_mul(as.hi, bs.hi)
      m  == bignum_mul(bignum_add(bs.hi, bs.lo), bignum_add(as.hi, as.lo))
      z1 == bignum_sub(bignum_sub(m, z0), z2)
      p  == IF blen = 1
              THEN bignum_fxmul(a, b.data[1])
              ELSE bignum_add(bignum_add(bignum_shift(z1, k), z0),
                              bignum_shift(z2, 2 * k))
  IN  IF bignum_hi(a) < blen THEN bignum_mul(b, a)
                             ELSE [p EXCEPT !.sign = a.sign * b.sign]

(***************************************************************************)
(* Integers: the fixnum and bignum cases of the generic operations.        *)
(***************************************************************************)

\* sexp_negate_exact: of MinFixnum it is MinFixnum.
negate_exact(x) == IF x.t = "big" THEN [x EXCEPT !.sign = -@] ELSE Fix(-x.v)

exact_negativep(x) == IF x.t = "fix" THEN x.v < 0 ELSE x.sign < 0
exact_positivep(x) == IF x.t = "fix" THEN x.v > 0 ELSE x.sign > 0
oddp(x) == (IF x.t = "fix" THEN x.v ELSE x.data[1]) % 2 = 1

\* The operands in the order of their types, as sexp_add and sexp_mul have them.
int_add(a, b) ==
  CASE a.t = "fix" /\ b.t = "fix" ->
         IF a.v + b.v \in MinFixnum .. MaxFixnum
           THEN Fix(a.v + b.v)
           ELSE bignum_normalize(bignum_add_fixnum(fixnum_to_bignum(a), b))
    [] a.t = "fix" /\ b.t = "big" -> bignum_normalize(bignum_add_fixnum(b, a))
    [] a.t = "big" /\ b.t = "fix" -> bignum_normalize(bignum_add_fixnum(a, b))
    [] OTHER -> bignum_normalize(bignum_add(b, a))

\* The difference of two fixnums wraps: the VM's own case keeps it away.
int_sub(a, b) ==
  CASE a.t = "fix" /\ b.t = "fix" -> Fix(a.v - b.v)
    [] a.t = "fix" /\ b.t = "big" ->
         bignum_normalize(negate_exact(bignum_sub(b, fixnum_to_bignum(a))))
    [] a.t = "big" /\ b.t = "fix" ->
         bignum_normalize(bignum_sub(a, fixnum_to_bignum(b)))
    [] OTHER -> bignum_normalize(bignum_sub(a, b))

\* A fixnum times a bignum.
fix_big_mul(a, b) ==
  bignum_normalize([bignum_fxmul(b, Abs(a.v)) EXCEPT !.sign = Sign(a.v) * b.sign])

int_mul(a, b) ==
  CASE a.t = "fix" /\ b.t = "fix" ->
         IF a.v * b.v \in MinFixnum .. MaxFixnum
           THEN Fix(a.v * b.v)
           ELSE fix_big_mul(b, fixnum_to_bignum(a))
    [] a.t = "fix" /\ b.t = "big" -> fix_big_mul(a, b)
    [] a.t = "big" /\ b.t = "fix" -> fix_big_mul(b, a)
    [] OTHER -> bignum_normalize(bignum_mul(a, b))

\* The guessed digits of the quotient of a1 by b1, from their two or two and a
\* half leading words: the one or two words to put at off - 1 and off.
quot_guess(a1, b1) ==
  LET alen == bignum_hi(a1)
      blen == bignum_hi(b1)
      aw(i) == a1.data[alen + 1 - i]
      bw(i) == b1.data[blen + 1 - i]
      half == aw(1) < HalfBits /\ bw(1) < HalfBits
      dn2 == aw(1) * B + aw(2)
      dd2 == bw(1) * B + bw(2)
      dn3 == dn2 * HalfBits + aw(3) \div HalfBits
      d == IF alen > 2 /\ blen > 2 /\ half
             THEN dn3 \div (dd2 * HalfBits + bw(3) \div HalfBits)
             ELSE dn2 \div dd2
      e == IF half THEN dn3 \div (bw(1) * HalfBits + bw(2) \div HalfBits)
                   ELSE dn2 \div bw(1)
  IN  IF d # 0 THEN [d |-> d, off |-> alen - blen + 1]
               ELSE [d |-> e, off |-> alen - blen]

\* Bring a1 below b1 by guesses that may overshoot; sign says on which side.
RECURSIVE quot_loop(_, _, _, _)
quot_loop(q, a1, b1, sign) ==
  LET g  == quot_guess(a1, b1)
      n  == bignum_hi(a1) + 1
      x  == copy_bignum(Big(1, Zeros(g.off - 1) \o <<g.d % B, (g.d \div B) % B>>), n)
      y  == bignum_mul(b1, x)
      a2 == IF sign < 0 THEN bignum_add(a1, y) ELSE bignum_sub(a1, y)
      q2 == IF sign < 0 THEN int_sub(q, x) ELSE int_add(q, x)
  IN  IF bignum_compare_abs(a1, b1) < 0
        THEN [q |-> q, a |-> a1, sign |-> sign]
        ELSE IF a2.sign # sign
               THEN quot_loop(q2, [a2 EXCEPT !.sign = -sign], b1, -sign)
               ELSE quot_loop(q2, a2, b1, sign)

bignum_quot_rem(a, b) ==
  LET a1 == [a EXCEPT !.sign = 1]
      b1 == [b EXCEPT !.sign = 1]
      fx == bignum_fxdiv(a1, b.data[1])
      gl == quot_loop(Zero, a1, b1, 1)
      ga == bignum_normalize(gl.a)
      back == gl.sign < 0 /\ ga # Zero
      q == IF bignum_hi(b) = 1 THEN fx.q
           ELSE IF back THEN int_sub(gl.q, One) ELSE gl.q
      r == IF bignum_hi(b) = 1 THEN bignum_normalize(Big(1, <<fx.r>>))
           ELSE IF back THEN int_add(ga, b1) ELSE ga
  IN  IF bignum_hi(b) = 1 /\ b.data[1] = 0
        THEN [q |-> Exn, r |-> Exn]
        ELSE [q |-> IF a.sign * b.sign < 0 THEN negate_exact(q) ELSE q,
              r |-> IF a.sign < 0 THEN negate_exact(r) ELSE r]

int_quotient(a, b) ==
  LET r == Fix(Quo(a.v, b.v))
      big(x, y) == bignum_normalize(bignum_quot_rem(x, y).q)
  IN  CASE b = One -> a
        [] b # One /\ a.t = "fix" /\ b.t = "fix" ->
             IF a.v < 0 /\ b.v < 0 /\ r.v < 0
               THEN big(fixnum_to_bignum(a), fixnum_to_bignum(b))
               ELSE r
        [] a.t = "fix" /\ b.t = "big" -> Zero
        [] b # One /\ a.t = "big" /\ b.t = "fix" -> big(a, fixnum_to_bignum(b))
        [] OTHER -> big(a, b)

int_remainder(a, b) ==
  CASE b = One -> Zero
    [] b # One /\ a.t = "fix" /\ b.t = "fix" -> Fix(Rem(a.v, b.v))
    [] a.t = "fix" /\ b.t = "big" -> a
    [] b # One /\ a.t = "big" /\ b.t = "fix" -> bignum_fxrem(a, b.v)
    [] OTHER -> bignum_normalize(bignum_quot_rem(a, b).r)

\* A fixnum with the sign of a - b; the difference of two fixnums wraps.
int_compare(a, b) ==
  LET fix_big(x, y) == IF bignum_hi(y) > 1 \/ y.data[1] > MaxFixnum
                         THEN Fix(IF y.sign < 0 THEN 1 ELSE -1)
                         ELSE Fix(x.v - y.data[1])
  IN  CASE a.t = "fix" /\ b.t = "fix" -> Fix(a.v - b.v)
        [] a.t = "fix" /\ b.t = "big" -> fix_big(a, b)
        [] a.t = "big" /\ b.t = "fix" -> negate_exact(fix_big(b, a))
        [] OTHER -> Fix(bignum_compare(a, b))

\* a to a fixnum power, by squaring.
RECURSIVE bignum_expt_loop(_, _, _)
bignum_expt_loop(res, acc, e) ==
  IF e = 0 THEN res
  ELSE bignum_expt_loop(IF e % 2 = 1 THEN bignum_mul(res, acc) ELSE res,
                        bignum_mul(acc, acc), e \div 2)

\* 2^n for a of 2n or 2n+1 bits.
bignum_sqrt_estimate(a) ==
  LET top == a.data[bignum_hi(a)]
      i == CHOOSE k \in 0 .. WordBits - 1 :
             /\ top >= 2^k \/ k = 0
             /\ top < 2^(k + 1)
      nbits == WordBits * (bignum_hi(a) - 1) + i + 1
  IN  bignum_normalize(bignum_expt_loop(fixnum_to_bignum(One),
                                        Big(1, <<2>>), nbits \div 2))

\* The Babylonian method, until 0 <= a - res*res < 2*res + 1.
RECURSIVE bignum_sqrt_loop(_, _)
bignum_sqrt_loop(a, res) ==
  LET rem == int_sub(a, int_mul(res, res))
      half == int_quotient(int_sub(rem, One), Fix(2))
      next == int_quotient(int_add(res, int_quotient(a, res)), Fix(2))
  IN  IF exact_negativep(rem) \/ ~exact_negativep(int_compare(half, res))
        THEN bignum_sqrt_loop(a, next)
        ELSE [root |-> bignum_normalize(res), rem |-> bignum_normalize(rem)]

\* The bignum of a flonum without a fraction, not normalized.
double_to_bignum(f) == Big(1, <<f % B, (f \div B) % B, f \div B^2>>)

Infinite == -1

\* The root of the magnitude, from the flonum root f of the machine.  On 64 bits
\* every bignum has one above SEXP_MAX_ACCURATE_FLONUM_SQRT.
bignum_sqrt(a, f) ==
  LET abs == [a EXCEPT !.sign = 1]
  IN  bignum_sqrt_loop(abs, IF f = Infinite THEN bignum_sqrt_estimate(abs)
                                            ELSE double_to_bignum(f))
=============================================================================
