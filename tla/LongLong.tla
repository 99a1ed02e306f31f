------------------------------ MODULE LongLong ------------------------------
(***************************************************************************)
(* The double words of bignum.h for compilers without them                 *)
(* (SEXP_USE_CUSTOM_LONG_LONGS).  A double word is a pair of words; the    *)
(* arithmetic goes by half words, the least significant one first.  A      *)
(* signed double word keeps its high word in two's complement.             *)
(***************************************************************************)
EXTENDS Numbers, Bitwise

LL(hi, lo) == [hi |-> hi % B, lo |-> lo % B]

halves(a) == <<a.lo % HalfBits, a.lo \div HalfBits, a.hi % HalfBits, a.hi \div HalfBits>>
from_halves(h) == LL(h[4] * HalfBits + h[3], h[2] * HalfBits + h[1])
signed(w) == IF w >= B \div 2 THEN w - B ELSE w

lsint_lt_0(a) == signed(a.hi) < 0
sexp_lsint_fits_sint(x) == x.hi = (IF signed(x.lo) < 0 THEN UMax ELSE 0)
sexp_luint_fits_uint(x) == x.hi = 0
lsint_from_sint(v) == LL(IF v < 0 THEN UMax ELSE 0, v)
luint_from_uint(v) == LL(0, v)

luint_eq(a, b) == a.hi = b.hi /\ a.lo = b.lo
luint_lt(a, b) == a.hi < b.hi \/ (a.hi = b.hi /\ a.lo < b.lo)

luint_shl(v, shift) ==
  CASE shift = 0 -> v
    [] shift >= WordBits -> LL(v.lo * 2^(shift - WordBits), 0)
    [] OTHER -> LL(((v.hi * 2^shift) % B) + v.lo \div 2^(WordBits - shift), v.lo * 2^shift)

luint_shr(v, shift) ==
  CASE shift = 0 -> v
    [] shift >= WordBits -> LL(0, v.hi \div 2^(shift - WordBits))
    [] OTHER -> LL(v.hi \div 2^shift, v.lo \div 2^shift + ((v.hi * 2^(WordBits - shift)) % B))

\* The sum of the half words, each with the carry out of the one before.
luint_add(a, b) ==
  LET p == halves(a)
      q == halves(b)
  IN  from_halves(WordLoop(4, LAMBDA i, c : (p[i] + q[i] + c) % HalfBits,
                              LAMBDA i, c : (p[i] + q[i] + c) \div HalfBits, 0).data)

luint_add_uint(a, b) == luint_add(a, luint_from_uint(b))

invert(a) == LL(UMax - a.hi, UMax - a.lo)

lsint_negate(v) == luint_add_uint(invert(v), 1)

luint_sub(a, b) == luint_add(a, luint_add_uint(invert(b), 1))

\* The product with one half word h: four partial products, added up.
mul_half(a, h) ==
  LET p == halves(a)
  IN  luint_add(luint_add(luint_add(
        LL(0, p[1] * h),
        LL((p[2] * h) \div HalfBits, p[2] * h * HalfBits)),
        LL(p[3] * h, 0)),
        LL(p[4] * h * HalfBits, 0))

luint_mul_uint(a, b) ==
  luint_add(mul_half(a, b % HalfBits),
            luint_shl(mul_half(a, b \div HalfBits), WordBits \div 2))

lsint_mul_sint(a, b) ==
  LET abs_a == IF lsint_lt_0(a) THEN lsint_negate(a) ELSE a
      p == luint_mul_uint(abs_a, Abs(b) % B)
  IN  IF lsint_lt_0(a) # (b < 0) THEN lsint_negate(p) ELSE p

\* Long division, one bit at a time.
luint_div(a, b) ==
  LET bit(s, i) ==
        LET r == LL(luint_shl(s.r, 1).hi, luint_shl(s.r, 1).lo + s.a.hi \div (B \div 2))
            q == luint_shl(s.q, 1)
            fits == ~luint_lt(r, b)
        IN  [a |-> luint_shl(s.a, 1),
             r |-> IF fits THEN luint_sub(r, b) ELSE r,
             q |-> IF fits THEN LL(q.hi, q.lo + 1) ELSE q]
      zero == luint_from_uint(0)
  IN  CASE luint_lt(a, b) -> zero
        [] luint_eq(a, b) -> luint_from_uint(1)
        [] OTHER -> FoldLeftDomain(bit, [a |-> a, r |-> zero, q |-> zero], Zeros(2 * WordBits)).q

luint_div_uint(a, b) == luint_div(a, luint_from_uint(b))

luint_and(a, b) == LL(a.hi & b.hi, a.lo & b.lo)

luint_is_fixnum(x) == x.hi = 0 /\ x.lo <= MaxFixnum

lsint_is_fixnum(x) ==
  CASE x.hi = 0 -> x.lo <= MaxFixnum
    [] x.hi = UMax -> MinFixnum % B <= x.lo
    [] OTHER -> FALSE
=============================================================================
