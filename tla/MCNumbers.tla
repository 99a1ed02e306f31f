----------------------------- MODULE MCNumbers -----------------------------
(***************************************************************************)
(* The numbers of Tower, Bits, NumSyntax and LongLong against mathematics. *)
(* Each step takes two operands, and the properties apply every operation  *)
(* to them.  The operands are integers and what the operations themselves  *)
(* make of integers: they have every shape the code produces (zero words   *)
(* at the end of a bignum included), and two operations follow each other. *)
(*                                                                         *)
(* A value is a pair of fractions, the real and the imaginary part; a      *)
(* fraction is a pair in lowest terms with a positive denominator.         *)
(***************************************************************************)
EXTENDS NumSyntax, Bits, LongLong

CONSTANTS Magnitudes, \* the integers to start from, and their negatives
          MaxWords,   \* bound on the words of a number
          Literals,   \* those integers as number objects
          Results     \* what one operation makes of two literals

VARIABLES x, y        \* the operands

calcvars == <<x, y>>

(***************************************************************************)
(* Mathematical values.                                                    *)
(***************************************************************************)

RECURSIVE Gcd(_, _)
Gcd(m, n) == IF n = 0 THEN m ELSE Gcd(n, m % n)

Frac(n, d) == LET g == Gcd(Abs(n), Abs(d))
              IN  <<Sign(d) * (n \div g), Abs(d) \div g>>

FAdd(f, g) == Frac(f[1] * g[2] + g[1] * f[2], f[2] * g[2])
FNeg(f) == <<-f[1], f[2]>>
FMul(f, g) == Frac(f[1] * g[1], f[2] * g[2])
FDiv(f, g) == Frac(f[1] * g[2], f[2] * g[1])
FLess(f, g) == f[1] * g[2] < g[1] * f[2]

ZeroF == <<0, 1>>
Whole(n) == <<<<n, 1>>, ZeroF>>

VAdd(v, w) == <<FAdd(v[1], w[1]), FAdd(v[2], w[2])>>
VNeg(v) == <<FNeg(v[1]), FNeg(v[2])>>
VMul(v, w) == <<FAdd(FMul(v[1], w[1]), FNeg(FMul(v[2], w[2]))),
                FAdd(FMul(v[1], w[2]), FMul(v[2], w[1]))>>
VDiv(v, w) ==
  LET n == FAdd(FMul(w[1], w[1]), FMul(w[2], w[2]))
      p == VMul(v, <<w[1], FNeg(w[2])>>)
  IN  IF w[2] = ZeroF THEN <<FDiv(v[1], w[1]), FDiv(v[2], w[1])>>
                      ELSE <<FDiv(p[1], n), FDiv(p[2], n)>>

RECURSIVE VExpt(_, _)
VExpt(v, e) == IF e = 0 THEN Whole(1) ELSE VMul(v, VExpt(v, e - 1))

IntVal(n) ==
  IF n.t = "fix" THEN n.v
  ELSE n.sign * FoldLeftDomain(LAMBDA s, i : s + n.data[i] * B^(i - 1), 0, SubSeq(n.data, 1, bignum_hi(n)))

FracVal(r) == IF r.t = "rat" THEN Frac(IntVal(r.num), IntVal(r.den)) ELSE <<IntVal(r), 1>>

Val(z) == <<FracVal(re(z)), FracVal(im(z))>>

\* Two's complement with enough bits for MaxWords words.
AllBits == B^(MaxWords + 1)
BitRef(op(_, _), m, n) ==
  LET r == op(m % AllBits, n % AllBits)
  IN  IF r >= AllBits \div 2 THEN r - AllBits ELSE r

(***************************************************************************)
(* The operations, their meaning, and the inputs for which they differ.    *)
(***************************************************************************)

Ops == {"add", "sub", "mul", "div", "quotient", "remainder", "expt",
        "and", "ior", "xor", "shift", "round", "floor", "ceiling", "trunc",
        "rectangular"}

BitOps == {"and", "ior", "xor", "shift"}
Rounders == {"round", "floor", "ceiling", "trunc"}

Result(op, a, b) ==
  CASE op = "add" -> op_add(a, b)
    [] op = "sub" -> op_sub(a, b)
    [] op = "mul" -> op_mul(a, b)
    [] op = "div" -> op_div(a, b)
    [] op = "quotient" -> op_quotient(a, b)
    [] op = "remainder" -> op_remainder(a, b)
    [] op = "expt" -> sexp_expt(a, b)
    [] op = "and" -> bit_and(a, b)
    [] op = "ior" -> bit_ior(a, b)
    [] op = "xor" -> bit_xor(a, b)
    [] op = "shift" -> arithmetic_shift(a, b.v)
    [] op = "round" -> ratio_round(a)
    [] op = "floor" -> ratio_floor(a)
    [] op = "ceiling" -> ratio_ceiling(a)
    [] op = "trunc" -> ratio_trunc(a)
    [] op = "rectangular" -> complex_normalize(a, b)

Meaning(op, v, w) ==
  LET m == v[1][1]
      n == w[1][1]
      d == v[1][2]
  IN  CASE op = "add" -> VAdd(v, w)
        [] op = "sub" -> VAdd(v, VNeg(w))
        [] op = "mul" -> VMul(v, w)
        [] op = "div" -> VDiv(v, w)
        [] op = "quotient" -> Whole(Quo(m, n))
        [] op = "remainder" -> Whole(Rem(m, n))
        [] op = "expt" /\ v = Whole(1) -> v
        [] op = "expt" /\ v # Whole(1) -> IF n < 0 THEN VDiv(Whole(1), VExpt(v, -n)) ELSE VExpt(v, n)
        [] op = "and" -> Whole(BitRef(&, m, n))
        [] op = "ior" -> Whole(BitRef(|, m, n))
        [] op = "xor" -> Whole(BitRef(^^, m, n))
        [] op = "shift" -> Whole(IF n < 0 THEN m \div 2^(-n) ELSE m * 2^n)
        [] op = "floor" -> Whole(m \div d)
        [] op = "ceiling" -> Whole(-((-m) \div d))
        [] op = "trunc" -> Whole(Quo(m, d))
        [] op = "rectangular" -> <<v[1], w[1]>>
        [] op = "round" ->
             LET lo == m \div d
                 r2 == 2 * (m % d)
             IN  Whole(IF r2 < d \/ (r2 = d /\ lo % 2 = 0) THEN lo ELSE lo + 1)

\* The operands an operation is defined on.
Defined(op, a, b) ==
  CASE op \in {"add", "sub", "mul"} -> TRUE
    [] op = "div" -> b # Zero
    [] op \in {"quotient", "remainder"} -> Ints(a, b) /\ b # Zero
    [] op = "expt" -> b.t = "fix" => b.v \in -1 .. 3 /\ (b.v < 0 => a # Zero)
    [] op \in {"and", "ior", "xor"} -> Ints(a, b)
    [] op = "shift" -> IsInt(a) /\ b.t = "fix"
    [] op \in Rounders -> a.t = "rat"
    [] op = "rectangular" -> Reals(a, b)

\* The first word that is not used is there, so the two's complement has a sign.
Headroom(a) == a.t = "fix" \/ ~TopBit(a)

MinF == Fix(MinFixnum)
Edge == MaxFixnum + 1                  \* negating -Edge as a fixnum gives -Edge
AtEdge(n) == Abs(IntVal(n)) = Edge
Parts(a) == {num(re(a)), den(re(a)), num(im(a)), den(im(a))}
SubWraps(a, b) == Fixes(a, b) /\ ~InFix(a.v - b.v)

\* sexp_ratio_normalize goes wrong for MinFixnum below, for MinFixnum over its
\* opposite, and for a negative ratio whose denominator is that opposite.
RatioOff(n, d) ==
  \/ d = MinF
  \/ n = MinF /\ AtEdge(d)
  \/ LET f == Frac(IntVal(n), IntVal(d)) IN f[1] < 0 /\ f[2] = Edge

RealOff(op, a, b) ==
  CASE op = "add" -> ~Ints(a, b) /\
                     RatioOff(int_add(int_mul(num(a), den(b)), int_mul(num(b), den(a))),
                              int_mul(den(a), den(b)))
    [] op = "sub" -> ~Ints(a, b) /\ 
                     (\E p \in Parts(a) \cup Parts(b) \cup Parts(Result(op, a, b)) : AtEdge(p))
    [] op = "mul" -> ~Ints(a, b) /\ RatioOff(int_mul(num(a), num(b)), int_mul(den(a), den(b)))
    [] op = "div" -> \/ RatioOff(int_mul(num(a), den(b)), int_mul(den(a), num(b)))
                     \/ Ints(a, b) /\ exact_negativep(b) /\ "big" \in {a.t, b.t}

ComplexOff(op, a, b) ==
  \/ \E p \in Parts(a) \cup Parts(b) \cup Parts(Result(op, a, b)) : AtEdge(p)
  \/ op = "sub" /\ "rat" \in {re(a).t, im(a).t, re(b).t, im(b).t}
  \/ op = "mul" /\ SubWraps(real_mul(re(a), re(b)), real_mul(im(a), im(b)))
  \/ op = "div" /\ SubWraps(real_mul(im(a), re(b)), real_mul(re(a), im(b)))

\* Inputs for which the code's result is not the mathematical one (README,
\* "What the numbers get wrong").
Deviates(op, a, b) ==
  CASE op \in {"add", "sub", "mul", "div"} ->
         IF Reals(a, b) THEN RealOff(op, a, b)
         ELSE LET r == Result(op, a, b)
              IN  r.t \in {"flo", "undefined"} \/ ComplexOff(op, a, b)
    [] op \in {"quotient", "remainder"} -> a = MinF /\ AtEdge(b)
    [] op \in {"and", "ior", "xor"} ->
         \/ ~Headroom(a) \/ ~Headroom(b)
         \/ op = "xor" /\ a.t = "big" /\ b.t = "big" /\ Len(a.data) # Len(b.data)
    [] op = "shift" -> b.v < 0 /\ exact_negativep(a) /\
                       (IF a.t = "fix" THEN b.v <= -WordBits
                                       ELSE IntVal(a) % 2^(-b.v) = 0)
    [] op = "expt" -> \/ IsInt(a) /\ b = NegOne /\ IntVal(a) = -Edge
                      \/ a.t = "rat" /\ b = NegOne
    [] OTHER -> FALSE

Bounded(z) == \A p \in Parts(z) :
                p.t = "big" => bignum_hi(p) <= (IF IsInt(z) THEN MaxWords ELSE 1)

AfterX(op, a, b) == IF op = "div" THEN div_after(a, b) ELSE a
AfterY(op, a, b) == CASE op = "div" -> div_after_den(a, b)
                      [] op = "sub" -> sub_after(b)
                      [] OTHER -> b

MkInt(n) ==
  LET d == [i \in 1 .. MaxWords |-> (Abs(n) \div B^(i - 1)) % B]
      z == Big(Sign(n), d)
  IN  bignum_normalize(copy_bignum(z, bignum_hi(z)))

\* An exact number within the bounds.
Exact(r) == r.t \notin {"exn", "flo", "undefined"} /\ Bounded(r)

Calculates(op, a, b) ==
  Defined(op, a, b) /\ ~Deviates(op, a, b) /\ Exact(Result(op, a, b))

MCLiterals == {MkInt(n) : n \in Magnitudes \cup {-k : k \in Magnitudes}}
MCResults ==
  LET apps == {c \in Ops \X MCLiterals \X MCLiterals : Calculates(c[1], c[2], c[3])}
  IN  {Result(c[1], c[2], c[3]) : c \in apps}

Nothing == [t |-> "none"]

CalcInit == x = Nothing /\ y = Nothing

TakeFirst == /\ x = Nothing
             /\ x' \in Literals \cup Results
             /\ UNCHANGED y

TakeSecond == /\ x # Nothing /\ y = Nothing
              /\ \E b \in Literals : \/ UNCHANGED x /\ y' = b
                                     \/ x' = b /\ y' = x

CalcNext == TakeFirst \/ TakeSecond

----------------------------------------------------------------------------
CanonicalInt(n) == n.t = "fix" \/ IntVal(n) \notin MinFixnum .. MaxFixnum
CanonicalReal(r) ==
  IF r.t = "rat" THEN /\ CanonicalInt(r.num) /\ CanonicalInt(r.den)
                      /\ IntVal(r.den) > 1
                      /\ Gcd(Abs(IntVal(r.num)), IntVal(r.den)) = 1
  ELSE CanonicalInt(r)

\* A number has one representation: an integer that fits is a fixnum, a ratio
\* is in lowest terms over a denominator above one, and a complex number has
\* an imaginary part (eq?, equal? and hashing rely on it).
Canonical(z) == /\ CanonicalReal(re(z)) /\ CanonicalReal(im(z))
                /\ z.t = "cpx" => z.im # Zero

\* z is the one representation of the value v.
Stands(z, v) == Val(z) = v /\ Canonical(z)

(* Every operation of bignum.c and bit.c, and two of them in a row, give the *)
(* mathematical result in its one representation and leave their operands as *)
(* they were, and none refuses operands it is defined on: carries and        *)
(* borrows across words, the fixnum limits, Karatsuba's products, the        *)
(* guessed digits of a quotient, ratios and complex parts, two's             *)
(* complements.  Of the operands listed under Deviates nothing is said.      *)
CalculationsExact(a, b) ==
  \A op \in Ops : Defined(op, a, b) /\ ~Deviates(op, a, b) =>
    LET r == Result(op, a, b)
    IN  /\ r # Exn
        /\ Exact(r) => /\ Stands(r, Meaning(op, Val(a), Val(b)))
                       /\ Stands(AfterX(op, a, b), Val(a))
                       /\ Stands(AfterY(op, a, b), Val(b))

NumbersExact == [][y' # Nothing => CalculationsExact(x', y')]_calcvars

\* The difference the code compares with zero wraps for two fixnums, and is
\* negated for MinFixnum when the second of a ratio and an integer is the integer.
CompareOff(a, b) ==
  LET m == int_mul(num(a), den(b))
      n == int_mul(num(b), den(a))
  IN  ~Ints(a, b) /\ Fixes(m, n) /\ ~InFix(Abs(m.v - n.v))

(* <, <= and = order the numbers by their values, between fixnums, bignums   *)
(* and ratios in every combination.                                          *)
ComparisonsAgree(p, q) ==
  Reals(p, q) /\ ~CompareOff(p, q) =>
    /\ op_lt(p, q) <=> FLess(FracVal(p), FracVal(q))
    /\ op_le(p, q) <=> ~FLess(FracVal(q), FracVal(p))
    /\ op_eqn(p, q) <=> Val(p) = Val(q)

(* bit-count, integer-length and bit-set? read the two's complement of an    *)
(* integer (a negative bignum is left out: the code reads its magnitude).    *)
BitsAgree(p) ==
  IsInt(p) /\ (p.t = "fix" \/ ~exact_negativep(p)) =>
    LET n == IntVal(p)
        m == IF n < 0 THEN -n - 1 ELSE n
        bits == {i \in 0 .. (MaxWords + 1) * WordBits : (m \div 2^i) % 2 = 1}
        register == n % 2^RegisterBits
        Length(s) == IF s = {} THEN 0 ELSE 1 + CHOOSE i \in s : \A j \in s : j <= i
        low == {i \in 0 .. RegisterBits - 1 : (register \div 2^i) % 2 = 1}
    IN  /\ sexp_bit_count(p) = Cardinality(bits)
        /\ bit_count(register) = Cardinality(low)
        /\ low # {} => \A k \in 0 .. 14 : integer_log2(register * 2^k) = Length(low) + k
        /\ integer_length(p) = Length(bits)
        /\ \A i \in 0 .. (MaxWords + 1) * WordBits : bit_set_p(i, p) <=> (n \div 2^i) % 2 = 1

(* exact-integer-sqrt of a bignum: the Babylonian iteration ends, from the   *)
(* estimate and from flonum roots a little below and above, with the largest *)
(* root whose square does not exceed the magnitude, and the remainder.       *)
SqrtExact(p) ==
  p.t = "big" =>
    LET Root(s) == LET r == IntVal(s.root)
                   IN  /\ r * r + IntVal(s.rem) = Abs(IntVal(p))
                       /\ IntVal(s.rem) \in 0 .. 2 * r
        estimated == bignum_sqrt(p, Infinite)
        near == {IntVal(estimated.root) + d : d \in -2 .. 2} \ {-1, 0}
    IN  Root(estimated) /\ \A f \in near : Root(bignum_sqrt(p, f))

\* A ratio with a bignum above, followed by an imaginary part.
ReadOff(z) ==
  z.t = "cpx" /\ \E p \in {z.re, z.im} : p.t = "rat" /\ Abs(IntVal(p.num)) > MaxFixnum

(* What write makes of a number reads back as the same number, of the same   *)
(* kind, with no text left over; the exception is ReadOff.                   *)
TextRoundTrips(p) ==
  ~ReadOff(p) => LET r == read_number(write_number(p))
                 IN  r.in = <<>> /\ r.v.t = p.t /\ Val(r.v) = Val(p)

(* The digits of a bignum fit the buffer sexp_write_bignum allocates from    *)
(* the number of its words, for every base that fits a word.                 *)
WriteFits(p) ==
  p.t = "big" =>
    \A base \in 2 .. UMax : Len(write_bignum(p, base)) <= write_buffer_size(p, base)

(* The double words of bignum.h agree with integers modulo two words: sums,  *)
(* differences, products, quotients, shifts, comparisons and range tests.    *)
LongLongsAgree(p, q) ==
  Ints(p, q) =>
    LET BB == B * B
        m == Abs(IntVal(p)) % BB
        n == Abs(IntVal(q)) % BB
        w == n % B
        a == LL(m \div B, m)
        b == LL(n \div B, n)
        u(d) == d.hi * B + d.lo
        s(d) == signed(d.hi) * B + d.lo
        k == signed(w)
        same(z, v) == (z - v) % BB = 0
    IN  /\ same(u(luint_add(a, b)), m + n) /\ same(u(luint_sub(a, b)), m - n)
        /\ same(u(luint_mul_uint(a, w)), m * w)
        /\ same(s(lsint_mul_sint(a, k)), s(a) * k)
        /\ n > 0 => u(luint_div(a, b)) = m \div n
        /\ u(luint_and(a, b)) = (m & n)
        /\ luint_lt(a, b) <=> m < n
        /\ \A i \in 0 .. 2 * WordBits - 1 :
             same(u(luint_shl(a, i)), m * 2^i) /\ u(luint_shr(a, i)) = m \div 2^i
        /\ lsint_is_fixnum(a) <=> InFix(s(a))
        /\ luint_is_fixnum(a) <=> InFix(m)
        /\ sexp_lsint_fits_sint(a) <=> s(a) \in -(B \div 2) .. B \div 2 - 1

(* What only reads numbers agrees with their values: comparisons, bits,      *)
(* square roots and the double words that products and quotients go through. *)
ReadingsAgree ==
  [][/\ x' # Nothing /\ y' = Nothing => BitsAgree(x') /\ SqrtExact(x')
     /\ y' # Nothing => ComparisonsAgree(x', y') /\ LongLongsAgree(x', y')]_calcvars

(* The text of a number: it fits its buffer and reads back as the number.    *)
NumberTextExact ==
  [][x' # Nothing /\ y' = Nothing => TextRoundTrips(x') /\ WriteFits(x')]_calcvars
=============================================================================
