------------------------------- MODULE Tower -------------------------------
(***************************************************************************)
(* Ratios, complex numbers, the generic operations over all exact numbers  *)
(* and the arithmetic opcodes of the VM, over the integers of Numbers.     *)
(*                                                                         *)
(* sexp_negate changes a bignum in place, and so reaches operands that a   *)
(* ratio or a complex number shares: div_after and sub_after say what an   *)
(* operand is after the call.  A result the code converts to a flonum is   *)
(* Flo; one it makes of fields that an object does not have is Undefined.  *)
(***************************************************************************)
EXTENDS Numbers

Flo == [t |-> "flo"]
Undefined == [t |-> "undefined"]

NormalRat(n, d) == IF d = One THEN n ELSE Rat(n, d)

(***************************************************************************)
(* Ratios.                                                                 *)
(***************************************************************************)

RECURSIVE gcd_loop(_, _)
gcd_loop(num, den) ==
  IF den = Zero THEN num ELSE gcd_loop(den, int_remainder(num, den))

\* The sign moves to the numerator.  MinFixnum as the numerator becomes a bignum
\* first; as the denominator it is negated to itself.
positive_den(num, den) ==
  IF exact_negativep(den)
    THEN <<negate_exact(IF num = Fix(MinFixnum) THEN fixnum_to_bignum(num) ELSE num),
           negate_exact(den)>>
    ELSE <<num, den>>

ratio_normalize(num0, den0) ==
  LET p == positive_den(num0, den0)
      g == gcd_loop(p[1], p[2])
      q == positive_den(int_quotient(p[1], g), int_quotient(p[2], g))
  IN  CASE p[2] = Zero -> Exn
        [] p[2] # Zero /\ p[1] = Zero -> Zero
        [] OTHER -> NormalRat(bignum_normalize(q[1]), bignum_normalize(q[2]))

num(x) == IF x.t = "rat" THEN x.num ELSE x
den(x) == IF x.t = "rat" THEN x.den ELSE One    \* sexp_make_ratio(ctx, x, SEXP_ONE)

ratio_add(a, b) ==
  ratio_normalize(int_add(int_mul(num(a), den(b)), int_mul(num(b), den(a))),
                  int_mul(den(a), den(b)))

ratio_mul(a, b) ==
  ratio_normalize(int_mul(num(a), num(b)), int_mul(den(a), den(b)))

ratio_div(a, b) ==
  ratio_normalize(int_mul(num(a), den(b)), int_mul(den(a), num(b)))

ratio_compare(a, b) ==
  int_compare(int_mul(num(a), den(b)), int_mul(num(b), den(a)))

ratio_round(a) ==
  LET q  == int_quotient(num(a), den(a))
      r0 == int_mul(int_remainder(num(a), den(a)), Fix(2))
      r  == IF exact_negativep(r0) THEN negate_exact(r0) ELSE r0
  IN  CASE den(a) = Fix(2) /\ oddp(q) ->
             int_add(q, IF exact_positivep(q) THEN One ELSE NegOne)
        [] ~(den(a) = Fix(2) /\ oddp(q)) /\ int_compare(r, den(a)).v > 0 ->
             int_add(q, IF exact_negativep(num(a)) THEN NegOne ELSE One)
        [] OTHER -> q

ratio_trunc(a) == int_quotient(num(a), den(a))

ratio_floor(a) ==
  IF exact_negativep(num(a)) THEN int_add(ratio_trunc(a), NegOne) ELSE ratio_trunc(a)

ratio_ceiling(a) ==
  IF exact_positivep(num(a)) THEN int_add(ratio_trunc(a), One) ELSE ratio_trunc(a)

(***************************************************************************)
(* Real numbers: integers and ratios.                                      *)
(***************************************************************************)

negate_maybe_ratio(x) ==
  IF x.t = "rat" THEN [x EXCEPT !.num = negate_exact(@)] ELSE negate_exact(x)

Ints(a, b) == IsInt(a) /\ IsInt(b)

real_add(a, b) == IF Ints(a, b) THEN int_add(a, b) ELSE ratio_add(a, b)
real_mul(a, b) == IF Ints(a, b) THEN int_mul(a, b) ELSE ratio_mul(a, b)

\* A ratio minus an integer is computed as the negated integer minus the ratio.
real_sub(a, b) ==
  CASE Ints(a, b) -> int_sub(a, b)
    [] a.t = "rat" /\ IsInt(b) -> negate_maybe_ratio(ratio_add(b, negate_maybe_ratio(a)))
    [] OTHER -> ratio_add(a, Rat(negate_exact(num(b)), den(b)))

real_div(a, b) == IF Ints(a, b) THEN ratio_normalize(a, b) ELSE ratio_div(a, b)

(***************************************************************************)
(* Complex numbers.                                                        *)
(***************************************************************************)

re(x) == IF x.t = "cpx" THEN x.re ELSE x
im(x) == IF x.t = "cpx" THEN x.im ELSE Zero

complex_normalize(r, i) == IF i = Zero THEN r ELSE Cpx(r, i)

complex_add(a, b) ==
  complex_normalize(real_add(re(a), re(b)), real_add(im(a), im(b)))

complex_sub(a, b) ==
  complex_add(a, Cpx(negate_maybe_ratio(re(b)), negate_maybe_ratio(im(b))))

complex_mul(a, b) ==
  complex_normalize(
    real_sub(real_mul(re(a), re(b)), real_mul(im(a), im(b))),
    real_add(real_mul(re(a), im(b)), real_mul(im(a), re(b))))

complex_div(a, b) ==
  LET denom == real_add(real_mul(re(b), re(b)), real_mul(im(b), im(b)))
  IN  complex_normalize(
        real_div(real_add(real_mul(re(a), re(b)), real_mul(im(a), im(b))), denom),
        real_div(real_sub(real_mul(im(a), re(b)), real_mul(re(a), im(b))), denom))

(***************************************************************************)
(* The generic operations.                                                 *)
(***************************************************************************)

Reals(a, b) == "cpx" \notin {a.t, b.t}
RatCpx(a, b) == {a.t, b.t} = {"rat", "cpx"}

sexp_add(a, b) == IF Reals(a, b) THEN real_add(a, b) ELSE complex_add(a, b)

\* A complex number minus a real one is computed the other way and negated.  A
\* ratio minus a complex number is taken to complex_sub as a flonum, whose real
\* and imaginary parts are read although it has none.
sexp_sub(a, b) ==
  LET r == complex_sub(b, a)
  IN  CASE Reals(a, b) -> real_sub(a, b)
        [] a.t = "rat" /\ b.t = "cpx" -> Undefined
        [] a.t = "cpx" /\ b.t = "rat" -> Flo
        [] a.t = "cpx" /\ IsInt(b) ->
             IF r.t = "cpx"
               THEN Cpx(negate_maybe_ratio(r.re), negate_maybe_ratio(r.im))
               ELSE negate_maybe_ratio(r)
        [] OTHER -> complex_sub(a, b)

sexp_mul(a, b) == IF Reals(a, b) THEN real_mul(a, b) ELSE complex_mul(a, b)

sexp_div(a, b) ==
  CASE Reals(a, b) -> real_div(a, b)
    [] RatCpx(a, b) -> Flo
    [] OTHER -> complex_div(a, b)

sexp_quotient(a, b) == IF Ints(a, b) THEN int_quotient(a, b) ELSE IF b = One THEN a ELSE Exn
sexp_remainder(a, b) ==
  IF Ints(a, b) THEN int_remainder(a, b) ELSE IF b = One THEN Zero ELSE Exn

sexp_compare(a, b) ==
  CASE ~Reals(a, b) -> Exn
    [] Ints(a, b) -> int_compare(a, b)
    [] OTHER -> IF IsInt(b) THEN negate_exact(ratio_compare(b, a))
                            ELSE ratio_compare(a, b)

\* A negative power is the reciprocal.
bignum_expt(a, e) ==
  LET res == bignum_expt_loop(fixnum_to_bignum(One), a, Abs(e))
  IN  IF e < 0 THEN bignum_normalize(ratio_normalize(fixnum_to_bignum(One), res))
               ELSE bignum_normalize(res)

\* A ratio to a power; a negative one gives 1.
RECURSIVE generic_expt(_, _, _)
generic_expt(res, tmp, e) ==
  IF e <= 0 THEN res
  ELSE generic_expt(IF e % 2 = 1 THEN sexp_mul(res, tmp) ELSE res, sexp_mul(tmp, tmp), e \div 2)

\* pow(b, e) of the C library, where the flonum is exact.
pow(b, e) == FoldLeft(LAMBDA p, i : p * b, 1, Zeros(e))

\* The factor that keeps the powers taken as flonums off the fixnum limits:
\* 1000 in the code, small here so that there are such powers.
PowMargin == 2

\* The flonum power rounded, if it is well within the fixnums.
fixnum_expt(x, e) ==
  IF e >= 0 /\ PowMargin * pow(x.v, e) \in MinFixnum .. MaxFixnum
    THEN Fix(pow(x.v, e)) ELSE bignum_expt(fixnum_to_bignum(x), e)

sexp_expt(x, e) ==
  CASE "cpx" \in {x.t, e.t} -> Flo
    [] x.t # "cpx" /\ e.t = "big" -> IF x = One THEN One ELSE Flo
    [] x.t = "big" /\ e.t = "fix" -> bignum_expt(x, e.v)
    [] x.t = "big" /\ e.t = "rat" -> Undefined            \* sexp_unbox_fixnum(e)
    [] x.t = "rat" /\ e.t = "fix" -> generic_expt(One, x, e.v)
    [] x.t = "fix" /\ e.t = "fix" -> fixnum_expt(x, e.v)
    [] x.t \in {"fix", "rat"} /\ e.t = "rat" -> Flo

\* The operand a of (/ a b) after the call: a bignum numerator is negated in
\* place when b is negative (and again when b is MinFixnum and coprime to a).
div_after(a, b) ==
  IF a.t = "big" /\ IsInt(b) /\ exact_negativep(b)
    THEN LET p == positive_den(a, b)
         IN  IF exact_negativep(p[2]) /\ gcd_loop(p[1], p[2]) = One
               THEN a ELSE negate_exact(a)
    ELSE a

\* The operand b of (/ a b) after the call.
div_after_den(a, b) ==
  IF b.t = "big" /\ IsInt(a) /\ exact_negativep(b) THEN negate_exact(b) ELSE b

\* A complex subtrahend after the call: complex_copy shares its ratios, which
\* complex_sub then negates.
sub_after(b) ==
  LET part(x) == IF x.t = "rat" THEN negate_maybe_ratio(x) ELSE x
  IN  IF b.t = "cpx" THEN Cpx(part(b.re), part(b.im)) ELSE b

(***************************************************************************)
(* The VM's opcodes: two fixnums are handled there, by their own rules.    *)
(***************************************************************************)

Fixes(a, b) == a.t = "fix" /\ b.t = "fix"
InFix(n) == n \in MinFixnum .. MaxFixnum

op_add(a, b) ==
  CASE Fixes(a, b) /\ InFix(a.v + b.v) -> Fix(a.v + b.v)
    [] Fixes(a, b) /\ ~InFix(a.v + b.v) -> sexp_add(fixnum_to_bignum(a), b)
    [] OTHER -> sexp_add(a, b)

op_sub(a, b) ==
  CASE Fixes(a, b) /\ InFix(a.v - b.v) -> Fix(a.v - b.v)
    [] Fixes(a, b) /\ ~InFix(a.v - b.v) -> sexp_sub(fixnum_to_bignum(a), b)
    [] OTHER -> sexp_sub(a, b)

op_mul(a, b) ==
  CASE Fixes(a, b) /\ InFix(a.v * b.v) -> Fix(a.v * b.v)
    [] Fixes(a, b) /\ ~InFix(a.v * b.v) -> sexp_mul(fixnum_to_bignum(a), b)
    [] OTHER -> sexp_mul(a, b)

op_div(a, b) == IF b = Zero THEN Exn ELSE sexp_div(a, b)

op_quotient(a, b) ==
  CASE b = Zero /\ a.t = "fix" -> Exn
    [] b # Zero /\ Fixes(a, b) ->
         IF a.v = MinFixnum /\ b.v = -1 THEN negate_exact(fixnum_to_bignum(a))
                                        ELSE Fix(Quo(a.v, b.v))
    [] OTHER -> sexp_quotient(a, b)

op_remainder(a, b) ==
  CASE b = Zero /\ a.t = "fix" -> Exn
    [] b # Zero /\ Fixes(a, b) -> Fix(Rem(a.v, b.v))
    [] OTHER -> sexp_remainder(a, b)

op_lt(a, b) == IF Fixes(a, b) THEN a.v < b.v ELSE sexp_compare(a, b).v < 0
op_le(a, b) == IF Fixes(a, b) THEN a.v <= b.v ELSE sexp_compare(a, b).v <= 0

op_eqn(a, b) ==
  CASE Fixes(a, b) -> a = b
    [] ~Fixes(a, b) /\ a.t = "cpx" /\ b.t = "cpx" ->
         /\ sexp_compare(a.re, b.re) = Zero
         /\ sexp_compare(a.im, b.im) = Zero
    [] a.t # b.t /\ "cpx" \in {a.t, b.t} -> FALSE
    [] OTHER -> sexp_compare(a, b) = Zero
=============================================================================
