----------------------------- MODULE NumSyntax -----------------------------
(***************************************************************************)
(* The external form of exact numbers: write (sexp_write_bignum and the    *)
(* number cases of sexp_write_one) and read (sexp_read_number,             *)
(* sexp_read_bignum, sexp_read_complex_tail).  Text is a sequence of       *)
(* characters; a digit is the character with its value as code.  Inexact   *)
(* numbers (decimal point, exponent, polar form, #i) are left out, and the *)
(* text ends where the number does, so every separator is the end of text. *)
(* A reader returns the number, or Exn, and the text it has not read.      *)
(***************************************************************************)
EXTENDS Tower

Plus == 100
Minus == 101
Slash == 102
ImagI == 103
Digit(c, base) == c < base

Got(v, in) == [v |-> v, in |-> in]
Bad(in) == Got(Exn, in)

(***************************************************************************)
(* Writing.                                                                *)
(***************************************************************************)

RECURSIVE bignum_digits(_, _)
bignum_digits(b, base) ==
  LET d == bignum_fxdiv(b, base)
  IN  IF bignum_zerop(b) THEN <<>> ELSE Append(bignum_digits(d.q, base), d.r)

write_bignum(a, base) ==
  LET ds == bignum_digits(a, base)
  IN  CASE ds = <<>> -> <<0>>
        [] OTHER -> (IF a.sign = -1 THEN <<Minus>> ELSE <<>>) \o ds

\* A variant with a bug: there is no room for the sign.
write_buffer_size_unsigned(a, base) ==
  LET lg == CHOOSE i \in 0 .. 4 : 2^(i + 1) > base /\ 2^i <= base
  IN  (Len(a.data) * WordBits + lg - 1) \div lg

\* The characters allocated for a: the base-2 digits of all its words, by the
\* base-2 logarithm of the base rounded down, and one for the sign.
write_buffer_size(a, base) ==
  LET lg == CHOOSE i \in 0 .. 4 : 2^(i + 1) > base /\ 2^i <= base
  IN  (Len(a.data) * WordBits + lg - 1) \div lg + 1

write_integer(n) == write_bignum(IF n.t = "fix" THEN fixnum_to_bignum(n) ELSE n, 10)

write_real(r) ==
  IF r.t = "rat" THEN write_integer(r.num) \o <<Slash>> \o write_integer(r.den)
                 ELSE write_integer(r)

pedantic_negativep(r) == exact_negativep(num(r))

write_number(z) ==
  IF z.t # "cpx" THEN write_real(z)
  ELSE write_real(z.re)
       \o (IF pedantic_negativep(z.im) THEN <<>> ELSE <<Plus>>)
       \o (CASE z.im = NegOne -> <<Minus>>
             [] z.im = One -> <<>>
             [] OTHER -> write_real(z.im))
       \o <<ImagI>>

(***************************************************************************)
(* Reading.                                                                *)
(***************************************************************************)

First(in) == IF in = <<>> THEN -1 ELSE Head(in)

RECURSIVE read_number(_)

\* What follows a real part: a trailing i, or a signed imaginary part.
read_complex_tail(in, real) ==
  LET c  == First(in)
      c2 == First(Tail(in))
      trailing_i(r, i, rest_in) ==
        IF rest_in # <<>> THEN Bad(rest_in) ELSE Got(complex_normalize(r, i), rest_in)
      res == read_number(IF c = Minus THEN in ELSE Tail(in))
  IN  CASE c = ImagI -> trailing_i(Zero, real, Tail(in))
        [] c # ImagI /\ c2 = ImagI ->
             trailing_i(real, IF c = Minus THEN NegOne ELSE One, Tail(Tail(in)))
        [] OTHER ->
             CASE res.v.t = "cpx" ->
                    IF res.v.re = Zero THEN Got(Cpx(real, res.v.im), res.in) ELSE Bad(res.in)
               [] res.v = Zero -> Got(real, res.in)
               [] OTHER -> Bad(res.in)

RECURSIVE bignum_read_loop(_, _)
bignum_read_loop(res, in) ==
  IF Digit(First(in), 10) /\ in # <<>>
    THEN bignum_read_loop(
           bignum_fxadd([bignum_fxmul(res, 10) EXCEPT !.sign = res.sign], Head(in)), Tail(in))
    ELSE Got(res, in)

\* The denominator of a bignum is read as a whole number: one followed by an
\* imaginary part makes the ratio ill-formed.
read_bignum(in, init, sign) ==
  LET r == bignum_read_loop(Big(sign, <<init>>), in)
      den_in == read_number(Tail(r.in))
      n == bignum_normalize(r.v)
  IN  CASE First(r.in) = Slash ->
             IF IsInt(den_in.v) THEN Got(ratio_normalize(n, den_in.v), den_in.in)
                                ELSE Bad(den_in.in)
        [] First(r.in) \in {ImagI, Plus, Minus} -> read_complex_tail(r.in, n)
        [] r.in = <<>> -> Got(n, r.in)
        [] OTHER -> Bad(r.in)

\* The digits that make a fixnum: big says that a bignum begins at in.
RECURSIVE fixnum_read_loop(_, _)
fixnum_read_loop(val, in) ==
  LET tmp == val * 10 + Head(in)
  IN  CASE in = <<>> \/ ~Digit(First(in), 10) -> [val |-> val, in |-> in, big |-> FALSE]
        [] OTHER -> IF MaxFixnum \div 10 < val \/ tmp > MaxFixnum
                      THEN [val |-> val, in |-> in, big |-> TRUE]
                      ELSE fixnum_read_loop(tmp, Tail(in))

\* A numerator over what follows, which may carry an imaginary part.
read_ratio(n, den_in) ==
  LET d == den_in.v
      q == ratio_normalize(n, IF d.t # "cpx" THEN d ELSE IF d.re = Zero THEN d.im ELSE d.re)
  IN  CASE ~(IsInt(d) \/ d.t = "cpx") -> Bad(den_in.in)
        [] IsInt(d) -> Got(q, den_in.in)
        [] OTHER -> Got(IF q = Exn THEN Exn
                        ELSE IF d.re = Zero THEN Cpx(Zero, q) ELSE Cpx(q, d.im),
                        den_in.in)

read_number(in0) ==
  LET neg == First(in0) = Minus
      in  == IF First(in0) \in {Plus, Minus} THEN Tail(in0) ELSE in0
      r   == fixnum_read_loop(IF First(in) = ImagI THEN 1 ELSE 0, in)
      n   == Fix(IF neg THEN -r.val ELSE r.val)
      c   == First(r.in)
  IN  CASE r.big -> read_bignum(r.in, r.val, IF neg THEN -1 ELSE 1)
        [] ~r.big /\ c = Slash -> read_ratio(n, read_number(Tail(r.in)))
        [] ~r.big /\ c \in {ImagI, Plus, Minus} -> read_complex_tail(r.in, n)
        [] OTHER -> IF r.in # <<>> \/ in = <<>> THEN Bad(r.in) ELSE Got(n, r.in)
=============================================================================
