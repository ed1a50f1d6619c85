----------------------------- MODULE HalfFloat ------------------------------
(***************************************************************************)
(* The conversions between single and half precision of src/kernels.c,     *)
(* which every quantized scale and, with --kv fp16, every row of the cache *)
(* goes through.  A float is its fields; a half is the integer of its 15   *)
(* bits below the sign, which both conversions carry over as it is.        *)
(***************************************************************************)
EXTENDS Integers

\* A float of the bits exp and mant.
Float(exp, mant) == [exp |-> exp, mant |-> mant]

\* A mantissa that has one more bit to go.
Lower(f) == Float(f.exp - 1, f.mant)

\* Lines 34-36 shift a mantissa up to its hidden bit.
Normalised(mant) ==
    LET up[m \in 1 .. 2047] ==
          IF m >= 1024 THEN Float(113, (m - 1024) * (2^13)) ELSE Lower(up[2 * m])
    IN up[mant]

\* ember_f16_to_f32
ToFloat(h) ==
    LET exp == h \div 1024  mant == h % 1024 IN
    CASE exp = 0 /\ mant = 0 -> Float(0, 0)
      [] exp = 0 /\ mant # 0 -> Normalised(mant)
      [] exp = 31 -> Float(255, mant * (2^13))
      [] OTHER -> Float(exp + 112, mant * (2^13))

\* Mutant: halves are rounded up, an odd neighbour or an even one.
RoundHalfUp(n, unit) ==
    (n \div unit) + (IF 2 * (n % unit) >= unit THEN 1 ELSE 0)

\* n / unit to the nearest, halves to the even neighbour.
RoundHalf(n, unit) ==
    LET half == n \div unit  rem == n % unit IN
    half + (IF 2 * rem > unit \/ (2 * rem = unit /\ half % 2 = 1) THEN 1 ELSE 0)

\* ember_f32_to_f16: a carry out of the mantissa is one into the exponent.
ToHalf(f) ==
    LET exp == f.exp - 112 IN
    CASE exp < -10 -> 0
      [] exp \in -10 .. 0 -> RoundHalf(f.mant + 2^23, 2^(14 - exp))
      [] exp \in 1 .. 30 -> RoundHalf(exp * (2^23) + f.mant, 2^13)
      [] OTHER -> 31 * 1024

-----------------------------------------------------------------------------
\* The value of half h, in units of the last place of a float with exponent exp.
ValueAt(h, exp) ==
    LET e == h \div 1024 IN
    IF e = 0 THEN h * (2^(126 - exp)) ELSE (1024 + (h % 1024)) * (2^(e + 125 - exp))

\* ToHalf gives the nearest half, and of two the even one, infinity taken for 2^16.
IsNearest(f) ==
    LET h == ToHalf(f)
        off(k) == LET d == ValueAt(k, f.exp) - (f.mant + 2^23) IN IF d < 0 THEN -d ELSE d
    IN \A k \in {h - 1, h + 1} \cap 0 .. 31 * 1024 :
          off(h) < off(k) \/ (off(h) = off(k) /\ h % 2 = 0)

\* A half that is a number comes back from single precision as it was.
ComesBack(h) == ToHalf(ToFloat(h)) = h
=============================================================================
