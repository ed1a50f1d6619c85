----------------------------- MODULE QuantBlock -----------------------------
(***************************************************************************)
(* The block formats of src/kernels.c: how a block of weights is quantized *)
(* and what the dot products read back from it.                            *)
(*                                                                         *)
(* Weights are integers and a quantized weight is a multiple of the scale, *)
(* kept as the fraction it is: amax / 127 for Q8_0, vmax / -8 for Q4_0.    *)
(* How the scale is rounded to fp16 is the module HalfFloat.               *)
(***************************************************************************)
EXTENDS Integers

CONSTANTS QBlock,        \* EMBER_Q_BLOCK: weights of a block
          Weights        \* the values of a weight

ASSUME BlockAssumption == QBlock \in Nat \ {0} /\ QBlock % 2 = 0 /\ Weights \subseteq Int

Index == 0 .. QBlock - 1
Half == QBlock \div 2
Block == [Index -> Weights]

Mag(n) == IF n < 0 THEN -n ELSE n
Clamp(q, lo, hi) == IF q < lo THEN lo ELSE IF q > hi THEN hi ELSE q

\* The first weight of the largest magnitude, as the scans leave it in vmax.
Vmax(x) == x[CHOOSE i \in Index : \A j \in Index :
                Mag(x[j]) < Mag(x[i]) \/ (Mag(x[j]) = Mag(x[i]) /\ i <= j)]

\* lroundf(n / d): to the nearest, halves away from zero.
Round(n, d) == LET r == (2 * Mag(n) + d) \div (2 * d) IN IF n < 0 THEN -r ELSE r

\* ember_quantize_q8_0
QuantizeQ8(x) ==
    LET amax == Mag(Vmax(x)) IN
    [i \in Index |-> IF amax = 0 THEN 0 ELSE Clamp(Round(127 * x[i], amax), -127, 127)]

\* x * id + 8.5 cut to an integer, where id = -8 / vmax; it is never negative.
Nibble(w, v) ==
    IF v = 0 THEN 8
    ELSE Clamp((17 * Mag(v) - 16 * w * (IF v < 0 THEN -1 ELSE 1)) \div (2 * Mag(v)), 0, 15)

\* Mutant: neighbours share a byte, while the dot product takes halves.
QuantizeQ4Pairs(x) ==
    LET v == Vmax(x) IN
    [i \in 0 .. Half - 1 |-> [low |-> Nibble(x[2 * i], v), high |-> Nibble(x[2 * i + 1], v)]]

\* ember_quantize_q4_0: byte i holds weight i and the one half a block on.
QuantizeQ4(x) ==
    LET v == Vmax(x) IN
    [i \in 0 .. Half - 1 |-> [low |-> Nibble(x[i], v), high |-> Nibble(x[i + Half], v)]]

\* vecdot_q8 and dequant_q8_row: weight i is this many scales.
ReadQ8(qs, i) == qs[i]

\* vecdot_q4: what is multiplied with activation i.
ReadQ4(qs, i) == IF i < Half THEN qs[i].low - 8 ELSE qs[i - Half].high - 8

\* Every weight a dot product reads is the one that was quantized, half a step of
\* the scale off at most in Q8_0, and in Q4_0 but for weights near the largest
\* with the other sign, which are clamped and at most a whole step off.
BlocksAreClose(x) ==
    LET v == Vmax(x)  q8 == QuantizeQ8(x)  q4 == QuantizeQ4(x) IN
    \A i \in Index :
        /\ 2 * Mag(127 * x[i] - ReadQ8(q8, i) * Mag(v)) <= Mag(v)
        /\ Mag(8 * x[i] + ReadQ4(q4, i) * v) <= Mag(v)
        /\ x[i] * v >= 0 \/ 16 * Mag(x[i]) <= 15 * Mag(v) =>
              2 * Mag(8 * x[i] + ReadQ4(q4, i) * v) <= Mag(v)
=============================================================================
