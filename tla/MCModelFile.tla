---------------------------- MODULE MCModelFile -----------------------------
(* Models of one layer whose widths are whole blocks or not, tied or not, with *)
(* and without biases; blocks of four weights from -5 to 5.                    *)
EXTENDS ModelFile

MCArchs == {[dim |-> d, hidden |-> h, vocab |-> 3, tied |-> t, bias |-> b] :
               d \in {32, 48}, h \in {64, 80}, t \in BOOLEAN, b \in BOOLEAN}
MCWeights == -5 .. 5

\* Every exponent a half can take part in, and mantissas around every power of two.
MCFloats ==
    [exp : 100 .. 143,
     mant : {n \in {a * (2^k) + d : a \in 0 .. 7 \cup {1023}, k \in 11 .. 20, d \in {-1, 0, 1}} :
                0 <= n /\ n < 2^23}]
MCHalves == {exp * 1024 + m : exp \in 0 .. 30, m \in {0, 1, 2, 3, 511, 512, 513, 1022, 1023}}
=============================================================================
