----------------------------- MODULE Truncation -----------------------------
(***************************************************************************)
(* The part of ember_sample (src/sample.c) between the softmax and the     *)
(* token: the candidates in descending order, cut by top_k, min_p and      *)
(* top_p one after the other, and the draw.                                *)
(*                                                                         *)
(* A probability is a weight out of the sum of all weights; min_p is in    *)
(* hundredths of the peak, top_p in hundredths of the sum.                 *)
(***************************************************************************)
EXTENDS Integers, Sequences, SequencesExt

\* The weight of a sequence of tokens.
Mass(prob, tokens) ==
    LET sum[k \in 0 .. Len(tokens)] == IF k = 0 THEN 0 ELSE sum[k - 1] + prob[tokens[k]]
    IN sum[Len(tokens)]

First(n, cand) == SubSeq(cand, 1, n)

\* Lines 137-140: qsort need not be stable, so tokens of one weight come in any
\* order.
Ranked(prob) == {s \in SetToSeqs(DOMAIN prob) :
                   \A k \in 1 .. Len(s) - 1 : prob[s[k]] >= prob[s[k + 1]]}

\* Lines 142-143.
CapByTopK(top_k, cand) ==
    IF 0 < top_k /\ top_k < Len(cand) THEN First(top_k, cand) ELSE cand

\* Lines 146-151: keep grows while the next candidate is near the peak.
CapByMinP(prob, min_p, cand) ==
    LET Near(k) == 100 * prob[cand[k]] >= min_p * prob[cand[1]] IN
    IF 0 < min_p /\ min_p < 100
    THEN First(CHOOSE keep \in 1 .. Len(cand) :
                  /\ \A k \in 2 .. keep : Near(k)
                  /\ keep = Len(cand) \/ ~Near(keep + 1), cand)
    ELSE cand

\* Mutant: the candidate that reaches top_p is dropped.
ReachesBefore(prob, top_p, n, cand) ==
    n < Len(cand) /\ 100 * Mass(prob, First(n + 1, cand)) >= top_p * Mass(prob, SetToSeq(DOMAIN prob))

\* The first n candidates reach top_p.
Reaches(prob, top_p, n, cand) ==
    100 * Mass(prob, First(n, cand)) >= top_p * Mass(prob, SetToSeq(DOMAIN prob))

\* Lines 153-163: the prefix that first reaches top_p, or everything kept so far.
CapByTopP(prob, top_p, cand) ==
    LET R(n) == Reaches(prob, top_p, n, cand) IN
    IF 0 < top_p /\ top_p < 100 /\ \E n \in DOMAIN cand : R(n)
    THEN First(CHOOSE n \in DOMAIN cand : R(n) /\ \A j \in 1 .. n - 1 : ~R(j), cand)
    ELSE cand

Cut(prob, top_k, min_p, top_p, cand) ==
    CapByTopP(prob, top_p, CapByMinP(prob, min_p, CapByTopK(top_k, cand)))

\* Lines 165-170: r < cutoff falls on the first candidate whose running sum is
\* above it.  Sums of floats may round, so the last is also what a draw that
\* passes every sum ends at.
Drawn(prob, kept) ==
    {kept[CHOOSE k \in DOMAIN kept : /\ r < Mass(prob, First(k, kept))
                                     /\ \A j \in 1 .. k - 1 : r >= Mass(prob, First(j, kept))] :
        r \in 0 .. Mass(prob, kept) - 1} \cup {kept[Len(kept)]}
=============================================================================
