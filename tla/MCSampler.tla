------------------------------ MODULE MCSampler ------------------------------
(* Three tokens and one id outside the vocabulary, windows of up to three;    *)
(* logits are even, so a repetition penalty of two divides them exactly.      *)
(* Weights halve with every two steps below the peak and end at zero, as expf *)
(* does; each filter is off, on and beyond its range.                         *)
EXTENDS Sampler

MCLogits == {-2, 2, 4}
MCPenalties == {[repeat |-> 2, presence |-> 0, frequency |-> 0],
                [repeat |-> 2, presence |-> 1, frequency |-> 1],
                [repeat |-> 1, presence |-> 0, frequency |-> 3],
                [repeat |-> 1, presence |-> 0, frequency |-> 0]}
MCFilters == {[temperature |-> t, top_k |-> k, top_p |-> p] :
                 <<t, k, p>> \in {<<0, 0, 0>>, <<1, 0, 60>>, <<1, 1, 100>>, <<1, 2, 60>>,
                                  <<2, 9, 90>>}}
MCExp(t, d) == 4 \div 2 ^ (d \div (2 * t))
=============================================================================
