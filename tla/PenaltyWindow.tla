---------------------------- MODULE PenaltyWindow ----------------------------
(***************************************************************************)
(* What the token history of a sampler promises: the last `size` tokens    *)
(* emitted since it was set up or reset, oldest first, and nothing when    *)
(* the penalties do not need it.                                           *)
(***************************************************************************)
EXTENDS Integers, Sequences

CONSTANTS Token, MaxWindow

VARIABLES size,      \* how many tokens are remembered, 0 for none
          window     \* the tokens, oldest first

\* The last n elements of a sequence.
LastN(s, n) == SubSeq(s, Len(s) - n + 1, Len(s))

Emitted(t) ==
    IF Len(window) < size THEN Append(window, t) ELSE LastN(Append(window, t), size)

Init == size = 0 /\ window = <<>>

Emit(t) == window' = Emitted(t) /\ UNCHANGED size

Forget == window' = <<>> /\ size' \in 0 .. MaxWindow

Next == (\E t \in Token : Emit(t)) \/ Forget

Spec == Init /\ [][Next]_<<size, window>>
=============================================================================
