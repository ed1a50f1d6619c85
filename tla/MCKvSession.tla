---------------------------- MODULE MCKvSession ----------------------------
(* A model of six positions and contexts around them, below the warm-up and  *)
(* beyond the model; texts of up to three tokens.                            *)
EXTENDS KvSession

MCCtxArgs == {-1, 0, 2, 5, 8}
=============================================================================
