--------------------------- MODULE MCRequestReader ---------------------------
(* Requests of at most a dozen bytes, received at most three at a time, in a  *)
(* buffer that malloc may put at two places.                                 *)
EXTENDS RequestReader

MCContentLens == {-1, 0, 2, 3}
=============================================================================
