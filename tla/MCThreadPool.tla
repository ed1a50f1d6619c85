---------------------------- MODULE MCThreadPool ----------------------------
(* ThreadPool with pools of up to four threads, ranges of up to four indices *)
(* (fewer than the threads, as many, and uneven shares of three threads) and *)
(* a generation counter of two values, which keeps wrapping.                 *)
EXTENDS ThreadPool
=============================================================================
