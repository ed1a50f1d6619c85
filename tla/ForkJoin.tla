------------------------------ MODULE ForkJoin ------------------------------
(***************************************************************************)
(* What src/kernels.h promises of ember_parallel_for, without threads: a   *)
(* call runs fn once on every index of [0, n) and returns only when every  *)
(* index has been run.  Between calls nothing runs.                        *)
(***************************************************************************)
EXTENDS Naturals

CONSTANT MaxN            \* the largest n a caller passes

VARIABLES running,       \* a call is in progress
          size,          \* its n
          hits           \* hits[i]: how often fn ran on index i in this call

vars == <<running, size, hits>>

Index == 0 .. MaxN - 1

Init == /\ running = FALSE
        /\ size = 0
        /\ hits = [i \in Index |-> 0]

Call == /\ ~running
        /\ running' = TRUE
        /\ size' \in 0 .. MaxN
        /\ hits' = [i \in Index |-> 0]

\* Some indices of the range that were not run yet are run.
Work == /\ running
        /\ \E S \in SUBSET {i \in 0 .. size - 1 : hits[i] = 0} :
              hits' = [i \in Index |-> IF i \in S THEN 1 ELSE hits[i]]
        /\ UNCHANGED <<running, size>>

Return == /\ running
          /\ \A i \in 0 .. size - 1 : hits[i] = 1
          /\ running' = FALSE
          /\ UNCHANGED <<size, hits>>

\* The serial path does the whole range and returns in one step.
WorkAndReturn ==
    /\ running
    /\ \A i \in 0 .. size - 1 : hits[i] = 0
    /\ hits' = [i \in Index |-> IF i < size THEN 1 ELSE hits[i]]
    /\ running' = FALSE
    /\ UNCHANGED size

Next == Call \/ Work \/ Return \/ WorkAndReturn

Spec == Init /\ [][Next]_vars
=============================================================================
