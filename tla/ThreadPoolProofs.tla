-------------------------- MODULE ThreadPoolProofs --------------------------
(***************************************************************************)
(* Proofs about ThreadPool, for every number of threads, every range and   *)
(* every modulus of the generation counter.                                *)
(***************************************************************************)
EXTENDS ThreadPool, FiniteSetTheorems, TLAPS

USE DEF AllDone

-----------------------------------------------------------------------------
(* The slices of run_slice partition the range. *)

\* Integer division as run_slice uses it: a quotient is the multiple below.
LEMMA DivBounds ==
  ASSUME NEW a \in Nat, NEW d \in Nat, d > 0
  PROVE  /\ a \div d \in Nat
         /\ (a \div d) * d <= a
         /\ a < (a \div d) * d + d
  BY SMT

\* lo of a thread is never above lo of a later one.
LEMMA DivMonotone ==
  ASSUME NEW a \in Nat, NEW b \in Nat, NEW d \in Nat, d > 0, a <= b
  PROVE  a \div d <= b \div d
  <1> DEFINE p == a \div d
             q == b \div d
  <1>1. p \in Nat /\ p * d <= a
    BY DivBounds
  <1>2. q \in Nat /\ b < q * d + d
    BY DivBounds
  <1> HIDE DEF p, q
  <1>3. p * d < (q + 1) * d
    BY <1>1, <1>2, SMT
  <1>4. p < q + 1
    BY <1>1, <1>2, <1>3, SMT
  <1>5. p <= q
    BY <1>1, <1>2, <1>4
  <1> QED
    BY <1>5 DEF p, q

\* A quotient compared with c, without dividing.
LEMMA DivCompare ==
  ASSUME NEW a \in Nat, NEW c \in Nat, NEW d \in Nat, d > 0
  PROVE  /\ a < c * d => a \div d < c
         /\ c * d <= a => c <= a \div d
  <1> DEFINE q == a \div d
  <1>1. q \in Nat /\ q * d <= a /\ a < q * d + d
    BY DivBounds
  <1> HIDE DEF q
  <1>2. ASSUME a < c * d PROVE q < c
    <2>1. q * d < c * d
      BY <1>1, <1>2, SMT
    <2> QED
      BY <1>1, <2>1, SMT
  <1>3. ASSUME c * d <= a PROVE c <= q
    <2>1. c * d < (q + 1) * d
      BY <1>1, <1>3, SMT
    <2>2. c < q + 1
      BY <1>1, <2>1, SMT
    <2> QED
      BY <1>1, <2>2
  <1> QED
    BY <1>2, <1>3 DEF q

\* No index is in the slices of two threads: the lo of the later one is at
\* least the hi of the earlier one.
LEMMA SlicesDisjoint ==
  ASSUME NEW n \in Nat, NEW nth \in Nat, nth > 0,
         NEW s \in Nat, NEW t \in Nat, s < t
  PROVE  Slice(s, n, nth) \cap Slice(t, n, nth) = {}
  <1>1. (s + 1) * n \in Nat /\ t * n \in Nat /\ (s + 1) * n <= t * n
    BY SMT
  <1>2. ((s + 1) * n) \div nth <= (t * n) \div nth
    BY <1>1, DivMonotone
  <1>3. ((s + 1) * n) \div nth \in Nat /\ (t * n) \div nth \in Nat
    BY <1>1, DivBounds
  <1> DEFINE hi == ((s + 1) * n) \div nth
             lo == (t * n) \div nth
  <1>4. ASSUME NEW i \in Slice(s, n, nth), i \in Slice(t, n, nth)
        PROVE  FALSE
    <2>1. i \in Int /\ i < hi /\ lo <= i
      BY <1>4 DEF Slice
    <2> HIDE DEF hi, lo
    <2>2. hi \in Nat /\ lo \in Nat /\ hi <= lo
      BY <1>2, <1>3 DEF hi, lo
    <2> QED
      BY <2>1, <2>2
  <1> QED
    BY <1>4

\* Every index of the range is in the slice of some thread.
LEMMA SlicesCover ==
  ASSUME NEW n \in Nat, NEW nth \in Nat, nth > 0, NEW i \in 0 .. n - 1
  PROVE  \E t \in 0 .. nth - 1 : i \in Slice(t, n, nth)
  <1> DEFINE d == (i + 1) * nth - 1
             t == d \div n
  <1>1. i \in Nat /\ n > 0 /\ i + 1 <= n
    OBVIOUS
  <1>2. (i + 1) * nth \in Nat /\ (i + 1) * nth > 0
    BY <1>1, SMT
  <1>3. d \in Nat
    BY <1>2
  <1>4. t \in Nat /\ t * n <= d /\ d < t * n + n
    BY <1>1, <1>3, DivBounds
  <1> HIDE DEF t
  <1>5. t * n \in Nat /\ (t + 1) * n \in Nat /\ (t + 1) * n = t * n + n
    BY <1>4, SMT
  <1>6. t * n < (i + 1) * nth /\ (i + 1) * nth <= (t + 1) * n
    BY <1>2, <1>4, <1>5
  <1>7. t < nth
    <2>1. (i + 1) * nth <= n * nth
      BY <1>1, SMT
    <2>2. n * nth \in Nat /\ n * nth = nth * n
      BY SMT
    <2>3. t * n < nth * n
      BY <1>2, <1>5, <1>6, <2>1, <2>2
    <2> QED
      BY <1>1, <1>4, <2>3, SMT
  <1>8. (t * n) \div nth < i + 1
    BY <1>1, <1>5, <1>6, DivCompare
  <1>9. i + 1 <= ((t + 1) * n) \div nth
    BY <1>1, <1>5, <1>6, DivCompare
  <1>10. (t * n) \div nth \in Nat /\ ((t + 1) * n) \div nth \in Nat
    BY <1>5, DivBounds
  <1>11. (t * n) \div nth <= i /\ i < ((t + 1) * n) \div nth
    BY <1>1, <1>8, <1>9, <1>10
  <1>12. i \in Slice(t, n, nth)
    BY <1>11 DEF Slice
  <1> QED
    BY <1>4, <1>7, <1>12

\* A slice lies in the range, so in Index.
LEMMA SliceInRange ==
  ASSUME NEW n \in 0 .. MaxN, NEW nth \in Nat, NEW t \in Nat
  PROVE  Slice(t, n, nth) \subseteq Index
  BY SizeAssumption DEF Slice, Index

-----------------------------------------------------------------------------
(* The inductive invariant. *)

\* Each thread is at a point of its own program.
PCType == /\ pc \in [Threads -> MainPC \cup WorkerPC]
          /\ pc[Main] \in MainPC
          /\ \A w \in Workers : pc[w] \in WorkerPC

\* The initial state satisfies the invariant.
LEMMA InitPoolInv == Init => PoolInv
  <1> SUFFICES ASSUME Init PROVE PoolInv
    OBVIOUS
  <1> USE ThreadsAssumption, SizeAssumption, GenAssumption
      DEF Init, Threads, Workers, Index, NoOne, Main
  <1>1. TypeOK
    <2>1. PCType
      BY DEF PCType, MainPC, WorkerPC
    <2>2. /\ g_nthreads \in 1 .. MaxThreads /\ g_mtx \in Threads \cup {NoOne}
          /\ g_gen \in 0 .. GenMod - 1 /\ k \in 1 .. MaxThreads
      OBVIOUS
    <2>3. seen \in [Workers -> 0 .. GenMod - 1]
      OBVIOUS
    <2>4. hits \in [Index -> Nat]
      OBVIOUS
    <2>5. range \in [Threads -> SUBSET Index]
      <3>1. {} \in SUBSET Index
        OBVIOUS
      <3> HIDE DEF Index
      <3> QED
        BY <3>1
    <2>6. g_done \in Nat /\ g_n \in 0 .. MaxN /\ arg \in 0 .. MaxN
      OBVIOUS
    <2>7. g_stop \in BOOLEAN
      OBVIOUS
    <2> HIDE DEF Init, Threads, Workers, Index, NoOne, Main
    <2> QED
      BY <2>1, <2>2, <2>3, <2>4, <2>5, <2>6, <2>7 DEF TypeOK, PCType
  <1>2. MutexInv /\ StopInv /\ NoLostWakeup /\ RangeInv
    BY DEF MutexInv, StopInv, NoLostWakeup, RangeInv
  <1>3. ExistInv /\ BetweenRoundsInv /\ RoundInv /\ DoneInv
    BY DEF ExistInv, BetweenRoundsInv, RoundInv, DoneInv, InRound, Created
  <1>4. HitsInv
    BY DEF HitsInv, InRound, Calling
  <1> QED
    BY <1>1, <1>2, <1>3, <1>4 DEF PoolInv

\* Where a thread is, up to the steps that only acquire g_mtx or sleep.
SamePlace(u) ==
    \/ pc'[u] = pc[u]
    \/ {pc[u], pc'[u]} \subseteq {"lockWork", "check", "waitWork"}
    \/ {pc[u], pc'[u]} \subseteq {"lockReport", "report"}
    \/ {pc[u], pc'[u]} \subseteq {"lockPublish", "publish"}
    \/ {pc[u], pc'[u]} \subseteq {"lockJoin", "checkDone", "waitDone"}
    \/ {pc[u], pc'[u]} \subseteq {"lockStop", "stop"}

\* A step that leaves every thread in the same place preserves all that is
\* said of rounds, of g_done and of hits.
LEMMA SamePlaceStep ==
  ASSUME PoolInv, UNCHANGED <<pool, seen, range, arg, k, hits>>,
         \A u \in Threads : SamePlace(u)
  PROVE  /\ ExistInv' /\ StopInv' /\ BetweenRoundsInv' /\ RoundInv'
         /\ DoneInv' /\ RangeInv' /\ HitsInv'
  <1> USE ThreadsAssumption DEF Threads, Workers, Main, pool
  <1>1. Main \in Threads /\ Workers \subseteq Threads
    OBVIOUS
  <1>2. /\ InRound' <=> InRound
        /\ Calling' <=> Calling
        /\ \A l \in {"create", "join", "serial"} : pc'[Main] = l <=> pc[Main] = l
        /\ pc'[Main] \in {"lockPublish", "publish", "lockStop", "stop"} <=>
              pc[Main] \in {"lockPublish", "publish", "lockStop", "stop"}
    BY <1>1 DEF SamePlace, InRound, Calling
  <1>3. \A w \in Workers :
           /\ Ready(w)' <=> Ready(w)
           /\ \A l \in {"none", "exited"} : pc'[w] = l <=> pc[w] = l
    BY <1>1 DEF SamePlace, Ready
  <1>4. \A t \in Threads : (Ran(t)' <=> Ran(t)) /\ (pc'[t] = "leave" <=> pc[t] = "leave")
    <2>1. Ran(Main)' <=> Ran(Main)
      BY <1>1 DEF SamePlace, Ran
    <2>2. ASSUME NEW w \in Workers PROVE Ran(w)' <=> Ran(w)
      <3>1. pc'[w] \in {"lockReport", "report"} <=> pc[w] \in {"lockReport", "report"}
        BY <1>1 DEF SamePlace
      <3> QED
        BY <1>3, <3>1 DEF Ran, Reported
    <2>3. \A t \in Threads : t = Main \/ t \in Workers
      OBVIOUS
    <2> QED
      BY <2>1, <2>2, <2>3 DEF SamePlace
  <1>5. \A w \in Workers : Created(w)' <=> Created(w)
    BY <1>2 DEF Created
  <1>6. g_nthreads \in 1 .. MaxThreads /\ Live \subseteq Workers
    BY DEF PoolInv, TypeOK, Live
  <1>7. ExistInv' /\ StopInv'
    BY <1>2, <1>3, <1>5 DEF PoolInv, ExistInv, StopInv
  <1>8. BetweenRoundsInv'
    BY <1>2, <1>3, <1>5 DEF PoolInv, BetweenRoundsInv
  <1>9. RoundInv'
    BY <1>2, <1>3, <1>6 DEF PoolInv, RoundInv, Live
  <1>10. DoneInv'
    <2>1. {w \in Live : Reported(w)}' = {w \in Live : Reported(w)}
      BY <1>3, <1>6 DEF Live, Reported
    <2> QED
      BY <1>2, <2>1 DEF PoolInv, DoneInv
  <1>11. RangeInv'
    BY <1>4 DEF PoolInv, RangeInv
  <1>12. HitsInv'
    <2>1. \A i \in Index : Covered(i)' <=> Covered(i)
      BY <1>4, <1>6 DEF Covered
    <2> QED
      BY <1>2, <2>1 DEF PoolInv, HitsInv, Index
  <1> QED
    BY <1>7, <1>8, <1>9, <1>10, <1>11, <1>12

\* A jump moves one thread and no other.
LEMMA GotoMoves ==
  ASSUME PCType, NEW t \in Threads, NEW l, Goto(t, l),
         t = Main => l \in MainPC, t # Main => l \in WorkerPC
  PROVE  /\ PCType' /\ pc'[t] = l
         /\ \A u \in Threads \ {t} : pc'[u] = pc[u]
  <1>1. Main \in Threads /\ Workers = Threads \ {Main}
    BY ThreadsAssumption DEF Main, Threads, Workers
  <1>2. pc'[t] = l /\ \A u \in Threads \ {t} : pc'[u] = pc[u]
    BY DEF PCType, Goto
  <1>3. pc' \in [Threads -> MainPC \cup WorkerPC]
    BY DEF PCType, Goto
  <1> QED
    BY <1>1, <1>2, <1>3 DEF PCType

\* What the invariant says of the threads and of g_mtx, in one place.
LEMMA ThreadFacts ==
  ASSUME PoolInv
  PROVE  /\ PCType
         /\ Main \in Threads /\ Workers = Threads \ {Main} /\ NoOne \notin Threads
         /\ Live \subseteq Workers /\ 0 .. g_nthreads - 1 \subseteq Threads
         /\ \A w \in Workers : w \in Int /\ w > 0
         /\ g_nthreads \in 1 .. MaxThreads /\ g_nthreads \in Nat
  BY ThreadsAssumption
     DEF PoolInv, TypeOK, PCType, Main, Threads, Workers, NoOne, Live

\* Taking g_mtx, also to come back from a wait, preserves the invariant.
LEMMA AcquireStep ==
  ASSUME PoolInv, NEW t \in Threads, Acquire(t)
  PROVE  PoolInv'
  <1> USE ThreadFacts
  <1> SUFFICES ASSUME NEW from, NEW to, Lock(t, from, to),
                      <<from, to>> \in {<<"lockWork", "check">>,
                                       <<"lockReport", "report">>,
                                       <<"lockPublish", "publish">>,
                                       <<"lockJoin", "checkDone">>,
                                       <<"lockStop", "stop">>}
               PROVE  PoolInv'
    BY DEF Acquire
  <1>1. /\ PCType' /\ pc[t] = from /\ pc'[t] = to
        /\ \A u \in Threads \ {t} : pc'[u] = pc[u]
    <2>1. t = Main => to \in MainPC
      BY DEF Lock, PCType, MainPC
    <2>2. t # Main => to \in WorkerPC
      BY DEF Lock, PCType, WorkerPC
    <2> QED
      BY <2>1, <2>2, GotoMoves DEF Lock
  <1>2. /\ g_mtx = NoOne /\ g_mtx' = t
        /\ UNCHANGED <<pool, seen, range, arg, k, hits>>
    BY DEF Lock
  <1>3. TypeOK'
    BY <1>1, <1>2 DEF PoolInv, TypeOK, PCType, pool
  <1>4. MutexInv'
    BY <1>1, <1>2 DEF PoolInv, MutexInv
  <1>5. \A u \in Threads : SamePlace(u)
    BY <1>1 DEF SamePlace
  <1>6. NoLostWakeup'
    BY <1>1, <1>2 DEF PoolInv, NoLostWakeup, pool
  <1> QED
    BY <1>2, <1>3, <1>4, <1>5, <1>6, SamePlaceStep DEF PoolInv

\* So does a wakeup that nobody sent.
LEMMA SpuriousWakeupStep ==
  ASSUME PoolInv, NEW t \in Threads, SpuriousWakeup(t)
  PROVE  PoolInv'
  <1> USE ThreadFacts
  <1>1. /\ PCType' /\ \A u \in Threads \ {t} : pc'[u] = pc[u]
        /\ \/ pc[t] = "waitWork" /\ pc'[t] = "lockWork"
           \/ pc[t] = "waitDone" /\ pc'[t] = "lockJoin"
    <2>1. CASE pc[t] = "waitWork" /\ Goto(t, "lockWork")
      BY <2>1, GotoMoves DEF PCType, MainPC, WorkerPC
    <2>2. CASE pc[t] = "waitDone" /\ Goto(t, "lockJoin")
      BY <2>2, GotoMoves DEF PCType, MainPC, WorkerPC
    <2> QED
      BY <2>1, <2>2 DEF SpuriousWakeup
  <1>2. UNCHANGED <<pool, g_mtx, seen, range, arg, k, hits>>
    BY DEF SpuriousWakeup
  <1>3. TypeOK'
    BY <1>1, <1>2 DEF PoolInv, TypeOK, PCType, pool
  <1>4. MutexInv'
    BY <1>1, <1>2 DEF PoolInv, MutexInv
  <1>5. \A u \in Threads : SamePlace(u)
    BY <1>1 DEF SamePlace
  <1>6. NoLostWakeup'
    BY <1>1, <1>2 DEF PoolInv, NoLostWakeup, pool
  <1> QED
    BY <1>2, <1>3, <1>4, <1>5, <1>6, SamePlaceStep DEF PoolInv

\* A worker that runs or reports a slice does so in a round it has taken.
LEMMA WorkerInRound ==
  ASSUME PoolInv, NEW w \in Workers,
         pc[w] \in {"enter", "leave", "lockReport", "report"}
  PROVE  /\ InRound /\ w \in Live /\ seen[w] = g_gen
         /\ g_n = arg /\ g_nthreads > 1
  <1> USE ThreadFacts
  <1>1. Created(w) /\ ~Ready(w)
    BY DEF PoolInv, ExistInv, Ready
  <1>2. InRound
    BY <1>1 DEF PoolInv, BetweenRoundsInv
  <1>3. w \in Live
    BY <1>1, <1>2 DEF Created, InRound, Live, Workers
  <1> QED
    BY <1>1, <1>2, <1>3 DEF PoolInv, RoundInv, ExistInv

\* hits keeps its meaning when no thread finishes a slice and no call begins,
\* ends or changes its range.
LEMMA HitsKept ==
  ASSUME PoolInv, InRound' <=> InRound, Calling' <=> Calling,
         UNCHANGED <<g_nthreads, arg, hits>>,
         \A t \in Threads : Ran(t)' <=> Ran(t)
  PROVE  HitsInv'
  <1>1. \A i \in Index : Covered(i)' <=> Covered(i)
    BY ThreadFacts DEF Covered
  <1> QED
    BY <1>1 DEF PoolInv, HitsInv, Index

\* Going to sleep, exiting, or taking a round preserves the invariant.
LEMMA CheckStep ==
  ASSUME PoolInv, NEW w \in Workers, Check(w)
  PROVE  PoolInv'
  <1> USE ThreadFacts
  <1>1. /\ pc[w] = "check" /\ g_mtx = w /\ g_mtx' = NoOne
        /\ UNCHANGED <<pool, range, arg, k, hits>>
    BY DEF Check, PoolInv, MutexInv
  <1>2. CASE g_gen = seen[w] /\ ~g_stop /\ Goto(w, "waitWork") /\ UNCHANGED seen
    <2>1. /\ PCType' /\ pc'[w] = "waitWork"
          /\ \A u \in Threads \ {w} : pc'[u] = pc[u]
      BY <1>2, GotoMoves DEF WorkerPC
    <2>2. TypeOK'
      BY <1>1, <1>2, <2>1 DEF PoolInv, TypeOK, PCType, pool
    <2>3. MutexInv' /\ NoLostWakeup'
      BY <1>1, <1>2, <2>1 DEF PoolInv, MutexInv, NoLostWakeup, pool
    <2>4. \A u \in Threads : SamePlace(u)
      BY <1>1, <2>1 DEF SamePlace
    <2> QED
      BY <1>1, <1>2, <2>2, <2>3, <2>4, SamePlaceStep DEF PoolInv
  <1>3. CASE g_stop /\ Goto(w, "exited") /\ UNCHANGED seen
    <2>1. /\ PCType' /\ pc'[w] = "exited"
          /\ \A u \in Threads \ {w} : pc'[u] = pc[u]
      BY <1>3, GotoMoves DEF WorkerPC
    <2>2. pc[Main] = "join" /\ pc'[Main] = "join"
      <3>1. Created(w)
        BY <1>1 DEF PoolInv, ExistInv
      <3>2. g_nthreads > 1
        BY <3>1 DEF Created, PoolInv, TypeOK, ExistInv, Workers
      <3> QED
        BY <1>3, <2>1, <3>2 DEF PoolInv, StopInv
    <2>3. TypeOK'
      BY <1>1, <1>3, <2>1 DEF PoolInv, TypeOK, PCType, pool
    <2>4. MutexInv' /\ NoLostWakeup'
      BY <1>1, <1>3, <2>1, <2>2 DEF PoolInv, MutexInv, NoLostWakeup, pool
    <2>5. ~InRound /\ ~InRound' /\ ~Calling /\ ~Calling'
      BY <2>2 DEF InRound, Calling
    <2>6. ExistInv' /\ StopInv' /\ BetweenRoundsInv'
      BY <1>1, <1>3, <2>1, <2>2, <2>5
         DEF PoolInv, ExistInv, StopInv, BetweenRoundsInv, Created, Ready, pool
    <2>7. RoundInv' /\ DoneInv' /\ RangeInv' /\ HitsInv'
      BY <1>1, <2>1, <2>5
         DEF PoolInv, RoundInv, DoneInv, RangeInv, HitsInv, Index, pool
    <2> QED
      BY <2>3, <2>4, <2>6, <2>7 DEF PoolInv
  <1>4. CASE /\ g_gen # seen[w] /\ ~g_stop /\ Goto(w, "enter")
             /\ seen' = [seen EXCEPT ![w] = g_gen]
    <2>1. /\ PCType' /\ pc'[w] = "enter"
          /\ \A u \in Threads \ {w} : pc'[u] = pc[u]
      BY <1>4, GotoMoves DEF WorkerPC
    <2>2. seen'[w] = g_gen /\ \A v \in Workers \ {w} : seen'[v] = seen[v]
      BY <1>4 DEF PoolInv, TypeOK
    <2>3. /\ InRound /\ InRound' /\ Calling /\ Calling'
          /\ pc'[Main] = pc[Main] /\ w \in Live
      <3>1. Created(w)
        BY <1>1 DEF PoolInv, ExistInv
      <3>2. InRound /\ pc'[Main] = pc[Main]
        BY <1>1, <1>4, <2>1, <3>1 DEF PoolInv, BetweenRoundsInv
      <3> QED
        BY <3>1, <3>2 DEF InRound, Calling, Created, Live, Workers
    <2>4. TypeOK'
      BY <1>1, <1>4, <2>1 DEF PoolInv, TypeOK, PCType, pool
    <2>5. MutexInv' /\ NoLostWakeup'
      BY <1>1, <2>1, <2>2, <2>3 DEF PoolInv, MutexInv, NoLostWakeup, pool
    <2>6. ExistInv' /\ StopInv' /\ BetweenRoundsInv'
      BY <1>1, <2>1, <2>3
         DEF PoolInv, ExistInv, StopInv, BetweenRoundsInv, Created, pool
    <2>7. RoundInv' /\ RangeInv'
      BY <1>1, <2>1, <2>2, <2>3
         DEF PoolInv, RoundInv, RangeInv, Live, Ready, pool
    <2>8. \A v \in Workers : Reported(v)' <=> Reported(v)
      BY <1>1, <1>4, <2>1, <2>2 DEF Reported, Ready, pool
    <2>9. DoneInv'
      <3>1. {v \in Live : Reported(v)}' = {v \in Live : Reported(v)}
        BY <1>1, <2>8 DEF Live, pool
      <3> QED
        BY <1>1, <2>3, <3>1 DEF PoolInv, DoneInv, pool
    <2>10. \A t \in Threads : Ran(t)' <=> Ran(t)
      BY <1>1, <2>1, <2>3, <2>8 DEF Ran
    <2>11. HitsInv'
      BY <1>1, <2>3, <2>10, HitsKept DEF pool
    <2> QED
      BY <2>4, <2>5, <2>6, <2>7, <2>9, <2>11 DEF PoolInv
  <1> QED
    BY <1>2, <1>3, <1>4 DEF Check

\* Counting a worker, and waking main when it is the last one, preserves the
\* invariant.
LEMMA ReportStep ==
  ASSUME PoolInv, NEW w \in Workers, Report(w)
  PROVE  PoolInv'
  <1> USE ThreadFacts
  <1>1. /\ pc[w] = "report" /\ g_mtx = w /\ g_mtx' = NoOne /\ g_done' = g_done + 1
        /\ UNCHANGED <<g_nthreads, g_gen, g_stop, g_n, seen, range, arg, k, hits>>
    BY DEF Report, PoolInv, MutexInv
  <1>2. /\ pc'[w] = "lockWork"
        /\ \A u \in Workers \ {w} : pc'[u] = pc[u]
        /\ IF pc[Main] = "waitDone" /\ AllDone(g_done + 1)
           THEN pc'[Main] = "lockJoin" ELSE pc'[Main] = pc[Main]
    BY DEF Report
  <1>3. PCType'
    <2>1. \A t \in Threads : pc'[t] \in MainPC \cup WorkerPC
      BY <1>2 DEF PCType, MainPC, WorkerPC
    <2>2. pc' \in [Threads -> MainPC \cup WorkerPC]
      BY <2>1 DEF Report
    <2> QED
      BY <1>2, <2>2 DEF PCType, MainPC, WorkerPC
  <1>4. /\ InRound /\ w \in Live /\ seen[w] = g_gen /\ g_nthreads > 1
    BY <1>1, WorkerInRound
  <1>5. /\ InRound' /\ Calling /\ Calling'
        /\ Ran(Main)' <=> Ran(Main)
        /\ pc'[Main] # "leave" \/ pc'[Main] = pc[Main]
        /\ pc[Main] \notin {"create", "join", "serial"}
        /\ pc'[Main] \notin {"create", "join", "serial"}
    BY <1>2, <1>4 DEF InRound, Calling, Ran
  <1>6. TypeOK'
    BY <1>1, <1>3 DEF PoolInv, TypeOK, PCType
  <1>7. MutexInv'
    BY <1>1, <1>2 DEF PoolInv, MutexInv
  <1>8. NoLostWakeup'
    BY <1>1, <1>2 DEF PoolInv, NoLostWakeup, TypeOK
  <1>9. ExistInv' /\ StopInv' /\ BetweenRoundsInv'
    BY <1>1, <1>2, <1>4, <1>5
       DEF PoolInv, ExistInv, StopInv, BetweenRoundsInv, Created
  <1>10. RoundInv' /\ RangeInv'
    BY <1>1, <1>2, <1>4, <1>5 DEF PoolInv, RoundInv, RangeInv, Live, Ready
  <1>11. /\ ~Reported(w) /\ Reported(w)'
         /\ \A v \in Workers \ {w} : Reported(v)' <=> Reported(v)
    BY <1>1, <1>2, <1>4 DEF Reported, Ready
  <1>12. DoneInv'
    <2> DEFINE R == {v \in Live : Reported(v)}
    <2>1. R' = R \cup {w} /\ w \notin R
      BY <1>1, <1>4, <1>11 DEF Live
    <2>2. IsFiniteSet(Live)
      BY FS_Interval DEF Live
    <2>3. IsFiniteSet(R)
      BY <2>2, FS_Subset
    <2>4. Cardinality(R \cup {w}) = Cardinality(R) + 1
      BY <2>1, <2>3, FS_AddElement
    <2> QED
      BY <1>1, <1>4, <2>1, <2>4 DEF PoolInv, DoneInv
  <1>13. HitsInv'
    <2>1. \A t \in Threads : Ran(t)' <=> Ran(t)
      BY <1>1, <1>2, <1>5, <1>11 DEF Ran
    <2> QED
      BY <1>1, <1>4, <1>5, <2>1, HitsKept
  <1> QED
    BY <1>6, <1>7, <1>8, <1>9, <1>10, <1>12, <1>13 DEF PoolInv

\* Reading the range of one's slice preserves the invariant.
LEMMA EnterStep ==
  ASSUME PoolInv, NEW t \in Threads, Enter(t)
  PROVE  PoolInv'
  <1> USE ThreadFacts
  <1>1. /\ pc[t] = "enter" /\ UNCHANGED <<pool, g_mtx, seen, arg, k, hits>>
        /\ range' = [range EXCEPT ![t] = Slice(t, g_n, g_nthreads)]
    BY DEF Enter
  <1>2. PCType' /\ pc'[t] = "leave" /\ \A u \in Threads \ {t} : pc'[u] = pc[u]
    BY GotoMoves DEF Enter, MainPC, WorkerPC
  <1>3. InRound /\ g_n = arg
    BY <1>1, WorkerInRound DEF PoolInv, RoundInv, InRound
  <1>4. InRound' /\ Calling /\ Calling' /\ pc'[Main] # "join" /\ pc[Main] # "join"
        /\ pc'[Main] # "create" /\ pc[Main] # "create" /\ pc'[Main] # "serial"
    BY <1>2, <1>3 DEF InRound, Calling
  <1>5. /\ range'[t] = Slice(t, arg, g_nthreads)
        /\ \A u \in Threads \ {t} : range'[u] = range[u]
    BY <1>1, <1>3 DEF PoolInv, TypeOK
  <1>6. TypeOK'
    <2>1. Slice(t, g_n, g_nthreads) \in SUBSET Index
      BY SliceInRange DEF PoolInv, TypeOK, Threads
    <2>2. range' \in [Threads -> SUBSET Index]
      BY <1>1, <2>1 DEF PoolInv, TypeOK
    <2> QED
      BY <1>1, <1>2, <2>2 DEF PoolInv, TypeOK, PCType, pool
  <1>7. MutexInv' /\ NoLostWakeup'
    BY <1>1, <1>2 DEF PoolInv, MutexInv, NoLostWakeup, pool
  <1>8. ExistInv' /\ StopInv' /\ BetweenRoundsInv'
    BY <1>1, <1>2, <1>3, <1>4
       DEF PoolInv, ExistInv, StopInv, BetweenRoundsInv, Created, pool
  <1>9. RoundInv'
    BY <1>1, <1>2, <1>3 DEF PoolInv, RoundInv, Live, Ready, pool
  <1>10. RangeInv'
    BY <1>1, <1>2, <1>5 DEF PoolInv, RangeInv, pool
  <1>11. \A v \in Workers : Reported(v)' <=> Reported(v)
    BY <1>1, <1>2 DEF Reported, Ready, pool
  <1>12. DoneInv'
    <2>1. {v \in Live : Reported(v)}' = {v \in Live : Reported(v)}
      BY <1>1, <1>11 DEF Live, pool
    <2> QED
      BY <1>1, <1>3, <2>1 DEF PoolInv, DoneInv, pool
  <1>13. HitsInv'
    <2>1. \A u \in Threads : Ran(u)' <=> Ran(u)
      BY <1>1, <1>2, <1>11 DEF Ran
    <2> QED
      BY <1>1, <1>3, <1>4, <2>1, HitsKept DEF pool
  <1> QED
    BY <1>6, <1>7, <1>8, <1>9, <1>10, <1>12, <1>13 DEF PoolInv

\* No index of the slice a thread is about to finish has been run before.
LEMMA SliceUnmarked ==
  ASSUME PoolInv, NEW t \in Threads, pc[t] = "leave"
  PROVE  \A i \in range[t] : /\ i \in Index /\ i \in 0 .. arg - 1
                             /\ ~Covered(i) /\ hits[i] = 0
  <1> USE ThreadFacts
  <1>1. InRound /\ t \in 0 .. g_nthreads - 1
    BY WorkerInRound DEF InRound, Live, Main
  <1>2. range[t] = Slice(t, arg, g_nthreads) /\ range[t] \subseteq Index
    BY DEF PoolInv, RangeInv, TypeOK
  <1>3. ~Ran(t)
    BY DEF Ran, Reported, Ready
  <1>4. ASSUME NEW i \in range[t] PROVE ~Covered(i)
    <2>1. ASSUME NEW u \in 0 .. g_nthreads - 1, Ran(u), i \in Slice(u, arg, g_nthreads)
          PROVE  FALSE
      <3>1. u # t
        BY <1>3, <2>1
      <3>2. Slice(u, arg, g_nthreads) \cap Slice(t, arg, g_nthreads) = {}
        BY <1>1, <3>1, SlicesDisjoint DEF PoolInv, TypeOK
      <3> QED
        BY <1>2, <1>4, <2>1, <3>2
    <2> QED
      BY <2>1 DEF Covered
  <1>5. \A i \in range[t] : i \in 0 .. arg - 1
    BY <1>2 DEF Slice
  <1> QED
    BY <1>1, <1>2, <1>4, <1>5 DEF PoolInv, HitsInv

\* Finishing a slice marks its indices, none of which was marked before.
LEMMA LeaveStep ==
  ASSUME PoolInv, NEW t \in Threads, Leave(t)
  PROVE  PoolInv'
  <1> USE ThreadFacts
  <1> DEFINE next == IF t = Main THEN "lockJoin" ELSE "lockReport"
  <1>1. /\ pc[t] = "leave" /\ UNCHANGED <<pool, g_mtx, seen, arg, k>>
        /\ range' = [range EXCEPT ![t] = {}]
        /\ hits' = [i \in Index |-> IF i \in range[t] THEN hits[i] + 1 ELSE hits[i]]
    BY DEF Leave
  <1>2. /\ PCType' /\ pc'[t] = next
        /\ \A u \in Threads \ {t} : pc'[u] = pc[u]
    BY GotoMoves DEF Leave, MainPC, WorkerPC
  <1>3. InRound /\ (t # Main => t \in Live /\ seen[t] = g_gen)
    BY <1>1, WorkerInRound DEF InRound
  <1>4. InRound' /\ Calling /\ Calling' /\ pc'[Main] # "join" /\ pc[Main] # "join"
        /\ pc'[Main] # "create" /\ pc[Main] # "create" /\ pc'[Main] # "serial"
    BY <1>2, <1>3 DEF InRound, Calling
  <1>5. TypeOK'
    <2>1. range' \in [Threads -> SUBSET Index]
      BY <1>1 DEF PoolInv, TypeOK
    <2>2. hits' \in [Index -> Nat]
      BY <1>1 DEF PoolInv, TypeOK
    <2> QED
      BY <1>1, <1>2, <2>1, <2>2 DEF PoolInv, TypeOK, PCType, pool
  <1>6. MutexInv' /\ NoLostWakeup'
    BY <1>1, <1>2 DEF PoolInv, MutexInv, NoLostWakeup, pool
  <1>7. ExistInv' /\ StopInv' /\ BetweenRoundsInv'
    BY <1>1, <1>2, <1>3, <1>4
       DEF PoolInv, ExistInv, StopInv, BetweenRoundsInv, Created, pool
  <1>8. RoundInv'
    BY <1>1, <1>2, <1>3 DEF PoolInv, RoundInv, Live, Ready, pool
  <1>9. RangeInv'
    BY <1>1, <1>2 DEF PoolInv, RangeInv, TypeOK, pool
  <1>10. \A v \in Workers : Reported(v)' <=> Reported(v)
    BY <1>1, <1>2 DEF Reported, Ready, pool
  <1>11. DoneInv'
    <2>1. {v \in Live : Reported(v)}' = {v \in Live : Reported(v)}
      BY <1>1, <1>10 DEF Live, pool
    <2> QED
      BY <1>1, <1>3, <2>1 DEF PoolInv, DoneInv, pool
  <1>12. HitsInv'
    <2>1. /\ ~Ran(t) /\ Ran(t)'
          /\ \A u \in Threads \ {t} : Ran(u)' <=> Ran(u)
      BY <1>1, <1>2, <1>10 DEF Ran, Reported, Ready
    <2>2. range[t] = Slice(t, arg, g_nthreads)
      BY <1>1 DEF PoolInv, RangeInv
    <2>3. t \in 0 .. g_nthreads - 1
      BY <1>3 DEF Live, Main
    <2>4. ASSUME NEW i \in Index, i \in range[t]
          PROVE  ~Covered(i) /\ Covered(i)'
      <3>1. Covered(i)'
        BY <1>1, <2>1, <2>2, <2>3, <2>4 DEF Covered, pool
      <3> QED
        BY <1>1, <2>4, <3>1, SliceUnmarked
    <2>5. ASSUME NEW i \in Index, i \notin range[t]
          PROVE  Covered(i)' <=> Covered(i)
      BY <1>1, <2>1, <2>2, <2>5 DEF Covered, pool
    <2>6. ASSUME NEW i \in Index
          PROVE  hits'[i] = IF Covered(i)' THEN 1 ELSE 0
      <3>1. CASE i \in range[t]
        BY <1>1, <1>3, <2>4, <3>1 DEF PoolInv, HitsInv
      <3>2. CASE i \notin range[t]
        BY <1>1, <1>3, <2>5, <3>2 DEF PoolInv, HitsInv
      <3> QED
        BY <3>1, <3>2
    <2> QED
      BY <1>4, <2>6 DEF HitsInv, Index
  <1> QED
    BY <1>5, <1>6, <1>7, <1>8, <1>9, <1>11, <1>12 DEF PoolInv

-----------------------------------------------------------------------------
(* The steps of main between rounds: rounds, counts and slices are idle. *)

\* Away from a round, the parts of the invariant about it hold.
LEMMA NoRound ==
  ASSUME ~InRound', RangeInv, UNCHANGED range,
         \A t \in Threads : pc'[t] # "leave"
  PROVE  RoundInv' /\ DoneInv' /\ RangeInv'
  BY DEF RoundInv, DoneInv, RangeInv, Threads

\* Between rounds no worker is in its slice or about to report.
LEMMA WorkersQuiet ==
  ASSUME PoolInv, ~InRound, NEW w \in Workers
  PROVE  /\ pc[w] \notin {"enter", "leave", "lockReport", "report"}
         /\ Created(w) => seen[w] = g_gen
  BY WorkerInRound DEF PoolInv, BetweenRoundsInv

\* Creating no worker, or preparing to create the first, from a pool of one.
LEMMA ThreadsInitStep ==
  ASSUME PoolInv, NEW nthreads \in 0 .. MaxThreads, ThreadsInit(nthreads)
  PROVE  PoolInv'
  <1> USE ThreadFacts
  <1> DEFINE next == IF nthreads <= 1 THEN "idle" ELSE "create"
  <1>1. /\ pc[Main] = "idle" /\ g_nthreads = 1
        /\ g_nthreads' = IF nthreads < 1 THEN 1 ELSE nthreads
        /\ g_gen' = 0 /\ g_done' = 0 /\ g_stop' = FALSE /\ k' = 1
        /\ UNCHANGED <<g_n, g_mtx, seen, range, arg, hits>>
    BY DEF ThreadsInit
  <1>2. /\ PCType' /\ pc'[Main] = next
        /\ \A w \in Workers : pc'[w] = pc[w]
    BY GotoMoves DEF ThreadsInit, MainPC
  <1>3. \A w \in Workers : pc[w] = "none"
    BY <1>1 DEF PoolInv, ExistInv, Created, Workers
  <1>4. ~InRound /\ ~InRound' /\ ~Calling /\ ~Calling'
    BY <1>1, <1>2 DEF InRound, Calling
  <1>5. TypeOK'
    <2>1. g_nthreads' \in 1 .. MaxThreads /\ k' \in 1 .. MaxThreads
      BY <1>1, ThreadsAssumption
    <2>2. g_gen' \in 0 .. GenMod - 1 /\ g_done' \in Nat
      BY <1>1, GenAssumption
    <2>3. g_stop' \in BOOLEAN
      BY <1>1
    <2> QED
      BY <1>1, <1>2, <2>1, <2>2, <2>3 DEF PoolInv, TypeOK, PCType
  <1>6. MutexInv' /\ NoLostWakeup'
    BY <1>1, <1>2, <1>3 DEF PoolInv, MutexInv, NoLostWakeup
  <1>7. ExistInv' /\ StopInv' /\ BetweenRoundsInv'
    <2>1. \A w \in Workers : ~Created(w)'
      BY <1>1, <1>2 DEF Created, Workers
    <2>2. pc'[Main] = "create" => k' < g_nthreads'
      BY <1>1, <1>2
    <2> QED
      BY <1>1, <1>2, <1>3, <1>4, <2>1, <2>2
         DEF ExistInv, StopInv, BetweenRoundsInv
  <1>8. RoundInv' /\ DoneInv' /\ RangeInv'
    BY <1>1, <1>2, <1>3, <1>4, NoRound DEF PoolInv
  <1>9. HitsInv'
    BY <1>1, <1>4 DEF PoolInv, HitsInv, Index
  <1> QED
    BY <1>5, <1>6, <1>7, <1>8, <1>9 DEF PoolInv

\* Creating one worker, which starts with nothing to do.
LEMMA CreateWorkerStep ==
  ASSUME PoolInv, CreateWorker
  PROVE  PoolInv'
  <1> USE ThreadFacts
  <1> DEFINE next == IF k + 1 = g_nthreads THEN "idle" ELSE "create"
  <1>1. /\ pc[Main] = "create" /\ k \in Nat /\ k < g_nthreads /\ k \in Workers
        /\ g_gen = 0 /\ ~g_stop /\ g_nthreads > 1
        /\ seen' = [seen EXCEPT ![k] = 0] /\ k' = k + 1
        /\ UNCHANGED <<pool, g_mtx, range, arg, hits>>
    <2>1. pc[Main] = "create" /\ k < g_nthreads /\ k \in 1 .. MaxThreads
      BY DEF CreateWorker, PoolInv, ExistInv, TypeOK
    <2>2. k \in Workers /\ k \in Nat /\ g_nthreads > 1
      BY <2>1, ThreadsAssumption DEF Workers
    <2>3. g_gen = 0 /\ ~g_stop
      BY <2>1, <2>2 DEF PoolInv, BetweenRoundsInv, InRound, StopInv
    <2> QED
      BY <2>1, <2>2, <2>3 DEF CreateWorker
  <1>2. /\ pc'[Main] = next /\ pc'[k] = "lockWork"
        /\ \A w \in Workers \ {k} : pc'[w] = pc[w]
    BY <1>1 DEF CreateWorker, PCType
  <1>3. PCType'
    <2>1. pc' \in [Threads -> MainPC \cup WorkerPC]
      BY <1>1 DEF CreateWorker, PCType, MainPC, WorkerPC
    <2> QED
      BY <1>2, <2>1 DEF PCType, MainPC, WorkerPC
  <1>4. ~InRound /\ ~InRound' /\ ~Calling /\ ~Calling'
    BY <1>1, <1>2 DEF InRound, Calling
  <1>5. TypeOK'
    <2>1. seen' \in [Workers -> 0 .. GenMod - 1]
      BY <1>1, GenAssumption DEF PoolInv, TypeOK
    <2>2. k' \in 1 .. MaxThreads
      BY <1>1, ThreadsAssumption DEF Workers
    <2> QED
      BY <1>1, <1>3, <2>1, <2>2 DEF PoolInv, TypeOK, PCType, pool
  <1>6. \A w \in Workers : Created(w)' <=> (Created(w) \/ w = k)
    BY <1>1, <1>2 DEF Created, pool
  <1>7. MutexInv'
    <2>1. pc[k] = "none"
      BY <1>1 DEF PoolInv, ExistInv, Created
    <2> QED
      BY <1>1, <1>2, <2>1 DEF PoolInv, MutexInv
  <1>8. NoLostWakeup'
    BY <1>1, <1>2 DEF PoolInv, NoLostWakeup, TypeOK, pool
  <1>9. ExistInv'
    <2>1. pc'[Main] = "create" => k' < g_nthreads'
      BY <1>1, <1>2 DEF pool
    <2>2. \A w \in Workers : pc'[w] = "none" <=> ~Created(w)'
      BY <1>1, <1>2, <1>6 DEF PoolInv, ExistInv
    <2> QED
      BY <1>2, <1>4, <2>1, <2>2 DEF ExistInv
  <1>10. StopInv'
    BY <1>1, <1>2 DEF PoolInv, StopInv, pool
  <1>11. BetweenRoundsInv'
    <2>1. \A w \in Workers : w = k => seen'[w] = g_gen' /\ Ready(w)'
      BY <1>1, <1>2 DEF PoolInv, TypeOK, Ready, pool
    <2>2. \A w \in Workers \ {k} : seen'[w] = seen[w] /\ (Ready(w)' <=> Ready(w))
      BY <1>1, <1>2 DEF PoolInv, TypeOK, Ready
    <2> QED
      BY <1>1, <1>2, <1>4, <1>6, <2>1, <2>2 DEF PoolInv, BetweenRoundsInv, pool
  <1>12. RoundInv' /\ DoneInv' /\ RangeInv'
    <2>1. \A t \in Threads : pc'[t] # "leave"
      BY <1>2, <1>4, WorkersQuiet
    <2> QED
      BY <1>1, <1>4, <2>1, NoRound DEF PoolInv
  <1>13. HitsInv'
    BY <1>1, <1>4 DEF PoolInv, HitsInv, Index
  <1> QED
    BY <1>5, <1>7, <1>8, <1>9, <1>10, <1>11, <1>12, <1>13 DEF PoolInv

\* Calling ember_threads_shutdown.
LEMMA ThreadsShutdownStep ==
  ASSUME PoolInv, ThreadsShutdown
  PROVE  PoolInv'
  <1> USE ThreadFacts
  <1>1. /\ pc[Main] = "idle" /\ g_nthreads > 1
        /\ UNCHANGED <<pool, g_mtx, seen, range, arg, k, hits>>
    BY DEF ThreadsShutdown
  <1>2. /\ PCType' /\ pc'[Main] = "lockStop"
        /\ \A w \in Workers : pc'[w] = pc[w]
    BY GotoMoves DEF ThreadsShutdown, MainPC
  <1>3. ~InRound /\ ~InRound' /\ ~Calling /\ ~Calling'
    BY <1>1, <1>2 DEF InRound, Calling
  <1>4. TypeOK'
    BY <1>1, <1>2 DEF PoolInv, TypeOK, PCType, pool
  <1>5. MutexInv' /\ NoLostWakeup'
    BY <1>1, <1>2 DEF PoolInv, MutexInv, NoLostWakeup, pool
  <1>6. ExistInv' /\ StopInv' /\ BetweenRoundsInv'
    BY <1>1, <1>2, <1>3
       DEF PoolInv, ExistInv, StopInv, BetweenRoundsInv, Created, Ready, pool
  <1>7. RoundInv' /\ DoneInv' /\ RangeInv'
    BY <1>1, <1>2, <1>3, WorkersQuiet, NoRound DEF PoolInv
  <1>8. HitsInv'
    BY <1>1, <1>3 DEF PoolInv, HitsInv, Index
  <1> QED
    BY <1>4, <1>5, <1>6, <1>7, <1>8 DEF PoolInv

\* Raising g_stop and waking everybody.
LEMMA StopStep ==
  ASSUME PoolInv, Stop
  PROVE  PoolInv'
  <1> USE ThreadFacts
  <1>1. /\ pc[Main] = "stop" /\ g_mtx = Main /\ g_mtx' = NoOne /\ g_stop' = TRUE
        /\ k' = 1 /\ g_nthreads > 1
        /\ UNCHANGED <<g_nthreads, g_gen, g_done, g_n, seen, range, arg, hits>>
    BY DEF Stop, PoolInv, MutexInv, ExistInv
  <1>2. /\ pc'[Main] = "join"
        /\ \A w \in Workers :
              pc'[w] = IF pc[w] = "waitWork" THEN "lockWork" ELSE pc[w]
    BY DEF Stop, WakeWorkersAndGoto
  <1>3. PCType'
    <2>1. \A t \in Threads : pc'[t] \in MainPC \cup WorkerPC
      BY <1>2 DEF PCType, MainPC, WorkerPC
    <2>2. pc' \in [Threads -> MainPC \cup WorkerPC]
      BY <2>1 DEF Stop, WakeWorkersAndGoto
    <2> QED
      BY <1>2, <2>2 DEF PCType, MainPC, WorkerPC
  <1>4. ~InRound /\ ~InRound' /\ ~Calling /\ ~Calling'
    BY <1>1, <1>2 DEF InRound, Calling
  <1>5. TypeOK'
    <2>1. k' \in 1 .. MaxThreads
      BY <1>1, ThreadsAssumption
    <2>2. g_stop' \in BOOLEAN
      BY <1>1
    <2> QED
      BY <1>1, <1>3, <2>1, <2>2 DEF PoolInv, TypeOK, PCType
  <1>6. MutexInv' /\ NoLostWakeup'
    BY <1>1, <1>2 DEF PoolInv, MutexInv, NoLostWakeup
  <1>7. \A w \in Workers : Created(w)' <=> Created(w)
    BY <1>1, <1>2 DEF Created, Workers
  <1>8. ExistInv' /\ StopInv' /\ BetweenRoundsInv'
    BY <1>1, <1>2, <1>4, <1>7
       DEF PoolInv, ExistInv, StopInv, BetweenRoundsInv, Ready
  <1>9. RoundInv' /\ DoneInv' /\ RangeInv'
    <2>1. \A t \in Threads : pc'[t] # "leave"
      BY <1>2, <1>4, WorkersQuiet
    <2> QED
      BY <1>1, <1>4, <2>1, NoRound DEF PoolInv
  <1>10. HitsInv'
    BY <1>1, <1>4 DEF PoolInv, HitsInv, Index
  <1> QED
    BY <1>5, <1>6, <1>8, <1>9, <1>10 DEF PoolInv

\* Joining one worker; after the last one the pool is gone.
LEMMA JoinWorkerStep ==
  ASSUME PoolInv, JoinWorker
  PROVE  PoolInv'
  <1> USE ThreadFacts
  <1> DEFINE next == IF k + 1 = g_nthreads THEN "idle" ELSE "join"
  <1>1. /\ pc[Main] = "join" /\ k \in Nat /\ k < g_nthreads /\ k \in Workers
        /\ g_nthreads > 1 /\ pc[k] = "exited" /\ k' = k + 1 /\ g_stop
        /\ g_nthreads' = IF k + 1 = g_nthreads THEN 1 ELSE g_nthreads
        /\ UNCHANGED <<g_gen, g_done, g_stop, g_n, g_mtx, seen, range, arg, hits>>
    <2>1. pc[Main] = "join" /\ k < g_nthreads /\ k \in 1 .. MaxThreads
      BY DEF JoinWorker, PoolInv, ExistInv, TypeOK
    <2>2. k \in Workers /\ k \in Nat /\ g_nthreads > 1
      BY <2>1, ThreadsAssumption DEF Workers
    <2> QED
      BY <2>1, <2>2 DEF JoinWorker, PoolInv, StopInv
  <1>2. /\ pc'[Main] = next /\ pc'[k] = "none"
        /\ \A w \in Workers \ {k} : pc'[w] = pc[w]
    BY <1>1 DEF JoinWorker, PCType
  <1>3. PCType'
    <2>1. pc' \in [Threads -> MainPC \cup WorkerPC]
      BY <1>1 DEF JoinWorker, PCType, MainPC, WorkerPC
    <2> QED
      BY <1>2, <2>1 DEF PCType, MainPC, WorkerPC
  <1>4. ~InRound /\ ~InRound' /\ ~Calling /\ ~Calling'
    BY <1>1, <1>2 DEF InRound, Calling
  <1>5. TypeOK'
    <2>1. k' \in 1 .. MaxThreads /\ g_nthreads' \in 1 .. MaxThreads
      BY <1>1, ThreadsAssumption DEF Workers
    <2> QED
      BY <1>1, <1>3, <2>1 DEF PoolInv, TypeOK, PCType
  <1>6. \A w \in Workers : Created(w)' <=> (Created(w) /\ w # k)
    BY <1>1, <1>2 DEF Created
  <1>7. MutexInv'
    BY <1>1, <1>2 DEF PoolInv, MutexInv
  <1>8. NoLostWakeup'
    BY <1>1, <1>2 DEF PoolInv, NoLostWakeup
  <1>9. ExistInv'
    <2>1. ASSUME pc'[Main] = "join" PROVE k' < g_nthreads'
      <3>1. k + 1 # g_nthreads
        BY <1>2, <2>1
      <3> QED
        BY <1>1, <3>1
    <2>2. \A w \in Workers : pc'[w] = "none" <=> ~Created(w)'
      BY <1>1, <1>2, <1>6 DEF PoolInv, ExistInv
    <2> QED
      BY <1>2, <1>4, <2>1, <2>2 DEF ExistInv
  <1>10. StopInv'
    BY <1>1, <1>2 DEF PoolInv, StopInv
  <1>11. BetweenRoundsInv'
    BY <1>1, <1>2, <1>4, <1>6 DEF PoolInv, BetweenRoundsInv, Ready
  <1>12. RoundInv' /\ DoneInv' /\ RangeInv'
    <2>1. \A t \in Threads : pc'[t] # "leave"
      BY <1>2, <1>4, WorkersQuiet
    <2> QED
      BY <1>1, <1>4, <2>1, NoRound DEF PoolInv
  <1>13. HitsInv'
    BY <1>1, <1>4 DEF PoolInv, HitsInv, Index
  <1> QED
    BY <1>5, <1>7, <1>8, <1>9, <1>10, <1>11, <1>12, <1>13 DEF PoolInv

\* Calling ember_parallel_for.
LEMMA ParallelForStep ==
  ASSUME PoolInv, NEW n \in 0 .. MaxN, ParallelFor(n)
  PROVE  PoolInv'
  <1> USE ThreadFacts
  <1> DEFINE next == IF g_nthreads <= 1 THEN "serial" ELSE "lockPublish"
  <1>1. /\ pc[Main] = "idle" /\ arg' = n /\ hits' = [i \in Index |-> 0]
        /\ UNCHANGED <<pool, g_mtx, seen, range, k>>
    BY DEF ParallelFor
  <1>2. /\ PCType' /\ pc'[Main] = next
        /\ \A w \in Workers : pc'[w] = pc[w]
    BY GotoMoves DEF ParallelFor, MainPC
  <1>3. ~InRound /\ ~InRound' /\ ~Calling /\ Calling'
    BY <1>1, <1>2 DEF InRound, Calling
  <1>4. TypeOK'
    <2>1. hits' \in [Index -> Nat]
      BY <1>1
    <2> QED
      BY <1>1, <1>2, <2>1 DEF PoolInv, TypeOK, PCType, pool
  <1>5. MutexInv' /\ NoLostWakeup'
    BY <1>1, <1>2 DEF PoolInv, MutexInv, NoLostWakeup, pool
  <1>6. \A w \in Workers : Created(w)' <=> Created(w)
    BY <1>1, <1>2 DEF Created, pool
  <1>7. ExistInv'
    BY <1>1, <1>2, <1>3, <1>6 DEF PoolInv, ExistInv, pool
  <1>8. StopInv' /\ BetweenRoundsInv'
    BY <1>1, <1>2, <1>3, <1>6
       DEF PoolInv, StopInv, BetweenRoundsInv, Ready, pool
  <1>9. RoundInv' /\ DoneInv' /\ RangeInv'
    BY <1>1, <1>2, <1>3, WorkersQuiet, NoRound DEF PoolInv
  <1>10. HitsInv'
    BY <1>1, <1>3 DEF HitsInv, Index
  <1> QED
    BY <1>4, <1>5, <1>7, <1>8, <1>9, <1>10 DEF PoolInv

\* The serial path marks the whole range and returns.
LEMMA SerialStep ==
  ASSUME PoolInv, Serial
  PROVE  PoolInv'
  <1> USE ThreadFacts
  <1>1. /\ pc[Main] = "serial" /\ g_nthreads = 1
        /\ hits' = [i \in Index |-> IF i < arg THEN hits[i] + 1 ELSE hits[i]]
        /\ UNCHANGED <<pool, g_mtx, seen, range, arg, k>>
    BY DEF Serial, PoolInv, ExistInv
  <1>2. /\ PCType' /\ pc'[Main] = "idle"
        /\ \A w \in Workers : pc'[w] = pc[w]
    BY GotoMoves DEF Serial, MainPC
  <1>3. ~InRound /\ ~InRound' /\ Calling /\ ~Calling'
    BY <1>1, <1>2 DEF InRound, Calling
  <1>4. TypeOK'
    <2>1. hits' \in [Index -> Nat]
      BY <1>1 DEF PoolInv, TypeOK
    <2> QED
      BY <1>1, <1>2, <2>1 DEF PoolInv, TypeOK, PCType, pool
  <1>5. MutexInv' /\ NoLostWakeup'
    BY <1>1, <1>2 DEF PoolInv, MutexInv, NoLostWakeup, pool
  <1>6. \A w \in Workers : Created(w)' <=> Created(w)
    BY <1>1, <1>2 DEF Created, pool
  <1>7. ExistInv' /\ StopInv' /\ BetweenRoundsInv'
    BY <1>1, <1>2, <1>3, <1>6
       DEF PoolInv, ExistInv, StopInv, BetweenRoundsInv, Ready, pool
  <1>8. RoundInv' /\ DoneInv' /\ RangeInv'
    BY <1>1, <1>2, <1>3, WorkersQuiet, NoRound DEF PoolInv
  <1>9. HitsInv'
    <2>1. \A i \in Index : hits[i] = 0
      BY <1>3 DEF PoolInv, HitsInv
    <2> QED
      BY <1>1, <1>3, <2>1 DEF HitsInv, Index
  <1> QED
    BY <1>4, <1>5, <1>7, <1>8, <1>9 DEF PoolInv

\* Publishing a round: every worker has taken the previous one, so none has
\* taken this one, and those that slept are awake.
LEMMA PublishStep ==
  ASSUME PoolInv, Publish
  PROVE  PoolInv'
  <1> USE ThreadFacts
  <1>1. /\ pc[Main] = "publish" /\ g_mtx = Main /\ g_mtx' = NoOne /\ g_nthreads > 1
        /\ g_n' = arg /\ g_done' = 0 /\ g_gen' = (g_gen + 1) % GenMod /\ ~g_stop
        /\ UNCHANGED <<g_nthreads, g_stop, seen, range, arg, k, hits>>
    BY DEF Publish, PoolInv, MutexInv, ExistInv, StopInv
  <1>2. /\ pc'[Main] = "enter"
        /\ \A w \in Workers :
              pc'[w] = IF pc[w] = "waitWork" THEN "lockWork" ELSE pc[w]
    BY DEF Publish, WakeWorkersAndGoto
  <1>3. PCType'
    <2>1. \A t \in Threads : pc'[t] \in MainPC \cup WorkerPC
      BY <1>2 DEF PCType, MainPC, WorkerPC
    <2>2. pc' \in [Threads -> MainPC \cup WorkerPC]
      BY <2>1 DEF Publish, WakeWorkersAndGoto
    <2> QED
      BY <1>2, <2>2 DEF PCType, MainPC, WorkerPC
  <1>4. ~InRound /\ InRound' /\ Calling /\ Calling'
    BY <1>1, <1>2 DEF InRound, Calling
  <1>5. g_gen' \in 0 .. GenMod - 1 /\ g_gen' # g_gen
    <2>1. g_gen \in 0 .. GenMod - 1
      BY DEF PoolInv, TypeOK
    <2>2. CASE g_gen + 1 = GenMod
      <3>1. (g_gen + 1) % GenMod = 0
        BY <2>2, GenAssumption, SMT
      <3> QED
        BY <1>1, <2>1, <2>2, <3>1, GenAssumption
    <2>3. CASE g_gen + 1 # GenMod
      <3>1. (g_gen + 1) % GenMod = g_gen + 1
        BY <2>1, <2>3, GenAssumption, SMT
      <3> QED
        BY <1>1, <2>1, <2>3, <3>1, GenAssumption
    <2> QED
      BY <2>2, <2>3
  <1>6. TypeOK'
    BY <1>1, <1>3, <1>5 DEF PoolInv, TypeOK, PCType
  <1>7. MutexInv' /\ NoLostWakeup'
    BY <1>1, <1>2 DEF PoolInv, MutexInv, NoLostWakeup
  <1>8. \A w \in Workers :
           /\ Created(w)' <=> Created(w)
           /\ Created(w) <=> w \in Live
    BY <1>1, <1>2 DEF Created, Live, Workers
  <1>9. \A w \in Live : seen[w] = g_gen /\ Ready(w) /\ Ready(w)'
    BY <1>1, <1>2, <1>4, <1>8
       DEF PoolInv, BetweenRoundsInv, StopInv, Ready
  <1>10. ExistInv' /\ StopInv' /\ BetweenRoundsInv'
    BY <1>1, <1>2, <1>4, <1>8 DEF PoolInv, ExistInv, StopInv, BetweenRoundsInv
  <1>11. RoundInv'
    BY <1>1, <1>5, <1>9 DEF RoundInv, Live
  <1>12. \A w \in Live : ~Reported(w)'
    BY <1>1, <1>5, <1>9 DEF Reported
  <1>13. DoneInv'
    <2>1. {w \in Live : Reported(w)}' = {}
      BY <1>1, <1>12 DEF Live
    <2> QED
      BY <1>1, <2>1, FS_EmptySet DEF DoneInv
  <1>14. RangeInv'
    BY <1>1, <1>2, <1>4, WorkersQuiet DEF RangeInv
  <1>15. HitsInv'
    <2>1. \A t \in 0 .. g_nthreads - 1 : ~Ran(t)'
      <3>1. ~Ran(Main)'
        BY <1>2 DEF Ran
      <3>2. \A w \in Live : ~Ran(w)'
        BY <1>9, <1>12 DEF Ran, Ready
      <3>3. \A t \in 0 .. g_nthreads - 1 : t = Main \/ t \in Live
        BY DEF Live, Main
      <3> QED
        BY <3>1, <3>2, <3>3
    <2>2. \A i \in Index : ~Covered(i)'
      BY <1>1, <2>1 DEF Covered
    <2> QED
      BY <1>1, <1>4, <2>2 DEF PoolInv, HitsInv, Index
  <1> QED
    BY <1>6, <1>7, <1>10, <1>11, <1>13, <1>14, <1>15 DEF PoolInv

\* When the counter says so, every worker has reported: g_done counts a subset
\* of the workers that has as many members as there are workers.
LEMMA AllReported ==
  ASSUME PoolInv, InRound, AllDone(g_done)
  PROVE  \A w \in Live : Reported(w)
  <1> USE ThreadFacts
  <1> DEFINE R == {w \in Live : Reported(w)}
  <1>1. IsFiniteSet(Live) /\ Cardinality(Live) = g_nthreads - 1
    BY FS_Interval DEF Live, PoolInv, ExistInv
  <1>2. Cardinality(R) = g_nthreads - 1
    BY DEF PoolInv, DoneInv
  <1>3. R \subseteq Live
    OBVIOUS
  <1> HIDE DEF R
  <1>4. R = Live
    BY <1>1, <1>2, <1>3, FS_Subset
  <1> QED
    BY <1>4 DEF R

\* Going to sleep until the round is over, or returning from it.
LEMMA CheckDoneStep ==
  ASSUME PoolInv, CheckDone
  PROVE  PoolInv'
  <1> USE ThreadFacts
  <1>1. /\ pc[Main] = "checkDone" /\ g_mtx = Main /\ g_mtx' = NoOne
        /\ UNCHANGED <<pool, seen, range, arg, k, hits>>
    BY DEF CheckDone, PoolInv, MutexInv
  <1>2. InRound /\ Calling /\ g_nthreads > 1
    BY <1>1 DEF InRound, Calling, PoolInv, ExistInv
  <1>3. CASE ~AllDone(g_done)
    <2>1. /\ PCType' /\ pc'[Main] = "waitDone"
          /\ \A w \in Workers : pc'[w] = pc[w]
      BY <1>3, GotoMoves DEF CheckDone, MainPC
    <2>2. TypeOK'
      BY <1>1, <2>1 DEF PoolInv, TypeOK, PCType, pool
    <2>3. MutexInv' /\ NoLostWakeup'
      BY <1>1, <1>3, <2>1 DEF PoolInv, MutexInv, NoLostWakeup, pool
    <2>4. \A u \in Threads : SamePlace(u)
      BY <1>1, <2>1 DEF SamePlace
    <2> QED
      BY <1>1, <2>2, <2>3, <2>4, SamePlaceStep DEF PoolInv
  <1>4. CASE AllDone(g_done)
    <2>1. /\ PCType' /\ pc'[Main] = "idle"
          /\ \A w \in Workers : pc'[w] = pc[w]
      BY <1>4, GotoMoves DEF CheckDone, MainPC
    <2>2. TypeOK'
      BY <1>1, <2>1 DEF PoolInv, TypeOK, PCType, pool
    <2>3. MutexInv' /\ NoLostWakeup'
      BY <1>1, <2>1 DEF PoolInv, MutexInv, NoLostWakeup, pool
    <2>4. \A w \in Live : Reported(w)
      BY <1>2, <1>4, AllReported
    <2>5. ~InRound' /\ ~Calling'
      BY <2>1 DEF InRound, Calling
    <2>6. \A w \in Workers :
             /\ Created(w)' <=> Created(w)
             /\ Created(w) <=> w \in Live
      BY <1>1, <2>1 DEF Created, Live, Workers, pool
    <2>7. ExistInv' /\ StopInv'
      BY <1>1, <1>2, <2>1, <2>5, <2>6 DEF PoolInv, ExistInv, StopInv, pool
    <2>8. BetweenRoundsInv'
      BY <1>1, <2>1, <2>4, <2>6 DEF BetweenRoundsInv, Reported, Ready, pool
    <2>9. \A t \in Threads : pc'[t] # "leave"
      <3>1. \A w \in Workers : pc[w] # "leave"
        BY <2>4, WorkerInRound DEF Reported, Ready
      <3> QED
        BY <2>1, <3>1
    <2>10. RoundInv' /\ DoneInv' /\ RangeInv'
      BY <1>1, <2>5, <2>9, NoRound DEF PoolInv
    <2>11. HitsInv'
      <3>1. \A t \in 0 .. g_nthreads - 1 : Ran(t)
        <4>1. \A t \in 0 .. g_nthreads - 1 : t = Main \/ t \in Live
          BY DEF Live, Main
        <4> QED
          BY <1>1, <2>4, <4>1 DEF Ran
      <3>2. ASSUME NEW i \in Index PROVE Covered(i) <=> i < arg
        <4>1. arg \in Nat /\ i \in Nat
          BY SizeAssumption DEF PoolInv, TypeOK, Index
        <4>2. ASSUME i < arg PROVE Covered(i)
          <5>1. i \in 0 .. arg - 1 /\ g_nthreads \in Nat /\ g_nthreads > 0
            BY <1>2, <4>1, <4>2
          <5>2. \E t \in 0 .. g_nthreads - 1 : i \in Slice(t, arg, g_nthreads)
            BY ONLY <4>1, <5>1, SlicesCover
          <5> QED
            BY <3>1, <5>2 DEF Covered
        <4>3. ASSUME Covered(i) PROVE i < arg
          BY <4>1, <4>3 DEF Covered, Slice
        <4> QED
          BY <4>2, <4>3
      <3>3. \A i \in Index : hits[i] = (IF i < arg THEN 1 ELSE 0)
        BY <1>2, <3>2 DEF PoolInv, HitsInv
      <3> QED
        BY <1>1, <2>5, <3>3 DEF HitsInv, Index
    <2> QED
      BY <2>2, <2>3, <2>7, <2>8, <2>10, <2>11 DEF PoolInv
  <1> QED
    BY <1>3, <1>4

-----------------------------------------------------------------------------
(* The theorems. *)

\* Every step of the pool preserves the invariant.
LEMMA NextPoolInv == PoolInv /\ [Next]_vars => PoolInv'
  <1> SUFFICES ASSUME PoolInv, [Next]_vars PROVE PoolInv'
    OBVIOUS
  <1>1. Main \in Threads /\ Workers \subseteq Threads
    BY ThreadFacts
  <1>2. CASE Request
    BY <1>2, ThreadsInitStep, ParallelForStep, ThreadsShutdownStep DEF Request
  <1>3. CASE MainStep
    BY <1>1, <1>3, EnterStep, LeaveStep, CreateWorkerStep, StopStep,
       JoinWorkerStep, SerialStep, PublishStep, CheckDoneStep DEF MainStep
  <1>4. CASE \E w \in Workers : WorkerStep(w)
    BY <1>1, <1>4, EnterStep, LeaveStep, CheckStep, ReportStep DEF WorkerStep
  <1>5. CASE \E t \in Threads : Acquire(t) \/ SpuriousWakeup(t)
    BY <1>5, AcquireStep, SpuriousWakeupStep
  <1>6. CASE UNCHANGED vars
    <2> USE <1>6 DEF vars, pool
    <2>1. TypeOK'
      BY DEF PoolInv, TypeOK
    <2>2. MutexInv' /\ NoLostWakeup'
      BY DEF PoolInv, MutexInv, NoLostWakeup
    <2>3. \A u \in Threads : SamePlace(u)
      BY DEF SamePlace
    <2> QED
      BY <2>1, <2>2, <2>3, SamePlaceStep DEF PoolInv
  <1> QED
    BY <1>2, <1>3, <1>4, <1>5, <1>6 DEF Next

\* The pool is always where the protocol puts it, for any number of threads.
THEOREM PoolInvariant == Spec => []PoolInv
  BY InitPoolInv, NextPoolInv, PTL DEF Spec

\* Every variable of the pool keeps its type.
THEOREM PoolTypes == Spec => []TypeOK
  <1>1. PoolInv => TypeOK
    BY DEF PoolInv
  <1> QED
    BY <1>1, PoolInvariant, PTL

\* ember_parallel_for is a barrier: when it has returned, fn ran exactly once
\* on each index of its range and no worker is in its slice.
THEOREM JoinIsComplete == Spec => []JoinComplete
  <1>1. PoolInv => JoinComplete
    <2> SUFFICES ASSUME PoolInv, ~Calling PROVE JoinComplete
      BY DEF JoinComplete
    <2>1. ~InRound
      BY DEF InRound, Calling
    <2>2. \A w \in Workers : ~InSlice(w)
      BY <2>1, WorkersQuiet DEF InSlice
    <2> QED
      BY <2>2 DEF PoolInv, HitsInv, JoinComplete
  <1> QED
    BY <1>1, PoolInvariant, PTL

\* Neither a worker nor main ever sleeps through the wakeup it waits for.
THEOREM NoWakeupIsLost == Spec => []NoLostWakeup
  <1>1. PoolInv => NoLostWakeup
    BY DEF PoolInv
  <1> QED
    BY <1>1, PoolInvariant, PTL

\* The published range and the number of threads do not change while a worker
\* is in run_slice, although it reads them with no lock.
THEOREM RoundIsStable == Spec => RoundStable
  <1>1. PoolInv /\ [Next]_vars =>
          [(\E w \in Workers : InSlice(w)) => UNCHANGED <<g_n, g_nthreads>>]_vars
    <2> SUFFICES ASSUME PoolInv, Next, NEW w \in Workers, InSlice(w)
                 PROVE  UNCHANGED <<g_n, g_nthreads>>
      OBVIOUS
    <2>1. InRound
      BY WorkerInRound DEF InSlice
    <2> USE DEF pool
    <2>2. CASE Request
      BY <2>1, <2>2 DEF Request, ThreadsInit, ParallelFor, ThreadsShutdown, InRound
    <2>3. CASE MainStep
      BY <2>1, <2>3 DEF MainStep, Enter, Leave, CreateWorker, Stop, JoinWorker,
                        Serial, Publish, CheckDone, InRound
    <2>4. CASE \E v \in Workers : WorkerStep(v)
      BY <2>4 DEF WorkerStep, Enter, Leave, Check, Report
    <2>5. CASE \E t \in Threads : Acquire(t) \/ SpuriousWakeup(t)
      BY <2>5 DEF Acquire, Lock, SpuriousWakeup
    <2> QED
      BY <2>2, <2>3, <2>4, <2>5 DEF Next
  <1> QED
    BY <1>1, PoolInvariant, PTL DEF Spec, RoundStable

\* The pool implements the promise of kernels.h: each of its steps is a step of
\* ForkJoin or changes nothing that ForkJoin can see.
THEOREM PoolImplementsForkJoin == Spec => ImplementsForkJoin
  <1>1. Init => FJ!Init
    <2> SUFFICES ASSUME Init PROVE FJ!Init
      OBVIOUS
    <2>1. Main \in Threads
      BY ThreadsAssumption DEF Main, Threads
    <2>2. pc[Main] = "idle" /\ arg = 0 /\ hits = [i \in Index |-> 0]
      BY <2>1 DEF Init
    <2>3. Calling = FALSE
      BY <2>2 DEF Calling
    <2> QED
      BY <2>2, <2>3 DEF FJ!Init, FJ!Index, Index
  <1>2. PoolInv /\ PoolInv' /\ [Next]_vars => [FJ!Next]_FJ!vars
    <2> SUFFICES ASSUME PoolInv, PoolInv', [Next]_vars
                 PROVE  FJ!Next \/ UNCHANGED <<Calling, arg, hits>>
      BY DEF FJ!vars
    <2> USE ThreadFacts
    <2> DEFINE Silent == UNCHANGED <<arg, hits>> /\ (Calling' = Calling)
    <2>1. ASSUME NEW t \in Threads, Leave(t) PROVE FJ!Next
      <3>1. Calling /\ Calling' /\ UNCHANGED arg
        <4>1. InRound
          BY <2>1, WorkerInRound DEF Leave, InRound
        <4>2. pc'[Main] = pc[Main] \/ pc'[Main] = "lockJoin"
          BY <2>1 DEF Leave, Goto, PCType
        <4> QED
          BY <2>1, <4>1, <4>2 DEF Leave, InRound, Calling
      <3>2. \A i \in range[t] : i \in 0 .. arg - 1 /\ hits[i] = 0
        BY <2>1, SliceUnmarked DEF Leave
      <3>3. hits' = [i \in Index |-> IF i \in range[t] THEN 1 ELSE hits[i]]
        BY <2>1, <3>2 DEF Leave
      <3>4. range[t] \in SUBSET {i \in 0 .. arg - 1 : hits[i] = 0}
        BY <3>2
      <3>5. FJ!Work
        BY <3>1, <3>3, <3>4 DEF FJ!Work, FJ!Index, Index
      <3> QED
        BY <3>5 DEF FJ!Next
    <2>2. ASSUME NEW n \in 0 .. MaxN, ParallelFor(n) PROVE FJ!Next
      <3>1. ~Calling /\ Calling'
        BY <2>2 DEF ParallelFor, Goto, Calling, PCType
      <3>2. FJ!Call
        BY <2>2, <3>1 DEF ParallelFor, FJ!Call, FJ!Index, Index
      <3> QED
        BY <3>2 DEF FJ!Next
    <2>3. ASSUME Serial PROVE FJ!Next
      <3>1. Calling /\ Calling' = FALSE /\ UNCHANGED arg
        BY <2>3 DEF Serial, Goto, Calling, PCType
      <3>2. \A i \in Index : hits[i] = 0
        BY <2>3 DEF PoolInv, HitsInv, Serial, Calling, InRound
      <3>3. hits' = [i \in Index |-> IF i < arg THEN 1 ELSE hits[i]]
        BY <2>3, <3>2 DEF Serial
      <3>4. \A i \in 0 .. arg - 1 : i \in Index
        BY SizeAssumption DEF PoolInv, TypeOK, Index
      <3>5. FJ!WorkAndReturn
        BY <3>1, <3>2, <3>3, <3>4 DEF FJ!WorkAndReturn, FJ!Index, Index
      <3> QED
        BY <3>5 DEF FJ!Next
    <2>4. ASSUME CheckDone PROVE FJ!Next \/ Silent
      <3>1. Calling /\ UNCHANGED <<arg, hits>>
        BY <2>4 DEF CheckDone, Calling
      <3>2. CASE ~AllDone(g_done)
        BY <2>4, <3>1, <3>2 DEF CheckDone, Goto, Calling, PCType
      <3>3. CASE AllDone(g_done)
        <4>1. pc'[Main] = "idle"
          BY <2>4, <3>3 DEF CheckDone, Goto, PCType
        <4>2. Calling' = FALSE
          BY <4>1 DEF Calling
        <4>3. \A i \in 0 .. arg - 1 : i \in Index
          BY SizeAssumption DEF PoolInv, TypeOK, Index
        <4>4. \A i \in 0 .. arg - 1 : hits[i] = 1
          <5>1. \A i \in Index : hits'[i] = IF i < arg' THEN 1 ELSE 0
            BY <4>2 DEF PoolInv, HitsInv, Index
          <5> QED
            BY <3>1, <4>3, <5>1 DEF PoolInv, TypeOK
        <4>5. FJ!Return
          BY <3>1, <4>2, <4>4 DEF FJ!Return
        <4> QED
          BY <4>5 DEF FJ!Next
      <3> QED
        BY <3>2, <3>3
    <2>5. ASSUME ThreadsShutdown \/ (\E n \in 0 .. MaxThreads : ThreadsInit(n))
          PROVE  Silent
      BY <2>5 DEF ThreadsShutdown, ThreadsInit, Goto, Calling, PCType
    <2>6. ASSUME NEW t \in Threads, Enter(t) PROVE Silent
      BY <2>6 DEF Enter, Goto, Calling, PCType
    <2>7. ASSUME CreateWorker \/ JoinWorker PROVE Silent
      <3>1. k \in Workers /\ UNCHANGED <<arg, hits>>
        BY <2>7, ThreadsAssumption
           DEF CreateWorker, JoinWorker, PoolInv, ExistInv, TypeOK, Workers
      <3>2. pc[Main] \in {"create", "join"} /\ pc'[Main] \in {"create", "join", "idle"}
        BY <2>7, <3>1 DEF CreateWorker, JoinWorker, PCType
      <3> QED
        BY <3>1, <3>2 DEF Calling
    <2>8. ASSUME Stop \/ Publish PROVE Silent
      BY <2>8 DEF Stop, Publish, WakeWorkersAndGoto, Calling
    <2>9. ASSUME NEW w \in Workers, Check(w) \/ Report(w) PROVE Silent
      <3>1. CASE Check(w)
        BY <3>1 DEF Check, Goto, Calling, PCType
      <3>2. CASE Report(w)
        BY <3>2 DEF Report, Calling
      <3> QED
        BY <2>9, <3>1, <3>2
    <2>10. ASSUME NEW t \in Threads, Acquire(t) \/ SpuriousWakeup(t) PROVE Silent
      BY <2>10 DEF Acquire, Lock, SpuriousWakeup, Goto, Calling, PCType
    <2>11. ASSUME UNCHANGED vars PROVE Silent
      BY <2>11 DEF vars, Calling
    <2>12. CASE Request
      BY <2>2, <2>5, <2>12 DEF Request
    <2>13. CASE MainStep
      BY <2>1, <2>3, <2>4, <2>6, <2>7, <2>8, <2>13 DEF MainStep
    <2>14. CASE \E w \in Workers : WorkerStep(w)
      BY <2>1, <2>6, <2>9, <2>14 DEF WorkerStep
    <2> QED
      BY <2>10, <2>11, <2>12, <2>13, <2>14 DEF Next
  <1> QED
    BY <1>1, <1>2, PoolInvariant, PTL DEF Spec, ImplementsForkJoin, FJ!Spec
=============================================================================
