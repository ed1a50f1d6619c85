----------------------------- MODULE ThreadPool -----------------------------
(***************************************************************************)
(* The fork-join thread pool of src/threads.c.  Thread 0 is the program's  *)
(* main thread, which calls ember_threads_init, ember_parallel_for and     *)
(* ember_threads_shutdown; threads 1 .. g_nthreads-1 are the workers.      *)
(*                                                                         *)
(* A critical section is two steps: the acquisition of g_mtx, and the body *)
(* together with the release that ends it (nothing another thread can see  *)
(* happens between the two).  Everything outside g_mtx, run_slice first of *)
(* all, is a step of its own.                                              *)
(***************************************************************************)
EXTENDS Integers, FiniteSets

CONSTANTS MaxThreads,    \* the largest thread count asked for
          MaxN,          \* the largest n of a parallel_for
          GenMod         \* g_gen is unsigned: it counts modulo GenMod (2^64 in C)

ASSUME ThreadsAssumption == MaxThreads \in Nat \ {0}
ASSUME SizeAssumption    == MaxN \in Nat
ASSUME GenAssumption     == GenMod \in Nat /\ GenMod >= 2

Main    == 0
Threads == 0 .. MaxThreads - 1
Workers == 1 .. MaxThreads - 1
Index   == 0 .. MaxN - 1
NoOne   == MaxThreads    \* g_mtx is free

VARIABLES g_nthreads, g_mtx, g_gen, g_done, g_stop,
          g_n,           \* the published range; g_fn and g_ctx travel with it
          pc,            \* where each thread is
          seen,          \* worker_main's local: the last round it picked up
          range,         \* run_slice's locals lo and hi, as the set [lo, hi)
          arg,           \* the parameter n of the parallel_for in progress
          k,             \* the loop variable of init and of shutdown
          hits           \* how often fn ran on each index of this call

pool == <<g_nthreads, g_gen, g_done, g_stop, g_n>>
vars == <<pool, g_mtx, pc, seen, range, arg, k, hits>>

(* The program points of each thread. *)
MainPC == {"idle", "create", "serial", "lockPublish", "publish", "enter",
           "leave", "lockJoin", "checkDone", "waitDone", "lockStop", "stop",
           "join"}
WorkerPC == {"none", "lockWork", "check", "waitWork", "enter", "leave",
             "lockReport", "report", "exited"}

Live    == 1 .. g_nthreads - 1
Goto(t, l) == pc' = [pc EXCEPT ![t] = l]

\* Mutant: the remainder of n / nth is dropped.
SliceNoRemainder(id, n, nth) ==
    {i \in 0 .. n - 1 : id * (n \div nth) <= i /\ i < (id + 1) * (n \div nth)}

\* run_slice: the share [lo, hi) of thread id.
Slice(id, n, nth) ==
    {i \in 0 .. n - 1 : (id * n) \div nth <= i /\ i < ((id + 1) * n) \div nth}

Init == /\ g_nthreads = 1
        /\ g_mtx = NoOne
        /\ g_gen = 0 /\ g_done = 0 /\ g_stop = FALSE /\ g_n = 0
        /\ pc = [t \in Threads |-> IF t = Main THEN "idle" ELSE "none"]
        /\ seen = [w \in Workers |-> 0]
        /\ range = [t \in Threads |-> {}]
        /\ arg = 0 /\ k = 1
        /\ hits = [i \in Index |-> 0]

\* The predicate of lines 56 and 101, for a value of g_done.
AllDoneButOne(count) == count >= g_nthreads - 2       \* mutant: off by one
AllDone(count) == count = g_nthreads - 1

-----------------------------------------------------------------------------
(* pthread_mutex_lock, and the re-acquisition that ends pthread_cond_wait. *)
Lock(t, from, to) ==
    /\ pc[t] = from
    /\ g_mtx = NoOne
    /\ g_mtx' = t
    /\ Goto(t, to)
    /\ UNCHANGED <<pool, seen, range, arg, k, hits>>

Acquire(t) == \/ Lock(t, "lockWork", "check")
              \/ Lock(t, "lockReport", "report")
              \/ Lock(t, "lockPublish", "publish")
              \/ Lock(t, "lockJoin", "checkDone")
              \/ Lock(t, "lockStop", "stop")

\* POSIX allows pthread_cond_wait to return although nobody signalled.
SpuriousWakeup(t) ==
    /\ \/ pc[t] = "waitWork" /\ Goto(t, "lockWork")
       \/ pc[t] = "waitDone" /\ Goto(t, "lockJoin")
    /\ UNCHANGED <<pool, g_mtx, seen, range, arg, k, hits>>

\* pthread_cond_broadcast(&g_work) while the caller goes on to l.
WakeWorkersAndGoto(l) ==
    pc' = [t \in Threads |-> IF t = Main THEN l
                             ELSE IF pc[t] = "waitWork" THEN "lockWork"
                             ELSE pc[t]]

-----------------------------------------------------------------------------
(* run_slice, on main and on the workers alike. *)

\* g_n and g_nthreads are read with no lock held; an empty share calls nothing.
Enter(t) ==
    /\ pc[t] = "enter"
    /\ range' = [range EXCEPT ![t] = Slice(t, g_n, g_nthreads)]
    /\ Goto(t, "leave")
    /\ UNCHANGED <<pool, g_mtx, seen, arg, k, hits>>

Leave(t) ==
    /\ pc[t] = "leave"
    /\ hits' = [i \in Index |-> IF i \in range[t] THEN hits[i] + 1 ELSE hits[i]]
    /\ range' = [range EXCEPT ![t] = {}]
    /\ Goto(t, IF t = Main THEN "lockJoin" ELSE "lockReport")
    /\ UNCHANGED <<pool, g_mtx, seen, arg, k>>

-----------------------------------------------------------------------------
(* worker_main *)

\* Mutant: the wait of line 48 does not test g_stop.
CheckOnlyGeneration(w) ==
    /\ pc[w] = "check"
    /\ g_mtx' = NoOne
    /\ IF g_gen = seen[w]
       THEN Goto(w, "waitWork") /\ UNCHANGED seen
       ELSE seen' = [seen EXCEPT ![w] = g_gen] /\ Goto(w, "enter")
    /\ UNCHANGED <<pool, range, arg, k, hits>>

\* Lines 48-51: test the predicate, and sleep, exit or take the round.
Check(w) ==
    /\ pc[w] = "check"
    /\ g_mtx' = NoOne
    /\ \/ /\ g_gen = seen[w] /\ ~g_stop
          /\ Goto(w, "waitWork")
          /\ UNCHANGED seen
       \/ /\ g_stop
          /\ Goto(w, "exited")
          /\ UNCHANGED seen
       \/ /\ g_gen # seen[w] /\ ~g_stop
          /\ seen' = [seen EXCEPT ![w] = g_gen]
          /\ Goto(w, "enter")
    /\ UNCHANGED <<pool, range, arg, k, hits>>

\* Mutant: the last worker does not signal g_done_cv.
ReportNoSignal(w) ==
    /\ pc[w] = "report"
    /\ g_mtx' = NoOne
    /\ g_done' = g_done + 1
    /\ Goto(w, "lockWork")
    /\ UNCHANGED <<g_nthreads, g_gen, g_stop, g_n, seen, range, arg, k, hits>>

\* Lines 56-57: count this worker, and wake main if it is the last one.
Report(w) ==
    /\ pc[w] = "report"
    /\ g_mtx' = NoOne
    /\ g_done' = g_done + 1
    /\ pc' = [t \in Threads |->
                IF t = w THEN "lockWork"
                ELSE IF t = Main /\ pc[t] = "waitDone" /\ AllDone(g_done + 1)
                     THEN "lockJoin"
                     ELSE pc[t]]
    /\ UNCHANGED <<g_nthreads, g_gen, g_stop, g_n, seen, range, arg, k, hits>>

-----------------------------------------------------------------------------
\* Mutant: g_gen keeps its value from the last pool, seen starts at 0 again.
ThreadsInitKeepsGen(nthreads) ==
    /\ pc[Main] = "idle"
    /\ g_nthreads = 1
    /\ g_nthreads' = IF nthreads < 1 THEN 1 ELSE nthreads
    /\ g_done' = 0 /\ g_stop' = FALSE
    /\ k' = 1
    /\ Goto(Main, IF nthreads <= 1 THEN "idle" ELSE "create")
    /\ UNCHANGED <<g_gen, g_n, g_mtx, seen, range, arg, hits>>

(* ember_threads_init: no pool is running, as every caller sees to. *)
ThreadsInit(nthreads) ==
    /\ pc[Main] = "idle"
    /\ g_nthreads = 1
    /\ g_nthreads' = IF nthreads < 1 THEN 1 ELSE nthreads
    /\ g_gen' = 0 /\ g_done' = 0 /\ g_stop' = FALSE
    /\ k' = 1
    /\ Goto(Main, IF nthreads <= 1 THEN "idle" ELSE "create")
    /\ UNCHANGED <<g_n, g_mtx, seen, range, arg, hits>>

\* One iteration of the loop around pthread_create; the worker may run at once.
CreateWorker ==
    /\ pc[Main] = "create"
    /\ seen' = [seen EXCEPT ![k] = 0]
    /\ pc' = [pc EXCEPT ![k] = "lockWork",
                        ![Main] = IF k + 1 = g_nthreads THEN "idle" ELSE "create"]
    /\ k' = k + 1
    /\ UNCHANGED <<pool, g_mtx, range, arg, hits>>

-----------------------------------------------------------------------------
(* ember_threads_shutdown *)
ThreadsShutdown ==
    /\ pc[Main] = "idle"
    /\ g_nthreads > 1
    /\ Goto(Main, "lockStop")
    /\ UNCHANGED <<pool, g_mtx, seen, range, arg, k, hits>>

Stop ==
    /\ pc[Main] = "stop"
    /\ g_mtx' = NoOne
    /\ g_stop' = TRUE
    /\ k' = 1
    /\ WakeWorkersAndGoto("join")
    /\ UNCHANGED <<g_nthreads, g_gen, g_done, g_n, seen, range, arg, hits>>

\* pthread_join of worker k; after the last one the pool is gone.
JoinWorker ==
    /\ pc[Main] = "join"
    /\ pc[k] = "exited"
    /\ pc' = [pc EXCEPT ![k] = "none",
                        ![Main] = IF k + 1 = g_nthreads THEN "idle" ELSE "join"]
    /\ k' = k + 1
    /\ g_nthreads' = IF k + 1 = g_nthreads THEN 1 ELSE g_nthreads
    /\ UNCHANGED <<g_gen, g_done, g_stop, g_n, g_mtx, seen, range, arg, hits>>

-----------------------------------------------------------------------------
(* ember_parallel_for *)
ParallelFor(n) ==
    /\ pc[Main] = "idle"
    /\ arg' = n
    /\ hits' = [i \in Index |-> 0]
    /\ Goto(Main, IF g_nthreads <= 1 THEN "serial" ELSE "lockPublish")
    /\ UNCHANGED <<pool, g_mtx, seen, range, k>>

\* Line 89: a pool of one runs the whole range itself.
Serial ==
    /\ pc[Main] = "serial"
    /\ hits' = [i \in Index |-> IF i < arg THEN hits[i] + 1 ELSE hits[i]]
    /\ Goto(Main, "idle")
    /\ UNCHANGED <<pool, g_mtx, seen, range, arg, k>>

\* Mutant: g_done still counts the last round.
PublishKeepsDone ==
    /\ pc[Main] = "publish"
    /\ g_mtx' = NoOne
    /\ g_n' = arg
    /\ g_gen' = (g_gen + 1) % GenMod
    /\ WakeWorkersAndGoto("enter")
    /\ UNCHANGED <<g_nthreads, g_done, g_stop, seen, range, arg, k, hits>>

Publish ==
    /\ pc[Main] = "publish"
    /\ g_mtx' = NoOne
    /\ g_n' = arg
    /\ g_done' = 0
    /\ g_gen' = (g_gen + 1) % GenMod
    /\ WakeWorkersAndGoto("enter")
    /\ UNCHANGED <<g_nthreads, g_stop, seen, range, arg, k, hits>>

\* Line 101: sleep until every worker has reported, then return.
CheckDone ==
    /\ pc[Main] = "checkDone"
    /\ g_mtx' = NoOne
    /\ Goto(Main, IF AllDone(g_done) THEN "idle" ELSE "waitDone")
    /\ UNCHANGED <<pool, seen, range, arg, k, hits>>

-----------------------------------------------------------------------------
\* The steps a thread takes without waiting for g_mtx, once it is called.
WorkerStep(w) == Enter(w) \/ Leave(w) \/ Check(w) \/ Report(w)
MainStep == \/ Enter(Main) \/ Leave(Main) \/ CreateWorker \/ Stop
            \/ JoinWorker \/ Serial \/ Publish \/ CheckDone

\* What the rest of the program asks for.
Request == \/ \E nthreads \in 0 .. MaxThreads : ThreadsInit(nthreads)
           \/ \E n \in 0 .. MaxN : ParallelFor(n)
           \/ ThreadsShutdown

Next == \/ Request
        \/ MainStep
        \/ \E w \in Workers : WorkerStep(w)
        \/ \E t \in Threads : Acquire(t) \/ SpuriousWakeup(t)

Spec == Init /\ [][Next]_vars

(***************************************************************************)
(* Threads that can run do run (weak fairness) and a thread that keeps     *)
(* asking for g_mtx gets it (strong fairness: spurious wakeups let others  *)
(* take the mutex again and again).  Nothing forces requests, and nothing  *)
(* forces spurious wakeups.                                                *)
(***************************************************************************)
Fairness == /\ WF_vars(MainStep)
            /\ \A w \in Workers : WF_vars(WorkerStep(w))
            /\ \A t \in Threads : SF_vars(Acquire(t))

FairSpec == Spec /\ Fairness
-----------------------------------------------------------------------------
(* Properties *)

\* Every variable has its type.
TypeOK ==
    /\ g_nthreads \in 1 .. MaxThreads
    /\ g_mtx \in Threads \cup {NoOne}
    /\ g_gen \in 0 .. GenMod - 1
    /\ g_done \in Nat
    /\ g_stop \in BOOLEAN
    /\ g_n \in 0 .. MaxN
    /\ pc \in [Threads -> MainPC \cup WorkerPC]
    /\ pc[Main] \in MainPC
    /\ \A w \in Workers : pc[w] \in WorkerPC
    /\ seen \in [Workers -> 0 .. GenMod - 1]
    /\ range \in [Threads -> SUBSET Index]
    /\ arg \in 0 .. MaxN
    /\ k \in 1 .. MaxThreads
    /\ hits \in [Index -> Nat]

\* Main is inside ember_parallel_for.
Calling == pc[Main] \in {"serial", "lockPublish", "publish", "enter", "leave",
                         "lockJoin", "checkDone", "waitDone"}

\* A worker is inside run_slice.
InSlice(w) == pc[w] \in {"enter", "leave"}

\* When ember_parallel_for has returned, fn ran exactly once on every index of
\* [0, n), and on no other, and no worker still runs a slice of it, so that
\* ctx is safe to reuse (threads.c:103): the counter of line 56 and the
\* predicate of line 101 make a barrier.
JoinComplete ==
    ~Calling => /\ \A i \in Index : hits[i] = (IF i < arg THEN 1 ELSE 0)
                /\ \A w \in Workers : ~InSlice(w)

\* Nobody changes what run_slice reads without the lock while a worker is in
\* it (threads.c:53: g_fn/g_ctx/g_n are stable for the whole round).
RoundStable ==
    [][(\E w \in Workers : InSlice(w)) => UNCHANGED <<g_n, g_nthreads>>]_vars

\* No wakeup is lost: a worker sleeps on g_work only when there is no round it
\* has not taken and no stop, and main sleeps on g_done_cv only while some
\* worker has not reported.
NoLostWakeup ==
    /\ \A w \in Workers : pc[w] = "waitWork" => seen[w] = g_gen /\ ~g_stop
    /\ pc[Main] = "waitDone" => ~AllDone(g_done)

\* Every ember_parallel_for returns.
CallReturns == Calling ~> ~Calling

\* Every ember_threads_shutdown returns, with all the workers joined.
ShutdownReturns ==
    pc[Main] = "lockStop" ~> /\ pc[Main] = "idle"
                             /\ \A w \in Workers : pc[w] = "none"

\* The pool implements what kernels.h promises of ember_parallel_for.
FJ == INSTANCE ForkJoin WITH running <- Calling, size <- arg
ImplementsForkJoin == FJ!Spec
-----------------------------------------------------------------------------
(***************************************************************************)
(* The inductive invariant.  Its parts say who holds g_mtx, which workers  *)
(* exist, what g_stop means, where the workers can be between rounds and   *)
(* within one, and what g_done and hits count.                             *)
(***************************************************************************)

\* Main has published a round and not returned from it.
InRound == pc[Main] \in {"enter", "leave", "lockJoin", "checkDone", "waitDone"}

\* Worker w has been created and not joined.
Created(w) == CASE pc[Main] = "create" -> w < k
                [] pc[Main] = "join"   -> k <= w /\ w < g_nthreads
                [] OTHER               -> w < g_nthreads

\* Worker w is about to test the predicate of line 48, or asleep on it.
Ready(w) == pc[w] \in {"lockWork", "check", "waitWork"}

\* Worker w has been counted in g_done for the round in progress.
Reported(w) == seen[w] = g_gen /\ Ready(w)

\* Thread t has finished its slice of the round in progress.
Ran(t) == IF t = Main
          THEN pc[t] \in {"lockJoin", "checkDone", "waitDone"}
          ELSE Reported(t) \/ pc[t] \in {"lockReport", "report"}

MutexInv == \A t \in Threads :
                g_mtx = t <=> pc[t] \in {"check", "report", "publish",
                                         "checkDone", "stop"}

ExistInv ==
    /\ \A w \in Workers : pc[w] = "none" <=> ~Created(w)
    /\ pc[Main] \in {"create", "join"} => k < g_nthreads
    /\ InRound \/ pc[Main] \in {"lockPublish", "publish", "lockStop", "stop"}
          => g_nthreads > 1
    /\ pc[Main] = "serial" => g_nthreads = 1

StopInv == /\ g_nthreads > 1 => (g_stop <=> pc[Main] = "join")
           /\ \A w \in Workers : pc[w] = "exited" => g_stop

BetweenRoundsInv ==
    ~InRound => /\ pc[Main] = "create" => g_gen = 0
                /\ \A w \in Workers : Created(w) =>
                      seen[w] = g_gen /\ (Ready(w) \/ pc[w] = "exited")

RoundInv ==
    InRound => /\ g_n = arg
               /\ \A w \in Live : IF seen[w] = g_gen
                                  THEN pc[w] \notin {"none", "exited"}
                                  ELSE Ready(w)

DoneInv == InRound => g_done = Cardinality({w \in Live : Reported(w)})

RangeInv == \A t \in Threads :
               pc[t] = "leave" => range[t] = Slice(t, arg, g_nthreads)

\* Index i is in the slice of a thread that has finished.
Covered(i) == \E t \in 0 .. g_nthreads - 1 :
                 Ran(t) /\ i \in Slice(t, arg, g_nthreads)

HitsInv ==
    \A i \in Index :
        /\ InRound => hits[i] = (IF Covered(i) THEN 1 ELSE 0)
        /\ Calling /\ ~InRound => hits[i] = 0
        /\ ~Calling => hits[i] = (IF i < arg THEN 1 ELSE 0)

\* At every step the pool is where the protocol of threads.c puts it.
PoolInv == /\ TypeOK /\ MutexInv /\ ExistInv /\ StopInv /\ BetweenRoundsInv
           /\ RoundInv /\ DoneInv /\ RangeInv /\ HitsInv /\ NoLostWakeup
=============================================================================
