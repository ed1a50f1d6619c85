CONSTANTS
    MaxThreads = 4
    MaxN = 4
    GenMod = 2
SPECIFICATION FairSpec
INVARIANTS JoinComplete PoolInv
PROPERTIES RoundStable CallReturns ShutdownReturns ImplementsForkJoin
