CONSTANTS
    Token = {"a", "b"}
    MaxSeq = 6
    CtxArgs <- MCCtxArgs
    MaxFeed = 3
    MaxNew = 3
    BenchArgs = {0, 1, 3, 4}
    TunePositions = 3
SPECIFICATION Spec
INVARIANT OverflowIsAnError
