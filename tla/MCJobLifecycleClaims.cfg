SPECIFICATION Spec
CONSTANTS
    a = a
    b = b
    o1 = o1
    Job <- TwoJobs
    KeepAlive <- OneJob
    Forced <- Nobody
    AutoClose = FALSE
    Op <- Nobody
    PipeBound = 2
    CmdBound = 0
    CrashBound = 1
    Misprobed <- OneJob
INVARIANT StartHasAWinner
CHECK_DEADLOCK FALSE
