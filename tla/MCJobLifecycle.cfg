SPECIFICATION FairSpec
CONSTANTS
    a = a
    b = b
    o1 = o1
    Job <- OneJob
    KeepAlive <- OneJob
    Forced <- OneJob
    AutoClose = TRUE
    Op <- OneOperator
    PipeBound = 2
    CmdBound = 2
    CrashBound = 1
    Misprobed <- Nobody
INVARIANT JobTypeOK
INVARIANT DoneIsFinal
PROPERTY SettledStays
PROPERTY CloseEnds
CHECK_DEADLOCK FALSE
