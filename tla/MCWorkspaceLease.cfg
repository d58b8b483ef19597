SPECIFICATION FairSpec
CONSTANTS
    p1 = p1
    p2 = p2
    p3 = p3
    a1 = a1
    a2 = a2
    NoLease = NoLease
    NoProcess = NoProcess
    NoAct = NoAct
    Pids <- ThreePids
    Acts <- TwoActs
    Verifiers <- TwoPids
    Coordinators <- OnePid
    Crashable <- TwoPids
    MaxClock = 4
INVARIANT TypeOK
INVARIANT WriterHolds
PROPERTY NeverStolen
PROPERTY ImplementsMutex
PROPERTY ContentionHasAWinner
CHECK_DEADLOCK FALSE
