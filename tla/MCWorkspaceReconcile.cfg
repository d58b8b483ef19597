SPECIFICATION FairReconcileSpec
CONSTANTS
    p1 = p1
    p2 = p2
    p3 = p3
    a1 = a1
    a2 = a2
    NoLease = NoLease
    NoProcess = NoProcess
    NoAct = NoAct
    Nothing = Nothing
    Pids <- ThreePids
    Acts <- TwoActs
    Verifiers <- ThreePids
    Coordinators <- NoPids
    Crashable <- TwoPids
    Reconcilers <- LastPid
    OnlyReported = TRUE
    MaxClock = 3
INVARIANT ReconcileTypeOK
INVARIANT RemovalIsRecorded
PROPERTY RecoversMutex
PROPERTY DeadHolderIsFreed
CHECK_DEADLOCK FALSE
