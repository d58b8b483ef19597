SPECIFICATION ReconcileSpec
CONSTANTS
    p1 = p1
    p2 = p2
    p3 = p3
    a1 = a1
    a2 = a2
    NoLease = NoLease
    NoProcess = NoProcess
    NoAct = NoAct
    Nothing = Nothing
    Pids <- ThreePids
    Acts <- TwoActs
    Verifiers <- ThreePids
    Coordinators <- NoPids
    Crashable <- LastPid
    Reconcilers <- TwoPids
    OnlyReported = TRUE
    MaxClock = 3
PROPERTY LiveWriterNeverReconciled
CHECK_DEADLOCK FALSE
