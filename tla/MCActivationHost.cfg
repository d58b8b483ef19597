SPECIFICATION FairSpec
CONSTANTS
    w1 = w1
    Other = Other
    NoOwner = NoOwner
    Acts <- OneWriter
    Writers <- OneWriter
    ChainLength = 2
    MaxAttempts = 2
    CreateMayFail = TRUE
    Operators <- AllCalls
INVARIANT TypeOK
INVARIANT NeverStranded
PROPERTY LoneTurnHoldsLease
PROPERTY StoppedHoldsNothing
PROPERTY StopCompletes
PROPERTY AttemptReports
CHECK_DEADLOCK FALSE
