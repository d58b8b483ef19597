SPECIFICATION Spec
CONSTANTS
    w1 = w1
    Other = Other
    NoOwner = NoOwner
    Acts <- OneWriter
    Writers <- OneWriter
    ChainLength = 2
    MaxAttempts = 2
    CreateMayFail = FALSE
    Operators <- StopOnly
INVARIANT NeverResurrects
CHECK_DEADLOCK FALSE
