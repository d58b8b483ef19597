\* Two models, two attempts each, a resumed turn; the stall timer alone ends a silent turn
CONSTANTS
    Models = 2
    MaxAttempts = 2
    MaxTurns = 2
    Pipe = 2
SPECIFICATION FairSpec
INVARIANT SessionTypeOK
INVARIANT DoneIsEarned
INVARIANT KilledTurnFails
PROPERTY RunRests
CHECK_DEADLOCK FALSE
