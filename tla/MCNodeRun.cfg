SPECIFICATION FairSpec
CONSTANTS
    m1 = m1
    c = c
    Member <- OneMember
    Spawned <- OneMember
    Coordinator = c
    Strategy = {"pr", "manual"}
    Mute <- NoPipe
    OutBound <- OneSpeaks
    CommandBound = 1
INVARIANT NodeTypeOK
 
 
PROPERTY NodeReturns
CHECK_DEADLOCK FALSE
