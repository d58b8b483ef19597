\* One question with every route of an answer, and the liveness of answers
CONSTANTS
    q1 = q1
    q2 = q2
    Ask = {q1}
SPECIFICATION FairSpec
INVARIANT InteractionTypeOK
INVARIANT NoSilentLoss
INVARIANT OneAnswer
INVARIANT DeliveredIsConfirmed
PROPERTY ReplyResumes
CHECK_DEADLOCK FALSE
