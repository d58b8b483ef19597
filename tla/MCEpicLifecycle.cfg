SPECIFICATION FairSpec
CONSTANTS
    prep = prep  c1 = c1  c2 = c2  r1 = r1  r2 = r2  m1 = m1  v1 = v1
    Prep = prep
    Chain = {c1, c2}
    Job = {r1, r2}
    ChainOf <- ChainOfReview
    Reviewer = {r1, r2}
    Earlier <- SecondPassed
    Orphaned = {c1}
    Cmd = {m1}
    Kinds = {"sync", "abandon", "force", "merge", "pr", "chain"}
    Viewer = {v1}
    CrashBound = 1
INVARIANT EpicTypeOK
PROPERTY MergedIsPublished
PROPERTY FinalIsRespected
PROPERTY RowConverges
CHECK_DEADLOCK FALSE
