CONSTANTS
    Approvals = {k1}
    Args = {a1, a2}
    Runners = {r1}
    Requests = {q1, q2}
    MaxAttempts = 2
    MaxRuns = 3
    None = None
SPECIFICATION FairSpec
CHECK_DEADLOCK FALSE
INVARIANTS
    AppliedAsApproved
    PostsAreAccountedFor
    RecordsAgree
PROPERTIES
    ExecutedIsFinal
    ActEnds
