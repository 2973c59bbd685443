CONSTANTS
    Investigations = {i1}
    StartRequests = {s1}
    DecideRequests = {d1}
    ResumeRequests = {}
    MaxRounds = 1
    MaxFailures = 1
    MaxRaises = 0
    MaxResumes = 1
    MaxTxFailures = 0
    MaxDeaths = 0
    None = None
SPECIFICATION Spec
CHECK_DEADLOCK FALSE
INVARIANT AwaitingMeansPending
