CONSTANTS
    Investigations = {i1}
    StartRequests = {s1}
    DecideRequests = {d1, d2}
    ResumeRequests = {r1}
    MaxRounds = 2
    MaxFailures = 1
    MaxRaises = 1
    MaxResumes = 1
    MaxTxFailures = 0
    MaxDeaths = 1
    None = None
SPECIFICATION OperatorSpec
CHECK_DEADLOCK FALSE
INVARIANTS
    NothingForgotten
PROPERTIES
    DecisionTakesEffect
    InvestigationSettles
