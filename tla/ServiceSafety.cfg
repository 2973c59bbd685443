CONSTANTS
    Investigations = {i1}
    StartRequests = {s1, s2}
    DecideRequests = {d1, d2}
    ResumeRequests = {r1}
    MaxRounds = 2
    MaxFailures = 4
    MaxRaises = 2
    MaxResumes = 1
    MaxTxFailures = 1
    MaxDeaths = 1
    None = None
SPECIFICATION Spec
CHECK_DEADLOCK FALSE
SYMMETRY Symmetry
INVARIANTS
    ActsOnlyWhenDecided
    CompleteMeansDone
    NoUnaskedRetry
    OneJobPerInvestigation
PROPERTIES
    DecisionIsFinal
    ImplementsDecisionGate
