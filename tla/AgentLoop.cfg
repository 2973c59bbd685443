CONSTANTS
    Services = {v1, v2}
    MaxIterations = 3
    MaxRetries = 2
    MaxDeaths = 2
    None = None
SPECIFICATION Spec
SYMMETRY Symmetry
CHECK_DEADLOCK FALSE
INVARIANTS
    CallsAreDue
    AskedOnEvidence
    RejectedOnce
    RowsAreTheCalls
PROPERTIES
    AlwaysCloser
    ImplementsDecisionGate
