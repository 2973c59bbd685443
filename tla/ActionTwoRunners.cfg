CONSTANTS
    Approvals = {k1}
    Args = {a1, a2}
    Runners = {r1, r2}
    Requests = {q1, q2, q3}
    MaxAttempts = 2
    MaxRuns = 3
    None = None
SPECIFICATION Spec
SYMMETRY Symmetry
CHECK_DEADLOCK FALSE
INVARIANTS
    AppliedAtMostOnce
    ExecutedMeansApplied
PROPERTIES
    ImplementsAtMostOnce
