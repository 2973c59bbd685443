CONSTANTS
    Harnesses = {h1, h2}
    NScenarios = 3
    Quiet = {2}
    Selections <- WholeOrFirst
    MaxEdits = 2
    MaxKills = 1
    MaxFailures = 1
    CommitsInDoubt = FALSE
    None = None
SPECIFICATION FairSpec
CHECK_DEADLOCK FALSE
INVARIANTS
    OwnEvidenceOnly
    Restorable
    ReportIsWhole
    LossIsBounded
PROPERTIES
    CorpusIsRestored
