CONSTANTS
    Migrators = {m1, m2}
    NFiles = 4
    FirstFiles = {1, 3}
    Needs <- OneChain
    MaxReleases = 2
    MaxResets = 2
    MaxKills = 1
    None = None
SPECIFICATION FairSpec
CHECK_DEADLOCK FALSE
INVARIANTS
    LedgerMatchesSchema
PROPERTIES
    GetsUpToDate
