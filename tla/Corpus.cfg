CONSTANTS
    Seeders = {e1, e2}
    Indexers = {x1}
    Sweepers = {w1, w2}
    Searchers = {a1}
    Versions = {v1, v2}
    Settings <- TwoSettings
    Grid <- OneSetting
    MaxRunning = 3
    MaxKills = 1
    None = None
SPECIFICATION Spec
CHECK_DEADLOCK FALSE
SYMMETRY Symmetry
INVARIANTS
    CorpusIsConsistent
    DeadlocksAreAmongAKind
PROPERTIES
    SearchSurvivesReindexing
