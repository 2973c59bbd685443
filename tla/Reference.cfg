CONSTANTS
    MaxHeld = 2
    MaxWords = 4
    WordLengths = {1, 3, 10}
    Separators = {0, 1, 2, 3}
    Overlaps = {3, 5}
    ChunkMax = 8
    Ids = {1, 2, 3, 4}
    Figures = 41
    MaxTokens = 5
    Grain = 100
    SampleLines = 3
    SignatureLines = 2
    Archetypes <- TwoArchetypes
    Phrasings <- TheirPhrasings
    Failing <- FailureWords
    None = None
    TextCases <- MCTextCases
    SearchCases <- MCSearchCases
    ConfigCases <- MCConfigCases
    HeldCases <- MCHeldCases
    GradeCases <- MCGradeCases
    RegradeCases <- MCRegradeCases
    ReportCases <- MCReportCases
    SheetCases <- MCSheetCases
    CompareCases <- MCCompareCases
    AnswerCases <- MCAnswerCases
    MetricCases <- MCMetricCases
    LogCases <- MCLogCases
SPECIFICATION Spec
CHECK_DEADLOCK FALSE
INVARIANTS
    ChunksCoverTheText
    SearchKeepsTheBest
    ConclusionsAreRead
    RegradeIsGrading
    FiguresAreOfTheResults
    DifferencesAddUp
    NothingSeenIsLost
