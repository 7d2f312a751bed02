SPECIFICATION Spec
CONSTANTS
    None = None
    NotANumber = NotANumber
    Similarity <- SomeSimilarity
    Reply <- SomeReply
    FactsIn <- SomeFacts
    Support <- SomeSupport
    Providers = {"keen", "wary"}
    Sayings <- SomeSayings
    ResultSet <- SomeResults
    DetectionTypes <- AllTypes
    Corpus <- SomeCorpus
    Labels <- SomeLabels
    MaxNumber = 5
    MaxScenario = 3
    STALENESS_TURN_THRESHOLD = 2
    OMISSION_LOOKAHEAD = 2
    NEGLECT_LOOKAHEAD = 2
    LOOKBACK_WINDOW = 2
    WINDOW_SIZE = 1
    MIN_WINDOW_WORDS = 1
    MIN_HISTORY = 2
    MIN_MESSAGES = 4
    RECENT_WINDOW = 2
    CONTRADICTION_LOOKBACK = 2
    INSTRUCTION_LOOKAHEAD = 2
    CLAIM_SUPPORT_LOOKBACK_MESSAGES = 2
INVARIANTS
    FlipNotHidden
    AnsweredSessionAnalyzed
    SilentWithoutProvider
    RefutedClaimsShow
    TotalsMatchScenarios
    EverySignalCalibrated
PROPERTIES
    FindingsPersist
    NeglectSettles
CHECK_DEADLOCK FALSE
