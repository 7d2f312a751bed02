SPECIFICATION Spec
CONSTANTS
    None = None
    NotANumber = NotANumber
    Similarity <- SomeSimilarity
    Reply <- SomeReply
    FactsIn <- SomeFacts
    Support <- FaintSupport
    Providers = {"keen"}
    Sayings <- SomeSayings
    ResultSet <- SomeResults
    DetectionTypes <- AllTypes
    Corpus <- SomeCorpus
    Labels <- SomeLabels
    MaxNumber = 2
    MaxScenario = 0
    STALENESS_TURN_THRESHOLD = 10
    OMISSION_LOOKAHEAD = 10
    NEGLECT_LOOKAHEAD = 3
    LOOKBACK_WINDOW = 20
    WINDOW_SIZE = 4
    MIN_WINDOW_WORDS = 6
    MIN_HISTORY = 6
    MIN_MESSAGES = 12
    RECENT_WINDOW = 6
    CONTRADICTION_LOOKBACK = 6
    INSTRUCTION_LOOKAHEAD = 5
    CLAIM_SUPPORT_LOOKBACK_MESSAGES = 8
INVARIANT EmittedClearsFloor
CHECK_DEADLOCK FALSE
