SPECIFICATION FairSpec
CONSTANTS
    Detectors <- SomeDetectors
    Penalties = {75, 600}
    MaxCalls = 2
    MaxRetries = 1
    ProviderConfigured = TRUE
    Weights <- UnequalWeights
    None = None
INVARIANTS
    TypeOK
    CostBounded
    SignalsOfCompletedDetectors
    FindingsShow
    VerdictConsistent
PROPERTY RunEnds
CHECK_DEADLOCK FALSE
