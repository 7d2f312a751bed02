SPECIFICATION Spec
CONSTANTS
    Detectors <- SomeDetectors
    Penalties = {75, 600}
    MaxCalls = 2
    MaxRetries = 1
    ProviderConfigured = FALSE
    Weights <- EqualWeights
    None = None
INVARIANT FailedTypeNotClean
CHECK_DEADLOCK FALSE
