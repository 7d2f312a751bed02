SPECIFICATION SystemSpec
CONSTANTS
    Sessions = {s1}
    Requests = {r1, r2, r3}
    ProviderIds = {}
    Payloads <- ToolTraffic
    MaxInteger = 9
    None = None
    Analyses = {a1}
    Readers = {}
    Outcomes = {"completed", "partial", "failed"}
    Citing = TRUE
SYMMETRY Symmetry
INVARIANTS
    AnalysisTypeOK
    RunsAtomic
    EvidenceInInput
PROPERTY ImplementsAnalysisStore
CHECK_DEADLOCK FALSE
