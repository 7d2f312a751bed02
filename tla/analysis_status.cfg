SPECIFICATION SystemSpec
CONSTANTS
    Sessions = {s1}
    Requests = {r1, r2}
    ProviderIds = {}
    Payloads <- AutoMessages
    MaxInteger = 9
    None = None
    Analyses = {a1, a2}
    Readers = {q1}
    Outcomes = {"completed"}
    Citing = FALSE
SYMMETRY Symmetry
INVARIANTS
    FreshStatusCovers
    StatusSeesStoredRuns
CHECK_DEADLOCK FALSE
