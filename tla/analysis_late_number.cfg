SPECIFICATION SystemSpec
CONSTANTS
    Sessions = {s1}
    Requests = {r1, r2}
    ProviderIds = {}
    Payloads <- NumberedMessages
    MaxInteger = 9
    None = None
    Analyses = {a1}
    Readers = {q1}
    Outcomes = {"completed"}
    Citing = FALSE
SYMMETRY Symmetry
INVARIANT FreshStatusCovers
CHECK_DEADLOCK FALSE
