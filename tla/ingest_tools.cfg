SPECIFICATION Spec
CONSTANTS
    Sessions = {s1, s2}
    Requests = {r1, r2, r3, r4}
    ProviderIds = {}
    Payloads <- ToolPayloads
    MaxInteger = 3
    None = None
SYMMETRY RequestSymmetry
INVARIANTS
    UniquePositions
    AnswersMatchStore
    OwnersStored
CHECK_DEADLOCK FALSE
