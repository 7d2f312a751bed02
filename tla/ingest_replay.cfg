SPECIFICATION Spec
CONSTANTS
    Sessions = {s1}
    Requests = {r1, r2}
    ProviderIds = {p1}
    Payloads <- MessagePayloads
    MaxInteger = 9
    None = None
SYMMETRY RequestSymmetry
INVARIANT ProviderIdStoredOnce
CHECK_DEADLOCK FALSE
