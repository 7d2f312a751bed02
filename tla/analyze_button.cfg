SPECIFICATION FairButtonSpec
CONSTANTS
    Clients = {proxy}
    Proxy = proxy
    Limit = 2
    Window = 2
    MaxClock = 4
    Tabs = {t1}
    Clicks = {1, 2, 3}
    Timeout = 1
    LastClick = 2
    None = None
INVARIANTS
    ButtonTypeOK
    WindowBound
    RefusedForCause
    RetryAfterSuffices
    ToldTruth
PROPERTY ButtonComesBack
CHECK_DEADLOCK FALSE
