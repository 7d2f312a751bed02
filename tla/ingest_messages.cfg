SPECIFICATION FairSpec
CONSTANTS
    Sessions = {s1}
    Requests = {r1, r2, r3}
    ProviderIds = {p1}
    Payloads <- RacingMessages
    MaxInteger = 2
    None = None
INVARIANTS
    TypeOK
    AutoNumbersLeaveNoGap
    ConflictHasWinner
    ReplayAfterAnswerRefused
PROPERTIES
    EveryRequestAnswered
    ImplementsEventStore
CHECK_DEADLOCK FALSE
