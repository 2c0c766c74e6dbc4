\* A wake and an operator emit at the same time.
SPECIFICATION Spec
CONSTANTS
    w1 = w1
    o1 = o1
    Wakes = {w1}
    Operators = {o1}
    RateLimit = 2
    PropagationWindow = 1
    SentLimit = 8
    Requests <- Locks
    Contents <- OneTarget
    CheckInterval = 1
    FailureThreshold = 1
    StaleAfter = 1
    HistoryLimit = 1
    AuditLimit = 1
    MaxTime = 2
    MaxCrashes = 0
PROPERTIES
    RateLimited
