\* A record somebody pointed elsewhere.
SPECIFICATION Spec
CONSTANTS
    w1 = w1
    o1 = o1
    Wakes = {w1}
    Operators = {}
    RateLimit = 2
    PropagationWindow = 1
    SentLimit = 8
    Requests <- NoRequests
    Contents <- Unmanaged
    CheckInterval = 1
    FailureThreshold = 1
    StaleAfter = 1
    HistoryLimit = 1
    AuditLimit = 1
    MaxTime = 1
    MaxCrashes = 0
PROPERTIES
    DriftIsAlerted
