\* An action, its retry and an action in the opposite direction, with edits from
\* outside and a crash; no health checks.
SPECIFICATION Spec
\* Every request is answered in the end and nothing else happens.
CHECK_DEADLOCK FALSE
CONSTANTS
    r1 = r1
    r2 = r2
    lock = lock
    unlock = unlock
    toVercel = toVercel
    retry = retry
    toVps = toVps
    Runs = {}
    Ops = {toVercel, retry, toVps}
    OpAction <- MCAction
    OpKey <- MCKey
    Expectations <- UntouchedOrHalfway
    OutsideContents <- Edits
    DnsConfigured = TRUE
    CheckInterval = 1
    FailureThreshold = 2
    StaleAfter = 1
    HistoryLimit = 2
    AuditLimit = 3
    MaxTime = 0
    MaxCrashes = 1
SYMMETRY RetrySymmetry
INVARIANTS
    KeyAppliedOnce
PROPERTIES
    DoneMeansMoved
