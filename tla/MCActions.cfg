\* A DNS action and a lock request beside a health-check invocation; or wakes that
\* check the live origin beside a move and lock requests.
SPECIFICATION ActionsSpec
CONSTANTS
    r1 = r1
    r2 = r2
    lock = lock
    unlock = unlock
    toVercel = toVercel
    retry = retry
    toVps = toVps
    Runs = {r1}
    Ops = {toVercel, lock}
    OpAction <- MCAction
    OpKey <- MCKey
    Expectations <- AnyKnown
    OutsideContents <- NoContents
    DnsConfigured = TRUE
    CheckInterval = 1
    FailureThreshold = 2
    StaleAfter = 1
    HistoryLimit = 1
    AuditLimit = 2
    MaxTime = 2
    MaxCrashes = 0
    Movers = {toVps}
    PropagationWindow = 2
    EdgeDelay = 1
    ActionTime = 1
    MaxClock = 3
    MaxFaults = 1
INVARIANTS
    AgreedReadbackIsActive
    HealthyIsHealthy
PROPERTIES
    OwnMoveIsNoMismatch
