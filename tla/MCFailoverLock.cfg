\* A lock request while a DNS action waits for Cloudflare.
SPECIFICATION Spec
\* Every request is answered in the end and nothing else happens.
CHECK_DEADLOCK FALSE
CONSTANTS
    r1 = r1
    r2 = r2
    lock = lock
    unlock = unlock
    toVercel = toVercel
    retry = retry
    toVps = toVps
    Runs = {}
    Ops = {toVercel, lock}
    OpAction <- MCAction
    OpKey <- MCKey
    Expectations <- AnyKnown
    OutsideContents <- NoContents
    DnsConfigured = TRUE
    CheckInterval = 1
    FailureThreshold = 2
    StaleAfter = 1
    HistoryLimit = 2
    AuditLimit = 2
    MaxTime = 0
    MaxCrashes = 0
PROPERTIES
    LockHeldUntilDisabled
