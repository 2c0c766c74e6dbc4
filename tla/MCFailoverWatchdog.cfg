\* The alarm chain and the cron wakes; a crash may lose the alarm.
SPECIFICATION FairSpec
CONSTANTS
    r1 = r1
    r2 = r2
    lock = lock
    unlock = unlock
    toVercel = toVercel
    retry = retry
    toVps = toVps
    Runs = {r1, r2}
    Ops = {lock, toVercel}
    OpAction <- MCAction
    OpKey <- MCKey
    Expectations <- AnyKnown
    OutsideContents <- NoContents
    DnsConfigured = FALSE
    CheckInterval = 2
    FailureThreshold = 2
    StaleAfter = 2
    HistoryLimit = 1
    AuditLimit = 1
    MaxTime = 4
    MaxCrashes = 1
PROPERTIES
    DueIsChecked
    AlarmChainSuffices
