\* Health checks of two overlapping invocations, with a lock that comes and
\* goes and one crash, no Cloudflare bindings; or the backfill script beside the
\* worker, with one or both of its two languages, two rows to a run and pages of
\* one article.
SPECIFICATION HealthSpec
CONSTANTS
    r1 = r1
    r2 = r2
    lock = lock
    unlock = unlock
    toVercel = toVercel
    retry = retry
    toVps = toVps
    Runs = {r1, r2}
    Ops = {lock}
    OpAction <- MCAction
    OpKey <- MCKey
    Expectations <- AnyAgreed
    OutsideContents <- NoContents
    DnsConfigured = FALSE
    CheckInterval = 2
    FailureThreshold = 2
    StaleAfter = 2
    HistoryLimit = 3
    AuditLimit = 2
    MaxTime = 6
    MaxCrashes = 1
    b1 = b1
    b2 = b2
    fr = fr
    ja = ja
    Cards = {b1, b2}
    NewestFirst <- MCNewestFirst
    Codes <- MCCodes
    LanguageChoices <- MCLanguageChoices
    SiteLanguages = {fr, ja}
    Providers = {"local", "openai"}
    BackfillLimit = 2
    CandidateLimit = 2
    CandidatePageSize = 1
SYMMETRY RunSymmetry
INVARIANTS
    TypeOK
    HistorySpaced
    StreakMatchesHistory
    FreshMeansRecentlyChecked
    AlarmInTime
    EarlyOnlyIfNarrow
    HeadwayIsMade
PROPERTIES
    SustainedOutage
    LockFreezesTarget
    ImplementsPromise
