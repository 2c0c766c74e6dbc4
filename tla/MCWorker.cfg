\* Two shards, an article in two languages, two feeds' runs, two databases and three
\* clients' requests; one fault in each behaviour.
SPECIFICATION MCSpec
CONSTANTS
    s1 = s1
    s2 = s2
    u1 = u1
    fr = fr
    de = de
    cache = cache
    r1 = r1
    r2 = r2
    w1 = w1
    w2 = w2
    c1 = c1
    c2 = c2
    q1 = q1
    q2 = q2
    q3 = q3
    MaxFaults = 1
    Shards = {s1, s2}
    Articles = {u1}
    Languages = {fr, de}
    TaskLimit = 2
    Lookback = 2
    FeedShards = {s1, s2}
    FeedLanguages = 2
    Caches = {cache}
    MaxContents = 2
    SoftLimit = 50
    ConfiguredReserve = 8
    TaskCost = 2
    TaskBudget = 6
    Estimates = {0, 20, 30, 38, 40, 41, 42, 43, 49, 60}
    FeedRuns = {r1, r2}
    MaxFetches = 4
    TaskCount = 2
    Callers = {w1, w2}
    DbShards = {s1, s2}
    MaxWrites = 1
    ShardCount = 2
    RunInterval = 2
    CronPeriod = 2
    MaxDelay = 1
    Cycles = {c1, c2}
    Requests = {q1, q2, q3}
    Limit = 3
    Window = 5
INVARIANTS
    PublishedIsTranslated
    NoneForgotten
    RememberedIsReviewed
    AcceptedIsSaved
    NamedRefreshIsContained
    LagIsReported
    TranslationsPersistable
    RunIsRecorded
    FeedHealthSound
    ProvidersExhausted
    CutoverLosesNothing
    ScheduleKept
    LimitHeld
PROPERTIES
    ImplementsPromise
    PendingIsTranslated
    FreedUnlessOrphaned
