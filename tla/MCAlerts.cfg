\* Emissions overlap, the object may crash, and the map is at its limit; or refreshes of
\* one shard whose feeds name three articles, of which two are candidates and one may be
\* reviewed.
SPECIFICATION EmissionSpec
CONSTANTS
    w1 = w1
    o1 = o1
    Wakes = {w1}
    Operators = {o1}
    RateLimit = 1
    PropagationWindow = 1
    SentLimit = 1
    Requests <- VercelOrLock
    Contents <- OneTarget
    CheckInterval = 1
    FailureThreshold = 1
    StaleAfter = 1
    HistoryLimit = 1
    AuditLimit = 1
    MaxTime = 1
    MaxCrashes = 1
    a1 = a1
    a2 = a2
    a3 = a3
    Urls = {a1, a2, a3}
    FeedLists <- MCFeedLists
    Pages <- MCPages
    PublishedOrder <- MCPublishedOrder
    MaxItemsPerFeed = 2
    MaxCandidates = 2
    MaxAiReviews = 1
    RequestedLookups = 2
    EstimatedSubrequests = 10
    ReservedSubrequests = 6
    RetryAfter = 1
    MaxRepeats = 1
INVARIANTS
    NoThumbnailMeansNone
    TurnsGoToOthersOnce
PROPERTIES
    SuppressedWasSent
    FailoverAnnounced
