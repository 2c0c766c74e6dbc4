\* Runs of two shards that share an article, with two faults.
SPECIFICATION Spec
CONSTANTS
    s1 = s1
    s2 = s2
    r1 = r1
    r2 = r2
    r3 = r3
    t1 = t1
    u1 = u1
    u2 = u2
    Gone = Gone
    Shards = {s1, s2}
    Refreshers = {r1, r3}
    Translators = {t1}
    Articles = {u1}
    ShardOf <- MCShardOf
    Feed <- MCFeed
    LockTtl = 2
    ReviewTtl = 3
    MaxReviews = 1
    QueueLimit = 2
    DbArticleLimit = 2
    SlowAfter = 1
    MaxFaults = 2
INVARIANTS
    OverlapMeansExpired
    NoRepeatedReview
