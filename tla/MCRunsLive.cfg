SPECIFICATION FairSpec
CONSTANTS
    s1 = s1
    s2 = s2
    r1 = r1
    r2 = r2
    r3 = r3
    t1 = t1
    u1 = u1
    u2 = u2
    Gone = Gone
    Shards = {s1}
    Refreshers = {r1, r2}
    Translators = {}
    Articles = {u1, u2}
    ShardOf <- MCShardOf
    Feed <- MCFeed
    LockTtl = 1
    ReviewTtl = 3
    MaxReviews = 1
    QueueLimit = 2
    DbArticleLimit = 3
    SlowAfter = 1
    MaxFaults = 1
PROPERTY EventuallyReviewed
