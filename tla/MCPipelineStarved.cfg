\* Two articles in the table and a lookback of one; no call fails.
SPECIFICATION FairSpec
CONSTANTS
    s1 = s1
    u1 = u1
    u2 = u2
    fr = fr
    Shards = {s1}
    Articles = {u1, u2}
    Languages = {fr}
    TaskLimit = 1
    Lookback = 1
    MaxFaults = 0
PROPERTY PendingIsTranslated
