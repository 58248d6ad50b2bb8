SPECIFICATION FairSpec
CONSTANTS
    Items = {i1}
    Workers = {w1, w2}
    Bundles = {b1}
    TTLs = {1}
    MaxTime = 3
    MaxCrash = 1
    NoWorker = NoWorker
    NoItem = NoItem
PROPERTY ExpiredClaimReturned
CHECK_DEADLOCK FALSE
