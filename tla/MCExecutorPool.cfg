SPECIFICATION ExecFairSpec
CONSTANTS
    i1 = i1
    comment1 = comment1
    merge1 = merge1
    close1 = close1
    fix1 = fix1
    Items <- OneItem
    Workers = {s1, a1}
    Servers = {s1}
    Bundles = {b1}
    TTLs = {1}
    MaxTime = 1
    MaxCrash = 1
    NoWorker = NoWorker
    NoItem = NoItem
    Threads = {t1, t2}
    Intents = {comment1, close1}
    ItemOf <- OfOneItem
    ActionOf <- Kinds
    Plans <- LivePlan
    Batches <- CommentOrClose
    Live = TRUE
    MaxGlobal = 1
    ReadsFail = FALSE
    MaxPlans = 1
    MaxLanded = 2
    NoThread = NoThread
CHECK_DEADLOCK FALSE
PROPERTY WritesFollowTheLedger
PROPERTY WorkIsTaken
