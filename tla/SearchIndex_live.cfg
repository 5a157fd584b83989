CONSTANTS
    w1 = w1
    w2 = w2
    Emails <- Three
    Unbuildable = {1}
    Refused = {2}
    Batches <- TwoBatches
    Scopes <- AllOrLast
    Workers = {w1, w2}
    ChunkSize = 2
    BatchSize = 2
    PageCap = 1
    Threshold = 2
    JobAttempts = 2
    MaxAttempts = 2
    Env = {"unread", "down", "late", "crash", "stall", "slow", "lost", "wipe", "rebuild", "missing", "delete", "unremoved", "abort"}
    Budget = 1
SPECIFICATION FairSpec
INVARIANTS
    IndexedMeansSearchable
    OutageNotCounted
    RebuildReachesAll
PROPERTIES
    EventuallyIndexed
    PoisonDropsOut
