SPECIFICATION Spec
CONSTANTS
    e1 = e1
    e2 = e2
    e3 = e3
    e4 = e4
    e5 = e5
    bad = bad
    Handler = {h1, h2}
    Key = {k1}
    Counts = {2}
    EventLimit = 4
    RequestLimit = 3
    BandwidthLimit = 20
    StorageLimit = 3
    OrgRate = 4
    EnvRate = 4
    KeyRate = 4
    Burst = 1
    Second = 1
    Minute = 1
    MonthLength = 1
    LockWait = TRUE
    StorageLevels = {0, 1, 2, 3, 4, 5, 6, 7, 8, 9, 10, 11}
    MaxTime = 1
    MaxRequests = 3
    Event = {e1, e2, e3, e4, e5, bad}
    Invalid = {bad}
    Batch <- Twins
    RowSize <- RowSizes
    RowLimit = 2
    Retention = 0
    Deletable = FALSE
INVARIANT NeverOvercounted
CHECK_DEADLOCK FALSE
