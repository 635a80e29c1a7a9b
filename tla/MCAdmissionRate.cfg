SPECIFICATION Spec
CONSTANTS
    Handler = {h1}
    Key = {k1}
    Counts = {1}
    EventLimit = 20
    RequestLimit = 20
    BandwidthLimit = 40
    StorageLimit = 3
    OrgRate = 4
    EnvRate = 4
    KeyRate = 2
    Burst = 1
    Second = 2
    Minute = 4
    MonthLength = 100
    LockWait = FALSE
    StorageLevels = {0}
    MaxTime = 6
    MaxRequests = 8
INVARIANT RateBound
CHECK_DEADLOCK FALSE
