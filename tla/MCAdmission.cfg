SPECIFICATION Spec
CONSTANTS
    Handler = {h1, h2}
    Key = {k1}
    Counts = {0, 2}
    EventLimit = 3
    RequestLimit = 3
    BandwidthLimit = 6
    StorageLimit = 3
    OrgRate = 2
    EnvRate = 2
    KeyRate = 3
    Burst = 1
    Second = 2
    Minute = 4
    MonthLength = 2
    LockWait = TRUE
    StorageLevels = {0, 3}
    MaxTime = 3
    MaxRequests = 4
SYMMETRY Handlers
INVARIANTS
    TypeOK
    QuotaKept
    Metered
    Nested
CHECK_DEADLOCK FALSE
