SPECIFICATION SafeSpec
CONSTANTS
    BatchSize = 2
    MaxBufferSize = 3
    MaxAttempts = 2
    DropNewest = FALSE
    Sampling = FALSE
    Invalid = {2}
    LateFlush = FALSE
    MaxEvents = 6
INVARIANTS
    TypeOK
    Ledger
    HeldBound
    InOrder
    SentIsStored
    CloseDrains
PROPERTY PromiseKept
CHECK_DEADLOCK FALSE
