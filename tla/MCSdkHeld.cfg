SPECIFICATION SafeSpec
CONSTANTS
    BatchSize = 2
    MaxBufferSize = 2
    MaxAttempts = 2
    DropNewest = FALSE
    Sampling = FALSE
    Invalid = {}
    LateFlush = FALSE
    MaxEvents = 4
INVARIANT NeverHoldsMore
CHECK_DEADLOCK FALSE
