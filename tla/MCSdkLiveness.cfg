SPECIFICATION Spec
CONSTANTS
    BatchSize = 3
    MaxBufferSize = 2
    MaxAttempts = 2
    DropNewest = TRUE
    Sampling = TRUE
    Invalid = {}
    LateFlush = TRUE
    MaxEvents = 4
PROPERTIES
    CloseReturns
    NothingLingers
CHECK_DEADLOCK FALSE
