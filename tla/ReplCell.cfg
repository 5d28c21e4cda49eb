CONSTANTS
    MaxCells = 2
    MaxTime = 10
    Second = 2
    Timeout = 4
    MinRearm = 2
    MaxChildren = 2
    MaxBatch = 2
    None = None
    Lingering = FALSE
SPECIFICATION Spec
CHECK_DEADLOCK FALSE
INVARIANT TypeOK
INVARIANT WaitsNotCharged
INVARIANT SecondsAccounted
INVARIANT AnswersDelivered
INVARIANT FanOutCapped
