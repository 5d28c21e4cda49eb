CONSTANTS
    MaxCells = 2
    MaxTime = 14
    Second = 2
    Timeout = 4
    MinRearm = 2
    MaxChildren = 3
    MaxBatch = 3
    None = None
    Lingering = TRUE
SPECIFICATION Spec
CHECK_DEADLOCK FALSE
INVARIANT WaitsNotCharged
