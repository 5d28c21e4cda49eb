CONSTANTS
    NItems = 3
    AbortAfter = {2}
    MaxCrashes = 2
    MaxErrors = 1
SPECIFICATION Spec
INVARIANT TypeOK
INVARIANT OneRowPerItem
INVARIANT CrashCostsOneLine
PROPERTY OthersAnswered
CHECK_DEADLOCK FALSE
