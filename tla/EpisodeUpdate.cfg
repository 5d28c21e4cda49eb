CONSTANTS
    MaxTurns = 1
    Drafts = {u}
    Uncited = {u}
    MaxStrays = 0
    Empty = Empty
    None = None
    BounceOn = TRUE
    SalvageOn = FALSE
SPECIFICATION Spec
CHECK_DEADLOCK FALSE
PROPERTY FlipIsCaptured
