CONSTANTS
    Roots = {a, b}
    Subs = {c1, c2}
    NoParent = NoParent
    PoolSizes = {0, 1, 2}
    Ceilings = {1, 2}
    MaxTurns = 1
SPECIFICATION Spec
CHECK_DEADLOCK FALSE
INVARIANT TypeOK
INVARIANT SizedPoolServes
PROPERTY OnlyExhaustionBlocks
PROPERTY TimeoutsFreeThePool
