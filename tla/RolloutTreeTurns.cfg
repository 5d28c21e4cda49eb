CONSTANTS
    Roots = {a}
    Subs = {c1, c2}
    NoParent = NoParent
    MaxDepth = 2
    MaxTurns = 2
    LmRids = {a}
    IncludeChildren = TRUE
SPECIFICATION Spec
SYMMETRY SubSymmetry
CHECK_DEADLOCK FALSE
INVARIANT ParentsRegistered
INVARIANT NoContextOutlivesRoot
PROPERTY NoLmCallWhileTraining
