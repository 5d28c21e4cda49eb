CONSTANTS
    Roots = {a}
    Subs = {c1, c2}
    NoParent = NoParent
    MaxDepth = 2
    MaxTurns = 1
    LmRids = {}
    IncludeChildren = TRUE
SPECIFICATION Spec
SYMMETRY SubSymmetry
CHECK_DEADLOCK FALSE
PROPERTY NoEngineCallWhileTraining
