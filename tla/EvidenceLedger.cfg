CONSTANTS
    r = r
    s = s
    k = k
    r1 = r1
    k1 = k1
    k2 = k2
    Roots = {r, s}
    Children = {k}
    ParentOf <- MCParentOf
    RootOf <- MCRootOf
    Cells = {r1, k1, k2}
    NodeOf <- MCNodeOf
    NoLedger = NoLedger
    MaxCalls = 2
    MaxHits = 2
    MaxSearches = 1
    MadeUp <- MCMadeUp
SPECIFICATION Spec
CHECK_DEADLOCK FALSE
INVARIANT TypeOK
INVARIANT FoundIsRecorded
INVARIANT BudgetKept
INVARIANT ContiguousWhenQuiet
PROPERTY EvidenceIsStable
