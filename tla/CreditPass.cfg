CONSTANTS
    Batches <- MCBatches
    Samples = 2
    Rubrics <- MCRubrics
    Modes = {"inherited", "equal", "citation_count", "support"}
    RootModes = {"credit_share", "full_R"}
    Thresholds = {0, 100}
    MaxCites = 2
    Scale = 2
    Unit = 720
    Gamma = 60
    Stride = 4
    DpSize = 2
    Raised = Raised
SPECIFICATION Spec
CHECK_DEADLOCK FALSE
INVARIANT TypeOK
INVARIANT JudgedAsItself
INVARIANT OutageIsSilent
INVARIANT LearnsFromItsNode
PROPERTY CreditAddsUp
