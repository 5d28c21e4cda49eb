CONSTANTS
    Batches <- MCTree
    Samples = 2
    Rubrics <- MCNegative
    Modes = {"support"}
    RootModes = {"credit_share"}
    Thresholds = {0}
    MaxCites = 1
    Scale = 2
    Unit = 720
    Gamma = 60
    Stride = 4
    DpSize = 2
    Raised = Raised
SPECIFICATION Spec
CHECK_DEADLOCK FALSE
PROPERTY SupportedCreditIsR
