SPECIFICATION Spec
CONSTANTS
    NoPlan = NoPlan
    Handlers = {h1, h2}
    Workflows <- OverlapWorkflows
    MaxSecond = 0
    MaxReplays = 0
    MaxRecoveries = 0
    MaxCrashes = 0
    MaxErrors = 0
INVARIANT StageOrder
CHECK_DEADLOCK FALSE
