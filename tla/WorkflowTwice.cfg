SPECIFICATION Spec
CONSTANTS
    NoPlan = NoPlan
    Handlers = {h1, h2}
    Workflows <- OverlapWorkflows
    MaxSecond = 0
    MaxReplays = 1
    MaxRecoveries = 0
    MaxCrashes = 0
    MaxErrors = 0
INVARIANT QueuedOnce
CHECK_DEADLOCK FALSE
