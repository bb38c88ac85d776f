SPECIFICATION Spec
CONSTANTS
    NoPlan = NoPlan
    Handlers = {h1, h2}
    Workflows <- RacingWorkflows
    MaxSecond = 1
    MaxReplays = 1
    MaxRecoveries = 0
    MaxCrashes = 1
    MaxErrors = 0
INVARIANTS DependentsWait OutputsPrecede
SYMMETRY HandlerSymmetry
CHECK_DEADLOCK FALSE
