SPECIFICATION FairSpec
CONSTANTS
    NoPlan = NoPlan
    Handlers = {h1}
    Workflows <- AssetWorkflows
    MaxSecond = 0
    MaxReplays = 0
    MaxRecoveries = 0
    MaxCrashes = 0
    MaxErrors = 0
PROPERTY StagesAdvance
CHECK_DEADLOCK FALSE
