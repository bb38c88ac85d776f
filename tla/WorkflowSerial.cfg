SPECIFICATION FairSpec
CONSTANTS
    NoPlan = NoPlan
    Handlers = {h1}
    Workflows <- SerialWorkflows
    MaxSecond = 1
    MaxReplays = 1
    MaxRecoveries = 1
    MaxCrashes = 0
    MaxErrors = 1
INVARIANTS StageOrder QueuedOnce CompletedMeansDone FailuresHaveCauses
PROPERTIES FailureIsFinal RunFinishes
CHECK_DEADLOCK FALSE
