CONSTANTS
    Sessions = {s1, s2}
    Items = {1, 2, 3}
    Attempts = {a1, a2}
    None = None
    Reporters = {s1, s2, None}
    Constraints <- SharedResource
    Batches <- HeldItem
    ResourceKeys = {"r"}
    MaxUnits = 3
    UnitsPerSecond = 1
    DeadAfter = 1
    RequeueLimit = 1
    MaxLag = 0
    MaxTime = 2
SYMMETRY IdSymmetry
SPECIFICATION Spec
CHECK_DEADLOCK FALSE
INVARIANTS
    TypeOK
    RunningOwned
    OneAssignment
    OneOutcome
    ResourceLimitHeld
