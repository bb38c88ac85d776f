CONSTANTS
    Sessions = {s1, s2}
    Items = {1}
    Attempts = {a1, a2, a3}
    None = None
    Reporters = {s1, s2}
    Constraints <- NoConstraints
    Batches <- SingleItem
    ResourceKeys = {"r"}
    MaxUnits = 3
    UnitsPerSecond = 2
    DeadAfter = 2
    RequeueLimit = 1
    MaxLag = 1
    MaxTime = 5
SYMMETRY IdSymmetry
SPECIFICATION Spec
CHECK_DEADLOCK FALSE
INVARIANTS
    RetryCeiling
    NoWorkLost
PROPERTIES
    DeadSessionsStayDead
    RecoveryAtomic
    OutcomesFenced
    ExpiredOnlyWhenSilent
    ImplementsLeases
