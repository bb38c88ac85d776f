CONSTANTS
    Sessions = {s1}
    Items = {1}
    Attempts = {a1}
    None = None
    Reporters = {s1}
    Constraints <- NoConstraints
    Batches <- SingleItem
    ResourceKeys = {"r"}
    MaxUnits = 3
    UnitsPerSecond = 2
    DeadAfter = 2
    RequeueLimit = 1
    MaxLag = 0
    MaxTime = 5
SPECIFICATION Spec
CHECK_DEADLOCK FALSE
PROPERTY
    LiveSessionsKeepWork
