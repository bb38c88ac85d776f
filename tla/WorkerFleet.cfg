SPECIFICATION Spec
CONSTANTS
    Slots = {1, 2}
    Items = {i1}
    None = None
    DeadAfter = 2
    InflightStartTimeout = 1
    FallbackInterval = 1
    RetryMaximum = 2
    MaxActiveWorkers = 2
    RequeueLimit = 1
    MaxPassTicks = 1
    MaxFaults = 1
INVARIANTS SignalNotLost
PROPERTIES HolderDecides FleetComesToRest
