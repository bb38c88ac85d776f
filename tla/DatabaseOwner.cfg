SPECIFICATION Spec
CONSTANTS
    Controllers = {c1, c2, c3}
    None = None
    Overlap = TRUE
INVARIANT OneOwner
CHECK_DEADLOCK FALSE
