CONSTANTS
    Step = {s1}
    NoStep = NoStep
    ReleaseAgain = TRUE
    LastUse = FALSE
SPECIFICATION Spec
CHECK_DEADLOCK FALSE
INVARIANT FreeIsIdempotent
