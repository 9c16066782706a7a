CONSTANTS
    Step = {s1}
    NoStep = NoStep
    ReleaseAgain = FALSE
    LastUse = FALSE
SPECIFICATION Spec
CHECK_DEADLOCK FALSE
INVARIANT OnlyPerformedIsRead
