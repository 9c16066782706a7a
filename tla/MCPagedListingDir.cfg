CONSTANTS
    Kinds = {"fs"}
    KeyCount = 4
    Match = {1, 2, 4}
    StartAfter = 0
    PageSize = 2
    MaxErrors = 1
SPECIFICATION Spec
CHECK_DEADLOCK FALSE
INVARIANT OkIsComplete
