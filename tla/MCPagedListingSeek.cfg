CONSTANTS
    Kinds = {"nobjects"}
    KeyCount = 4
    Match = {1, 2, 4}
    StartAfter = 0
    PageSize = 2
    MaxErrors = 0
SPECIFICATION SeekSpec
CHECK_DEADLOCK FALSE
PROPERTY ValueIsEntry
