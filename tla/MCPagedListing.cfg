CONSTANTS
    Kinds = {"omap", "mirror", "iter", "status", "objects", "nobjects", "dir", "fs"}
    KeyCount = 5
    Match = {1, 2, 4, 5}
    StartAfter = 1
    PageSize = 2
    MaxErrors = 1
SPECIFICATION FairSpec
CHECK_DEADLOCK FALSE
INVARIANTS TypeOK NoGap
PROPERTIES ImplementsListing Terminates
