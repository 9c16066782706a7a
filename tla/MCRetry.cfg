CONSTANTS
    MinSize = 1
    MaxSize = 11
    MaxLen = 13
SPECIFICATION FairSpec
CHECK_DEADLOCK FALSE
INVARIANTS TypeOK GivesUpOnlyAtMax ExactHintTwice
PROPERTY Terminates
