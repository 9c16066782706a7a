CONSTANTS
    Step = {s1, s2, s3}
    NoStep = NoStep
    ReleaseAgain = FALSE
    LastUse = FALSE
SPECIFICATION FairSpec
CHECK_DEADLOCK FALSE
INVARIANTS TypeOK NilMeansResults NoFault
PROPERTY Reclaimed
