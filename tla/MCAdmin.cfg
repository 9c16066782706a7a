SPECIFICATION CmdSpec
CHECK_DEADLOCK FALSE
INVARIANTS
    NilMeansDone
    RefusalsAreTold
