SPECIFICATION CmdSpec
CHECK_DEADLOCK FALSE
INVARIANT StatusOfPathIsTold
