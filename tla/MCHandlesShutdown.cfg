CONSTANTS
    Obj = {o1, o2}
    Res = {r1, r2}
    Nil = Nil
SPECIFICATION Spec
CHECK_DEADLOCK FALSE
PROPERTY ShutdownIsNoticed
