CONSTANTS
    Obj = {o1, o2, o3}
    Res = {r1, r2, r3}
    Nil = Nil
SPECIFICATION Spec
CHECK_DEADLOCK FALSE
INVARIANT ClosedImageIsTold
