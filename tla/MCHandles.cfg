CONSTANTS
    Obj = {o1, o2, o3, o4}
    Res = {r1, r2, r3, r4}
    Nil = Nil
SPECIFICATION Spec
CHECK_DEADLOCK FALSE
SYMMETRY Symmetry
INVARIANTS TypeOK ClosedStaysAway FinalizerSparesUsers
PROPERTIES NilIsCaught HandlesAreKept
