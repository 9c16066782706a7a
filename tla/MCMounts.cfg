SPECIFICATION Spec
CONSTANTS
    Obj = {o1, o2, o3, o4}
    Res = {r1, r2, r3, r4}
    Fd = {n1, n2}
    Nil = Nil
SYMMETRY Symmetry
CHECK_DEADLOCK FALSE
INVARIANTS
    TypeOK
    StaleOnlyInStreams
    FilesStayApart
