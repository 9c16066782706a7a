CONSTANTS
    Image = {i1, i2}
    CImage = {p1, p2, p3}
    Watch = {w1, w2, w3}
    Handle = {h1, h2}
    CbThread = {t1}
    IdCount = 4
    Nil = Nil
SPECIFICATION Spec
CHECK_DEADLOCK FALSE
SYMMETRY Symmetry
INVARIANTS TypeOK RegisteredHasEntry CallbackFindsItsWatch
PROPERTY LeaksOnlyOnMisuse
