CONSTANTS
    W = {w1}
    CB = {c1}
    App = {a1}
    NoThread = NoThread
    NoWatcher = NoWatcher
SPECIFICATION Spec
CHECK_DEADLOCK FALSE
INVARIANT DeletedIsClosed
