CONSTANTS
    W = {w1}
    CB = {c1, c2}
    App = {a1, a2}
    NoThread = NoThread
    NoWatcher = NoWatcher
SPECIFICATION FairSpec
CHECK_DEADLOCK FALSE
INVARIANTS TypeOK RegisteredIsLive NoDoubleClose
PROPERTIES NoNewSelectAfterClose ImplementsService
    DeleteEndsLoops CallbackReturns BlockedIsServed FlushReturns
