SPECIFICATION FairSpec
CONSTANTS
    Conns = {a, b, c}
    Closers = {k1, k2}
    NoConn = NoConn
INVARIANTS
    WaitGroupExact
    CloseDrains
PROPERTIES
    NoAddWhileWaiting
    KeepsPromise
    CloseReturns
CHECK_DEADLOCK FALSE
