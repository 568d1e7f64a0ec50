SPECIFICATION MCSpec
CONSTANTS
    p1 = p1
    p2 = p2
    c1 = c1
    c2 = c2
    c3 = c3
    Process <- Processes
    Conn <- Conns
    Pool <- Pools
    Task = {t1, t2, t3}
    Dispatch = {d1, d2, d3}
    MaxLocks = 2
    NoConn = NoConn
    NoDispatch = NoDispatch
    MaxFaults = 2
SYMMETRY Symmetry
INVARIANT TypeOK ReleasesOwnLock SlotsAreUsed ConnsAccountedFor
PROPERTY MutexSpec
CHECK_DEADLOCK FALSE
