SPECIFICATION FairSpec
CONSTANTS
    Task = {t1, t2}
    Session = {s1}
    Conn = {c1, c2}
    Capacity = 1
    NoConn = NoConn
    NoLock = NoLock
PROPERTIES LossEndsTheBody EveryQueryEnds EveryLockIsFreed
