SPECIFICATION Spec
CONSTANTS
    Task = {t1, t2}
    Session = {s1, s2}
    Conn = {c1, c2, c3}
    Capacity = 2
    NoConn = NoConn
    NoLock = NoLock
SYMMETRY Symmetry
INVARIANTS PooledConnectionsAreClean NoOrphanLock CleanExitWasExclusive Exclusive
PROPERTY ImplementsLease
