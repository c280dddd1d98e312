SPECIFICATION FairSpec
CONSTANTS
    Task = {t1, t2, t3}
    Db = {d1, probe}
    Probe = probe
    Handle = {n1, a1}
    Native = {n1}
    None = None
INVARIANTS RunsOnRegistered NoHandleIsForgotten
PROPERTY EveryRequestEnds
