SPECIFICATION Spec
CONSTANTS
    Task = {t1, t2}
    Session = {s1, s2}
    Slot = {0, 1}
    MaxEntries = 1
    MaxTurns = 1
    MaxVersions = 2
    MaxRevision = 4
    NoRow = NoRow
    NoTxn = NoTxn
    BodyError <- Errors
SYMMETRY Symmetry
INVARIANTS ConflictMeansDisturbance DoneMeansStored RetentionBound
PROPERTIES NoLostUpdate ActiveSessionIsKept
