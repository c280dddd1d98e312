SPECIFICATION Spec
CONSTANTS
    Task = {t1, t2}
    Session = {s1, s2, s3}
    MaxConcurrent = 2
    MaxEntries = 1
    MaxTurns = 2
    MaxVersions = 3
    MaxMade = 3
SYMMETRY Symmetry
INVARIANTS TurnsReachTheStore StoreIsBounded VersionsAreATimeline
PROPERTY VersionsOnlyGrow
