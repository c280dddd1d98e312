SPECIFICATION FairSpec
CONSTANTS
    Call = {a, b}
    Slots = 2
    Permits = 1
    MaxChunks = 2
    Done = Done
    Failed = Failed
INVARIANTS CallsAreLeased NothingIsLeft CompleteIsWhole
PROPERTY WaitsEnd
CHECK_DEADLOCK FALSE
