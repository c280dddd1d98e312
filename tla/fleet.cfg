SPECIFICATION FleetSpec
CONSTANTS
    Task = {w1, w2}
    Rpm = {1, 2}
    Unset = Unset
    Window = 2
    MaxNow = 2
    MaxRows = 2
    NoTask = NoTask
    Build = {b1, b2}
INVARIANTS OneConfiguration LimitsAgree
PROPERTY ImplementsWindow
SYMMETRY Symmetry
CHECK_DEADLOCK FALSE
