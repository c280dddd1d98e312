SPECIFICATION FairSpec
CONSTANTS
    a = a
    b = b
    c = c
    Request = {a, b}
    Streamed = {a}
    SessionOf <- TheSessions
    Capacities = {1, 2}
    QueueSize = 2
    MaxEvents = 2
    Attempts = 2
    MaxRecords = 1
INVARIANTS OneVerdict AuditIsHonest
PROPERTY RequestsLetGo
CHECK_DEADLOCK FALSE
