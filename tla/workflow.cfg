SPECIFICATION Spec
CONSTANTS
    Plans <- ThePlans
    Registry <- TheRegistry
    MaxNodeRetries = 3
INVARIANTS VerdictIsEarned DependenciesRanBefore
CHECK_DEADLOCK FALSE
