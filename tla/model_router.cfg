SPECIFICATION RouterFairSpec
CONSTANTS
    a = a
    b = b
    s = s
    near = near
    far = far
    mine = mine
    whole = whole
    Call = {a, b, s}
    Streamed = {s}
    Provider = {near, far}
    Chain <- TheChain
    Rpm <- TheRpm
    Window = 2
    Retries = 1
    Backoff = 1
    Cooldown = 2
    Permits = 1
    Budget = {mine, whole}
    BudgetsOf <- TheBudgets
    Limit <- TheLimits
INVARIANTS BudgetsAreExact SlotsPerMinute
PROPERTY CallsEnd
