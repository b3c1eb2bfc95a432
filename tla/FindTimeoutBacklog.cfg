SPECIFICATION Spec
CONSTANTS
    Size <- MCSize
    Timeout <- MCTimeout
    c1 = c1
    f1 = f1
    s2 = s2
    t1 = t1
    w1 = w1
    Tenants = {t1}
    Flows = {f1}
    Sessions = {big, s2}
    TotalCapacity = 2
    MaxU = 15
    Callers = {c1}
    Workers = {w1}
    AllocResults = {TRUE}
    RemoveInFlight = FALSE
    MaxClock = 1
    MaxEnqueues = 3
    big = big
    BigSize = 2
    BigTimeout = 1
    SmallTimeout = 1
SYMMETRY Symmetry
INVARIANT DrainedFlowRemovable
