SPECIFICATION Spec
CONSTANTS
    Size <- MCSize
    Timeout <- MCTimeout
    c1 = c1
    f1 = f1
    s2 = s2
    s3 = s3
    t1 = t1
    w1 = w1
    Tenants = {t1}
    Flows = {f1}
    Sessions = {big, s2, s3}
    TotalCapacity = 2
    MaxU = 15
    Callers = {c1}
    Workers = {w1}
    AllocResults = {TRUE}
    RemoveInFlight = TRUE
    MaxClock = 0
    MaxEnqueues = 4
    big = big
    BigSize = 2
    BigTimeout = 0
    SmallTimeout = 0
SYMMETRY Symmetry
INVARIANT FlowRemovalSafe
