SPECIFICATION Spec
CONSTANTS
    Size <- MCSize
    Timeout <- MCTimeout
    c1 = c1
    f1 = f1
    s2 = s2
    s3 = s3
    t1 = t1
    t2 = t2
    w1 = w1
    Tenants = {t1, t2}
    Flows = {f1}
    Sessions = {big, s2, s3}
    TotalCapacity = 2
    MaxU = 15
    Callers = {c1}
    Workers = {w1}
    AllocResults = {TRUE, FALSE}
    RemoveInFlight = TRUE
    MaxClock = 1
    MaxEnqueues = 3
    big = big
    BigSize = 2
    BigTimeout = 0
    SmallTimeout = 1
SYMMETRY Symmetry
INVARIANT TypeOK
INVARIANT RegisteredOnce
PROPERTY ImplementsLifecycle
