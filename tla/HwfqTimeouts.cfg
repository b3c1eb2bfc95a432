SPECIFICATION Spec
CONSTANTS
    Size <- MCSize
    Timeout <- MCTimeout
    c1 = c1
    c2 = c2
    f1 = f1
    s2 = s2
    s3 = s3
    t1 = t1
    t2 = t2
    w1 = w1
    w2 = w2
    Tenants = {t1, t2}
    Flows = {f1}
    Sessions = {big, s2, s3}
    TotalCapacity = 2
    MaxU = 15
    Callers = {c1, c2}
    Workers = {w1, w2}
    AllocResults = {TRUE}
    RemoveInFlight = FALSE
    MaxClock = 2
    MaxEnqueues = 3
    big = big
    BigSize = 2
    BigTimeout = 2
    SmallTimeout = 1
SYMMETRY Symmetry
INVARIANT InFlightAccounting
INVARIANT BacklogCovers
INVARIANT NoSessionLost
INVARIANT NoLostWakeup
INVARIANT ReportedOnce
PROPERTY ImplementsLifecycle
