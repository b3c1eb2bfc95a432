SPECIFICATION Spec
CONSTANTS
    Size <- MCSize
    Timeout <- MCTimeout
    c1 = c1
    c2 = c2
    f1 = f1
    f2 = f2
    s2 = s2
    s3 = s3
    s4 = s4
    t1 = t1
    t2 = t2
    w1 = w1
    Tenants = {t1, t2}
    Flows = {f1, f2}
    Sessions = {big, s2, s3, s4}
    TotalCapacity = 3
    MaxU = 15
    Callers = {c1, c2}
    Workers = {w1}
    AllocResults = {TRUE}
    RemoveInFlight = FALSE
    MaxClock = 0
    MaxEnqueues = 5
    big = big
    BigSize = 2
    BigTimeout = 0
    SmallTimeout = 0
SYMMETRY Symmetry
INVARIANT BacklogRegistered
INVARIANT CapacityRespected
INVARIANT FlowRemovalSafe
INVARIANT DrainedFlowRemovable
