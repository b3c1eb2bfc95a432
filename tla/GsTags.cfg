SPECIFICATION Spec
CONSTANTS
    Allocations <- MCAllocations
    e1 = e1
    e2 = e2
    i1 = i1
    i2 = i2
    i3 = i3
    EntryIds = {e1, e2}
    SessionIds = {i1, i2, i3}
    WorkSizes = {1, 2}
    RateAmounts = {}
    WeightAmounts = {1}
    TotalCapacity = 1
    Scale = 1
    MaxU = 31
    MaxWeight = 15
    MaxLead = 6
    CanSaturate = FALSE
    CanPutBack = TRUE
    CanReconfigure = FALSE
SYMMETRY Symmetry
INVARIANT TypeOK
INVARIANT MinStartExact
INVARIANT DequeueFindsWork
INVARIANT EntrySerial
INVARIANT LagBounded
PROPERTY OrderPreserved
