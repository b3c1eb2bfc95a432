SPECIFICATION FairSpec
CONSTANTS
    Allocations <- MCAllocations
    e1 = e1
    e2 = e2
    i1 = i1
    i2 = i2
    EntryIds = {e1, e2}
    SessionIds = {i1, i2}
    WorkSizes = {1}
    RateAmounts = {}
    WeightAmounts = {1, 2}
    TotalCapacity = 4
    Scale = 2
    MaxU = 15
    MaxWeight = 15
    MaxLead = 4
    CanSaturate = FALSE
    CanPutBack = FALSE
    CanReconfigure = FALSE
PROPERTY NoStarvation
