SPECIFICATION Spec
CONSTANTS
    Allocations <- MCAllocations
    e1 = e1
    e2 = e2
    i1 = i1
    i2 = i2
    i3 = i3
    EntryIds = {e1, e2}
    SessionIds = {i1, i2, i3}
    WorkSizes = {1, 2, 6}
    RateAmounts = {1}
    TotalCapacity = 2
    Scale = 1
    MaxU = 15
    MaxWeight = 15
    MaxLead = 6
    NumGroups = 2
    BinsPerGroup = 3
    MaxGroup = 1
    WordBits = 2
    GroupBits = 3
SYMMETRY Symmetry
INVARIANT BitfieldsAgree
INVARIANT ListsSorted
INVARIANT SearchFindsWork
PROPERTY ImplementsGroupScheduler
