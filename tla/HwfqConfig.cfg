SPECIFICATION Spec
CONSTANTS
    None = None
    ChunkSize = 2
    MaxChunks = 2
    MayFail = TRUE
    MaxTenants = 3
    MaxFlowsPerTenant = 2
    MaxTotalFlows = 3
    TotalCapacity = 2
    Rates = {0, 1, 2}
    MaxU = 7
    ReservedMayFail = FALSE
INVARIANT TypeOK
INVARIANT RateTotalsAgree
 
INVARIANT FlowsFit
INVARIANT PoolsSound
INVARIANT ReservedNeverReturned
INVARIANT LimitsHold
PROPERTY ImplementsIdPool
