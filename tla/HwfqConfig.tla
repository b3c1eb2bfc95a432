----------------------------- MODULE HwfqConfig -----------------------------
(***************************************************************************)
(* The configuration of src/src/hwfq_config.c: the table of tenants, the   *)
(* ids of tenants and flows (module ChunkedEntries), the limits on their   *)
(* number, and the rates promised to them, which are kept twice for the    *)
(* tenants: by the scheduler and by its system_scheduler.                  *)
(*                                                                         *)
(* An allocation is its rate, 0 for a weight (GroupScheduler has the       *)
(* weights).  Whether the guard on pending work lets a removal pass is     *)
(* left open (HwfqScheduler has the guard).  Every function runs under     *)
(* scheduler->lock and is one action; a call that only returns an error    *)
(* changes nothing and is a stuttering step.                               *)
(***************************************************************************)
EXTENDS ChunkedEntries

CONSTANTS
    MaxTenants,         \* config.max_tenants
    MaxFlowsPerTenant,  \* config.max_flows_per_tenant
    MaxTotalFlows,      \* config.max_total_flows, 0 = no limit
    TotalCapacity,      \* config.total_capacity
    Rates,              \* rates of allocations, 0 for a weight
    MaxU,               \* UINT64_MAX
    ReservedMayFail     \* may the allocation that reserves flow id 0 fail?

ASSUME LimitAssumption == /\ MaxTenants \in Nat \ {0}
                          /\ MaxFlowsPerTenant \in Nat \ {0}
                          /\ MaxTotalFlows \in Nat
ASSUME RateAssumption == /\ MaxU \in Nat /\ TotalCapacity \in 1 .. MaxU
                         /\ Rates \subseteq 0 .. MaxU
ASSUME ReservedAssumption == ReservedMayFail \in BOOLEAN

TenantIds == 0 .. MaxTenants - 1
FlowIds == 0 .. MaxFlowsPerTenant
Reserved == 0   \* HWFQ_FLOW_ID_RESERVED

VARIABLES
    tenants,        \* tenants[t]->allocation of the tenants that exist
    systemRates,    \* the allocations of system_scheduler's entries
    allocatedRate,  \* scheduler->allocated_rate_capacity
    systemTotal,    \* system_scheduler->allocated_rate_capacity
    numTenants,     \* num_configured_tenants
    totalFlows,     \* total_active_flows
    tenantPool,     \* tenant_entries
    flowPool,       \* flow_entries of each tenant
    flowRates,      \* allocations of the configured flow entries
    flowTotal,      \* flow_scheduler->allocated_rate_capacity
    flowCapacity,   \* flow_scheduler->total_capacity
    answer          \* did the last hwfq_add_tenant find an id?

rateVars == <<tenants, systemRates, allocatedRate, systemTotal>>
flowVars == <<flowPool, flowRates, flowTotal, flowCapacity>>
vars == <<rateVars, numTenants, totalFlows, tenantPool, flowVars, answer>>

Tenants == DOMAIN tenants
Flows(t) == DOMAIN flowRates[t]
NoFlows == [f \in {} |-> 0]

\* uint64_t addition and subtraction.
Plus(a, b) == IF a + b > MaxU THEN a + b - (MaxU + 1) ELSE a + b
Minus(a, b) == IF b > a THEN a + (MaxU + 1) - b ELSE a - b

\* A function with one more, or one less, in its domain.
With(f, x, y) == [z \in DOMAIN f \cup {x} |-> IF z = x THEN y ELSE f[z]]
Without(f, x) == [z \in DOMAIN f \ {x} |-> f[z]]
RateIn(f, x) == IF x \in DOMAIN f THEN f[x] ELSE 0

\* Mutant of Exceeds: what is allocated already is not counted.
Exceeds_Alone(total, old, rate, capacity) == rate > capacity

\* would_exceed_capacity, and the same test in group_scheduler_configure_entry:
\* the total with rate in place of old is above the capacity.
Exceeds(total, old, rate, capacity) ==
    rate > 0 /\ Plus(Minus(total, old), rate) > capacity

-----------------------------------------------------------------------------
Init ==
    /\ tenants = [t \in {} |-> 0]
    /\ systemRates = [t \in {} |-> 0]
    /\ allocatedRate = 0
    /\ systemTotal = 0
    /\ numTenants = 0
    /\ totalFlows = 0
    /\ tenantPool = NewPool(MaxTenants)
    /\ flowPool = [t \in TenantIds |-> NewPool(MaxFlowsPerTenant + 1)]
    /\ flowRates = [t \in TenantIds |-> NoFlows]
    /\ flowTotal = [t \in TenantIds |-> 0]
    /\ flowCapacity = [t \in TenantIds |-> 0]
    /\ answer = "none"

\* hwfq_destroy, and a new hwfq_init.
Restart ==
    /\ tenants' = [t \in {} |-> 0]
    /\ systemRates' = [t \in {} |-> 0]
    /\ allocatedRate' = 0 /\ systemTotal' = 0
    /\ numTenants' = 0 /\ totalFlows' = 0
    /\ tenantPool' = NewPool(MaxTenants)
    /\ flowPool' = [t \in TenantIds |-> NewPool(MaxFlowsPerTenant + 1)]
    /\ flowRates' = [t \in TenantIds |-> NoFlows]
    /\ flowTotal' = [t \in TenantIds |-> 0]
    /\ flowCapacity' = [t \in TenantIds |-> 0]
    /\ answer' = "none"

\* Mutant of FlowPools: nothing is reserved.
FlowPools_Unreserved == {NewPool(MaxFlowsPerTenant + 1)}

\* The flow entries of a new tenant, with flow id 0 reserved; a failure of
\* that allocation is not noticed.
FlowPools ==
    {r.pool : r \in {x \in AllocResults(NewPool(MaxFlowsPerTenant + 1)) :
                        x.id # None \/ ReservedMayFail}}

\* hwfq_add_tenant, from the search for a free slot of the table on.  The
\* calls that fail before an id is asked for change nothing.
AddTenant(rate) ==
    /\ Tenants # TenantIds
    /\ ~Exceeds(allocatedRate, 0, rate, TotalCapacity)
    /\ \E x \in AllocResults(tenantPool) :
          \/ /\ x.id = None
             /\ tenantPool' = x.pool
             /\ answer' = IF Full(tenantPool) THEN "full" ELSE "none"
             /\ UNCHANGED <<rateVars, numTenants, totalFlows, flowVars>>
          \/ /\ x.id # None
             /\ IF Exceeds(systemTotal, RateIn(systemRates, x.id), rate,
                           TotalCapacity)
                THEN /\ tenantPool' = Release(x.pool, x.id)
                     /\ answer' = "none"
                     /\ UNCHANGED <<rateVars, numTenants, totalFlows, flowVars>>
                ELSE /\ tenantPool' = x.pool
                     /\ answer' = "ok"
                     /\ systemRates' = With(systemRates, x.id, rate)
                     /\ systemTotal' = Plus(Minus(systemTotal,
                                       RateIn(systemRates, x.id)), rate)
                     /\ tenants' = With(tenants, x.id, rate)
                     /\ allocatedRate' = Plus(allocatedRate, rate)
                     /\ numTenants' = numTenants + 1
                     /\ \E p \in FlowPools :
                           flowPool' = [flowPool EXCEPT ![x.id] = p]
                     /\ flowRates' = [flowRates EXCEPT ![x.id] = NoFlows]
                     /\ flowTotal' = [flowTotal EXCEPT ![x.id] = 0]
                     /\ flowCapacity' = [flowCapacity EXCEPT ![x.id] =
                           IF rate > 0 THEN rate ELSE TotalCapacity]
                     /\ UNCHANGED totalFlows

\* No slot of the table is free.
AddTenantFull ==
    /\ Tenants = TenantIds
    /\ answer' = "full"
    /\ UNCHANGED <<rateVars, numTenants, totalFlows, tenantPool, flowVars>>

\* hwfq_configure_tenant.  The result of group_scheduler_configure_entry is
\* ignored; the tenant's flow_scheduler keeps its capacity.
ConfigureTenant(t, rate) ==
    /\ t \in Tenants
    /\ ~Exceeds(allocatedRate, tenants[t], rate, TotalCapacity)
    /\ allocatedRate' = Plus(Minus(allocatedRate, tenants[t]), rate)
    /\ tenants' = [tenants EXCEPT ![t] = rate]
    /\ IF Exceeds(systemTotal, systemRates[t], rate, TotalCapacity)
       THEN UNCHANGED <<systemRates, systemTotal>>
       ELSE /\ systemRates' = [systemRates EXCEPT ![t] = rate]
            /\ systemTotal' = Plus(Minus(systemTotal, systemRates[t]), rate)
    /\ UNCHANGED <<numTenants, totalFlows, tenantPool, flowVars, answer>>

\* Mutant of UserFlows: the reserved entry is counted.
UserFlows_All(pool) == pool.count

\* The flows a tenant's entries are counted as when the tenant goes.
UserFlows(pool) == IF pool.count > 0 THEN pool.count - 1 ELSE 0

\* Mutant of Returned: the scheduler's own total is forgotten.
Returned_None(t) == 0

\* The rate a removed tenant gives back to the scheduler's total.
Returned(t) == tenants[t]

\* hwfq_remove_tenant.
RemoveTenant(t) ==
    /\ t \in Tenants
    /\ systemRates' = Without(systemRates, t)
    /\ systemTotal' = Minus(systemTotal, systemRates[t])
    /\ tenantPool' = Release(tenantPool, t)
    /\ totalFlows' = IF totalFlows >= UserFlows(flowPool[t])
                     THEN totalFlows - UserFlows(flowPool[t]) ELSE 0
    /\ allocatedRate' = Minus(allocatedRate, Returned(t))
    /\ tenants' = Without(tenants, t)
    /\ numTenants' = numTenants - 1
    /\ flowPool' = [flowPool EXCEPT ![t] = NewPool(MaxFlowsPerTenant + 1)]
    /\ flowRates' = [flowRates EXCEPT ![t] = NoFlows]
    /\ flowTotal' = [flowTotal EXCEPT ![t] = 0]
    /\ flowCapacity' = [flowCapacity EXCEPT ![t] = 0]
    /\ answer' = "none"

\* group_scheduler_configure_entry of the tenant's flow_scheduler.
ConfigureFlow(t, f, rate) ==
    /\ flowRates' = [flowRates EXCEPT ![t] = With(@, f, rate)]
    /\ flowTotal' = [flowTotal EXCEPT
          ![t] = Plus(Minus(@, RateIn(flowRates[t], f)), rate)]

\* hwfq_add_flow; a flow the tenant's capacity has no room for gives its id
\* back, to the head of the free list.
AddFlow(t, rate) ==
    /\ t \in Tenants
    /\ MaxTotalFlows > 0 => totalFlows < MaxTotalFlows
    /\ \E x \in AllocResults(flowPool[t]) :
          IF x.id = None
          THEN /\ flowPool' = [flowPool EXCEPT ![t] = x.pool]
               /\ UNCHANGED <<flowRates, flowTotal, totalFlows>>
          ELSE IF Exceeds(flowTotal[t], RateIn(flowRates[t], x.id), rate,
                          flowCapacity[t])
          THEN /\ flowPool' = [flowPool EXCEPT ![t] = Release(x.pool, x.id)]
               /\ UNCHANGED <<flowRates, flowTotal, totalFlows>>
          ELSE /\ flowPool' = [flowPool EXCEPT ![t] = x.pool]
               /\ ConfigureFlow(t, x.id, rate)
               /\ totalFlows' = totalFlows + 1
    /\ UNCHANGED <<rateVars, numTenants, tenantPool, flowCapacity, answer>>

\* hwfq_remove_flow.
RemoveFlow(t, f) ==
    /\ t \in Tenants
    /\ f \in Flows(t)
    /\ flowTotal' = [flowTotal EXCEPT ![t] = Minus(@, flowRates[t][f])]
    /\ flowRates' = [flowRates EXCEPT ![t] = Without(@, f)]
    /\ flowPool' = [flowPool EXCEPT ![t] = Release(@, f)]
    /\ totalFlows' = IF totalFlows > 0 THEN totalFlows - 1 ELSE 0
    /\ UNCHANGED <<rateVars, numTenants, tenantPool, flowCapacity, answer>>

\* hwfq_reconfigure_flow.
ReconfigureFlow(t, f, rate) ==
    /\ t \in Tenants
    /\ f \in Flows(t) \ {Reserved}
    /\ ~Exceeds(flowTotal[t], flowRates[t][f], rate, flowCapacity[t])
    /\ ConfigureFlow(t, f, rate)
    /\ UNCHANGED <<rateVars, numTenants, totalFlows, tenantPool, flowPool,
                   flowCapacity, answer>>

Next ==
    \/ \E rate \in Rates : AddTenant(rate)
    \/ AddTenantFull
    \/ \E t \in TenantIds, rate \in Rates :
          \/ ConfigureTenant(t, rate)
          \/ AddFlow(t, rate)
          \/ \E f \in FlowIds : ReconfigureFlow(t, f, rate)
    \/ \E t \in TenantIds : RemoveTenant(t) \/ \E f \in FlowIds : RemoveFlow(t, f)
    \/ Restart

Spec == Init /\ [][Next]_vars

-----------------------------------------------------------------------------
(* Properties.                                                             *)

\* Sum of a function with natural values: the units it promises.
Units(f) == Cardinality(UNION {{x} \X (1 .. f[x]) : x \in DOMAIN f})

\* The type invariant.
TypeOK ==
    /\ Tenants \subseteq TenantIds
    /\ \A t \in Tenants : tenants[t] \in Rates
    /\ DOMAIN systemRates \subseteq TenantIds
    /\ allocatedRate \in 0 .. MaxU /\ systemTotal \in 0 .. MaxU
    /\ numTenants \in 0 .. MaxTenants
    /\ totalFlows \in Nat
    /\ \A t \in TenantIds : /\ Flows(t) \subseteq FlowIds
                            /\ \A f \in Flows(t) : flowRates[t][f] \in Rates
                            /\ flowTotal[t] \in 0 .. MaxU
    /\ flowCapacity \in [TenantIds -> 0 .. MaxU]

\* The scheduler and its system_scheduler always agree about the rate of every
\* tenant and about the total, so the configuration of a tenant that the first
\* accepts is never refused by the second (hwfq_configure_tenant would report
\* success for a change that did not happen).
RateTotalsAgree == systemRates = tenants /\ systemTotal = allocatedRate

\* The three totals of hwfq_get_capacity_info are what the tables add up to,
\* through removals of tenants with flows, failed allocations, restarts; and
\* available_capacity does not wrap.
CapacityInfoExact ==
    /\ allocatedRate = Units(tenants)
    /\ allocatedRate <= TotalCapacity
    /\ numTenants = Cardinality(Tenants)
    /\ totalFlows = Cardinality(UNION {{t} \X Flows(t) : t \in TenantIds})

\* The rates of a tenant's flows never exceed the capacity its flow_scheduler
\* was created with.
FlowsFit == \A t \in Tenants : Units(flowRates[t]) <= flowCapacity[t]

\* Id pools are sound: a free list never reaches an id in use, never cycles
\* and loses no id, whichever allocations fail and in whatever order ids are
\* given back.
PoolsSound ==
    /\ Sound(tenantPool, Tenants)
    /\ \A t \in Tenants : Sound(flowPool[t], Flows(t) \cup {Reserved})

\* hwfq_add_flow never returns HWFQ_FLOW_ID_RESERVED, which hwfq_enqueue would
\* refuse for good.
ReservedNeverReturned == \A t \in Tenants : Reserved \notin Flows(t)

\* The limits of the configuration hold for what really exists.
LimitsHold ==
    /\ \A t \in Tenants : Cardinality(Flows(t)) <= MaxFlowsPerTenant
    /\ MaxTotalFlows > 0 =>
          Cardinality(UNION {{t} \X Flows(t) : t \in TenantIds}) <= MaxTotalFlows

\* The tenants' ids are a pool of max_tenants ids: none is given to two
\* tenants, and hwfq_add_tenant runs out of ids only with max_tenants tenants.
TenantPool == INSTANCE IdPool WITH AllIds <- TenantIds, ids <- TenantIds,
                                   inUse <- Tenants
ImplementsIdPool == TenantPool!Spec

\* The rates of a tenant's flows fit the rate the tenant has now.  Not so:
\* hwfq_configure_tenant does not tell the flow_scheduler.
FlowsFitTenant ==
    \A t \in Tenants : tenants[t] > 0 => Units(flowRates[t]) <= tenants[t]

=============================================================================
