--------------------------- MODULE HwfqConfigProofs ---------------------------
(***************************************************************************)
(* Proofs about the configuration, for any limits and rates.  ConfigInv    *)
(* needs no assumption, FlowInv that the reservation of flow id 0 does not *)
(* fail, SumInv that no sum of rates wraps, CountInv follows from FlowInv. *)
(***************************************************************************)
EXTENDS HwfqConfig, ChunkedEntriesProofs, DataProofs

-----------------------------------------------------------------------------
(* The tenants: the two copies of their rates, and their ids.              *)

LEMMA Arithmetic ==
    ASSUME NEW a \in 0 .. MaxU, NEW b \in 0 .. MaxU
    PROVE  /\ Plus(a, b) \in 0 .. MaxU /\ Minus(a, b) \in 0 .. MaxU
           /\ Minus(a, 0) = a
           /\ b <= a => Minus(a, b) = a - b
           /\ a + b <= MaxU => Plus(a, b) = a + b
  BY RateAssumption DEF Plus, Minus

\* The two copies agree, and the ids in use are those of the tenants.
ConfigInv ==
    /\ RateTotalsAgree
    /\ allocatedRate \in 0 .. MaxU
    /\ \A t \in Tenants : tenants[t] \in Rates
    /\ PoolInv(tenantPool, Tenants, MaxTenants)

LEMMA ConfigInit == Init => ConfigInv
<1> SUFFICES ASSUME Init PROVE ConfigInv
  OBVIOUS
<1>1. Tenants = {} /\ RateTotalsAgree /\ allocatedRate = 0
  BY DEF Tenants, Init, RateTotalsAgree
<1>2. PoolInv(tenantPool, {}, MaxTenants)
  BY NewPoolInv, LimitAssumption DEF Init
<1> QED
  BY <1>1, <1>2, RateAssumption DEF ConfigInv

\* What hwfq_add_tenant does with the answer of the pool.
LEMMA AddTenantStep ==
    ASSUME ConfigInv, NEW rate \in Rates, AddTenant(rate)
    PROVE  \/ /\ PoolInv(tenantPool', Tenants, MaxTenants)
              /\ answer' = "none" \/ (answer' = "full" /\ Tenants = TenantIds)
              /\ UNCHANGED <<rateVars, numTenants, totalFlows, flowVars>>
           \/ \E id \in TenantIds \ Tenants :
                 /\ PoolInv(tenantPool', Tenants \cup {id}, MaxTenants)
                 /\ answer' = "ok"
                 /\ ~Exceeds(allocatedRate, 0, rate, TotalCapacity)
                 /\ tenants' = With(tenants, id, rate)
                 /\ systemRates' = tenants'
                 /\ allocatedRate' = Plus(allocatedRate, rate)
                 /\ systemTotal' = allocatedRate'
                 /\ numTenants' = numTenants + 1
                 /\ \E p \in FlowPools :
                       flowPool' = [flowPool EXCEPT ![id] = p]
                 /\ flowRates' = [flowRates EXCEPT ![id] = NoFlows]
                 /\ flowTotal' = [flowTotal EXCEPT ![id] = 0]
                 /\ flowCapacity' = [flowCapacity EXCEPT ![id] =
                                        IF rate > 0 THEN rate ELSE TotalCapacity]
                 /\ totalFlows' = totalFlows
<1>1. PICK x \in AllocResults(tenantPool) :
          \/ /\ x.id = None
             /\ tenantPool' = x.pool
             /\ answer' = IF Full(tenantPool) THEN "full" ELSE "none"
             /\ UNCHANGED <<rateVars, numTenants, totalFlows, flowVars>>
          \/ /\ x.id # None
             /\ IF Exceeds(systemTotal, RateIn(systemRates, x.id), rate,
                           TotalCapacity)
                THEN /\ tenantPool' = Release(x.pool, x.id)
                     /\ answer' = "none"
                     /\ UNCHANGED <<rateVars, numTenants, totalFlows, flowVars>>
                ELSE /\ tenantPool' = x.pool
                     /\ answer' = "ok"
                     /\ systemRates' = With(systemRates, x.id, rate)
                     /\ systemTotal' = Plus(Minus(systemTotal,
                                       RateIn(systemRates, x.id)), rate)
                     /\ tenants' = With(tenants, x.id, rate)
                     /\ allocatedRate' = Plus(allocatedRate, rate)
                     /\ numTenants' = numTenants + 1
                     /\ \E p \in FlowPools :
                           flowPool' = [flowPool EXCEPT ![x.id] = p]
                     /\ flowRates' = [flowRates EXCEPT ![x.id] = NoFlows]
                     /\ flowTotal' = [flowTotal EXCEPT ![x.id] = 0]
                     /\ flowCapacity' = [flowCapacity EXCEPT ![x.id] =
                           IF rate > 0 THEN rate ELSE TotalCapacity]
                     /\ UNCHANGED totalFlows
  BY DEF AddTenant
<1>2. PoolInv(tenantPool, Tenants, MaxTenants) /\ MaxTenants \in Nat
  BY LimitAssumption DEF ConfigInv
<1>3. \/ x.id = None /\ PoolInv(x.pool, Tenants, MaxTenants)
      \/ /\ x.id # None
         /\ x.id \in (0 .. MaxTenants - 1) \ Tenants
         /\ PoolInv(x.pool, Tenants \cup {x.id}, MaxTenants)
  BY <1>2, AllocInv
<1>4. CASE x.id = None
  <2>1. Full(tenantPool) => Tenants = TenantIds
    BY <1>2, FullPool DEF TenantIds
  <2> QED
    BY <1>1, <1>3, <1>4, <2>1
<1>5. CASE x.id # None
  <2>1. x.id \in TenantIds \ Tenants
        /\ PoolInv(x.pool, Tenants \cup {x.id}, MaxTenants)
    BY <1>3, <1>5 DEF TenantIds
  <2>2. CASE Exceeds(systemTotal, RateIn(systemRates, x.id), rate, TotalCapacity)
    <3>1. (Tenants \cup {x.id}) \ {x.id} = Tenants
      BY <2>1
    <3>2. PoolInv(Release(x.pool, x.id), (Tenants \cup {x.id}) \ {x.id}, MaxTenants)
      BY <2>1, ReleaseInv
    <3> QED
      BY <1>1, <1>5, <2>2, <3>1, <3>2
  <2>3. CASE ~Exceeds(systemTotal, RateIn(systemRates, x.id), rate, TotalCapacity)
    <3>1. /\ systemRates = tenants /\ systemTotal = allocatedRate
          /\ allocatedRate \in 0 .. MaxU /\ rate \in 0 .. MaxU
      BY RateAssumption DEF ConfigInv, RateTotalsAgree
    <3>2. RateIn(systemRates, x.id) = 0
      BY <2>1, <3>1 DEF Tenants, RateIn
    <3>3. Minus(systemTotal, RateIn(systemRates, x.id)) = allocatedRate
      BY <3>1, <3>2, Arithmetic
    <3>4. ~Exceeds(allocatedRate, 0, rate, TotalCapacity)
      BY <2>3, <3>1, <3>2
    <3> QED
      BY <1>1, <1>5, <2>1, <2>3, <3>1, <3>3, <3>4
  <2> QED
    BY <2>2, <2>3
<1> QED
  BY <1>4, <1>5

LEMMA TenantsBound ==
    ASSUME ConfigInv
    PROVE  Tenants \subseteq TenantIds /\ IsFiniteSet(Tenants)
<1>1. Tenants \subseteq TenantIds
  BY LimitAssumption DEF ConfigInv, PoolInv, UsedIds, TenantIds, Pools
<1>2. IsFiniteSet(TenantIds)
  BY LimitAssumption, UsedFinite DEF TenantIds
<1> QED
  BY <1>1, <1>2, FS_Subset

LEMMA ConfigStep == ConfigInv /\ [Next]_vars => ConfigInv'
<1> SUFFICES ASSUME ConfigInv, [Next]_vars PROVE ConfigInv'
  OBVIOUS
<1>0. /\ systemRates = tenants /\ systemTotal = allocatedRate
      /\ allocatedRate \in 0 .. MaxU
      /\ \A t \in Tenants : tenants[t] \in Rates
      /\ PoolInv(tenantPool, Tenants, MaxTenants)
      /\ Rates \subseteq 0 .. MaxU
  BY RateAssumption DEF ConfigInv, RateTotalsAgree
<1>1. ASSUME NEW rate \in Rates, AddTenant(rate) PROVE ConfigInv'
  <2>1. CASE /\ PoolInv(tenantPool', Tenants, MaxTenants)
             /\ UNCHANGED <<rateVars, numTenants, totalFlows, flowVars>>
    BY <1>0, <2>1 DEF Tenants, ConfigInv, RateTotalsAgree, rateVars
  <2>2. ASSUME NEW id \in TenantIds \ Tenants,
               PoolInv(tenantPool', Tenants \cup {id}, MaxTenants),
               tenants' = With(tenants, id, rate), systemRates' = tenants',
               allocatedRate' = Plus(allocatedRate, rate),
               systemTotal' = allocatedRate'
        PROVE  ConfigInv'
    <3>1. Tenants' = Tenants \cup {id}
          /\ \A t \in Tenants' : tenants'[t] \in Rates
      BY <1>0, <2>2 DEF Tenants, With
    <3>2. allocatedRate' \in 0 .. MaxU
      BY <1>0, <2>2, Arithmetic
    <3> QED
      BY <2>2, <3>1, <3>2 DEF ConfigInv, RateTotalsAgree
  <2> QED
    BY <1>1, <2>1, <2>2, AddTenantStep
<1>2. ASSUME NEW t \in TenantIds, NEW rate \in Rates, ConfigureTenant(t, rate)
      PROVE  ConfigInv'
  <2>1. /\ tenants' = [tenants EXCEPT ![t] = rate] /\ t \in Tenants
        /\ allocatedRate' = Plus(Minus(allocatedRate, tenants[t]), rate)
        /\ tenantPool' = tenantPool
        /\ systemRates' = tenants' /\ systemTotal' = allocatedRate'
    BY <1>0, <1>2 DEF ConfigureTenant
  <2>2. Tenants' = Tenants /\ \A u \in Tenants' : tenants'[u] \in Rates
    BY <1>0, <2>1 DEF Tenants
  <2>3. allocatedRate' \in 0 .. MaxU
    BY <1>0, <2>1, Arithmetic
  <2> QED
    BY <1>0, <2>1, <2>2, <2>3 DEF ConfigInv, RateTotalsAgree
<1>3. ASSUME NEW t \in TenantIds, RemoveTenant(t) PROVE ConfigInv'
  <2>1. /\ tenants' = Without(tenants, t) /\ t \in Tenants
        /\ allocatedRate' = Minus(allocatedRate, tenants[t])
        /\ tenantPool' = Release(tenantPool, t)
        /\ systemRates' = tenants' /\ systemTotal' = allocatedRate'
    BY <1>0, <1>3 DEF RemoveTenant, Returned
  <2>2. Tenants' = Tenants \ {t} /\ \A u \in Tenants' : tenants'[u] \in Rates
    BY <1>0, <2>1 DEF Tenants, Without
  <2>3. allocatedRate' \in 0 .. MaxU
    BY <1>0, <2>1, Arithmetic
  <2>4. PoolInv(tenantPool', Tenants \ {t}, MaxTenants)
    BY <1>0, <2>1, ReleaseInv
  <2> QED
    BY <2>1, <2>2, <2>3, <2>4 DEF ConfigInv, RateTotalsAgree
<1>4. CASE Restart
  <2>1. Tenants' = {} /\ RateTotalsAgree' /\ allocatedRate' = 0
    BY <1>4 DEF Tenants, Restart, RateTotalsAgree
  <2>2. PoolInv(tenantPool', {}, MaxTenants)
    BY <1>4, NewPoolInv, LimitAssumption DEF Restart
  <2> QED
    BY <2>1, <2>2, RateAssumption DEF ConfigInv
<1>5. ASSUME UNCHANGED <<rateVars, tenantPool>> PROVE ConfigInv'
  BY <1>5 DEF Tenants, ConfigInv, RateTotalsAgree, rateVars
<1>6. CASE AddTenantFull
  BY <1>5, <1>6 DEF AddTenantFull
<1>7. ASSUME NEW t \in TenantIds, NEW rate \in Rates, AddFlow(t, rate)
      PROVE  ConfigInv'
  BY <1>5, <1>7 DEF AddFlow
<1>8. ASSUME NEW t \in TenantIds, NEW f \in FlowIds, RemoveFlow(t, f)
      PROVE  ConfigInv'
  BY <1>5, <1>8 DEF RemoveFlow
<1>9. ASSUME NEW t \in TenantIds, NEW f \in FlowIds, NEW rate \in Rates,
             ReconfigureFlow(t, f, rate)
      PROVE  ConfigInv'
  BY <1>5, <1>9 DEF ReconfigureFlow
<1>10. CASE UNCHANGED vars
  BY <1>5, <1>10 DEF vars
<1> QED
  BY <1>1, <1>2, <1>3, <1>4, <1>6, <1>7, <1>8, <1>9, <1>10 DEF Next

LEMMA ConfigAlways == Spec => []ConfigInv
  BY ConfigInit, ConfigStep, PTL DEF Spec

\* The scheduler and its system_scheduler agree about every tenant's rate and
\* about their total, whatever wraps and whatever the allocator refuses: the
\* ignored result of group_scheduler_configure_entry is never an error.
THEOREM RatesAgreeAlways == Spec => []RateTotalsAgree
<1>1. ConfigInv => RateTotalsAgree
  BY DEF ConfigInv
<1> QED
  BY <1>1, ConfigAlways, PTL

\* The tenants' ids are a pool of max_tenants ids: an id that is handed out is
\* free, and HWFQ_ERROR_CAPACITY_EXCEEDED from a full table or pool means that
\* there are max_tenants tenants.
THEOREM TenantIdsCorrect == Spec => ImplementsIdPool
<1>1. Init => TenantPool!Init
  BY DEF Init, TenantPool!Init, Tenants
<1>2. ASSUME ConfigInv, [Next]_vars
      PROVE  [TenantPool!Next]_TenantPool!vars
  <2>1. ASSUME NEW rate \in Rates, AddTenant(rate) PROVE TenantPool!Next
    <3>1. CASE /\ answer' = "none" \/ (answer' = "full" /\ Tenants = TenantIds)
               /\ UNCHANGED <<rateVars, numTenants, totalFlows, flowVars>>
      <4>1. Tenants' = Tenants
        BY <3>1 DEF Tenants, rateVars
      <4> QED
        BY <3>1, <4>1 DEF TenantPool!Next, TenantPool!Refuse, TenantPool!Decline
    <3>2. ASSUME NEW id \in TenantIds \ Tenants, answer' = "ok",
                 tenants' = With(tenants, id, rate)
          PROVE  TenantPool!Next
      <4>1. Tenants' = Tenants \cup {id}
        BY <3>2 DEF With, Tenants
      <4> QED
        BY <3>2, <4>1 DEF TenantPool!Next, TenantPool!Alloc
    <3> QED
      BY <1>2, <2>1, <3>1, <3>2, AddTenantStep
  <2>2. CASE AddTenantFull
    <3>1. Tenants' = Tenants
      BY <2>2 DEF AddTenantFull, rateVars, Tenants
    <3> QED
      BY <2>2, <3>1 DEF AddTenantFull, TenantPool!Next, TenantPool!Refuse
  <2>3. CASE Restart
    <3>1. Tenants' = {} /\ answer' = "none"
      BY <2>3 DEF Restart, Tenants
    <3> QED
      BY <3>1 DEF TenantPool!Next, TenantPool!Open
  <2>4. ASSUME NEW t \in TenantIds, RemoveTenant(t) PROVE TenantPool!Next
    <3>1. t \in Tenants /\ Tenants' = Tenants \ {t} /\ answer' = "none"
      BY <2>4 DEF RemoveTenant, Without, Tenants
    <3> QED
      BY <3>1 DEF TenantPool!Next, TenantPool!Free
  <2>5. ASSUME Tenants' = Tenants, answer' = answer
        PROVE  UNCHANGED TenantPool!vars
    BY <2>5 DEF TenantPool!vars
  <2>6. ASSUME NEW t \in TenantIds, NEW rate \in Rates, ConfigureTenant(t, rate)
        PROVE  UNCHANGED TenantPool!vars
    BY <2>5, <2>6 DEF ConfigureTenant, Tenants
  <2>7. ASSUME NEW t \in TenantIds, NEW rate \in Rates, AddFlow(t, rate)
        PROVE  UNCHANGED TenantPool!vars
    BY <2>5, <2>7 DEF AddFlow, rateVars, Tenants
  <2>8. ASSUME NEW t \in TenantIds, NEW f \in FlowIds, RemoveFlow(t, f)
        PROVE  UNCHANGED TenantPool!vars
    BY <2>5, <2>8 DEF RemoveFlow, rateVars, Tenants
  <2>9. ASSUME NEW t \in TenantIds, NEW f \in FlowIds, NEW rate \in Rates,
               ReconfigureFlow(t, f, rate)
        PROVE  UNCHANGED TenantPool!vars
    BY <2>5, <2>9 DEF ReconfigureFlow, rateVars, Tenants
  <2>10. CASE UNCHANGED vars
    BY <2>5, <2>10 DEF vars, rateVars, Tenants
  <2> QED
    BY <1>2, <2>1, <2>2, <2>3, <2>4, <2>6, <2>7, <2>8, <2>9, <2>10 DEF Next
<1> QED
  BY <1>1, <1>2, ConfigAlways, PTL DEF Spec, ImplementsIdPool, TenantPool!Spec

-----------------------------------------------------------------------------
(* The flows of each tenant: their ids, when reserving id 0 cannot fail.   *)

\* The pool of a new tenant has the reserved id in use, and no other.
LEMMA FlowPoolsInv ==
    ASSUME ~ReservedMayFail, NEW p \in FlowPools
    PROVE  PoolInv(p, {Reserved}, MaxFlowsPerTenant + 1)
<1> DEFINE new == NewPool(MaxFlowsPerTenant + 1)
<1>1. MaxFlowsPerTenant + 1 \in Nat
  BY LimitAssumption
<1>2. PoolInv(new, {}, MaxFlowsPerTenant + 1)
  BY <1>1, NewPoolInv
<1>3. PICK x \in AllocResults(new) : x.id # None /\ x.pool = p
  BY DEF FlowPools
<1>4. PoolInv(x.pool, {} \cup {x.id}, MaxFlowsPerTenant + 1)
  <2> HIDE DEF new
  <2> QED
    BY <1>1, <1>2, <1>3, AllocInv
<1>5. new.head = None /\ new.used = 0
  BY DEF NewPool
<1>6. x.id = 0
  <2>1. x \in Fresh(new) \/ x.id = None
    BY <1>3, <1>5 DEF AllocResults
  <2>2. CASE x \in Fresh(new)
    <3>1. \E q : x = IF Exists(q, FreshId(new))
                    THEN [id |-> FreshId(new),
                          pool |-> [q EXCEPT !.used = @ + 1, !.count = @ + 1,
                             !.link = [i \in 0 .. new.used |->
                                          IF i = new.used THEN i ELSE @[i]]]]
                    ELSE [id |-> None, pool |-> q]
      BY <2>2 DEF Fresh
    <3>2. x.id = FreshId(new) \/ x.id = None
      BY <3>1
    <3> QED
      BY <1>3, <1>5, <3>2 DEF FreshId
  <2> QED
    BY <1>3, <2>1, <2>2
<1> QED
  BY <1>3, <1>4, <1>6 DEF Reserved

\* Each pool of flow ids has the tenant's flows and the reserved id in use.
FlowInv ==
    /\ DOMAIN flowPool = TenantIds /\ DOMAIN flowRates = TenantIds
    /\ \A t \in Tenants :
          /\ PoolInv(flowPool[t], Flows(t) \cup {Reserved}, MaxFlowsPerTenant + 1)
          /\ Reserved \notin Flows(t)
    /\ \A t \in TenantIds \ Tenants : Flows(t) = {}
    /\ \A t \in TenantIds : \A f \in Flows(t) : flowRates[t][f] \in Rates

LEMMA FlowInit == Init => FlowInv
<1> SUFFICES ASSUME Init PROVE FlowInv
  OBVIOUS
<1>1. Tenants = {} /\ \A t \in TenantIds : Flows(t) = {}
  BY DEF Init, Tenants, Flows, NoFlows
<1>2. DOMAIN flowPool = TenantIds /\ DOMAIN flowRates = TenantIds
  BY DEF Init
<1> QED
  BY <1>1, <1>2 DEF FlowInv

\* What hwfq_add_flow does with the answer of the pool.
LEMMA AddFlowStep ==
    ASSUME ConfigInv, FlowInv, NEW t \in TenantIds, NEW rate \in Rates,
           AddFlow(t, rate)
    PROVE  /\ t \in Tenants /\ (MaxTotalFlows > 0 => totalFlows < MaxTotalFlows)
           /\ UNCHANGED <<rateVars, numTenants, tenantPool, flowCapacity, answer>>
           /\ \/ /\ \E p : /\ flowPool' = [flowPool EXCEPT ![t] = p]
                           /\ PoolInv(p, Flows(t) \cup {Reserved},
                                      MaxFlowsPerTenant + 1)
                 /\ UNCHANGED <<flowRates, flowTotal, totalFlows>>
              \/ \E f \in FlowIds \ (Flows(t) \cup {Reserved}) :
                    /\ \E p : /\ flowPool' = [flowPool EXCEPT ![t] = p]
                              /\ PoolInv(p, Flows(t) \cup {f} \cup {Reserved},
                                         MaxFlowsPerTenant + 1)
                    /\ ~Exceeds(flowTotal[t], 0, rate, flowCapacity[t])
                    /\ ConfigureFlow(t, f, rate)
                    /\ totalFlows' = totalFlows + 1
<1> DEFINE U == Flows(t) \cup {Reserved}
           max == MaxFlowsPerTenant + 1
<1>1. /\ t \in Tenants /\ (MaxTotalFlows > 0 => totalFlows < MaxTotalFlows)
      /\ UNCHANGED <<rateVars, numTenants, tenantPool, flowCapacity, answer>>
  BY DEF AddFlow
<1>2. PICK x \in AllocResults(flowPool[t]) :
          IF x.id = None
          THEN /\ flowPool' = [flowPool EXCEPT ![t] = x.pool]
               /\ UNCHANGED <<flowRates, flowTotal, totalFlows>>
          ELSE IF Exceeds(flowTotal[t], RateIn(flowRates[t], x.id), rate,
                          flowCapacity[t])
          THEN /\ flowPool' = [flowPool EXCEPT ![t] = Release(x.pool, x.id)]
               /\ UNCHANGED <<flowRates, flowTotal, totalFlows>>
          ELSE /\ flowPool' = [flowPool EXCEPT ![t] = x.pool]
               /\ ConfigureFlow(t, x.id, rate)
               /\ totalFlows' = totalFlows + 1
  BY DEF AddFlow
<1>3. max \in Nat /\ PoolInv(flowPool[t], U, max)
  BY <1>1, LimitAssumption DEF FlowInv
<1>4. \/ x.id = None /\ PoolInv(x.pool, U, max)
      \/ /\ x.id # None
         /\ x.id \in (0 .. max - 1) \ U
         /\ PoolInv(x.pool, U \cup {x.id}, max)
  <2> HIDE DEF U, max
  <2> QED
    BY <1>3, AllocInv
<1>5. CASE x.id = None
  BY <1>1, <1>2, <1>4, <1>5
<1>6. CASE x.id # None
  <2>1. x.id \in FlowIds \ U /\ PoolInv(x.pool, U \cup {x.id}, max)
    BY <1>4, <1>6, LimitAssumption DEF FlowIds
  <2>2. RateIn(flowRates[t], x.id) = 0
    BY <2>1 DEF RateIn, Flows
  <2>3. CASE Exceeds(flowTotal[t], RateIn(flowRates[t], x.id), rate, flowCapacity[t])
    <3>1. (U \cup {x.id}) \ {x.id} = U
      BY <2>1
    <3>2. PoolInv(Release(x.pool, x.id), (U \cup {x.id}) \ {x.id}, max)
      <4> HIDE DEF U, max
      <4> QED
        BY <2>1, ReleaseInv
    <3>3. PoolInv(Release(x.pool, x.id), U, max)
      BY <3>1, <3>2
    <3> QED
      BY <1>1, <1>2, <1>6, <2>3, <3>3
  <2>4. CASE ~Exceeds(flowTotal[t], RateIn(flowRates[t], x.id), rate, flowCapacity[t])
    <3>1. U \cup {x.id} = Flows(t) \cup {x.id} \cup {Reserved}
      OBVIOUS
    <3>2. PoolInv(x.pool, Flows(t) \cup {x.id} \cup {Reserved}, max)
      BY <2>1, <3>1
    <3> QED
      BY <1>1, <1>2, <1>6, <2>1, <2>2, <2>4, <3>2
  <2> QED
    BY <2>3, <2>4
<1> QED
  BY <1>5, <1>6

LEMMA FlowStep ==
    ASSUME ~ReservedMayFail, ConfigInv, FlowInv, [Next]_vars
    PROVE  FlowInv'
<1> DEFINE max == MaxFlowsPerTenant + 1
<1>0. /\ DOMAIN flowPool = TenantIds /\ DOMAIN flowRates = TenantIds
      /\ \A t \in Tenants :
            /\ PoolInv(flowPool[t], Flows(t) \cup {Reserved}, max)
            /\ Reserved \notin Flows(t)
      /\ \A t \in TenantIds \ Tenants : Flows(t) = {}
      /\ \A t \in TenantIds : \A f \in Flows(t) : flowRates[t][f] \in Rates
      /\ Tenants \subseteq TenantIds
  BY TenantsBound DEF FlowInv
\* One tenant's pool and flows change.
<1>1. ASSUME NEW t \in TenantIds, NEW p, NEW r,
             flowPool' = [flowPool EXCEPT ![t] = p],
             flowRates' = [flowRates EXCEPT ![t] = r],
             t \in Tenants' => /\ PoolInv(p, DOMAIN r \cup {Reserved}, max)
                               /\ Reserved \notin DOMAIN r,
             t \notin Tenants' => DOMAIN r = {},
             \A f \in DOMAIN r : r[f] \in Rates,
             Tenants' \subseteq TenantIds, Tenants \ {t} = Tenants' \ {t}
      PROVE  FlowInv'
  <2>1. DOMAIN flowPool' = TenantIds /\ DOMAIN flowRates' = TenantIds
    BY <1>0, <1>1
  <2>2. flowPool'[t] = p /\ flowRates'[t] = r
    BY <1>0, <1>1
  <2>3. \A u \in TenantIds \ {t} :
           flowPool'[u] = flowPool[u] /\ flowRates'[u] = flowRates[u]
    BY <1>0, <1>1
  <2>4. \A u \in Tenants' :
           /\ PoolInv(flowPool'[u], DOMAIN flowRates'[u] \cup {Reserved}, max)
           /\ Reserved \notin DOMAIN flowRates'[u]
    BY <1>0, <1>1, <2>2, <2>3 DEF Flows
  <2>5. \A u \in TenantIds \ Tenants' : DOMAIN flowRates'[u] = {}
    BY <1>0, <1>1, <2>2, <2>3 DEF Flows
  <2>6. \A u \in TenantIds : \A f \in DOMAIN flowRates'[u] : flowRates'[u][f] \in Rates
    BY <1>0, <1>1, <2>2, <2>3 DEF Flows
  <2> QED
    BY <2>1, <2>4, <2>5, <2>6 DEF FlowInv, Flows
<1>2. ASSUME UNCHANGED <<flowPool, flowRates>>, Tenants' = Tenants PROVE FlowInv'
  BY <1>2 DEF FlowInv, Flows
<1>3. ASSUME NEW rate \in Rates, AddTenant(rate) PROVE FlowInv'
  <2>1. CASE UNCHANGED <<rateVars, numTenants, totalFlows, flowVars>>
    BY <1>2, <2>1 DEF rateVars, flowVars, Tenants
  <2>2. ASSUME NEW id \in TenantIds \ Tenants, NEW p \in FlowPools,
               tenants' = With(tenants, id, rate),
               flowPool' = [flowPool EXCEPT ![id] = p],
               flowRates' = [flowRates EXCEPT ![id] = NoFlows]
        PROVE  FlowInv'
    <3>1. Tenants' = Tenants \cup {id}
      BY <2>2 DEF With, Tenants
    <3>2. DOMAIN NoFlows = {} /\ DOMAIN NoFlows \cup {Reserved} = {Reserved}
      BY DEF NoFlows
    <3>3. PoolInv(p, {Reserved}, max)
      BY FlowPoolsInv
    <3> QED
      BY <1>0, <1>1, <2>2, <3>1, <3>2, <3>3
  <2> QED
    BY <1>3, <2>1, <2>2, AddTenantStep
<1>4. ASSUME NEW t \in TenantIds, NEW rate \in Rates, ConfigureTenant(t, rate)
      PROVE  FlowInv'
  BY <1>2, <1>4 DEF ConfigureTenant, flowVars, Tenants
<1>5. ASSUME NEW t \in TenantIds, RemoveTenant(t) PROVE FlowInv'
  <2>1. Tenants' = Tenants \ {t}
    BY <1>5 DEF RemoveTenant, Without, Tenants
  <2>2. DOMAIN NoFlows = {}
    BY DEF NoFlows
  <2>3. /\ flowPool' = [flowPool EXCEPT ![t] = NewPool(max)]
        /\ flowRates' = [flowRates EXCEPT ![t] = NoFlows]
    BY <1>5 DEF RemoveTenant
  <2> QED
    BY <1>0, <1>1, <2>1, <2>2, <2>3
<1>6. CASE Restart
  <2>1. Tenants' = {} /\ \A t \in TenantIds : DOMAIN flowRates'[t] = {}
    BY <1>6 DEF Restart, Tenants, NoFlows
  <2>2. DOMAIN flowPool' = TenantIds /\ DOMAIN flowRates' = TenantIds
    BY <1>6 DEF Restart
  <2> QED
    BY <2>1, <2>2 DEF FlowInv, Flows
<1>7. CASE AddTenantFull
  BY <1>2, <1>7 DEF AddTenantFull, flowVars, rateVars, Tenants
<1>8. ASSUME NEW t \in TenantIds, NEW rate \in Rates, AddFlow(t, rate)
      PROVE  FlowInv'
  <2>1. t \in Tenants /\ Tenants' = Tenants
    BY <1>8, AddFlowStep DEF rateVars, Tenants
  <2>2. ASSUME NEW p, flowPool' = [flowPool EXCEPT ![t] = p],
               PoolInv(p, Flows(t) \cup {Reserved}, max), flowRates' = flowRates
        PROVE  FlowInv'
    <3>1. DOMAIN flowRates[t] = Flows(t)
      BY DEF Flows
    <3>2. \A u \in Tenants : /\ PoolInv(flowPool'[u], Flows(u) \cup {Reserved}, max)
                             /\ Reserved \notin Flows(u)
      BY <1>0, <2>2
    <3>3. DOMAIN flowPool' = TenantIds
      BY <1>0, <2>2
    <3> QED
      BY <1>0, <2>1, <2>2, <3>2, <3>3 DEF FlowInv, Flows
  <2>3. ASSUME NEW f \in FlowIds \ (Flows(t) \cup {Reserved}), NEW p,
               flowPool' = [flowPool EXCEPT ![t] = p],
               PoolInv(p, Flows(t) \cup {f} \cup {Reserved}, max),
               ConfigureFlow(t, f, rate)
        PROVE  FlowInv'
    <3> DEFINE r == With(flowRates[t], f, rate)
    <3>1. flowRates' = [flowRates EXCEPT ![t] = r]
      BY <2>3 DEF ConfigureFlow
    <3>2. DOMAIN r = Flows(t) \cup {f}
      BY DEF With, Flows
    <3>3. \A g \in DOMAIN r : r[g] \in Rates
      BY <1>0 DEF With, Flows
    <3> HIDE DEF r
    <3> QED
      BY <1>0, <1>1, <2>1, <2>3, <3>1, <3>2, <3>3
  <2> QED
    BY <1>8, <2>2, <2>3, AddFlowStep
<1>9. ASSUME NEW t \in TenantIds, NEW f \in FlowIds, RemoveFlow(t, f)
      PROVE  FlowInv'
  <2> DEFINE r == Without(flowRates[t], f)
             p == Release(flowPool[t], f)
  <2>1. /\ t \in Tenants /\ f \in Flows(t) /\ Tenants' = Tenants
        /\ flowRates' = [flowRates EXCEPT ![t] = r]
        /\ flowPool' = [flowPool EXCEPT ![t] = p]
    BY <1>9 DEF RemoveFlow, rateVars, Tenants
  <2>2. DOMAIN r = Flows(t) \ {f} /\ \A g \in DOMAIN r : r[g] \in Rates
    BY <1>0 DEF Without, Flows
  <2>3. (Flows(t) \cup {Reserved}) \ {f} = DOMAIN r \cup {Reserved}
    BY <1>0, <2>1, <2>2
  <2>4. PoolInv(p, (Flows(t) \cup {Reserved}) \ {f}, max)
    BY <1>0, <2>1, ReleaseInv
  <2> HIDE DEF r, p
  <2> QED
    BY <1>0, <1>1, <2>1, <2>2, <2>3, <2>4
<1>10. ASSUME NEW t \in TenantIds, NEW f \in FlowIds, NEW rate \in Rates,
              ReconfigureFlow(t, f, rate)
       PROVE  FlowInv'
  <2>1. /\ f \in Flows(t) /\ flowPool' = flowPool /\ Tenants' = Tenants
        /\ flowRates' = [flowRates EXCEPT ![t] = With(@, f, rate)]
    BY <1>10 DEF ReconfigureFlow, ConfigureFlow, rateVars, Tenants
  <2>2. DOMAIN flowRates' = TenantIds
    BY <1>0, <2>1
  <2>3. \A u \in TenantIds :
           /\ DOMAIN flowRates'[u] = Flows(u)
           /\ \A g \in Flows(u) : flowRates'[u][g] \in Rates
    BY <1>0, <2>1 DEF With, Flows
  <2> QED
    BY <1>0, <2>1, <2>2, <2>3 DEF FlowInv, Flows
<1>11. CASE UNCHANGED vars
  BY <1>2, <1>11 DEF vars, flowVars, rateVars, Tenants
<1> QED
  BY <1>3, <1>4, <1>5, <1>6, <1>7, <1>8, <1>9, <1>10, <1>11 DEF Next

LEMMA FlowAlways == ASSUME ~ReservedMayFail PROVE Spec => []FlowInv
<1>1. ConfigInv /\ FlowInv /\ [Next]_vars => FlowInv'
  BY FlowStep
<1> QED
  BY <1>1, FlowInit, ConfigAlways, PTL DEF Spec

\* hwfq_add_flow never hands out the reserved id, as long as reserving it did
\* not fail when the tenant was added.
THEOREM ReservedCorrect ==
    ASSUME ~ReservedMayFail PROVE Spec => []ReservedNeverReturned
<1>1. FlowInv => ReservedNeverReturned
  BY DEF FlowInv, ReservedNeverReturned
<1> QED
  BY <1>1, FlowAlways, PTL

\* The walk along each free list, of the tenants' ids and of every tenant's
\* flow ids, ends after the ids that are not in use, as long as reserving flow
\* id 0 did not fail.
THEOREM PoolsCorrect ==
    ASSUME ~ReservedMayFail PROVE Spec => []PoolsSound
<1>1. ConfigInv /\ FlowInv => PoolsSound
  BY SoundPool DEF ConfigInv, FlowInv, PoolsSound
<1> QED
  BY <1>1, ConfigAlways, FlowAlways, PTL

-----------------------------------------------------------------------------
(* Totals: sums over the tables, when no sum of rates wraps.               *)

\* The units of a table of rates, one pair for each.
UnitSet(f) == UNION {{x} \X (1 .. f[x]) : x \in DOMAIN f}

\* A table of finitely many rates.
Table(f) == IsFiniteSet(DOMAIN f) /\ \A x \in DOMAIN f : f[x] \in 0 .. MaxU

LEMMA UnitSetFinite ==
    ASSUME NEW f, Table(f)
    PROVE  IsFiniteSet(UnitSet(f)) /\ Units(f) \in Nat
<1> DEFINE D == DOMAIN f
           I == 1 .. MaxU
<1>1. IsFiniteSet(I) /\ IsFiniteSet(D)
  BY FS_Interval, RateAssumption DEF Table
<1>2. \A x \in D : 1 .. f[x] \subseteq I
  BY RateAssumption DEF Table
<1>3. UnitSet(f) = UNION {{x} \X (1 .. f[x]) : x \in D}
  BY DEF UnitSet
<1> HIDE DEF D, I
<1>4. UnitSet(f) \in SUBSET (D \X I) /\ IsFiniteSet(D \X I)
  BY <1>1, <1>2, <1>3, FS_Product
<1>5. IsFiniteSet(UnitSet(f))
  BY <1>4, FS_Subset
<1>6. Units(f) = Cardinality(UnitSet(f))
  BY DEF Units, UnitSet
<1> QED
  BY <1>5, <1>6, FS_CardinalityType

\* Setting a rate changes the sum by the difference.
LEMMA UnitsWith ==
    ASSUME NEW f, Table(f), NEW x, NEW y \in 0 .. MaxU
    PROVE  /\ Table(With(f, x, y))
           /\ Units(With(f, x, y)) = (Units(f) - RateIn(f, x)) + y
           /\ RateIn(f, x) \in 0 .. MaxU /\ RateIn(f, x) <= Units(f)
<1> DEFINE g == With(f, x, y)
           P == UnitSet(f)
           Q == UnitSet(g)
           a == RateIn(f, x)
           A == 1 .. a
           B == 1 .. y
<1>1. a \in 0 .. MaxU /\ a \in Nat /\ y \in Nat
  BY RateAssumption DEF RateIn, Table
<1>2. DOMAIN g = DOMAIN f \cup {x} /\ \A z \in DOMAIN g : g[z] = IF z = x THEN y ELSE f[z]
  BY DEF With
<1>3. Table(g)
  BY <1>2, FS_AddElement, RateAssumption DEF Table
<1>4. /\ IsFiniteSet(A) /\ Cardinality(A) = a
      /\ IsFiniteSet(B) /\ Cardinality(B) = y
  BY <1>1, UpToCard
<1>5. IsFiniteSet(P)
  BY UnitSetFinite
<1>6. x \in DOMAIN f => f[x] = a
  BY DEF RateIn
<1>7. x \notin DOMAIN f => A = {}
  BY DEF RateIn
<1> HIDE DEF g, a
<1>8. {x} \X A \subseteq P
  BY <1>6, <1>7 DEF UnitSet
<1>9. \A b \in B : <<x, b>> \in P => b \in A
  BY <1>6 DEF UnitSet
<1>10. Q = (P \ ({x} \X A)) \cup ({x} \X B)
  BY <1>2, <1>6, <1>7 DEF UnitSet
<1>11. Units(f) = Cardinality(P) /\ Units(g) = Cardinality(Q)
  BY DEF Units, UnitSet
<1>12. Units(g) = (Units(f) - a) + y /\ a <= Units(f)
  <2>1. Replaced(P, Q, x, A, B)
    BY <1>8, <1>9, <1>10 DEF Replaced
  <2> HIDE DEF P, Q, A, B
  <2> QED
    BY <1>4, <1>5, <1>11, <2>1, ReplaceRow
<1> QED
  BY <1>1, <1>3, <1>12 DEF g, a

\* Removing a rate takes it out of the sum.
LEMMA UnitsWithout ==
    ASSUME NEW f, Table(f), NEW x \in DOMAIN f
    PROVE  /\ Table(Without(f, x))
           /\ Units(Without(f, x)) = Units(f) - f[x]
           /\ f[x] <= Units(f)
<1> DEFINE g == Without(f, x)
           P == UnitSet(f)
           Q == UnitSet(g)
           A == 1 .. f[x]
<1>1. f[x] \in Nat
  BY RateAssumption DEF Table
<1>2. DOMAIN g = DOMAIN f \ {x} /\ \A z \in DOMAIN g : g[z] = f[z]
  BY DEF Without
<1>3. Table(g)
  BY <1>2, FS_RemoveElement DEF Table
<1>4. /\ IsFiniteSet(A) /\ Cardinality(A) = f[x]
      /\ IsFiniteSet({}) /\ Cardinality({}) = 0
  BY <1>1, UpToCard, FS_EmptySet
<1>5. IsFiniteSet(P) /\ Units(f) \in Nat
  BY UnitSetFinite
<1> HIDE DEF g
<1>6. {x} \X A \subseteq P
  BY DEF UnitSet
<1>7. Q = (P \ ({x} \X A)) \cup ({x} \X {})
  BY <1>2 DEF UnitSet
<1>8. Units(f) = Cardinality(P) /\ Units(g) = Cardinality(Q)
  BY DEF Units, UnitSet
<1>9. Units(g) = Units(f) - f[x] /\ f[x] <= Units(f)
  <2>1. Replaced(P, Q, x, A, {})
    BY <1>6, <1>7 DEF Replaced
  <2>2. Cardinality(Q) = (Cardinality(P) - Cardinality(A)) + Cardinality({})
        /\ Cardinality(A) <= Cardinality(P)
    <3> HIDE DEF P, Q, A
    <3> QED
      BY <1>4, <1>5, <2>1, ReplaceRow
  <2> QED
    BY <1>1, <1>4, <1>5, <1>8, <2>2
<1> QED
  BY <1>3, <1>9 DEF g

LEMMA UnitsEmpty ==
    ASSUME NEW f, DOMAIN f = {}
    PROVE  Table(f) /\ Units(f) = 0
<1>1. UNION {{x} \X (1 .. f[x]) : x \in DOMAIN f} = {}
  OBVIOUS
<1> QED
  BY <1>1, FS_EmptySet DEF Table, Units

\* No sum of the rates that can be asked for wraps.
NoWrap == \A r \in Rates : TotalCapacity + r <= MaxU

\* Below the capacity the test against it is exact.
LEMMA ExceedsExact ==
    ASSUME NoWrap, NEW total \in Nat, NEW old \in Nat, NEW rate \in Rates,
           NEW capacity \in Nat, old <= total, total <= capacity,
           capacity <= TotalCapacity, ~Exceeds(total, old, rate, capacity)
    PROVE  /\ Plus(Minus(total, old), rate) = (total - old) + rate
           /\ (total - old) + rate <= capacity
<1>1. /\ rate \in 0 .. MaxU /\ TotalCapacity \in 1 .. MaxU /\ MaxU \in Nat
      /\ TotalCapacity + rate <= MaxU
  BY RateAssumption DEF NoWrap
<1>2. Minus(total, old) = total - old
  BY <1>1 DEF Minus
<1>3. Plus(total - old, rate) = (total - old) + rate
  BY <1>1 DEF Plus
<1>4. rate = 0 \/ (total - old) + rate <= capacity
  BY <1>1, <1>2, <1>3 DEF Exceeds
<1> QED
  BY <1>1, <1>2, <1>3, <1>4

\* The totals are the sums of their tables, and fit.
SumInv ==
    /\ Table(tenants)
    /\ allocatedRate = Units(tenants) /\ allocatedRate <= TotalCapacity
    /\ DOMAIN flowRates = TenantIds /\ DOMAIN flowTotal = TenantIds
    /\ flowCapacity \in [TenantIds -> 0 .. TotalCapacity]
    /\ \A t \in TenantIds :
          /\ Table(flowRates[t])
          /\ flowTotal[t] = Units(flowRates[t])
          /\ flowTotal[t] <= flowCapacity[t]

LEMMA SumInit == Init => SumInv
<1> SUFFICES ASSUME Init PROVE SumInv
  OBVIOUS
<1>1. DOMAIN tenants = {} /\ allocatedRate = 0
  BY DEF Init
<1>2. Table(tenants) /\ Units(tenants) = 0
  BY <1>1, UnitsEmpty
<1>3. Table(NoFlows) /\ Units(NoFlows) = 0
  BY UnitsEmpty DEF NoFlows
<1>4. 0 <= TotalCapacity /\ 0 \in 0 .. TotalCapacity
  BY RateAssumption
<1>5. /\ DOMAIN flowRates = TenantIds /\ DOMAIN flowTotal = TenantIds
      /\ flowCapacity \in [TenantIds -> 0 .. TotalCapacity]
      /\ \A t \in TenantIds : /\ flowRates[t] = NoFlows /\ flowTotal[t] = 0
                              /\ flowCapacity[t] = 0
  BY <1>4 DEF Init
<1> QED
  BY <1>1, <1>2, <1>3, <1>4, <1>5 DEF SumInv

\* What hwfq_add_flow does to the rates, whatever the pool answers.
LEMMA AddFlowRates ==
    ASSUME NEW t, NEW rate, AddFlow(t, rate)
    PROVE  \/ UNCHANGED <<flowRates, flowTotal>>
           \/ \E f : /\ ~Exceeds(flowTotal[t], RateIn(flowRates[t], f), rate,
                                 flowCapacity[t])
                     /\ ConfigureFlow(t, f, rate)
  BY DEF AddFlow

LEMMA SumStep ==
    ASSUME NoWrap, ConfigInv, SumInv, [Next]_vars
    PROVE  SumInv'
<1>0. /\ Table(tenants)
      /\ allocatedRate = Units(tenants) /\ allocatedRate <= TotalCapacity
      /\ allocatedRate \in Nat
      /\ DOMAIN flowRates = TenantIds /\ DOMAIN flowTotal = TenantIds
      /\ flowCapacity \in [TenantIds -> 0 .. TotalCapacity]
      /\ \A t \in TenantIds :
            /\ Table(flowRates[t])
            /\ flowTotal[t] = Units(flowRates[t])
            /\ flowTotal[t] <= flowCapacity[t]
            /\ flowCapacity[t] \in 0 .. TotalCapacity
            /\ flowTotal[t] \in Nat
  BY UnitSetFinite DEF SumInv
<1>00. TotalCapacity \in Nat /\ Rates \subseteq 0 .. MaxU
  BY RateAssumption
\* Either side may stay as it is.
<1> DEFINE TenantSums == /\ Table(tenants)
                         /\ allocatedRate = Units(tenants)
                         /\ allocatedRate <= TotalCapacity
           FlowSums == /\ DOMAIN flowRates = TenantIds
                       /\ DOMAIN flowTotal = TenantIds
                       /\ flowCapacity \in [TenantIds -> 0 .. TotalCapacity]
                       /\ \A t \in TenantIds :
                             /\ Table(flowRates[t])
                             /\ flowTotal[t] = Units(flowRates[t])
                             /\ flowTotal[t] <= flowCapacity[t]
<1>1. TenantSums' /\ FlowSums' => SumInv'
  BY DEF SumInv
<1>2. ASSUME UNCHANGED <<tenants, allocatedRate>> PROVE TenantSums'
  BY <1>0, <1>2
<1>3. ASSUME UNCHANGED <<flowRates, flowTotal, flowCapacity>> PROVE FlowSums'
  BY <1>0, <1>3
\* One tenant's flows get other rates.
<1>4. ASSUME NEW t \in TenantIds, NEW r, NEW n, NEW c \in 0 .. TotalCapacity,
             Table(r), n = Units(r), n <= c,
             flowRates' = [flowRates EXCEPT ![t] = r],
             flowTotal' = [flowTotal EXCEPT ![t] = n],
             flowCapacity' = [flowCapacity EXCEPT ![t] = c]
      PROVE  FlowSums'
  <2>1. /\ DOMAIN flowRates' = TenantIds /\ DOMAIN flowTotal' = TenantIds
        /\ flowCapacity' \in [TenantIds -> 0 .. TotalCapacity]
    BY <1>0, <1>4
  <2>2. flowRates'[t] = r /\ flowTotal'[t] = n /\ flowCapacity'[t] = c
    BY <1>0, <1>4
  <2>3. \A u \in TenantIds \ {t} : /\ flowRates'[u] = flowRates[u]
                                   /\ flowTotal'[u] = flowTotal[u]
                                   /\ flowCapacity'[u] = flowCapacity[u]
    BY <1>0, <1>4
  <2>4. ASSUME NEW u \in TenantIds
        PROVE  /\ Table(flowRates'[u])
               /\ flowTotal'[u] = Units(flowRates'[u])
               /\ flowTotal'[u] <= flowCapacity'[u]
               /\ flowCapacity'[u] \in 0 .. TotalCapacity
    <3>1. CASE u = t
      BY <1>4, <2>2, <3>1
    <3>2. CASE u # t
      BY <1>0, <2>3, <3>2
    <3> QED
      BY <3>1, <3>2
  <2> QED
    BY <2>1, <2>4
\* A flow gets a rate that fits.
<1>5. ASSUME NEW t \in TenantIds, NEW f, NEW rate \in Rates,
             ~Exceeds(flowTotal[t], RateIn(flowRates[t], f), rate, flowCapacity[t]),
             ConfigureFlow(t, f, rate), flowCapacity' = flowCapacity
      PROVE  FlowSums'
  <2> DEFINE r == With(flowRates[t], f, rate)
             old == RateIn(flowRates[t], f)
             n == Plus(Minus(flowTotal[t], old), rate)
             c == flowCapacity[t]
  <2>1. /\ Table(r) /\ Units(r) = (flowTotal[t] - old) + rate
        /\ old \in Nat /\ old <= flowTotal[t]
    BY <1>0, <1>00, UnitsWith
  <2>2. /\ c \in Nat /\ c <= TotalCapacity /\ c \in 0 .. TotalCapacity
        /\ flowTotal[t] \in Nat /\ flowTotal[t] <= c
    BY <1>0, <1>00
  <2>3. /\ flowRates' = [flowRates EXCEPT ![t] = r]
        /\ flowTotal' = [flowTotal EXCEPT ![t] = n]
        /\ flowCapacity' = [flowCapacity EXCEPT ![t] = c]
    BY <1>0, <1>5 DEF ConfigureFlow
  <2>4. ~Exceeds(flowTotal[t], old, rate, c)
    BY <1>5
  <2> HIDE DEF r, old, c
  <2>5. n = (flowTotal[t] - old) + rate /\ n <= c
    BY <2>1, <2>2, <2>4, ExceedsExact
  <2> HIDE DEF n
  <2> QED
    BY <1>4, <2>1, <2>2, <2>3, <2>5
<1>6. Table(NoFlows) /\ Units(NoFlows) = 0
  BY UnitsEmpty DEF NoFlows
<1>7. ASSUME NEW rate \in Rates, AddTenant(rate) PROVE SumInv'
  <2>1. CASE UNCHANGED <<rateVars, numTenants, totalFlows, flowVars>>
    BY <1>1, <1>2, <1>3, <2>1 DEF rateVars, flowVars
  <2>2. ASSUME NEW id \in TenantIds \ Tenants,
               ~Exceeds(allocatedRate, 0, rate, TotalCapacity),
               tenants' = With(tenants, id, rate),
               allocatedRate' = Plus(allocatedRate, rate),
               flowRates' = [flowRates EXCEPT ![id] = NoFlows],
               flowTotal' = [flowTotal EXCEPT ![id] = 0],
               flowCapacity' = [flowCapacity EXCEPT ![id] =
                                   IF rate > 0 THEN rate ELSE TotalCapacity]
        PROVE  SumInv'
    <3> DEFINE c == IF rate > 0 THEN rate ELSE TotalCapacity
    <3>1. RateIn(tenants, id) = 0
      BY <2>2 DEF RateIn, Tenants
    <3>2. /\ Table(tenants')
          /\ Units(tenants') = (allocatedRate - 0) + rate
      BY <1>0, <1>00, <2>2, <3>1, UnitsWith
    <3>3. /\ Plus(Minus(allocatedRate, 0), rate) = (allocatedRate - 0) + rate
          /\ (allocatedRate - 0) + rate <= TotalCapacity
      BY <1>0, <1>00, <2>2, ExceedsExact
    <3>4. Minus(allocatedRate, 0) = allocatedRate
      BY <1>0 DEF Minus
    <3>5. TenantSums'
      BY <2>2, <3>2, <3>3, <3>4
    <3>6. c \in 0 .. TotalCapacity /\ 0 <= c
      BY <1>0, <1>00, <3>3
    <3>7. flowCapacity' = [flowCapacity EXCEPT ![id] = c]
      BY <2>2
    <3> HIDE DEF c
    <3>8. FlowSums'
      BY <1>4, <1>6, <2>2, <3>6, <3>7
    <3> QED
      BY <1>1, <3>5, <3>8
  <2> QED
    BY <1>7, <2>1, <2>2, AddTenantStep
<1>8. ASSUME NEW t \in TenantIds, NEW rate \in Rates, ConfigureTenant(t, rate)
      PROVE  SumInv'
  <2>1. /\ t \in DOMAIN tenants
        /\ ~Exceeds(allocatedRate, tenants[t], rate, TotalCapacity)
        /\ allocatedRate' = Plus(Minus(allocatedRate, tenants[t]), rate)
        /\ tenants' = [tenants EXCEPT ![t] = rate]
        /\ UNCHANGED <<flowRates, flowTotal, flowCapacity>>
    BY <1>8 DEF ConfigureTenant, flowVars, Tenants
  <2>2. tenants' = With(tenants, t, rate) /\ RateIn(tenants, t) = tenants[t]
    BY <2>1 DEF With, RateIn
  <2>3. /\ Table(tenants')
        /\ Units(tenants') = (allocatedRate - tenants[t]) + rate
        /\ tenants[t] \in Nat /\ tenants[t] <= allocatedRate
    BY <1>0, <1>00, <2>2, UnitsWith
  <2>4. /\ allocatedRate' = (allocatedRate - tenants[t]) + rate
        /\ (allocatedRate - tenants[t]) + rate <= TotalCapacity
    BY <1>0, <1>00, <2>1, <2>3, ExceedsExact
  <2>5. TenantSums'
    BY <2>3, <2>4
  <2> QED
    BY <1>1, <1>3, <2>1, <2>5
<1>9. ASSUME NEW t \in TenantIds, RemoveTenant(t) PROVE SumInv'
  <2>1. /\ t \in DOMAIN tenants
        /\ allocatedRate' = Minus(allocatedRate, tenants[t])
        /\ tenants' = Without(tenants, t)
        /\ flowRates' = [flowRates EXCEPT ![t] = NoFlows]
        /\ flowTotal' = [flowTotal EXCEPT ![t] = 0]
        /\ flowCapacity' = [flowCapacity EXCEPT ![t] = 0]
    BY <1>9 DEF RemoveTenant, Returned, Tenants
  <2>2. /\ Table(tenants') /\ Units(tenants') = allocatedRate - tenants[t]
        /\ tenants[t] <= allocatedRate /\ tenants[t] \in Nat
    BY <1>0, <1>00, <2>1, UnitsWithout DEF Table
  <2>3. allocatedRate' = allocatedRate - tenants[t]
    BY <1>0, <2>1, <2>2 DEF Minus
  <2>4. TenantSums'
    BY <1>0, <1>00, <2>2, <2>3
  <2>5. 0 \in 0 .. TotalCapacity /\ 0 <= 0
    BY <1>00
  <2>6. FlowSums'
    BY <1>4, <1>6, <2>1, <2>5
  <2> QED
    BY <1>1, <2>4, <2>6
<1>10. CASE Restart
  <2>1. DOMAIN tenants' = {} /\ allocatedRate' = 0
    BY <1>10 DEF Restart
  <2>2. TenantSums'
    BY <1>00, <2>1, UnitsEmpty
  <2>3. /\ DOMAIN flowRates' = TenantIds /\ DOMAIN flowTotal' = TenantIds
        /\ flowCapacity' \in [TenantIds -> 0 .. TotalCapacity]
        /\ \A t \in TenantIds : /\ flowRates'[t] = NoFlows /\ flowTotal'[t] = 0
                                /\ flowCapacity'[t] = 0
    BY <1>00, <1>10 DEF Restart
  <2>4. FlowSums'
    BY <1>00, <1>6, <2>3
  <2> QED
    BY <1>1, <2>2, <2>4
<1>11. CASE AddTenantFull
  BY <1>1, <1>2, <1>3, <1>11 DEF AddTenantFull, rateVars, flowVars
<1>12. ASSUME NEW t \in TenantIds, NEW rate \in Rates, AddFlow(t, rate)
       PROVE  SumInv'
  <2>1. UNCHANGED <<tenants, allocatedRate, flowCapacity>>
    BY <1>12 DEF AddFlow, rateVars
  <2>2. FlowSums'
    BY <1>3, <1>5, <1>12, <2>1, AddFlowRates
  <2> QED
    BY <1>1, <1>2, <2>1, <2>2
<1>13. ASSUME NEW t \in TenantIds, NEW f \in FlowIds, RemoveFlow(t, f)
       PROVE  SumInv'
  <2> DEFINE r == Without(flowRates[t], f)
             n == Minus(flowTotal[t], flowRates[t][f])
             c == flowCapacity[t]
  <2>1. /\ f \in DOMAIN flowRates[t]
        /\ flowTotal' = [flowTotal EXCEPT ![t] = n]
        /\ flowRates' = [flowRates EXCEPT ![t] = r]
        /\ flowCapacity' = [flowCapacity EXCEPT ![t] = c]
        /\ UNCHANGED <<tenants, allocatedRate>>
    BY <1>0, <1>13 DEF RemoveFlow, rateVars, Flows
  <2>2. /\ Table(r) /\ Units(r) = flowTotal[t] - flowRates[t][f]
        /\ flowRates[t][f] <= flowTotal[t] /\ flowRates[t][f] \in Nat
    BY <1>0, <1>00, <2>1, UnitsWithout DEF Table
  <2>3. n = flowTotal[t] - flowRates[t][f]
    BY <1>0, <2>2 DEF Minus
  <2>4. c \in 0 .. TotalCapacity /\ n <= c
    BY <1>0, <1>00, <2>2, <2>3
  <2>5. n = Units(r)
    BY <2>2, <2>3
  <2> HIDE DEF r, n, c
  <2>6. FlowSums'
    BY <1>4, <2>1, <2>2, <2>4, <2>5
  <2> QED
    BY <1>1, <1>2, <2>1, <2>6
<1>14. ASSUME NEW t \in TenantIds, NEW f \in FlowIds, NEW rate \in Rates,
              ReconfigureFlow(t, f, rate)
       PROVE  SumInv'
  <2>1. /\ f \in Flows(t)
        /\ ~Exceeds(flowTotal[t], flowRates[t][f], rate, flowCapacity[t])
        /\ ConfigureFlow(t, f, rate)
        /\ UNCHANGED <<tenants, allocatedRate, flowCapacity>>
    BY <1>14 DEF ReconfigureFlow, rateVars
  <2>2. RateIn(flowRates[t], f) = flowRates[t][f]
    BY <2>1 DEF RateIn, Flows
  <2>3. FlowSums'
    BY <1>5, <2>1, <2>2
  <2> QED
    BY <1>1, <1>2, <2>1, <2>3
<1>15. CASE UNCHANGED vars
  BY <1>1, <1>2, <1>3, <1>15 DEF vars, rateVars, flowVars
<1> QED
  BY <1>7, <1>8, <1>9, <1>10, <1>11, <1>12, <1>13, <1>14, <1>15 DEF Next

LEMMA SumAlways == ASSUME NoWrap PROVE Spec => []SumInv
<1>1. ConfigInv /\ SumInv /\ [Next]_vars => SumInv'
  BY SumStep
<1> QED
  BY <1>1, SumInit, ConfigAlways, PTL DEF Spec

\* The rates of a tenant's flows never exceed the capacity its flow_scheduler
\* was created with, when no sum of rates wraps.
THEOREM FlowsFitCorrect == ASSUME NoWrap PROVE Spec => []FlowsFit
<1>1. ConfigInv /\ SumInv => FlowsFit
  BY TenantsBound DEF SumInv, FlowsFit
<1> QED
  BY <1>1, SumAlways, ConfigAlways, PTL

-----------------------------------------------------------------------------
(* Counters: of tenants and of flows.                                      *)

\* The flows of all tenants.
FlowPairs == UNION {{t} \X Flows(t) : t \in TenantIds}

\* The counters count the tables, the limit on flows holds, and the totals of
\* the flow schedulers have their width.
CountInv ==
    /\ numTenants = Cardinality(Tenants)
    /\ IsFiniteSet(FlowPairs) /\ totalFlows = Cardinality(FlowPairs)
    /\ MaxTotalFlows > 0 => totalFlows <= MaxTotalFlows
    /\ \A t \in TenantIds : flowTotal[t] \in 0 .. MaxU
    /\ DOMAIN flowTotal = TenantIds
    /\ flowCapacity \in [TenantIds -> 0 .. MaxU]

LEMMA CountInit == Init => CountInv
<1> SUFFICES ASSUME Init PROVE CountInv
  OBVIOUS
<1>1. Tenants = {} /\ numTenants = 0 /\ totalFlows = 0
  BY DEF Init, Tenants
<1>2. \A t \in TenantIds : Flows(t) = {}
  BY DEF Init, Flows, NoFlows
<1>3. FlowPairs = {}
  BY <1>2 DEF FlowPairs
<1>4. 0 \in 0 .. MaxU
  BY RateAssumption
<1>5. /\ \A t \in TenantIds : flowTotal[t] \in 0 .. MaxU
      /\ DOMAIN flowTotal = TenantIds
      /\ flowCapacity \in [TenantIds -> 0 .. MaxU]
  BY <1>4 DEF Init
<1>6. MaxTotalFlows > 0 => 0 <= MaxTotalFlows
  BY LimitAssumption
<1> QED
  BY <1>1, <1>3, <1>5, <1>6, FS_EmptySet DEF CountInv

\* The flows of one tenant are finitely many.
LEMMA FlowsFinite ==
    ASSUME FlowInv, NEW t \in TenantIds
    PROVE  /\ IsFiniteSet(Flows(t))
           /\ t \in Tenants => /\ flowPool[t].count = Cardinality(Flows(t)) + 1
                               /\ Flows(t) \subseteq 1 .. MaxFlowsPerTenant
           /\ Cardinality(Flows(t)) \in Nat
<1>1. CASE t \in Tenants
  <2> DEFINE p == flowPool[t]
             S == 0 .. p.used - 1
             U == Flows(t) \cup {Reserved}
  <2>1. PoolInv(p, U, MaxFlowsPerTenant + 1) /\ Reserved \notin Flows(t)
    BY <1>1 DEF FlowInv
  <2> HIDE DEF p
  <2>2. /\ p.used \in Nat /\ p.used <= MaxFlowsPerTenant + 1
        /\ U \in SUBSET S /\ p.count = Cardinality(U)
    BY <2>1 DEF PoolInv, Pools, UsedIds
  <2>3. IsFiniteSet(S)
    BY <2>2, UsedFinite
  <2>4. IsFiniteSet(Flows(t))
    <3>1. Flows(t) \in SUBSET S
      BY <2>2
    <3> HIDE DEF S
    <3> QED
      BY <2>3, <3>1, FS_Subset
  <2>5. Cardinality(U) = Cardinality(Flows(t)) + 1
    BY <2>1, <2>4, FS_AddElement
  <2>6. Flows(t) \subseteq 1 .. MaxFlowsPerTenant
    BY <2>1, <2>2, LimitAssumption DEF Reserved
  <2> QED
    BY <2>2, <2>4, <2>5, <2>6, FS_CardinalityType DEF p
<1>2. CASE t \notin Tenants
  BY <1>2, FS_EmptySet DEF FlowInv
<1> QED
  BY <1>1, <1>2

\* Changing the flows of one tenant changes the count by the difference.
LEMMA FlowPairsRow ==
    ASSUME IsFiniteSet(FlowPairs), DOMAIN flowRates = TenantIds,
           NEW t \in TenantIds, NEW r, IsFiniteSet(DOMAIN r), IsFiniteSet(Flows(t)),
           flowRates' = [flowRates EXCEPT ![t] = r]
    PROVE  /\ IsFiniteSet(FlowPairs')
           /\ Cardinality(FlowPairs') =
                 (Cardinality(FlowPairs) - Cardinality(Flows(t)))
                    + Cardinality(DOMAIN r)
           /\ Cardinality(Flows(t)) <= Cardinality(FlowPairs)
           /\ Cardinality(FlowPairs) \in Nat /\ Cardinality(Flows(t)) \in Nat
<1> DEFINE P == FlowPairs
           Q == FlowPairs'
           A == Flows(t)
           B == DOMAIN r
<1>1. \A u \in TenantIds : DOMAIN flowRates'[u] = IF u = t THEN B ELSE Flows(u)
  BY DEF Flows
<1>2. Q = UNION {{u} \X DOMAIN flowRates'[u] : u \in TenantIds}
  BY DEF FlowPairs, Flows
<1>3. {t} \X A \subseteq P
  BY DEF FlowPairs
<1>4. \A b \in B : <<t, b>> \in P => b \in A
  BY DEF FlowPairs
<1> HIDE DEF B
<1>5. Q = (P \ ({t} \X A)) \cup ({t} \X B)
  <2> HIDE DEF Q
  <2>1. Q = UNION {{u} \X (IF u = t THEN B ELSE Flows(u)) : u \in TenantIds}
    BY <1>1, <1>2
  <2> QED
    BY <2>1 DEF FlowPairs
<1>6. Replaced(P, Q, t, A, B)
  BY <1>3, <1>4, <1>5 DEF Replaced
<1>7. IsFiniteSet(P) /\ IsFiniteSet(A) /\ IsFiniteSet(B)
  BY DEF B
<1> HIDE DEF P, Q, A
<1>8. /\ IsFiniteSet(Q)
      /\ Cardinality(Q) = (Cardinality(P) - Cardinality(A)) + Cardinality(B)
      /\ Cardinality(A) <= Cardinality(P)
      /\ Cardinality(P) \in Nat /\ Cardinality(A) \in Nat
  BY <1>6, <1>7, ReplaceRow
<1> QED
  BY <1>8 DEF P, Q, A, B

LEMMA CountStep ==
    ASSUME ~ReservedMayFail, ConfigInv, FlowInv, CountInv, [Next]_vars
    PROVE  CountInv'
<1>0. /\ numTenants = Cardinality(Tenants)
      /\ IsFiniteSet(FlowPairs) /\ totalFlows = Cardinality(FlowPairs)
      /\ MaxTotalFlows > 0 => totalFlows <= MaxTotalFlows
      /\ \A t \in TenantIds : flowTotal[t] \in 0 .. MaxU
      /\ DOMAIN flowTotal = TenantIds
      /\ flowCapacity \in [TenantIds -> 0 .. MaxU]
      /\ DOMAIN flowRates = TenantIds
      /\ totalFlows \in Nat /\ MaxTotalFlows \in Nat
  BY FS_CardinalityType, LimitAssumption DEF CountInv, FlowInv
<1>00. /\ IsFiniteSet(Tenants) /\ Cardinality(Tenants) \in Nat
       /\ Rates \subseteq 0 .. MaxU /\ TotalCapacity \in 0 .. MaxU
       /\ 0 \in 0 .. MaxU /\ Tenants \subseteq TenantIds
  BY TenantsBound, FS_CardinalityType, RateAssumption
<1> DEFINE TenantCount == numTenants = Cardinality(Tenants)
           FlowCount == /\ IsFiniteSet(FlowPairs)
                        /\ totalFlows = Cardinality(FlowPairs)
                        /\ MaxTotalFlows > 0 => totalFlows <= MaxTotalFlows
           Widths == /\ \A t \in TenantIds : flowTotal[t] \in 0 .. MaxU
                     /\ DOMAIN flowTotal = TenantIds
                     /\ flowCapacity \in [TenantIds -> 0 .. MaxU]
<1>1. TenantCount' /\ FlowCount' /\ Widths' => CountInv'
  BY DEF CountInv
<1>2. ASSUME numTenants' = numTenants, Tenants' = Tenants PROVE TenantCount'
  BY <1>0, <1>2
<1>3. ASSUME UNCHANGED <<flowRates, totalFlows>> PROVE FlowCount'
  BY <1>0, <1>3 DEF FlowPairs, Flows
<1>4. ASSUME UNCHANGED <<flowTotal, flowCapacity>> PROVE Widths'
  BY <1>0, <1>4
<1>5. ASSUME NEW t \in TenantIds, NEW n \in 0 .. MaxU, NEW c \in 0 .. MaxU,
             flowTotal' = [flowTotal EXCEPT ![t] = n],
             flowCapacity' = [flowCapacity EXCEPT ![t] = c]
      PROVE  Widths'
  BY <1>0, <1>5
\* The flow counter follows the change of one tenant's flows.
<1>6. ASSUME NEW t \in TenantIds, NEW r, IsFiniteSet(DOMAIN r),
             flowRates' = [flowRates EXCEPT ![t] = r],
             totalFlows' = (totalFlows - Cardinality(Flows(t)))
                              + Cardinality(DOMAIN r),
             MaxTotalFlows > 0 => totalFlows' <= MaxTotalFlows
      PROVE  FlowCount'
  BY <1>0, <1>6, FlowsFinite, FlowPairsRow
<1>7. /\ DOMAIN NoFlows = {} /\ IsFiniteSet({}) /\ Cardinality({}) = 0
  BY FS_EmptySet DEF NoFlows
<1>8. ASSUME NEW t \in TenantIds, NEW f, NEW rate \in Rates,
             ConfigureFlow(t, f, rate), flowCapacity' = flowCapacity
      PROVE  Widths'
  <2> DEFINE n == Plus(Minus(flowTotal[t], RateIn(flowRates[t], f)), rate)
  <2>1. RateIn(flowRates[t], f) \in 0 .. MaxU
    BY <1>00 DEF RateIn, FlowInv, Flows
  <2>2. n \in 0 .. MaxU
    BY <1>0, <1>00, <2>1, Arithmetic
  <2>3. flowTotal' = [flowTotal EXCEPT ![t] = n]
    BY <1>8 DEF ConfigureFlow
  <2> HIDE DEF n
  <2> QED
    BY <1>0, <1>8, <2>2, <2>3
<1>9. ASSUME NEW rate \in Rates, AddTenant(rate) PROVE CountInv'
  <2>1. CASE UNCHANGED <<rateVars, numTenants, totalFlows, flowVars>>
    <3>1. Tenants' = Tenants
      BY <2>1 DEF rateVars, Tenants
    <3> QED
      BY <1>1, <1>2, <1>3, <1>4, <2>1, <3>1 DEF flowVars
  <2>2. ASSUME NEW id \in TenantIds \ Tenants,
               tenants' = With(tenants, id, rate),
               numTenants' = numTenants + 1,
               flowRates' = [flowRates EXCEPT ![id] = NoFlows],
               flowTotal' = [flowTotal EXCEPT ![id] = 0],
               flowCapacity' = [flowCapacity EXCEPT ![id] =
                                   IF rate > 0 THEN rate ELSE TotalCapacity],
               totalFlows' = totalFlows
        PROVE  CountInv'
    <3> DEFINE c == IF rate > 0 THEN rate ELSE TotalCapacity
    <3>1. Tenants' = Tenants \cup {id}
      BY <2>2 DEF With, Tenants
    <3>2. TenantCount'
      BY <1>0, <1>00, <2>2, <3>1, FS_AddElement
    <3>3. Flows(id) = {}
      BY <2>2 DEF FlowInv
    <3>4. totalFlows' = (totalFlows - Cardinality(Flows(id)))
                           + Cardinality(DOMAIN NoFlows)
      BY <1>0, <1>7, <2>2, <3>3
    <3>5. MaxTotalFlows > 0 => totalFlows' <= MaxTotalFlows
      BY <1>0, <2>2
    <3>6. FlowCount'
      BY <1>6, <1>7, <2>2, <3>4, <3>5
    <3>7. c \in 0 .. MaxU /\ flowCapacity' = [flowCapacity EXCEPT ![id] = c]
      BY <1>00, <2>2
    <3> HIDE DEF c
    <3>8. Widths'
      BY <1>00, <1>5, <2>2, <3>7
    <3> QED
      BY <1>1, <3>2, <3>6, <3>8
  <2> QED
    BY <1>9, <2>1, <2>2, AddTenantStep
<1>10. ASSUME NEW t \in TenantIds, NEW rate \in Rates, ConfigureTenant(t, rate)
       PROVE  CountInv'
  <2>1. Tenants' = Tenants
    BY <1>10 DEF ConfigureTenant, Tenants
  <2> QED
    BY <1>1, <1>2, <1>3, <1>4, <1>10, <2>1 DEF ConfigureTenant, flowVars
<1>11. ASSUME NEW t \in TenantIds, RemoveTenant(t) PROVE CountInv'
  <2>1. /\ t \in Tenants /\ Tenants' = Tenants \ {t}
        /\ numTenants' = numTenants - 1
        /\ totalFlows' = IF totalFlows >= UserFlows(flowPool[t])
                         THEN totalFlows - UserFlows(flowPool[t]) ELSE 0
        /\ flowRates' = [flowRates EXCEPT ![t] = NoFlows]
        /\ flowTotal' = [flowTotal EXCEPT ![t] = 0]
        /\ flowCapacity' = [flowCapacity EXCEPT ![t] = 0]
    BY <1>11 DEF RemoveTenant, Without, Tenants
  <2>2. TenantCount'
    <3>1. Cardinality(Tenants \ {t}) = Cardinality(Tenants) - 1
      BY <1>00, <2>1, FS_RemoveElement
    <3> QED
      BY <1>0, <1>00, <2>1, <3>1
  <2>3. Cardinality(Flows(t)) \in Nat /\ UserFlows(flowPool[t]) = Cardinality(Flows(t))
    BY <2>1, FlowsFinite DEF UserFlows
  <2>4. Cardinality(Flows(t)) <= totalFlows
    <3>1. Flows(t) = DOMAIN flowRates[t]
      BY DEF Flows
    <3>2. IsFiniteSet(Flows(t)) /\ IsFiniteSet(DOMAIN NoFlows)
      BY <1>7, FlowsFinite
    <3> QED
      BY <1>0, <2>1, <3>2, FlowPairsRow
  <2>5. totalFlows' = (totalFlows - Cardinality(Flows(t))) + Cardinality(DOMAIN NoFlows)
    BY <1>0, <1>7, <2>1, <2>3, <2>4
  <2>6. MaxTotalFlows > 0 => totalFlows' <= MaxTotalFlows
    BY <1>0, <1>7, <2>3, <2>4, <2>5
  <2>7. FlowCount'
    BY <1>6, <1>7, <2>1, <2>5, <2>6
  <2>8. Widths'
    BY <1>00, <1>5, <2>1
  <2> QED
    BY <1>1, <2>2, <2>7, <2>8
<1>12. CASE Restart
  <2>1. Tenants' = {} /\ numTenants' = 0 /\ totalFlows' = 0
    BY <1>12 DEF Restart, Tenants
  <2>2. TenantCount'
    BY <1>7, <2>1
  <2>3. \A t \in TenantIds : DOMAIN flowRates'[t] = {}
    BY <1>7, <1>12 DEF Restart
  <2>4. FlowPairs' = {}
    BY <2>3 DEF FlowPairs, Flows
  <2>5. FlowCount'
    BY <1>0, <1>7, <2>1, <2>4
  <2>6. Widths'
    BY <1>00, <1>12 DEF Restart
  <2> QED
    BY <1>1, <2>2, <2>5, <2>6
<1>13. CASE AddTenantFull
  <2>1. Tenants' = Tenants
    BY <1>13 DEF AddTenantFull, rateVars, Tenants
  <2> QED
    BY <1>1, <1>2, <1>3, <1>4, <1>13, <2>1 DEF AddTenantFull, flowVars
<1>14. ASSUME NEW t \in TenantIds, NEW rate \in Rates, AddFlow(t, rate)
       PROVE  CountInv'
  <2>1. /\ UNCHANGED <<numTenants, flowCapacity>> /\ Tenants' = Tenants
        /\ MaxTotalFlows > 0 => totalFlows < MaxTotalFlows
    BY <1>14, AddFlowStep DEF rateVars, Tenants
  <2>2. CASE UNCHANGED <<flowRates, flowTotal, totalFlows>>
    BY <1>1, <1>2, <1>3, <1>4, <2>1, <2>2
  <2>3. ASSUME NEW f \in FlowIds \ (Flows(t) \cup {Reserved}),
               ConfigureFlow(t, f, rate), totalFlows' = totalFlows + 1
        PROVE  CountInv'
    <3> DEFINE r == With(flowRates[t], f, rate)
    <3>1. flowRates' = [flowRates EXCEPT ![t] = r]
      BY <2>3 DEF ConfigureFlow
    <3>2. DOMAIN r = Flows(t) \cup {f}
      BY DEF With, Flows
    <3>3. /\ IsFiniteSet(DOMAIN r)
          /\ Cardinality(DOMAIN r) = Cardinality(Flows(t)) + 1
          /\ Cardinality(Flows(t)) \in Nat
      BY <2>3, <3>2, FlowsFinite, FS_AddElement
    <3>4. totalFlows' = (totalFlows - Cardinality(Flows(t))) + Cardinality(DOMAIN r)
      BY <1>0, <2>3, <3>3
    <3>5. MaxTotalFlows > 0 => totalFlows' <= MaxTotalFlows
      BY <1>0, <2>1, <2>3
    <3> HIDE DEF r
    <3>6. FlowCount'
      BY <1>6, <3>1, <3>3, <3>4, <3>5
    <3>7. Widths'
      BY <1>8, <2>1, <2>3
    <3> QED
      BY <1>1, <1>2, <2>1, <3>6, <3>7
  <2> QED
    BY <1>14, <2>2, <2>3, AddFlowStep
<1>15. ASSUME NEW t \in TenantIds, NEW f \in FlowIds, RemoveFlow(t, f)
       PROVE  CountInv'
  <2> DEFINE r == Without(flowRates[t], f)
             n == Minus(flowTotal[t], flowRates[t][f])
  <2>1. /\ f \in Flows(t) /\ UNCHANGED <<numTenants, flowCapacity>>
        /\ Tenants' = Tenants
        /\ flowTotal' = [flowTotal EXCEPT ![t] = n]
        /\ flowRates' = [flowRates EXCEPT ![t] = r]
        /\ totalFlows' = IF totalFlows > 0 THEN totalFlows - 1 ELSE 0
    BY <1>15 DEF RemoveFlow, rateVars, Tenants
  <2>2. DOMAIN r = Flows(t) \ {f}
    BY DEF Without, Flows
  <2>3. /\ IsFiniteSet(DOMAIN r)
        /\ Cardinality(DOMAIN r) = Cardinality(Flows(t)) - 1
        /\ Cardinality(Flows(t)) \in Nat /\ Cardinality(DOMAIN r) \in Nat
    BY <2>1, <2>2, FlowsFinite, FS_RemoveElement, FS_CardinalityType
  <2>4. n \in 0 .. MaxU
    <3>1. flowRates[t][f] \in 0 .. MaxU
      BY <1>00, <2>1 DEF FlowInv
    <3> QED
      BY <1>0, <3>1, Arithmetic
  <2> HIDE DEF r, n
  <2>5. Cardinality(Flows(t)) <= totalFlows
    BY <1>0, <2>1, <2>3, FlowsFinite, FlowPairsRow
  <2>6. /\ totalFlows' = (totalFlows - Cardinality(Flows(t))) + Cardinality(DOMAIN r)
        /\ totalFlows' <= totalFlows /\ totalFlows' \in Nat
    BY <1>0, <2>1, <2>3, <2>5
  <2>7. MaxTotalFlows > 0 => totalFlows' <= MaxTotalFlows
    BY <1>0, <2>6
  <2>8. FlowCount'
    BY <1>6, <2>1, <2>3, <2>6, <2>7
  <2>9. Widths'
    BY <1>0, <2>1, <2>4
  <2> QED
    BY <1>1, <1>2, <2>1, <2>8, <2>9
<1>16. ASSUME NEW t \in TenantIds, NEW f \in FlowIds, NEW rate \in Rates,
              ReconfigureFlow(t, f, rate)
       PROVE  CountInv'
  <2> DEFINE r == With(flowRates[t], f, rate)
  <2>1. /\ f \in Flows(t) /\ ConfigureFlow(t, f, rate)
        /\ UNCHANGED <<numTenants, flowCapacity, totalFlows>>
        /\ Tenants' = Tenants
        /\ flowRates' = [flowRates EXCEPT ![t] = r]
    BY <1>16 DEF ReconfigureFlow, ConfigureFlow, rateVars, Tenants
  <2>2. DOMAIN r = Flows(t)
    BY <2>1 DEF With, Flows
  <2>3. IsFiniteSet(Flows(t)) /\ Cardinality(Flows(t)) \in Nat
    BY FlowsFinite
  <2> HIDE DEF r
  <2>4. totalFlows' = (totalFlows - Cardinality(Flows(t))) + Cardinality(DOMAIN r)
    BY <1>0, <2>1, <2>2, <2>3
  <2>5. MaxTotalFlows > 0 => totalFlows' <= MaxTotalFlows
    BY <1>0, <2>1
  <2>6. FlowCount'
    BY <1>6, <2>1, <2>2, <2>3, <2>4, <2>5
  <2>7. Widths'
    BY <1>8, <2>1
  <2> QED
    BY <1>1, <1>2, <2>1, <2>6, <2>7
<1>17. CASE UNCHANGED vars
  <2>1. Tenants' = Tenants
    BY <1>17 DEF vars, rateVars, Tenants
  <2> QED
    BY <1>1, <1>2, <1>3, <1>4, <1>17, <2>1 DEF vars, flowVars
<1> QED
  BY <1>9, <1>10, <1>11, <1>12, <1>13, <1>14, <1>15, <1>16, <1>17 DEF Next

LEMMA CountAlways == ASSUME ~ReservedMayFail PROVE Spec => []CountInv
<1>1. ConfigInv /\ FlowInv /\ CountInv /\ [Next]_vars => CountInv'
  BY CountStep
<1> QED
  BY <1>1, CountInit, ConfigAlways, FlowAlways, PTL DEF Spec

\* The limits of the configuration hold for the flows that really exist, not
\* only for the counters that hwfq_add_flow reads.
THEOREM LimitsCorrect == ASSUME ~ReservedMayFail PROVE Spec => []LimitsHold
<1>1. ConfigInv /\ FlowInv /\ CountInv => LimitsHold
  <2> SUFFICES ASSUME ConfigInv, FlowInv, CountInv PROVE LimitsHold
    OBVIOUS
  <2>1. ASSUME NEW t \in Tenants
        PROVE  Cardinality(Flows(t)) <= MaxFlowsPerTenant
    <3> DEFINE S == 1 .. MaxFlowsPerTenant
    <3>1. t \in TenantIds
      BY TenantsBound
    <3>2. Flows(t) \in SUBSET S
      BY <3>1, FlowsFinite
    <3>3. IsFiniteSet(S) /\ Cardinality(S) = MaxFlowsPerTenant
      BY LimitAssumption, UpToCard
    <3> HIDE DEF S
    <3> QED
      BY <3>2, <3>3, FS_Subset
  <2>2. MaxTotalFlows > 0 => Cardinality(FlowPairs) <= MaxTotalFlows
    BY DEF CountInv
  <2> QED
    BY <2>1, <2>2 DEF LimitsHold, FlowPairs
<1> QED
  BY <1>1, ConfigAlways, FlowAlways, CountAlways, PTL

\* hwfq_get_capacity_info reports what is configured: its totals are the sums
\* over the tables, so no rate and no flow is lost or counted twice.
THEOREM CapacityInfoCorrect ==
    ASSUME ~ReservedMayFail, NoWrap PROVE Spec => []CapacityInfoExact
<1>1. SumInv /\ CountInv => CapacityInfoExact
  BY DEF SumInv, CountInv, CapacityInfoExact, FlowPairs
<1> QED
  BY <1>1, SumAlways, CountAlways, PTL

\* The configuration keeps its types; numTenants and totalFlows never go below
\* zero, though they are decremented by what the pool counts.
THEOREM ConfigTypeCorrect == ASSUME ~ReservedMayFail PROVE Spec => []TypeOK
<1>1. ConfigInv /\ FlowInv /\ CountInv => TypeOK
  <2> SUFFICES ASSUME ConfigInv, FlowInv, CountInv PROVE TypeOK
    OBVIOUS
  <2>1. Tenants \subseteq TenantIds /\ IsFiniteSet(Tenants)
    BY TenantsBound
  <2>2. /\ \A t \in Tenants : tenants[t] \in Rates
        /\ allocatedRate \in 0 .. MaxU /\ systemTotal \in 0 .. MaxU
        /\ DOMAIN systemRates \subseteq TenantIds
    BY <2>1 DEF ConfigInv, RateTotalsAgree, Tenants
  <2>3. numTenants \in 0 .. MaxTenants
    <3> DEFINE S == 0 .. MaxTenants - 1
    <3>1. Tenants \in SUBSET S /\ IsFiniteSet(S) /\ Cardinality(S) = MaxTenants
      BY <2>1, LimitAssumption, UsedFinite DEF TenantIds
    <3> HIDE DEF S
    <3>2. Cardinality(Tenants) <= MaxTenants /\ Cardinality(Tenants) \in Nat
      BY <2>1, <3>1, FS_Subset, FS_CardinalityType
    <3> QED
      BY <3>2, LimitAssumption DEF CountInv
  <2>4. totalFlows \in Nat
    BY FS_CardinalityType DEF CountInv
  <2>5. ASSUME NEW t \in TenantIds
        PROVE  /\ Flows(t) \subseteq FlowIds
               /\ \A f \in Flows(t) : flowRates[t][f] \in Rates
               /\ flowTotal[t] \in 0 .. MaxU
    <3>1. Flows(t) \subseteq FlowIds
      <4>1. CASE t \in Tenants
        BY <4>1, FlowsFinite, LimitAssumption DEF FlowIds
      <4>2. CASE t \notin Tenants
        BY <4>2 DEF FlowInv
      <4> QED
        BY <4>1, <4>2
    <3> QED
      BY <3>1 DEF FlowInv, CountInv
  <2>6. flowCapacity \in [TenantIds -> 0 .. MaxU]
    BY DEF CountInv
  <2> QED
    BY <2>1, <2>2, <2>3, <2>4, <2>5, <2>6 DEF TypeOK
<1> QED
  BY <1>1, ConfigAlways, FlowAlways, CountAlways, PTL

=============================================================================
