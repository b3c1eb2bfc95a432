------------------------ MODULE HwfqSchedulerProofs ------------------------
(* Theorems about HwfqScheduler, for every value of its constants.         *)
EXTENDS HwfqScheduler, Integers, FiniteSetTheorems, TLAPS

\* Unsigned arithmetic stays in its width.
LEMMA PlusRange == ASSUME NEW a \in 0 .. MaxU, NEW b \in 0 .. MaxU
                   PROVE  Plus(a, b) \in 0 .. MaxU
  BY CapacityAssumption DEF Plus

LEMMA MinusRange == ASSUME NEW a \in 0 .. MaxU, NEW b \in 0 .. MaxU
                    PROVE  Minus(a, b) \in 0 .. MaxU
  BY CapacityAssumption DEF Minus

LEMMA SizeRange == ASSUME NEW s \in Sessions
                   PROVE  Size[s] \in 1 .. MaxU /\ Size[s] \in Nat
  BY SizeAssumption, CapacityAssumption

\* The units of work of a set of in-flight entries.
Units(es) == UNION {{e} \X (1 .. Size[e.data]) : e \in es}

LEMMA UnitsFinite ==
    ASSUME NEW es \in SUBSET Entries, IsFiniteSet(es)
    PROVE  IsFiniteSet(Units(es)) /\ Cardinality(Units(es)) \in Nat
  <1>1. IsFiniteSet(1 .. MaxU)
    BY FS_Interval, CapacityAssumption
  <1>2. IsFiniteSet(es \X (1 .. MaxU))
    BY <1>1, FS_Product
  <1>3. \A e \in es : 1 .. Size[e.data] \subseteq 1 .. MaxU
    BY SizeRange, CapacityAssumption DEF Entries
  <1>4. Units(es) \subseteq es \X (1 .. MaxU)
    BY <1>3 DEF Units
  <1> QED
    BY <1>2, <1>4, FS_Subset, FS_CardinalityType

LEMMA UnitsSingle ==
    ASSUME NEW e \in Entries
    PROVE  Cardinality(Units({e})) = Size[e.data]
  <1> DEFINE n == Size[e.data]
             I == 1 .. n
             P == {e} \X I
  <1>1. n \in Nat /\ n >= 1
    BY SizeRange, CapacityAssumption DEF Entries
  <1>2. Units({e}) = P
    BY DEF Units
  <1> HIDE DEF n
  <1>3. IsFiniteSet(I) /\ Cardinality(I) = n
    BY <1>1, FS_Interval
  <1> HIDE DEF I
  <1>4. IsFiniteSet({e}) /\ Cardinality({e}) = 1
    BY FS_Singleton
  <1>5. Cardinality(P) = Cardinality({e}) * Cardinality(I)
    BY <1>3, <1>4, FS_Product
  <1> HIDE DEF P
  <1>6. Cardinality(P) = n
    BY <1>1, <1>3, <1>4, <1>5
  <1> QED
    BY <1>2, <1>6 DEF n

\* Taking entries out of a set takes exactly their units out.
LEMMA UnitsWithout ==
    ASSUME NEW es \in SUBSET Entries, IsFiniteSet(es), NEW gone \in SUBSET es
    PROVE  Cardinality(Units(es \ gone)) =
              Cardinality(Units(es)) - Cardinality(Units(gone))
  <1> DEFINE U == Units(es)
             V == Units(gone)
  <1>1. Units(es \ gone) = U \ V
    BY DEF Units
  <1>2. U \cap V = V
    BY DEF Units
  <1>3. IsFiniteSet(U)
    BY UnitsFinite
  <1> HIDE DEF U, V
  <1>4. Cardinality(U \ V) = Cardinality(U) - Cardinality(U \cap V)
    BY <1>3, FS_Difference
  <1>5. Cardinality(U \ V) = Cardinality(U) - Cardinality(V)
    BY <1>2, <1>4
  <1> QED
    BY <1>1, <1>5 DEF U, V

LEMMA UnitsWith ==
    ASSUME NEW es \in SUBSET Entries, IsFiniteSet(es), NEW e \in Entries, e \notin es
    PROVE  Cardinality(Units(es \cup {e})) = Cardinality(Units(es)) + Size[e.data]
  <1>1. IsFiniteSet(es \cup {e}) /\ es \cup {e} \in SUBSET Entries
    BY FS_AddElement
  <1>2. (es \cup {e}) \ {e} = es
    OBVIOUS
  <1>3. Cardinality(Units(es)) =
           Cardinality(Units(es \cup {e})) - Cardinality(Units({e}))
    BY <1>1, <1>2, UnitsWithout
  <1>4. Cardinality(Units(es \cup {e})) \in Nat /\ Size[e.data] \in Nat
    BY <1>1, UnitsFinite, SizeRange DEF Entries
  <1> QED
    BY <1>3, <1>4, UnitsSingle

-----------------------------------------------------------------------------
(* Type correctness.  The in-flight counter is decremented without a test, *)
(* so it stays a natural number only because it counts the list; and the   *)
(* list gains one element per dispatch only because a session is never     *)
(* queued and in flight at once.                                           *)

Counted == IsFiniteSet(inFlight) /\ inFlightCount = Cardinality(inFlight)

\* Sessions in the queues and in flight are held, and in one place only.
Placed ==
    /\ \A t \in Tenants : \A x \in queue[t] :
          x.data \in held /\ \A e \in inFlight : e.data # x.data
    /\ \A e \in inFlight : e.data \in held
    /\ \A t, u \in Tenants : \A x \in queue[t], y \in queue[u] :
          x.data = y.data => t = u /\ x = y
    /\ \A e, g \in inFlight : e.data = g.data => e = g

BaseInv == TypeOK /\ Counted /\ Placed

LEMMA AddTenantTypeOK ==
    ASSUME TypeOK, NEW c \in Callers, AddTenant(c) PROVE TypeOK'
  BY DEF AddTenant, TypeOK, flightVars, callerVars, workerVars, histVars

LEMMA RemoveTenantTypeOK ==
    ASSUME TypeOK, NEW c \in Callers, RemoveTenant(c) PROVE TypeOK'
  BY DEF RemoveTenant, TypeOK, Contexts, statVars, flightVars, callerVars, workerVars

LEMMA FlowTypeOK ==
    ASSUME TypeOK, NEW c \in Callers, AddFlow(c) \/ RemoveFlow(c) PROVE TypeOK'
  <1>1. flows' \in [Tenants -> SUBSET Flows]
    <2>1. CASE AddFlow(c)
      BY <2>1 DEF AddFlow, TypeOK
    <2>2. CASE RemoveFlow(c)
      BY <2>2 DEF RemoveFlow, TypeOK
    <2> QED
      BY <2>1, <2>2
  <1>2. UNCHANGED <<configured, queueVars, statVars, flightVars, clock,
                    callerVars, workerVars, enqueues, histVars>>
    BY DEF AddFlow, RemoveFlow
  <1> QED
    BY <1>1, <1>2 DEF TypeOK, queueVars, statVars, flightVars, callerVars,
                      workerVars, histVars

LEMMA RegisterTypeOK ==
    ASSUME TypeOK, NEW t \in Tenants, NEW b \in BOOLEAN, NEW r \in Nat,
           NEW ok \in BOOLEAN, Register(t, b, r, ok)
    PROVE  hasBacklog' \in [Tenants -> BOOLEAN] /\ registered' \in [Tenants -> Nat]
  <1>1. b \/ ok \in BOOLEAN
    OBVIOUS
  <1> QED
    BY <1>1 DEF Register, TypeOK

LEMMA ReturnTypeOK ==
    ASSUME TypeOK, NEW c \in Callers, NEW n, Return(c, n)
    PROVE  /\ pc' \in [Callers -> {"idle", "sampled", "reporting", "notify"}]
           /\ UNCHANGED <<sample, reports, mustNotify>>
  BY DEF Return, TypeOK

LEMMA EnqueueTypeOK ==
    ASSUME TypeOK, NEW c \in Callers, Enqueue(c) PROVE TypeOK'
  <1>1. PICK t \in configured : \E f \in flows[t], s \in Sessions, ok \in AllocResults :
           /\ queue' = [queue EXCEPT ![t] = @ \cup {[data |-> s, flow |-> f]}]
           /\ tenantBacklog' = [tenantBacklog EXCEPT ![t] = @ + 1]
           /\ flowBacklog' = [flowBacklog EXCEPT ![t][f] = @ + 1]
           /\ Register(t, hasBacklog[t], registered[t], ok)
           /\ held' = held \cup {s}
           /\ disposed' = disposed \ {s}
           /\ cleanups' = cleanups \ {s}
    BY DEF Enqueue
  <1>2. PICK f \in flows[t], s \in Sessions, ok \in AllocResults :
           /\ queue' = [queue EXCEPT ![t] = @ \cup {[data |-> s, flow |-> f]}]
           /\ tenantBacklog' = [tenantBacklog EXCEPT ![t] = @ + 1]
           /\ flowBacklog' = [flowBacklog EXCEPT ![t][f] = @ + 1]
           /\ Register(t, hasBacklog[t], registered[t], ok)
           /\ held' = held \cup {s}
           /\ disposed' = disposed \ {s}
           /\ cleanups' = cleanups \ {s}
    BY <1>1
  <1>3. t \in Tenants /\ f \in Flows /\ ok \in BOOLEAN
    BY AllocAssumption DEF TypeOK
  <1>4. hasBacklog' \in [Tenants -> BOOLEAN] /\ registered' \in [Tenants -> Nat]
    BY <1>2, <1>3, RegisterTypeOK DEF TypeOK
  <1>5. /\ queue' \in [Tenants -> SUBSET Contexts]
        /\ tenantBacklog' \in [Tenants -> Nat]
        /\ flowBacklog' \in [Tenants -> [Flows -> Nat]]
        /\ held' \subseteq Sessions /\ disposed' \subseteq Sessions
        /\ cleanups' \subseteq Sessions
    BY <1>2, <1>3 DEF TypeOK, Contexts
  <1>6. /\ pc' \in [Callers -> {"idle", "sampled", "reporting", "notify"}]
        /\ UNCHANGED <<sample, reports, mustNotify>>
    BY ReturnTypeOK DEF Enqueue
  <1>7. enqueues' \in 0 .. MaxEnqueues
    BY BoundAssumption DEF Enqueue, TypeOK
  <1>8. UNCHANGED <<tenantVars, flightVars, clock, workerVars>>
    BY DEF Enqueue
  <1> QED
    BY <1>4, <1>5, <1>6, <1>7, <1>8
    DEF TypeOK, tenantVars, flightVars, workerVars

LEMMA DequeueEmptyTypeOK ==
    ASSUME TypeOK, NEW w \in Workers, DequeueEmpty(w) PROVE TypeOK'
  BY DEF DequeueEmpty, TypeOK, tenantVars, queueVars, statVars, flightVars,
         callerVars, histVars

LEMMA DequeueInternalTypeOK ==
    ASSUME TypeOK, NEW w \in Workers, DequeueInternal(w) PROVE TypeOK'
  BY DEF DequeueInternal, TypeOK, tenantVars, statVars, flightVars,
         callerVars, histVars

\* A put-back registers the popped tenant again and keeps or drops x.
LEMMA RequeueFacts ==
    ASSUME TypeOK, NEW t \in Tenants, NEW x \in queue[t], registered[t] > 0,
           Requeue(t, x)
    PROVE  \E ok \in AllocResults :
              /\ ok \in BOOLEAN /\ registered[t] - 1 \in Nat
              /\ Register(t, FALSE, registered[t] - 1, ok)
              /\ \/ queue' = queue
                 \/ /\ queue' = [queue EXCEPT ![t] = @ \ {x}]
                    /\ x.flow \notin flows[t] \/ FALSE \in AllocResults
  <1>1. registered[t] - 1 \in Nat
    BY DEF TypeOK
  <1> QED
    BY <1>1, AllocAssumption DEF Requeue

LEMMA DequeuePutBackTypeOK ==
    ASSUME TypeOK, NEW w \in Workers, DequeuePutBack(w) PROVE TypeOK'
  <1>1. PICK t \in Tenants, x \in Contexts :
           x \in queue[t] /\ registered[t] > 0 /\ Requeue(t, x)
    BY DEF DequeuePutBack, TypeOK
  <1>2. PICK ok \in BOOLEAN :
           /\ registered[t] - 1 \in Nat
           /\ Register(t, FALSE, registered[t] - 1, ok)
           /\ queue' = queue \/ queue' = [queue EXCEPT ![t] = @ \ {x}]
    BY <1>1, RequeueFacts
  <1>3. hasBacklog' \in [Tenants -> BOOLEAN] /\ registered' \in [Tenants -> Nat]
    BY <1>2, RegisterTypeOK
  <1>4. queue' \in [Tenants -> SUBSET Contexts]
    <2>1. queue \in [Tenants -> SUBSET Contexts]
      BY DEF TypeOK
    <2>2. queue[t] \ {x} \in SUBSET Contexts
      BY <2>1
    <2> QED
      BY <1>2, <2>1, <2>2
  <1>5. worker' \in [Workers -> {"waiting", "draining"}]
    BY DEF DequeuePutBack, TypeOK
  <1> QED
    BY <1>3, <1>4, <1>5
    DEF DequeuePutBack, TypeOK, tenantVars, statVars, flightVars, callerVars,
        histVars

\* What a successful dequeue does with the session x of tenant t.
Dispatch(t, x) ==
    /\ registered[t] > 0
    /\ ~NoCapacity(x.data)
    /\ queue' = [queue EXCEPT ![t] = @ \ {x}]
    /\ inFlight' = inFlight \cup {[data |-> x.data, tenant |-> t,
                                   flow |-> x.flow, time |-> clock]}
    /\ inFlightWork' = Plus(inFlightWork, Size[x.data])
    /\ inFlightCount' = inFlightCount + 1
    /\ \E ok \in AllocResults :
          Register(t, FALSE, registered[t] - 1, queue'[t] # {} /\ ok)

LEMMA DispatchFacts ==
    ASSUME TypeOK, NEW w \in Workers, DequeueSuccess(w)
    PROVE  \E t \in Tenants, x \in Contexts :
              /\ x \in queue[t]
              /\ Dispatch(t, x)
              /\ [data |-> x.data, tenant |-> t, flow |-> x.flow,
                  time |-> clock] \in Entries
  <1>1. PICK t \in Tenants : \E x \in queue[t] : Dispatch(t, x)
    BY DEF DequeueSuccess, Dispatch
  <1>2. PICK x \in queue[t] : Dispatch(t, x)
    BY <1>1
  <1>3. x \in Contexts /\ clock \in Nat
    BY BoundAssumption DEF TypeOK
  <1>4. [data |-> x.data, tenant |-> t, flow |-> x.flow, time |-> clock] \in Entries
    BY <1>3 DEF Contexts, Entries
  <1> QED
    BY <1>2, <1>3, <1>4

LEMMA DequeueSuccessTypeOK ==
    ASSUME TypeOK, NEW w \in Workers, DequeueSuccess(w) PROVE TypeOK'
  <1>1. PICK t \in Tenants, x \in Contexts :
           /\ x \in queue[t]
           /\ Dispatch(t, x)
           /\ [data |-> x.data, tenant |-> t, flow |-> x.flow,
               time |-> clock] \in Entries
    BY DispatchFacts
  <1>2. PICK ok \in BOOLEAN :
           Register(t, FALSE, registered[t] - 1, queue'[t] # {} /\ ok)
    BY <1>1, AllocAssumption DEF Dispatch
  <1>3. registered[t] - 1 \in Nat
    BY <1>1 DEF Dispatch, TypeOK
  <1>4. (queue'[t] # {} /\ ok) \in BOOLEAN
    OBVIOUS
  <1>5. hasBacklog' \in [Tenants -> BOOLEAN] /\ registered' \in [Tenants -> Nat]
    BY <1>2, <1>3, <1>4, RegisterTypeOK
  <1>6. queue' \in [Tenants -> SUBSET Contexts] /\ inFlight' \subseteq Entries
    BY <1>1 DEF Dispatch, TypeOK
  <1>7. inFlightWork' \in 0 .. MaxU
    <2>1. Size[x.data] \in 0 .. MaxU
      BY <1>1, SizeRange, CapacityAssumption DEF Contexts
    <2> QED
      BY <1>1, <2>1, PlusRange DEF Dispatch, TypeOK
  <1>8. inFlightCount' \in Nat
    BY <1>1 DEF Dispatch, TypeOK
  <1> QED
    BY <1>5, <1>6, <1>7, <1>8
    DEF DequeueSuccess, TypeOK, tenantVars, statVars, callerVars, workerVars,
        histVars

LEMMA DecrementedNat == ASSUME NEW n \in Nat PROVE Decremented(n) \in Nat
  BY DEF Decremented

LEMMA DropBacklogTypeOK ==
    ASSUME TypeOK, NEW e \in Entries, DropBacklog(e)
    PROVE  /\ tenantBacklog' \in [Tenants -> Nat]
           /\ flowBacklog' \in [Tenants -> [Flows -> Nat]]
  <1>1. e.tenant \in Tenants /\ e.flow \in Flows
    BY DEF Entries
  <1>2. tenantBacklog[e.tenant] \in Nat /\ flowBacklog[e.tenant][e.flow] \in Nat
    BY <1>1 DEF TypeOK
  <1> QED
    BY <1>1, <1>2, DecrementedNat DEF DropBacklog, TypeOK

\* in_flight_remove of one entry.
LEMMA TakeOutOne ==
    ASSUME BaseInv, NEW e \in inFlight, TakeOut({e})
    PROVE  /\ inFlight' = inFlight \ {e}
           /\ inFlight' \subseteq Entries
           /\ inFlightCount' \in Nat
           /\ Counted'
  <1>1. /\ IsFiniteSet(inFlight \ {e})
        /\ Cardinality(inFlight \ {e}) = Cardinality(inFlight) - 1
    BY FS_RemoveElement DEF BaseInv, Counted
  <1>2. inFlight' = inFlight \ {e} /\ inFlightCount' = inFlightCount - 1
    BY FS_Singleton DEF TakeOut
  <1>3. Cardinality(inFlight \ {e}) \in Nat
    BY <1>1, FS_CardinalityType
  <1> QED
    BY <1>1, <1>2, <1>3 DEF BaseInv, TypeOK, Counted

LEMMA CompleteTypeOK ==
    ASSUME BaseInv, NEW c \in Callers, NEW e \in inFlight, Complete(c, e)
    PROVE  TypeOK' /\ Counted'
  <1>1. e \in Entries /\ TypeOK
    BY DEF BaseInv, TypeOK
  <1>2. inFlight' \subseteq Entries /\ inFlightCount' \in Nat /\ Counted'
    BY TakeOutOne DEF Complete
  <1>3. inFlightWork' \in 0 .. MaxU
    <2>1. Size[e.data] \in 0 .. MaxU
      BY <1>1, SizeRange, CapacityAssumption DEF Entries
    <2> QED
      BY <1>1, <2>1, MinusRange DEF Complete, TypeOK
  <1>4. /\ tenantBacklog' \in [Tenants -> Nat]
        /\ flowBacklog' \in [Tenants -> [Flows -> Nat]]
    BY <1>1, DropBacklogTypeOK DEF Complete
  <1>5. hasBacklog' \in [Tenants -> BOOLEAN] /\ registered' \in [Tenants -> Nat]
    <2>1. e.tenant \in Tenants
      BY <1>1 DEF Entries
    <2>2. CASE e.tenant \in configured /\ queue[e.tenant] # {}
      <3>1. PICK ok \in BOOLEAN :
               Register(e.tenant, hasBacklog[e.tenant], registered[e.tenant], ok)
        BY <2>2, AllocAssumption DEF Complete
      <3>2. hasBacklog[e.tenant] \in BOOLEAN /\ registered[e.tenant] \in Nat
        BY <1>1, <2>1 DEF TypeOK
      <3> QED
        BY <1>1, <2>1, <3>1, <3>2, RegisterTypeOK
    <2>3. CASE ~(e.tenant \in configured /\ queue[e.tenant] # {})
      BY <1>1, <2>3 DEF Complete, TypeOK
    <2> QED
      BY <2>2, <2>3
  <1>6. /\ pc' \in [Callers -> {"idle", "sampled", "reporting", "notify"}]
        /\ UNCHANGED <<sample, reports, mustNotify>>
    BY <1>1, ReturnTypeOK DEF Complete
  <1>7. /\ UNCHANGED <<tenantVars, queue, clock, workerVars, enqueues, disposed,
                       cleanups>>
        /\ held' \subseteq held
    BY DEF Complete
  <1> QED
    BY <1>1, <1>2, <1>3, <1>4, <1>5, <1>6, <1>7 DEF TypeOK, tenantVars, workerVars

LEMMA CancelTypeOK ==
    ASSUME BaseInv, NEW c \in Callers, NEW e \in inFlight, Cancel(c, e)
    PROVE  TypeOK' /\ Counted'
  <1>1. e \in Entries /\ TypeOK
    BY DEF BaseInv, TypeOK
  <1>2. inFlight' \subseteq Entries /\ inFlightCount' \in Nat /\ Counted'
    BY TakeOutOne DEF Cancel
  <1>3. inFlightWork' \in 0 .. MaxU
    <2>1. Size[e.data] \in 0 .. MaxU
      BY <1>1, SizeRange, CapacityAssumption DEF Entries
    <2> QED
      BY <1>1, <2>1, MinusRange DEF Cancel, TypeOK
  <1>4. /\ tenantBacklog' \in [Tenants -> Nat]
        /\ flowBacklog' \in [Tenants -> [Flows -> Nat]]
    BY <1>1, DropBacklogTypeOK DEF Cancel
  <1>5. /\ pc' \in [Callers -> {"idle", "sampled", "reporting", "notify"}]
        /\ UNCHANGED <<sample, reports, mustNotify>>
    BY <1>1, ReturnTypeOK DEF Cancel
  <1>6. /\ UNCHANGED <<tenantVars, queueVars, clock, workerVars, enqueues, cleanups>>
        /\ held' \subseteq held
        /\ disposed' \subseteq Sessions
    BY <1>1 DEF Cancel, TypeOK, Entries
  <1> QED
    BY <1>1, <1>2, <1>3, <1>4, <1>5, <1>6
    DEF TypeOK, tenantVars, queueVars, workerVars

\* What hwfq_check_timeouts takes out of the in-flight list.
Late(c) == {e \in inFlight : IsTimedOut(e, sample[c])}

LEMMA CheckTimeoutsTypeOK ==
    ASSUME BaseInv, NEW c \in Callers, CheckTimeouts(c)
    PROVE  TypeOK' /\ Counted'
  <1>1. TypeOK /\ IsFiniteSet(inFlight) /\ inFlightCount = Cardinality(inFlight)
    BY DEF BaseInv, Counted
  <1>2. Late(c) \in SUBSET inFlight /\ Late(c) \in SUBSET Entries
    BY <1>1 DEF Late, TypeOK
  <1>3. IsFiniteSet(Late(c))
    BY <1>1, <1>2, FS_Subset
  <1>4. /\ inFlight' = inFlight \ Late(c)
        /\ inFlightCount' = inFlightCount - Cardinality(Late(c))
        /\ inFlightWork' = Minus(inFlightWork, Released(Late(c)) % (MaxU + 1))
    BY DEF CheckTimeouts, TakeOut, Late
  <1>5. Counted' /\ inFlightCount' \in Nat
    <2>1. inFlight \cap Late(c) = Late(c)
      BY <1>2
    <2>2. /\ IsFiniteSet(inFlight \ Late(c))
          /\ Cardinality(inFlight \ Late(c)) =
                Cardinality(inFlight) - Cardinality(Late(c))
      BY <1>1, <2>1, FS_Difference
    <2>3. Cardinality(inFlight \ Late(c)) \in Nat
      BY <2>2, FS_CardinalityType
    <2> QED
      BY <1>1, <1>4, <2>2, <2>3 DEF Counted
  <1>6. inFlightWork' \in 0 .. MaxU
    <2>1. Released(Late(c)) = Cardinality(Units(Late(c)))
      BY DEF Released, Units
    <2>2. Released(Late(c)) \in Nat
      BY <1>2, <1>3, <2>1, UnitsFinite
    <2>3. Released(Late(c)) % (MaxU + 1) \in 0 .. MaxU
      BY <2>2, CapacityAssumption
    <2> QED
      BY <1>1, <1>4, <2>3, MinusRange DEF TypeOK
  <1>7. {e.data : e \in Late(c)} \subseteq Sessions
    BY <1>2 DEF Entries
  <1>8. /\ reports' = [reports EXCEPT ![c] = {e.data : e \in Late(c)}]
        /\ held' \subseteq held
        /\ disposed' = disposed \cup {e.data : e \in Late(c)}
    BY DEF CheckTimeouts, Late
  <1>9. /\ reports' \in [Callers -> SUBSET Sessions]
        /\ held' \subseteq Sessions /\ disposed' \subseteq Sessions
    BY <1>1, <1>7, <1>8 DEF TypeOK
  <1>10. mustNotify' \in [Callers -> BOOLEAN]
    <2>1. PICK b : mustNotify' = [mustNotify EXCEPT ![c] = b] /\ b \in BOOLEAN
      BY DEF CheckTimeouts
    <2> QED
      BY <1>1, <2>1 DEF TypeOK
  <1>11. /\ pc' \in [Callers -> {"idle", "sampled", "reporting", "notify"}]
         /\ sample' \in [Callers -> 0 .. MaxClock]
    BY <1>1, BoundAssumption DEF CheckTimeouts, TypeOK
  <1>12. UNCHANGED <<tenantVars, queueVars, statVars, clock, workerVars,
                     enqueues, cleanups>>
    BY DEF CheckTimeouts
  <1>13. inFlight' \subseteq Entries
    BY <1>1, <1>4 DEF TypeOK
  <1> QED
    BY <1>1, <1>5, <1>6, <1>9, <1>10, <1>11, <1>12, <1>13
    DEF TypeOK, tenantVars, queueVars, statVars, workerVars

LEMMA SampleClockTypeOK ==
    ASSUME TypeOK, NEW c \in Callers, SampleClock(c) PROVE TypeOK'
  BY DEF SampleClock, TypeOK, tenantVars, queueVars, statVars, flightVars,
         workerVars, histVars

LEMMA ReportTimeoutTypeOK ==
    ASSUME TypeOK, NEW c \in Callers, ReportTimeout(c) PROVE TypeOK'
  <1>1. PICK s \in reports[c] :
           /\ reports' = [reports EXCEPT ![c] = @ \ {s}]
           /\ pc' = [pc EXCEPT ![c] =
                 IF reports'[c] # {} THEN "reporting"
                 ELSE IF mustNotify[c] THEN "notify" ELSE "idle"]
           /\ mustNotify' = [mustNotify EXCEPT ![c] = @ /\ reports'[c] # {}]
    BY DEF ReportTimeout
  <1>2. reports' \in [Callers -> SUBSET Sessions]
    BY <1>1 DEF TypeOK
  <1>3. pc' \in [Callers -> {"idle", "sampled", "reporting", "notify"}]
    BY <1>1 DEF TypeOK
  <1>4. mustNotify' \in [Callers -> BOOLEAN]
    BY <1>1 DEF TypeOK
  <1> QED
    BY <1>2, <1>3, <1>4
    DEF ReportTimeout, TypeOK, tenantVars, queueVars, statVars, flightVars,
        workerVars, histVars

LEMMA NotifyTypeOK ==
    ASSUME TypeOK, NEW c \in Callers, NotifyAvailable(c) PROVE TypeOK'
  BY DEF NotifyAvailable, TypeOK, tenantVars, queueVars, statVars, flightVars,
         histVars

LEMMA WorkerWakeTypeOK ==
    ASSUME TypeOK, NEW w \in Workers, WorkerWake(w) PROVE TypeOK'
  BY DEF WorkerWake, TypeOK, tenantVars, queueVars, statVars, flightVars,
         callerVars, histVars

LEMMA TickTypeOK == ASSUME TypeOK, Tick PROVE TypeOK'
  BY BoundAssumption
  DEF Tick, TypeOK, tenantVars, queueVars, statVars, flightVars, callerVars,
      workerVars, histVars

\* Sessions that only leave stay in one place.
LEMMA PlacedShrink ==
    ASSUME Placed,
           \A t \in Tenants : queue'[t] \subseteq queue[t],
           inFlight' \subseteq inFlight,
           \A t \in Tenants : \A x \in queue'[t] : x.data \in held',
           \A e \in inFlight' : e.data \in held'
    PROVE  Placed'
  BY DEF Placed

LEMMA PlacedCaller ==
    ASSUME BaseInv, NEW c \in Callers, CallerNext(c) PROVE Placed'
  <1>0. TypeOK /\ Placed
    BY DEF BaseInv
  <1>1. ASSUME UNCHANGED <<queue, inFlight, held>> PROVE Placed'
    BY <1>0, <1>1 DEF Placed
  <1>2. CASE AddTenant(c)
    BY <1>1, <1>2 DEF AddTenant, flightVars, histVars
  <1>3. CASE RemoveTenant(c)
    <2>1. PICK t \in configured :
             /\ queue' = [queue EXCEPT ![t] = {}]
             /\ held' = held \ {x.data : x \in queue[t]}
      BY <1>3 DEF RemoveTenant
    <2>2. t \in Tenants /\ inFlight' = inFlight
      BY <1>0, <1>3 DEF TypeOK, RemoveTenant, flightVars
    <2>3. \A u \in Tenants : queue'[u] = IF u = t THEN {} ELSE queue[u]
      BY <1>0, <2>1, <2>2 DEF TypeOK
    <2>4. \A u \in Tenants : \A x \in queue'[u] : x.data \in held'
      BY <1>0, <2>1, <2>2, <2>3 DEF Placed
    <2>5. \A e \in inFlight' : e.data \in held'
      BY <1>0, <2>1, <2>2 DEF Placed
    <2> QED
      BY <1>0, <2>2, <2>3, <2>4, <2>5, PlacedShrink
  <1>4. CASE AddFlow(c) \/ RemoveFlow(c)
    BY <1>1, <1>4 DEF AddFlow, RemoveFlow, queueVars, flightVars, histVars
  <1>5. CASE Enqueue(c)
    <2>1. PICK t \in configured : \E f \in flows[t], s \in Sessions \ held :
             /\ queue' = [queue EXCEPT ![t] = @ \cup {[data |-> s, flow |-> f]}]
             /\ held' = held \cup {s}
      BY <1>5 DEF Enqueue
    <2>2. PICK f \in flows[t], s \in Sessions \ held :
             /\ queue' = [queue EXCEPT ![t] = @ \cup {[data |-> s, flow |-> f]}]
             /\ held' = held \cup {s}
      BY <2>1
    <2> DEFINE x == [data |-> s, flow |-> f]
    <2>3. t \in Tenants /\ inFlight' = inFlight /\ x.data = s
      BY <1>0, <1>5 DEF TypeOK, Enqueue, flightVars
    <2>4. \A u \in Tenants : queue'[u] = IF u = t THEN queue[t] \cup {x} ELSE queue[u]
      BY <1>0, <2>2, <2>3 DEF TypeOK
    <2> HIDE DEF x
    <2> QED
      BY <1>0, <2>2, <2>3, <2>4 DEF Placed
  <1>6. CASE SampleClock(c)
    BY <1>1, <1>6 DEF SampleClock, queueVars, flightVars, histVars
  <1>7. CASE CheckTimeouts(c)
    <2>1. /\ queue' = queue
          /\ inFlight' = inFlight \ Late(c)
          /\ held' = held \ {e.data : e \in Late(c)}
          /\ Late(c) \subseteq inFlight
      BY <1>7 DEF CheckTimeouts, TakeOut, Late, queueVars
    <2>2. \A t \in Tenants : \A x \in queue'[t] : x.data \in held'
      BY <1>0, <2>1 DEF Placed
    <2>3. \A e \in inFlight' : e.data \in held'
      BY <1>0, <2>1 DEF Placed
    <2> QED
      BY <1>0, <2>1, <2>2, <2>3, PlacedShrink
  <1>8. CASE ReportTimeout(c)
    BY <1>1, <1>8 DEF ReportTimeout, queueVars, flightVars, histVars
  <1>9. CASE NotifyAvailable(c)
    BY <1>1, <1>9 DEF NotifyAvailable, queueVars, flightVars, histVars
  <1>10. CASE \E e \in inFlight : Complete(c, e) \/ Cancel(c, e)
    <2>1. PICK e \in inFlight : Complete(c, e) \/ Cancel(c, e)
      BY <1>10
    <2>2. queue' = queue /\ inFlight' = inFlight \ {e} /\ held' = held \ {e.data}
      BY <2>1 DEF Complete, Cancel, TakeOut, queueVars
    <2>3. \A t \in Tenants : \A x \in queue'[t] : x.data \in held'
      BY <1>0, <2>2 DEF Placed
    <2>4. \A g \in inFlight' : g.data \in held'
      BY <1>0, <2>2 DEF Placed
    <2> QED
      BY <1>0, <2>2, <2>3, <2>4, PlacedShrink
  <1> QED
    BY <1>2, <1>3, <1>4, <1>5, <1>6, <1>7, <1>8, <1>9, <1>10 DEF CallerNext

LEMMA DispatchPlaced ==
    ASSUME BaseInv, NEW t \in Tenants, NEW x \in Contexts, x \in queue[t],
           Dispatch(t, x), held' = held,
           [data |-> x.data, tenant |-> t, flow |-> x.flow,
            time |-> clock] \in Entries
    PROVE  Placed' /\ Counted'
  <1> DEFINE e == [data |-> x.data, tenant |-> t, flow |-> x.flow, time |-> clock]
  <1>1. e.data = x.data
    OBVIOUS
  <1>2. /\ inFlight' = inFlight \cup {e}
        /\ inFlightCount' = inFlightCount + 1
        /\ queue' = [queue EXCEPT ![t] = @ \ {x}]
    BY DEF Dispatch
  <1> HIDE DEF e
  <1>3. e \notin inFlight
    BY <1>1 DEF BaseInv, Placed
  <1>4. Counted'
    <2>1. /\ IsFiniteSet(inFlight \cup {e})
          /\ Cardinality(inFlight \cup {e}) = Cardinality(inFlight) + 1
      BY <1>3, FS_AddElement DEF BaseInv, Counted
    <2> QED
      BY <1>2, <2>1 DEF BaseInv, Counted
  <1>5. \A u \in Tenants : queue'[u] = IF u = t THEN queue[t] \ {x} ELSE queue[u]
    BY <1>2 DEF BaseInv, TypeOK
  <1>6. Placed'
    BY <1>1, <1>2, <1>5 DEF BaseInv, Placed
  <1> QED
    BY <1>4, <1>6

LEMMA PutBackQueue ==
    ASSUME TypeOK, NEW w \in Workers, DequeuePutBack(w)
    PROVE  \A t \in Tenants : queue'[t] \subseteq queue[t]
  <1>1. PICK t \in Tenants, x \in Contexts :
           x \in queue[t] /\ registered[t] > 0 /\ Requeue(t, x)
    BY DEF DequeuePutBack, TypeOK
  <1>2. queue' = queue \/ queue' = [queue EXCEPT ![t] = @ \ {x}]
    BY <1>1, RequeueFacts
  <1> QED
    BY <1>2 DEF TypeOK

LEMMA BaseInvNext == BaseInv /\ [Next]_vars => BaseInv'
  <1> SUFFICES ASSUME BaseInv, [Next]_vars PROVE BaseInv'
    OBVIOUS
  <1>0. TypeOK /\ Counted /\ Placed
    BY DEF BaseInv
  <1>1. ASSUME UNCHANGED flightVars PROVE Counted'
    BY <1>0, <1>1 DEF Counted, flightVars
  <1>2. ASSUME NEW c \in Callers, CallerNext(c) PROVE BaseInv'
    <2>1. Placed'
      BY <1>2, PlacedCaller
    <2>2. TypeOK' /\ Counted'
      <3>1. CASE AddTenant(c)
        BY <1>0, <1>1, <3>1, AddTenantTypeOK DEF AddTenant
      <3>2. CASE RemoveTenant(c)
        BY <1>0, <1>1, <3>2, RemoveTenantTypeOK DEF RemoveTenant
      <3>3. CASE AddFlow(c) \/ RemoveFlow(c)
        BY <1>0, <1>1, <3>3, FlowTypeOK DEF AddFlow, RemoveFlow
      <3>4. CASE Enqueue(c)
        BY <1>0, <1>1, <3>4, EnqueueTypeOK DEF Enqueue
      <3>5. CASE SampleClock(c)
        BY <1>0, <1>1, <3>5, SampleClockTypeOK DEF SampleClock
      <3>6. CASE CheckTimeouts(c)
        BY <3>6, CheckTimeoutsTypeOK
      <3>7. CASE ReportTimeout(c)
        BY <1>0, <1>1, <3>7, ReportTimeoutTypeOK DEF ReportTimeout
      <3>8. CASE NotifyAvailable(c)
        BY <1>0, <1>1, <3>8, NotifyTypeOK DEF NotifyAvailable
      <3>9. CASE \E e \in inFlight : Complete(c, e) \/ Cancel(c, e)
        BY <3>9, CompleteTypeOK, CancelTypeOK
      <3> QED
        BY <1>2, <3>1, <3>2, <3>3, <3>4, <3>5, <3>6, <3>7, <3>8, <3>9
        DEF CallerNext
    <2> QED
      BY <2>1, <2>2 DEF BaseInv
  <1>3. ASSUME UNCHANGED <<queue, inFlight, held>> PROVE Placed'
    BY <1>0, <1>3 DEF Placed
  <1>4. ASSUME NEW w \in Workers, WorkerWake(w) \/ DequeueEmpty(w) PROVE BaseInv'
    <2>1. TypeOK'
      BY <1>0, <1>4, WorkerWakeTypeOK, DequeueEmptyTypeOK
    <2> QED
      BY <1>1, <1>3, <1>4, <2>1
      DEF WorkerWake, DequeueEmpty, queueVars, flightVars, histVars, BaseInv
  <1>5. ASSUME NEW w \in Workers, DequeueInternal(w) PROVE BaseInv'
    <2>1. TypeOK'
      BY <1>0, <1>5, DequeueInternalTypeOK
    <2> QED
      BY <1>1, <1>3, <1>5, <2>1 DEF DequeueInternal, flightVars, histVars, BaseInv
  <1>6. ASSUME NEW w \in Workers, DequeuePutBack(w) PROVE BaseInv'
    <2>1. TypeOK'
      BY <1>0, <1>6, DequeuePutBackTypeOK
    <2>2. UNCHANGED flightVars /\ held' = held /\ inFlight' = inFlight
      BY <1>6 DEF DequeuePutBack, histVars, flightVars
    <2>3. \A t \in Tenants : queue'[t] \subseteq queue[t]
      BY <1>0, <1>6, PutBackQueue
    <2>4. Placed'
      BY <1>0, <2>2, <2>3, PlacedShrink DEF Placed
    <2> QED
      BY <1>1, <2>1, <2>2, <2>4 DEF BaseInv
  <1>7. ASSUME NEW w \in Workers, DequeueSuccess(w) PROVE BaseInv'
    <2>1. TypeOK'
      BY <1>0, <1>7, DequeueSuccessTypeOK
    <2>2. Placed' /\ Counted'
      BY <1>0, <1>7, DispatchFacts, DispatchPlaced DEF DequeueSuccess, histVars
    <2> QED
      BY <2>1, <2>2 DEF BaseInv
  <1>8. CASE Tick
    <2>1. TypeOK'
      BY <1>0, <1>8, TickTypeOK
    <2> QED
      BY <1>1, <1>3, <1>8, <2>1 DEF Tick, queueVars, flightVars, histVars, BaseInv
  <1>9. CASE UNCHANGED vars
    <2>1. TypeOK'
      BY <1>0, <1>9 DEF TypeOK, vars, tenantVars, queueVars, statVars,
                        flightVars, callerVars, workerVars, histVars
    <2> QED
      BY <1>1, <1>3, <1>9, <2>1 DEF vars, queueVars, flightVars, histVars, BaseInv
  <1> QED
    BY <1>2, <1>4, <1>5, <1>6, <1>7, <1>8, <1>9 DEF Next, Dequeue

LEMMA BaseInvInit == Init => BaseInv
  <1> SUFFICES ASSUME Init PROVE BaseInv
    OBVIOUS
  <1>1. TypeOK
    <2>1. 0 \in 0 .. MaxU /\ 0 \in 0 .. MaxClock /\ 0 \in 0 .. MaxEnqueues
      BY CapacityAssumption, BoundAssumption
    <2>2. /\ inFlightWork \in 0 .. MaxU /\ clock \in 0 .. MaxClock
          /\ sample \in [Callers -> 0 .. MaxClock]
          /\ enqueues \in 0 .. MaxEnqueues
      BY <2>1 DEF Init
    <2>3. /\ registered \in [Tenants -> Nat] /\ tenantBacklog \in [Tenants -> Nat]
          /\ flowBacklog \in [Tenants -> [Flows -> Nat]] /\ inFlightCount \in Nat
      BY DEF Init
    <2>4. /\ hasBacklog \in [Tenants -> BOOLEAN] /\ signalled \in BOOLEAN
          /\ mustNotify \in [Callers -> BOOLEAN]
      BY DEF Init
    <2>5. /\ configured \subseteq Tenants /\ flows \in [Tenants -> SUBSET Flows]
          /\ queue \in [Tenants -> SUBSET Contexts] /\ inFlight \subseteq Entries
          /\ pc \in [Callers -> {"idle", "sampled", "reporting", "notify"}]
          /\ reports \in [Callers -> SUBSET Sessions]
          /\ worker \in [Workers -> {"waiting", "draining"}]
          /\ held \subseteq Sessions /\ disposed \subseteq Sessions
          /\ cleanups \subseteq Sessions
      BY DEF Init
    <2> QED
      BY <2>2, <2>3, <2>4, <2>5 DEF TypeOK
  <1>2. Counted
    BY FS_EmptySet DEF Init, Counted
  <1>3. Placed
    BY DEF Init, Placed
  <1> QED
    BY <1>1, <1>2, <1>3 DEF BaseInv

\* Every field of the scheduler keeps its type; in particular the in-flight
\* counter, which the code decrements without a test, never goes below 0,
\* whatever allocations fail and whenever tenants are removed.
THEOREM HwfqTypeCorrect == Spec => []TypeOK
  <1>1. BaseInv => TypeOK
    BY DEF BaseInv
  <1> QED
    BY <1>1, BaseInvInit, BaseInvNext, PTL DEF Spec

\* hwfq_dequeue moves a session between a flow queue and the in-flight list,
\* back and forth: no session is ever in two queues, twice in flight or in
\* both, and what is there is still the library's, whatever allocations fail
\* and whenever tenants are removed.
THEOREM NeverDuplicated == Spec => []Placed
  <1>1. BaseInv => Placed
    BY DEF BaseInv
  <1> QED
    BY <1>1, BaseInvInit, BaseInvNext, PTL DEF Spec

-----------------------------------------------------------------------------
(* The in-flight work.  hwfq_dequeue adds the size of the session to the   *)
(* work in flight before it compares, so the bound needs sizes for which   *)
(* the sum does not wrap around.                                           *)

SizesFit == \A s \in Sessions : Size[s] + TotalCapacity <= MaxU

WorkInv == BaseInv /\ InFlightAccounting /\ CapacityRespected

LEMMA WorkInvUnchanged ==
    ASSUME WorkInv, UNCHANGED flightVars
    PROVE  InFlightAccounting' /\ CapacityRespected'
  BY DEF WorkInv, InFlightAccounting, CapacityRespected, UnitsInFlight, flightVars

LEMMA TakenOutWork ==
    ASSUME WorkInv, NEW es \in SUBSET inFlight, inFlight' = inFlight \ es,
           inFlightWork' = Minus(inFlightWork, Cardinality(Units(es))), Counted'
    PROVE  InFlightAccounting' /\ CapacityRespected'
  <1>1. inFlight \in SUBSET Entries /\ IsFiniteSet(inFlight)
    BY DEF WorkInv, BaseInv, TypeOK, Counted
  <1>2. es \in SUBSET Entries /\ IsFiniteSet(es)
    BY <1>1, FS_Subset
  <1>3. /\ Cardinality(Units(inFlight)) \in Nat
        /\ Cardinality(Units(es)) \in Nat
        /\ Cardinality(Units(inFlight \ es)) \in Nat
    BY <1>1, <1>2, UnitsFinite, FS_Difference
  <1>4. Cardinality(Units(inFlight \ es)) =
           Cardinality(Units(inFlight)) - Cardinality(Units(es))
    BY <1>1, UnitsWithout
  <1>5. /\ inFlightWork = Cardinality(Units(inFlight))
        /\ Cardinality(Units(inFlight)) <= TotalCapacity
    BY DEF WorkInv, InFlightAccounting, CapacityRespected, UnitsInFlight, Units
  <1>6. inFlightWork' = Cardinality(Units(inFlight'))
    BY <1>3, <1>4, <1>5 DEF Minus
  <1>7. Cardinality(Units(inFlight')) <= TotalCapacity
    BY <1>3, <1>4, <1>5, CapacityAssumption
  <1> QED
    BY <1>6, <1>7
    DEF InFlightAccounting, CapacityRespected, UnitsInFlight, Units, Counted

LEMMA DispatchedWork ==
    ASSUME WorkInv, SizesFit, NEW t \in Tenants, NEW x \in Contexts,
           x \in queue[t], Dispatch(t, x), Counted',
           [data |-> x.data, tenant |-> t, flow |-> x.flow,
            time |-> clock] \in Entries
    PROVE  InFlightAccounting' /\ CapacityRespected'
  <1> DEFINE e == [data |-> x.data, tenant |-> t, flow |-> x.flow, time |-> clock]
             z == Size[x.data]
  <1>1. inFlight \in SUBSET Entries /\ IsFiniteSet(inFlight)
    BY DEF WorkInv, BaseInv, TypeOK, Counted
  <1>2. /\ inFlight' = inFlight \cup {e}
        /\ inFlightWork' = Plus(inFlightWork, z)
        /\ ~(Plus(inFlightWork, z) > TotalCapacity)
        /\ e.data = x.data
    BY DEF Dispatch, NoCapacity
  <1>3. x.data \in Sessions
    BY DEF Contexts
  <1>4. z \in Nat /\ z + TotalCapacity <= MaxU
    BY <1>3, SizeRange DEF SizesFit
  <1> HIDE DEF e
  <1>5. e \notin inFlight
    BY <1>2 DEF WorkInv, BaseInv, Placed
  <1>6. Cardinality(Units(inFlight')) = Cardinality(Units(inFlight)) + z
    BY <1>1, <1>2, <1>5, UnitsWith DEF e
  <1> HIDE DEF z
  <1>7. /\ inFlightWork = Cardinality(Units(inFlight))
        /\ Cardinality(Units(inFlight)) <= TotalCapacity
    BY DEF WorkInv, InFlightAccounting, CapacityRespected, UnitsInFlight, Units
  <1>8. Cardinality(Units(inFlight)) \in Nat
    BY <1>1, UnitsFinite
  <1>9. inFlightWork' = inFlightWork + z /\ inFlightWork + z <= TotalCapacity
    BY <1>2, <1>4, <1>7, <1>8, CapacityAssumption DEF Plus
  <1> QED
    BY <1>6, <1>7, <1>9
    DEF InFlightAccounting, CapacityRespected, UnitsInFlight, Units, Counted

LEMMA WorkInvNext == ASSUME SizesFit, WorkInv, [Next]_vars PROVE WorkInv'
  <1>0. BaseInv' /\ BaseInv
    BY BaseInvNext DEF WorkInv
  <1> SUFFICES InFlightAccounting' /\ CapacityRespected'
    BY <1>0 DEF WorkInv
  <1>1. ASSUME NEW c \in Callers, CallerNext(c)
        PROVE  InFlightAccounting' /\ CapacityRespected'
    <2>1. CASE \E e \in inFlight : Complete(c, e) \/ Cancel(c, e)
      <3>1. PICK e \in inFlight : Complete(c, e) \/ Cancel(c, e)
        BY <2>1
      <3>2. /\ inFlight' = inFlight \ {e}
            /\ inFlightWork' = Minus(inFlightWork, Size[e.data])
        BY <3>1 DEF Complete, Cancel, TakeOut
      <3>3. Cardinality(Units({e})) = Size[e.data]
        BY <1>0, UnitsSingle DEF BaseInv, TypeOK
      <3> QED
        BY <1>0, <3>2, <3>3, TakenOutWork DEF BaseInv
    <2>2. CASE CheckTimeouts(c)
      <3>1. /\ inFlight' = inFlight \ Late(c)
            /\ inFlightWork' = Minus(inFlightWork, Released(Late(c)) % (MaxU + 1))
            /\ Late(c) \in SUBSET inFlight
        BY <2>2 DEF CheckTimeouts, TakeOut, Late
      <3>2. Released(Late(c)) = Cardinality(Units(Late(c)))
        BY DEF Released, Units
      <3>3. inFlight \in SUBSET Entries /\ IsFiniteSet(inFlight)
        BY <1>0 DEF BaseInv, TypeOK, Counted
      <3>4. /\ Cardinality(Units(Late(c))) \in Nat
            /\ Cardinality(Units(Late(c))) <= Cardinality(Units(inFlight))
            /\ Cardinality(Units(inFlight)) \in Nat
        <4>1. Units(Late(c)) \in SUBSET Units(inFlight)
          BY <3>1 DEF Units
        <4>2. IsFiniteSet(Units(inFlight))
          BY <3>3, UnitsFinite
        <4> QED
          BY <4>1, <4>2, FS_Subset, FS_CardinalityType
      <3>5. Cardinality(Units(inFlight)) <= TotalCapacity
        BY DEF WorkInv, CapacityRespected, UnitsInFlight, Units
      <3>6. Released(Late(c)) % (MaxU + 1) = Cardinality(Units(Late(c)))
        <4> DEFINE k == Cardinality(Units(Late(c)))
        <4>1. k \in Nat /\ k <= MaxU
          BY <3>4, <3>5, CapacityAssumption
        <4> HIDE DEF k
        <4>2. k % (MaxU + 1) = k
          BY <4>1, CapacityAssumption
        <4> QED
          BY <3>2, <4>2 DEF k
      <3> QED
        BY <1>0, <3>1, <3>6, TakenOutWork DEF BaseInv
    <2>3. CASE ~CheckTimeouts(c) /\ ~\E e \in inFlight : Complete(c, e) \/ Cancel(c, e)
      <3>1. UNCHANGED flightVars
        BY <1>1, <2>3 DEF CallerNext, AddTenant, RemoveTenant, AddFlow, RemoveFlow,
                          Enqueue, SampleClock, ReportTimeout, NotifyAvailable
      <3> QED
        BY <3>1, WorkInvUnchanged
    <2> QED
      BY <2>1, <2>2, <2>3
  <1>2. ASSUME NEW w \in Workers, DequeueSuccess(w)
        PROVE  InFlightAccounting' /\ CapacityRespected'
    BY <1>0, <1>2, DispatchFacts, DispatchedWork DEF BaseInv
  <1>3. ASSUME NEW w \in Workers,
               \/ WorkerWake(w) \/ DequeueEmpty(w) \/ DequeueInternal(w)
               \/ DequeuePutBack(w)
        PROVE  InFlightAccounting' /\ CapacityRespected'
    BY <1>3, WorkInvUnchanged
    DEF WorkerWake, DequeueEmpty, DequeueInternal, DequeuePutBack
  <1>4. CASE Tick \/ UNCHANGED vars
    BY <1>4, WorkInvUnchanged DEF Tick, vars
  <1> QED
    BY <1>1, <1>2, <1>3, <1>4 DEF Next, Dequeue

LEMMA WorkInvInit == Init => WorkInv
  <1> SUFFICES ASSUME Init PROVE WorkInv
    OBVIOUS
  <1>1. UnitsInFlight = {} /\ inFlight = {}
    BY DEF Init, UnitsInFlight
  <1> QED
    BY <1>1, BaseInvInit, FS_EmptySet, CapacityAssumption
    DEF Init, WorkInv, InFlightAccounting, CapacityRespected

\* The in-flight counters equal the contents of the in-flight list, whatever
\* mix of complete, cancel and timeout empties it, allocation failures and
\* tenant removals included.
THEOREM AccountingCorrect == SizesFit => (Spec => []InFlightAccounting)
  <1> SUFFICES ASSUME SizesFit PROVE Spec => []InFlightAccounting
    OBVIOUS
  <1>1. WorkInv /\ [Next]_vars => WorkInv'
    BY WorkInvNext
  <1>2. WorkInv => InFlightAccounting
    BY DEF WorkInv
  <1> QED
    BY <1>1, <1>2, WorkInvInit, PTL DEF Spec

\* The work in flight never exceeds config.total_capacity, provided no
\* work_size is so large that the sum in hwfq_dequeue wraps around.
THEOREM CapacityCorrect == SizesFit => (Spec => []CapacityRespected)
  <1> SUFFICES ASSUME SizesFit PROVE Spec => []CapacityRespected
    OBVIOUS
  <1>1. WorkInv /\ [Next]_vars => WorkInv'
    BY WorkInvNext
  <1>2. WorkInv => CapacityRespected
    BY DEF WorkInv
  <1> QED
    BY <1>1, <1>2, WorkInvInit, PTL DEF Spec

-----------------------------------------------------------------------------
(* One session per backlogged tenant in the system scheduler.              *)

RegInv == BaseInv /\ RegisteredOnce

LEMMA RegisterOnce ==
    ASSUME TypeOK, RegisteredOnce, NEW t \in configured, NEW b \in BOOLEAN,
           NEW ok \in BOOLEAN, Register(t, b, IF b THEN 1 ELSE 0, ok),
           configured' = configured
    PROVE  RegisteredOnce'
  <1>1. t \in Tenants
    BY DEF TypeOK
  <1>2. hasBacklog'[t] = (b \/ ok)
    BY <1>1 DEF Register, TypeOK
  <1>3. registered'[t] = IF b \/ ok THEN 1 ELSE 0
    BY <1>1 DEF Register, TypeOK
  <1>4. \A u \in Tenants \ {t} : /\ hasBacklog'[u] = hasBacklog[u]
                                 /\ registered'[u] = registered[u]
    BY <1>1 DEF Register, TypeOK
  <1> QED
    BY <1>2, <1>3, <1>4 DEF RegisteredOnce

\* The tenant hwfq_dequeue pops was registered exactly once.
LEMMA PoppedOnce ==
    ASSUME TypeOK, RegisteredOnce, NEW t \in Tenants, registered[t] > 0
    PROVE  t \in configured /\ hasBacklog[t] /\ registered[t] - 1 = 0
  BY DEF TypeOK, RegisteredOnce

LEMMA RegisteredOnceNext == RegInv /\ [Next]_vars => RegisteredOnce'
  <1> SUFFICES ASSUME RegInv, [Next]_vars PROVE RegisteredOnce'
    OBVIOUS
  <1>0. TypeOK /\ RegisteredOnce
    BY DEF RegInv, BaseInv
  <1>1. ASSUME UNCHANGED <<hasBacklog, registered, configured>> PROVE RegisteredOnce'
    BY <1>0, <1>1 DEF RegisteredOnce
  <1>2. ASSUME NEW c \in Callers, AddTenant(c) PROVE RegisteredOnce'
    <2>1. PICK t \in Tenants \ configured :
             /\ configured' = configured \cup {t}
             /\ hasBacklog' = [hasBacklog EXCEPT ![t] = FALSE]
      BY <1>2 DEF AddTenant
    <2>2. registered' = registered /\ ~hasBacklog[t]
      BY <1>0, <1>2 DEF AddTenant, RegisteredOnce
    <2> QED
      BY <1>0, <2>1, <2>2 DEF RegisteredOnce, TypeOK
  <1>3. ASSUME NEW c \in Callers, RemoveTenant(c) PROVE RegisteredOnce'
    BY <1>0, <1>3 DEF RemoveTenant, RegisteredOnce
  <1>4. ASSUME NEW c \in Callers, Enqueue(c) PROVE RegisteredOnce'
    <2>1. PICK t \in configured : \E ok \in AllocResults :
             Register(t, hasBacklog[t], registered[t], ok)
      BY <1>4 DEF Enqueue
    <2>2. PICK ok \in BOOLEAN : Register(t, hasBacklog[t], registered[t], ok)
      BY <2>1, AllocAssumption
    <2>3. /\ configured' = configured /\ hasBacklog[t] \in BOOLEAN
          /\ registered[t] = IF hasBacklog[t] THEN 1 ELSE 0
      BY <1>0, <1>4 DEF Enqueue, tenantVars, TypeOK, RegisteredOnce
    <2> QED
      BY <1>0, <2>2, <2>3, RegisterOnce
  <1>5. ASSUME NEW c \in Callers, NEW e \in inFlight, Complete(c, e)
        PROVE  RegisteredOnce'
    <2>1. configured' = configured
      BY <1>5 DEF Complete, tenantVars
    <2>2. CASE e.tenant \in configured /\ queue[e.tenant] # {}
      <3>1. PICK ok \in BOOLEAN :
               Register(e.tenant, hasBacklog[e.tenant], registered[e.tenant], ok)
        BY <1>5, <2>2, AllocAssumption DEF Complete
      <3>2. /\ hasBacklog[e.tenant] \in BOOLEAN
            /\ registered[e.tenant] = IF hasBacklog[e.tenant] THEN 1 ELSE 0
        BY <1>0, <2>2 DEF TypeOK, RegisteredOnce
      <3> QED
        BY <1>0, <2>1, <2>2, <3>1, <3>2, RegisterOnce
    <2>3. CASE ~(e.tenant \in configured /\ queue[e.tenant] # {})
      BY <1>1, <1>5, <2>1, <2>3 DEF Complete
    <2> QED
      BY <2>2, <2>3
  <1>6. ASSUME NEW c \in Callers,
               \/ AddFlow(c) \/ RemoveFlow(c) \/ SampleClock(c) \/ CheckTimeouts(c)
               \/ ReportTimeout(c) \/ NotifyAvailable(c)
               \/ \E e \in inFlight : Cancel(c, e)
        PROVE  RegisteredOnce'
    <2>1. UNCHANGED <<hasBacklog, registered, configured>>
      BY <1>6 DEF AddFlow, RemoveFlow, SampleClock, CheckTimeouts, ReportTimeout,
                  NotifyAvailable, Cancel, tenantVars, queueVars
    <2> QED
      BY <1>1, <2>1
  <1>7. ASSUME NEW w \in Workers, WorkerWake(w) \/ DequeueEmpty(w)
        PROVE  RegisteredOnce'
    BY <1>1, <1>7 DEF WorkerWake, DequeueEmpty, tenantVars, queueVars
  <1>8. ASSUME NEW w \in Workers, DequeueInternal(w) PROVE RegisteredOnce'
    <2>1. PICK t \in Tenants :
             /\ registered[t] > 0
             /\ hasBacklog' = [hasBacklog EXCEPT ![t] = FALSE]
             /\ registered' = [registered EXCEPT ![t] = @ - 1]
      BY <1>8 DEF DequeueInternal
    <2>2. registered[t] - 1 = 0 /\ configured' = configured
      BY <1>0, <1>8, <2>1, PoppedOnce DEF DequeueInternal, tenantVars
    <2> QED
      BY <1>0, <2>1, <2>2 DEF RegisteredOnce, TypeOK
  <1>9. ASSUME NEW w \in Workers, DequeuePutBack(w) PROVE RegisteredOnce'
    <2>1. PICK t \in Tenants, x \in Contexts :
             x \in queue[t] /\ registered[t] > 0 /\ Requeue(t, x)
      BY <1>0, <1>9 DEF DequeuePutBack, TypeOK
    <2>2. PICK ok \in BOOLEAN : Register(t, FALSE, registered[t] - 1, ok)
      BY <1>0, <2>1, RequeueFacts
    <2>3. t \in configured /\ registered[t] - 1 = 0 /\ configured' = configured
      BY <1>0, <1>9, <2>1, PoppedOnce DEF DequeuePutBack, tenantVars
    <2> QED
      BY <1>0, <2>2, <2>3, RegisterOnce
  <1>10. ASSUME NEW w \in Workers, DequeueSuccess(w) PROVE RegisteredOnce'
    <2>1. PICK t \in Tenants, x \in Contexts : x \in queue[t] /\ Dispatch(t, x)
      BY <1>0, <1>10, DispatchFacts
    <2>2. PICK ok \in BOOLEAN : Register(t, FALSE, registered[t] - 1, ok)
      <3>1. PICK ok \in BOOLEAN :
               Register(t, FALSE, registered[t] - 1, queue'[t] # {} /\ ok)
        BY <2>1, AllocAssumption DEF Dispatch
      <3>2. (queue'[t] # {} /\ ok) \in BOOLEAN
        OBVIOUS
      <3> QED
        BY <3>1, <3>2
    <2>3. t \in configured /\ registered[t] - 1 = 0 /\ configured' = configured
      BY <1>0, <1>10, <2>1, PoppedOnce DEF Dispatch, DequeueSuccess, tenantVars
    <2> QED
      BY <1>0, <2>2, <2>3, RegisterOnce
  <1>11. CASE Tick \/ UNCHANGED vars
    BY <1>1, <1>11 DEF Tick, vars, tenantVars, queueVars
  <1> QED
    BY <1>2, <1>3, <1>4, <1>5, <1>6, <1>7, <1>8, <1>9, <1>10, <1>11
    DEF Next, CallerNext, Dequeue

LEMMA RegInvNext == RegInv /\ [Next]_vars => RegInv'
  BY BaseInvNext, RegisteredOnceNext DEF RegInv

LEMMA RegInvInit == Init => RegInv
  BY BaseInvInit DEF Init, RegInv, RegisteredOnce

\* has_backlog agrees with the system scheduler in every reachable state,
\* allocation failures and tenant removals included: no tenant is ever in it
\* twice, and none is removed while it is in it.
THEOREM RegisteredOnceCorrect == Spec => []RegisteredOnce
  <1>1. RegInv => RegisteredOnce
    BY DEF RegInv
  <1> QED
    BY <1>1, RegInvInit, RegInvNext, PTL DEF Spec

-----------------------------------------------------------------------------
(* Half of BacklogRegistered needs no discipline from the client: while    *)
(* allocations succeed, whoever puts a session into a flow queue, or takes *)
(* one out of several, leaves the tenant in the system scheduler.          *)

AllocsSucceed == AllocResults = {TRUE}

QueuedRegistered == \A t \in Tenants : queue[t] # {} => hasBacklog[t]

LEMMA QueuedRegisteredNext ==
    ASSUME AllocsSucceed, RegInv, QueuedRegistered, [Next]_vars
    PROVE  QueuedRegistered'
  <1>0. TypeOK /\ RegisteredOnce
    BY DEF RegInv, BaseInv
  <1>1. ASSUME NEW t \in Tenants, NEW b \in BOOLEAN, NEW r, NEW ok \in AllocResults,
               Register(t, b, r, ok),
               \A u \in Tenants \ {t} : queue'[u] = queue[u]
        PROVE  QueuedRegistered'
    <2>1. ok = TRUE
      BY DEF AllocsSucceed
    <2>2. \A u \in Tenants : hasBacklog'[u] = IF u = t THEN TRUE ELSE hasBacklog[u]
      BY <1>0, <1>1, <2>1 DEF Register, TypeOK
    <2> QED
      BY <1>1, <2>2 DEF QueuedRegistered
  <1>2. ASSUME NEW c \in Callers, AddTenant(c) PROVE QueuedRegistered'
    <2>1. PICK t \in Tenants \ configured :
             hasBacklog' = [hasBacklog EXCEPT ![t] = FALSE]
      BY <1>2 DEF AddTenant
    <2>2. hasBacklog' = hasBacklog
      BY <1>0, <2>1 DEF TypeOK, RegisteredOnce
    <2> QED
      BY <1>2, <2>2 DEF AddTenant, QueuedRegistered
  <1>3. ASSUME NEW c \in Callers, RemoveTenant(c) PROVE QueuedRegistered'
    BY <1>0, <1>3 DEF RemoveTenant, QueuedRegistered, TypeOK
  <1>4. ASSUME NEW c \in Callers, Enqueue(c) PROVE QueuedRegistered'
    <2>1. PICK t \in configured : \E f \in flows[t], s \in Sessions, ok \in AllocResults :
             /\ queue' = [queue EXCEPT ![t] = @ \cup {[data |-> s, flow |-> f]}]
             /\ Register(t, hasBacklog[t], registered[t], ok)
      BY <1>4, Zenon DEF Enqueue
    <2>2. PICK ok \in AllocResults : Register(t, hasBacklog[t], registered[t], ok)
      BY <2>1
    <2>3. t \in Tenants /\ hasBacklog[t] \in BOOLEAN
      BY <1>0 DEF TypeOK
    <2>4. \A u \in Tenants \ {t} : queue'[u] = queue[u]
      BY <1>0, <2>1 DEF TypeOK
    <2> QED
      BY <1>1, <2>2, <2>3, <2>4
  <1>5. ASSUME NEW c \in Callers, NEW e \in inFlight, Complete(c, e)
        PROVE  QueuedRegistered'
    <2>1. queue' = queue /\ e.tenant \in Tenants
      BY <1>0, <1>5 DEF Complete, TypeOK, Entries
    <2>2. CASE hasBacklog' = hasBacklog
      BY <2>1, <2>2 DEF QueuedRegistered
    <2>3. CASE e.tenant \in configured /\ queue[e.tenant] # {}
      <3>1. PICK ok \in AllocResults :
               Register(e.tenant, hasBacklog[e.tenant], registered[e.tenant], ok)
        BY <1>5, <2>3 DEF Complete
      <3>2. hasBacklog[e.tenant] \in BOOLEAN
        BY <1>0, <2>1 DEF TypeOK
      <3> QED
        BY <1>1, <2>1, <3>1, <3>2
    <2> QED
      BY <1>5, <2>2, <2>3 DEF Complete
  <1>6. ASSUME NEW w \in Workers, DequeueInternal(w) PROVE QueuedRegistered'
    BY <1>0, <1>6 DEF DequeueInternal, QueuedRegistered, TypeOK
  <1>7. ASSUME NEW w \in Workers, DequeuePutBack(w) PROVE QueuedRegistered'
    <2>1. PICK t \in Tenants : \E x \in queue[t] : Requeue(t, x)
      BY <1>7 DEF DequeuePutBack
    <2>2. PICK x \in queue[t] : Requeue(t, x)
      BY <2>1
    <2>3. PICK ok \in AllocResults : Register(t, FALSE, registered[t] - 1, ok)
      BY <2>2 DEF Requeue
    <2>4. \A u \in Tenants \ {t} : queue'[u] = queue[u]
      BY <1>0, <2>2 DEF Requeue, TypeOK
    <2> QED
      BY <1>1, <2>3, <2>4
  <1>8. ASSUME NEW w \in Workers, DequeueSuccess(w) PROVE QueuedRegistered'
    <2>1. PICK t \in Tenants, x \in Contexts : Dispatch(t, x)
      BY <1>0, <1>8, DispatchFacts
    <2>2. \A u \in Tenants : queue'[u] = IF u = t THEN queue[t] \ {x} ELSE queue[u]
      BY <1>0, <2>1 DEF Dispatch, TypeOK
    <2>3. \A u \in Tenants : hasBacklog'[u] = IF u = t THEN queue'[t] # {}
                                              ELSE hasBacklog[u]
      BY <1>0, <2>1 DEF Dispatch, Register, TypeOK, AllocsSucceed
    <2> QED
      BY <2>2, <2>3 DEF QueuedRegistered
  <1>9. ASSUME NEW c \in Callers,
               \/ AddFlow(c) \/ RemoveFlow(c) \/ SampleClock(c) \/ CheckTimeouts(c)
               \/ ReportTimeout(c) \/ NotifyAvailable(c)
               \/ \E e \in inFlight : Cancel(c, e)
        PROVE  QueuedRegistered'
    BY <1>9
    DEF AddFlow, RemoveFlow, SampleClock, CheckTimeouts, ReportTimeout,
        NotifyAvailable, Cancel, queueVars, QueuedRegistered
  <1>10. ASSUME NEW w \in Workers, WorkerWake(w) \/ DequeueEmpty(w)
         PROVE  QueuedRegistered'
    BY <1>10 DEF WorkerWake, DequeueEmpty, queueVars, QueuedRegistered
  <1>11. CASE Tick \/ UNCHANGED vars
    BY <1>11 DEF Tick, vars, queueVars, QueuedRegistered
  <1> QED
    BY <1>2, <1>3, <1>4, <1>5, <1>6, <1>7, <1>8, <1>9, <1>10, <1>11
    DEF Next, CallerNext, Dequeue

\* While allocations succeed, queued work is never stranded: a tenant with a
\* queued session has its session in the system scheduler, even when a client
\* removes and adds tenants with sessions in flight.
THEOREM NothingStranded == AllocsSucceed => (Spec => []QueuedRegistered)
  <1> SUFFICES ASSUME AllocsSucceed PROVE Spec => []QueuedRegistered
    OBVIOUS
  <1>1. Init => QueuedRegistered
    BY DEF Init, QueuedRegistered
  <1>2. RegInv /\ QueuedRegistered /\ [Next]_vars => QueuedRegistered'
    BY QueuedRegisteredNext
  <1> QED
    BY <1>1, <1>2, RegInvInit, RegInvNext, PTL DEF Spec

-----------------------------------------------------------------------------
(* Reports of timed-out sessions.                                          *)

ReportInv == BaseInv /\ ReportedOnce

LEMMA ReportedOnceNext == ReportInv /\ [Next]_vars => ReportInv'
  <1> SUFFICES ASSUME ReportInv, [Next]_vars PROVE ReportInv'
    OBVIOUS
  <1>0. TypeOK /\ Placed /\ ReportedOnce
    BY DEF ReportInv, BaseInv
  <1> SUFFICES ReportedOnce'
    BY BaseInvNext DEF ReportInv
  <1>1. ASSUME reports' = reports, held' \subseteq held PROVE ReportedOnce'
    BY <1>0, <1>1 DEF ReportedOnce
  <1>2. ASSUME NEW c \in Callers, Enqueue(c) PROVE ReportedOnce'
    <2>1. PICK s \in Sessions \ held :
             held' = held \cup {s} /\ \A d \in Callers : s \notin reports[d]
      BY <1>2 DEF Enqueue
    <2>2. reports' = reports
      BY <1>2 DEF Enqueue, Return
    <2> QED
      BY <1>0, <2>1, <2>2 DEF ReportedOnce
  <1>3. ASSUME NEW c \in Callers, CheckTimeouts(c) PROVE ReportedOnce'
    <2> DEFINE gone == {e.data : e \in Late(c)}
    <2>1. reports' = [reports EXCEPT ![c] = gone] /\ held' = held \ gone
      BY <1>3 DEF CheckTimeouts, Late
    <2>2. gone \subseteq held
      BY <1>0 DEF Late, Placed
    <2> HIDE DEF gone
    <2>3. \A d \in Callers : reports'[d] = IF d = c THEN gone ELSE reports[d]
      BY <1>0, <2>1 DEF TypeOK
    <2> QED
      BY <1>0, <2>1, <2>2, <2>3 DEF ReportedOnce
  <1>4. ASSUME NEW c \in Callers, ReportTimeout(c) PROVE ReportedOnce'
    <2>1. PICK s \in reports[c] : reports' = [reports EXCEPT ![c] = @ \ {s}]
      BY <1>4 DEF ReportTimeout
    <2>2. \A d \in Callers : reports'[d] \subseteq reports[d]
      BY <1>0, <2>1 DEF TypeOK
    <2>3. held' = held
      BY <1>4 DEF ReportTimeout, histVars
    <2> QED
      BY <1>0, <2>2, <2>3 DEF ReportedOnce
  <1>5. ASSUME NEW c \in Callers,
               \/ AddTenant(c) \/ RemoveTenant(c) \/ AddFlow(c) \/ RemoveFlow(c)
               \/ SampleClock(c) \/ NotifyAvailable(c)
               \/ \E e \in inFlight : Complete(c, e) \/ Cancel(c, e)
        PROVE  ReportedOnce'
    <2>1. reports' = reports /\ held' \subseteq held
      BY <1>5 DEF AddTenant, RemoveTenant, AddFlow, RemoveFlow, SampleClock,
                  NotifyAvailable, Complete, Cancel, Return, callerVars, histVars
    <2> QED
      BY <1>1, <2>1
  <1>6. ASSUME NEW w \in Workers, WorkerWake(w) \/ Dequeue(w) PROVE ReportedOnce'
    BY <1>1, <1>6 DEF WorkerWake, Dequeue, DequeueEmpty, DequeueInternal,
                      DequeuePutBack, DequeueSuccess, callerVars, histVars
  <1>7. CASE Tick \/ UNCHANGED vars
    BY <1>1, <1>7 DEF Tick, vars, callerVars, histVars
  <1> QED
    BY <1>2, <1>3, <1>4, <1>5, <1>6, <1>7 DEF Next, CallerNext

\* A timed-out session is reported by one thread only, and from the moment it
\* is taken out no complete or cancel can find it, however the threads
\* interleave.
THEOREM ReportedOnceCorrect == Spec => []ReportedOnce
  <1>1. Init => ReportInv
    BY BaseInvInit DEF Init, ReportInv, ReportedOnce
  <1>2. ReportInv => ReportedOnce
    BY DEF ReportInv
  <1> QED
    BY <1>1, <1>2, ReportedOnceNext, PTL DEF Spec

-----------------------------------------------------------------------------
(* The removal guards.  While no tenant is removed with sessions in       *)
(* flight, current_backlog covers every queued and in-flight session of    *)
(* its flow, even when allocations fail; so neither a flow nor a tenant is *)
(* ever removed under a session that will come back to it.                 *)

LiveFlights == \A e \in inFlight : e.tenant \in configured /\ e.flow \in flows[e.tenant]

QueuesFinite == \A t \in Tenants : IsFiniteSet(queue[t])

Guards == FlowRemovalSafe /\ LiveFlights /\ QueuesFinite /\ BacklogCovers

GuardInv == RegInv /\ Guards

LEMMA AddAtMostOne ==
    ASSUME NEW S, NEW x, IsFiniteSet(S)
    PROVE  /\ Cardinality(S \cup {x}) \in Nat
           /\ Cardinality(S \cup {x}) <= Cardinality(S) + 1
  <1>1. Cardinality(S) \in Nat
    BY FS_CardinalityType
  <1>2. CASE x \in S
    BY <1>1, <1>2, FS_AddElement
  <1>3. CASE x \notin S
    BY <1>1, <1>3, FS_AddElement
  <1> QED
    BY <1>2, <1>3

LEMMA FlowSetsFinite ==
    ASSUME TypeOK, Counted, QueuesFinite, NEW t \in Tenants, NEW f
    PROVE  /\ IsFiniteSet(Queued(t, f)) /\ Cardinality(Queued(t, f)) \in Nat
           /\ IsFiniteSet(InFlight(t, f)) /\ Cardinality(InFlight(t, f)) \in Nat
  <1>1. Queued(t, f) \in SUBSET queue[t] /\ InFlight(t, f) \in SUBSET inFlight
    BY DEF Queued, InFlight
  <1>2. IsFiniteSet(Queued(t, f)) /\ IsFiniteSet(InFlight(t, f))
    BY <1>1, FS_Subset DEF QueuesFinite, Counted
  <1> QED
    BY <1>2, FS_CardinalityType

LEMMA ShrinkGuards ==
    ASSUME GuardInv, UNCHANGED <<configured, flows, flowBacklog>>,
           inFlight' \subseteq inFlight,
           \A t \in Tenants : queue'[t] \subseteq queue[t]
    PROVE  Guards'
  <1>0. TypeOK /\ Guards /\ Counted
    BY DEF GuardInv, RegInv, BaseInv
  <1>1. FlowRemovalSafe' /\ LiveFlights'
    BY <1>0 DEF Guards, FlowRemovalSafe, LiveFlights
  <1>2. QueuesFinite'
    BY <1>0, FS_Subset DEF Guards, QueuesFinite
  <1>3. BacklogCovers'
    <2> SUFFICES ASSUME NEW u \in configured, NEW g \in flows[u]
                 PROVE  flowBacklog[u][g] >=
                           Cardinality(Queued(u, g)') + Cardinality(InFlight(u, g)')
      BY DEF BacklogCovers
    <2>1. u \in Tenants /\ g \in Flows /\ flowBacklog[u][g] \in Nat
      BY <1>0 DEF TypeOK
    <2>2. /\ IsFiniteSet(Queued(u, g)) /\ Cardinality(Queued(u, g)) \in Nat
          /\ IsFiniteSet(InFlight(u, g)) /\ Cardinality(InFlight(u, g)) \in Nat
      BY <1>0, <2>1, FlowSetsFinite DEF Guards
    <2>3. flowBacklog[u][g] >= Cardinality(Queued(u, g)) + Cardinality(InFlight(u, g))
      BY <1>0 DEF Guards, BacklogCovers
    <2>4. /\ Queued(u, g)' \in SUBSET Queued(u, g)
          /\ InFlight(u, g)' \in SUBSET InFlight(u, g)
      BY <2>1 DEF Queued, InFlight
    <2>5. /\ Cardinality(Queued(u, g)') <= Cardinality(Queued(u, g))
          /\ Cardinality(Queued(u, g)') \in Nat
      BY <2>2, <2>4, FS_Subset, FS_CardinalityType
    <2>6. /\ Cardinality(InFlight(u, g)') <= Cardinality(InFlight(u, g))
          /\ Cardinality(InFlight(u, g)') \in Nat
      BY <2>2, <2>4, FS_Subset, FS_CardinalityType
    <2> QED
      BY <2>1, <2>2, <2>3, <2>5, <2>6
  <1> QED
    BY <1>1, <1>2, <1>3 DEF Guards

LEMMA GuardsUnchanged ==
    ASSUME Guards, UNCHANGED <<configured, flows, queue, flowBacklog, inFlight>>
    PROVE  Guards'
  BY DEF Guards, FlowRemovalSafe, LiveFlights, QueuesFinite, BacklogCovers,
         Queued, InFlight

LEMMA AddTenantGuards ==
    ASSUME GuardInv, NEW c \in Callers, AddTenant(c) PROVE Guards'
  <1>0. TypeOK /\ RegisteredOnce /\ Guards
    BY DEF GuardInv, RegInv, BaseInv
  <1>1. PICK t \in Tenants \ configured :
           /\ configured' = configured \cup {t}
           /\ flows' = [flows EXCEPT ![t] = {}]
           /\ flowBacklog' = [flowBacklog EXCEPT ![t] = [f \in Flows |-> 0]]
    BY DEF AddTenant
  <1>2. UNCHANGED <<queue, inFlight>>
    BY DEF AddTenant, flightVars
  <1>3. queue[t] = {} /\ \A e \in inFlight : e.tenant # t
    BY <1>0 DEF Guards, FlowRemovalSafe, LiveFlights
  <1>4. \A u \in Tenants \ {t} : /\ flows'[u] = flows[u]
                                 /\ flowBacklog'[u] = flowBacklog[u]
    BY <1>0, <1>1 DEF TypeOK
  <1>5. flows'[t] = {}
    BY <1>0, <1>1 DEF TypeOK
  <1>6. FlowRemovalSafe' /\ QueuesFinite'
    BY <1>0, <1>1, <1>2, <1>3, <1>4 DEF Guards, FlowRemovalSafe, QueuesFinite
  <1>7. LiveFlights'
    BY <1>0, <1>1, <1>2, <1>3, <1>4 DEF Guards, LiveFlights, TypeOK, Entries
  <1>8. BacklogCovers'
    BY <1>0, <1>1, <1>2, <1>4, <1>5
    DEF Guards, BacklogCovers, Queued, InFlight, TypeOK
  <1> QED
    BY <1>6, <1>7, <1>8 DEF Guards

LEMMA RemoveTenantGuards ==
    ASSUME ~RemoveInFlight, GuardInv, NEW c \in Callers, RemoveTenant(c) PROVE Guards'
  <1>0. TypeOK /\ RegisteredOnce /\ Guards
    BY DEF GuardInv, RegInv, BaseInv
  <1>1. PICK t \in configured :
           /\ \A e \in inFlight : e.tenant # t
           /\ configured' = configured \ {t}
           /\ flows' = [flows EXCEPT ![t] = {}]
           /\ queue' = [queue EXCEPT ![t] = {}]
    BY DEF RemoveTenant
  <1>2. t \in Tenants
    BY <1>0, <1>1 DEF TypeOK
  <1>3. \A u \in Tenants : queue'[u] = IF u = t THEN {} ELSE queue[u]
    BY <1>0, <1>1 DEF TypeOK
  <1>4. UNCHANGED <<flowBacklog, inFlight>>
    BY DEF RemoveTenant, statVars, flightVars
  <1>5. \A u \in Tenants \ {t} : flows'[u] = flows[u]
    BY <1>0, <1>1 DEF TypeOK
  <1>6. QueuesFinite'
    BY <1>0, <1>3, FS_EmptySet DEF Guards, QueuesFinite
  <1>7. FlowRemovalSafe'
    BY <1>0, <1>1, <1>2, <1>3, <1>5 DEF Guards, FlowRemovalSafe
  <1>8. LiveFlights'
    BY <1>0, <1>1, <1>4, <1>5 DEF Guards, LiveFlights, TypeOK
  <1>9. BacklogCovers'
    BY <1>0, <1>1, <1>3, <1>4, <1>5
    DEF Guards, BacklogCovers, Queued, InFlight, TypeOK
  <1> QED
    BY <1>6, <1>7, <1>8, <1>9 DEF Guards

LEMMA AddFlowGuards ==
    ASSUME GuardInv, NEW c \in Callers, AddFlow(c) PROVE Guards'
  <1>0. TypeOK /\ RegisteredOnce /\ Guards
    BY DEF GuardInv, RegInv, BaseInv
  <1>1. PICK t \in configured : \E f \in Flows \ flows[t] :
           flows' = [flows EXCEPT ![t] = @ \cup {f}]
    BY DEF AddFlow
  <1>2. PICK f \in Flows \ flows[t] : flows' = [flows EXCEPT ![t] = @ \cup {f}]
    BY <1>1
  <1>3. t \in Tenants
    BY <1>0 DEF TypeOK
  <1>4. UNCHANGED <<configured, queue, flowBacklog, inFlight>>
    BY DEF AddFlow, queueVars, statVars, flightVars
  <1>5. \A u \in Tenants : flows'[u] = IF u = t THEN flows[t] \cup {f} ELSE flows[u]
    BY <1>0, <1>2, <1>3 DEF TypeOK
  <1>6. QueuesFinite' /\ FlowRemovalSafe'
    BY <1>0, <1>4, <1>5 DEF Guards, QueuesFinite, FlowRemovalSafe
  <1>7. LiveFlights'
    BY <1>0, <1>4, <1>5 DEF Guards, LiveFlights, TypeOK
  <1>8. Queued(t, f) = {} /\ InFlight(t, f) = {}
    BY <1>0, <1>3 DEF Guards, FlowRemovalSafe, LiveFlights, Queued, InFlight
  <1>9. flowBacklog[t][f] >= Cardinality(Queued(t, f)) + Cardinality(InFlight(t, f))
    <2>1. flowBacklog[t][f] \in Nat
      BY <1>0, <1>3 DEF TypeOK
    <2>2. Cardinality(Queued(t, f)) = 0 /\ Cardinality(InFlight(t, f)) = 0
      BY <1>8, FS_EmptySet
    <2> QED
      BY <2>1, <2>2
  <1>10. BacklogCovers'
    <2>1. \A u, g : Queued(u, g)' = Queued(u, g) /\ InFlight(u, g)' = InFlight(u, g)
      BY <1>4 DEF Queued, InFlight
    <2> QED
      BY <1>0, <1>3, <1>4, <1>5, <1>9, <2>1 DEF Guards, BacklogCovers, TypeOK
  <1> QED
    BY <1>6, <1>7, <1>10 DEF Guards

LEMMA RemoveFlowGuards ==
    ASSUME GuardInv, NEW c \in Callers, RemoveFlow(c) PROVE Guards'
  <1>0. TypeOK /\ RegisteredOnce /\ Guards /\ Counted
    BY DEF GuardInv, RegInv, BaseInv
  <1>1. PICK t \in configured : \E f \in flows[t] :
           FlowIdle(t, f) /\ flows' = [flows EXCEPT ![t] = @ \ {f}]
    BY DEF RemoveFlow
  <1>2. PICK f \in flows[t] :
           FlowIdle(t, f) /\ flows' = [flows EXCEPT ![t] = @ \ {f}]
    BY <1>1
  <1>3. t \in Tenants
    BY <1>0 DEF TypeOK
  <1>4. UNCHANGED <<configured, queue, flowBacklog, inFlight>>
    BY DEF RemoveFlow, queueVars, statVars, flightVars
  <1>5. \A u \in Tenants : flows'[u] = IF u = t THEN flows[t] \ {f} ELSE flows[u]
    BY <1>0, <1>2, <1>3 DEF TypeOK
  <1>6. Queued(t, f) = {} /\ InFlight(t, f) = {}
    <2>1. 0 >= Cardinality(Queued(t, f)) + Cardinality(InFlight(t, f))
      BY <1>0, <1>2 DEF Guards, BacklogCovers, FlowIdle
    <2>2. /\ IsFiniteSet(Queued(t, f)) /\ Cardinality(Queued(t, f)) \in Nat
          /\ IsFiniteSet(InFlight(t, f)) /\ Cardinality(InFlight(t, f)) \in Nat
      BY <1>0, <1>3, FlowSetsFinite DEF Guards
    <2>3. Cardinality(Queued(t, f)) = 0 /\ Cardinality(InFlight(t, f)) = 0
      BY <2>1, <2>2
    <2> QED
      BY <2>2, <2>3, FS_EmptySet
  <1>7. QueuesFinite'
    BY <1>0, <1>4 DEF Guards, QueuesFinite
  <1>8. FlowRemovalSafe'
    BY <1>0, <1>4, <1>5, <1>6 DEF Guards, FlowRemovalSafe, Queued
  <1>9. LiveFlights'
    BY <1>0, <1>4, <1>5, <1>6 DEF Guards, LiveFlights, InFlight, TypeOK
  <1>10. BacklogCovers'
    <2>1. \A u, g : Queued(u, g)' = Queued(u, g) /\ InFlight(u, g)' = InFlight(u, g)
      BY <1>4 DEF Queued, InFlight
    <2> QED
      BY <1>0, <1>4, <1>5, <2>1 DEF Guards, BacklogCovers, TypeOK
  <1> QED
    BY <1>7, <1>8, <1>9, <1>10 DEF Guards

LEMMA EnqueueGuards ==
    ASSUME GuardInv, NEW c \in Callers, Enqueue(c) PROVE Guards'
  <1>0. TypeOK /\ RegisteredOnce /\ Guards /\ Counted
    BY DEF GuardInv, RegInv, BaseInv
  <1>1. PICK t \in configured :
           \E f \in flows[t], s \in Sessions \ held :
              /\ queue' = [queue EXCEPT ![t] = @ \cup {[data |-> s, flow |-> f]}]
              /\ flowBacklog' = [flowBacklog EXCEPT ![t][f] = @ + 1]
    BY Zenon DEF Enqueue
  <1>2. PICK f \in flows[t], s \in Sessions :
           /\ queue' = [queue EXCEPT ![t] = @ \cup {[data |-> s, flow |-> f]}]
           /\ flowBacklog' = [flowBacklog EXCEPT ![t][f] = @ + 1]
    BY <1>1
  <1> DEFINE x == [data |-> s, flow |-> f]
  <1>3. t \in Tenants /\ f \in Flows /\ x.data = s /\ x.flow = f
    BY <1>0 DEF TypeOK
  <1>4. UNCHANGED <<configured, flows, inFlight>>
    BY DEF Enqueue, tenantVars, flightVars
  <1>5. \A u \in Tenants : queue'[u] = IF u = t THEN queue[t] \cup {x} ELSE queue[u]
    BY <1>0, <1>2, <1>3 DEF TypeOK
  <1> HIDE DEF x
  <1>6. \A u \in Tenants, g \in Flows :
           flowBacklog'[u][g] = IF u = t /\ g = f THEN flowBacklog[t][f] + 1
                                ELSE flowBacklog[u][g]
    BY <1>0, <1>2, <1>3 DEF TypeOK
  <1>7. FlowRemovalSafe'
    BY <1>0, <1>3, <1>4, <1>5 DEF Guards, FlowRemovalSafe, TypeOK
  <1>8. QueuesFinite'
    <2>1. \A u \in Tenants : IsFiniteSet(queue[u])
      BY <1>0 DEF Guards, QueuesFinite
    <2>2. IsFiniteSet(queue[t] \cup {x})
      BY <1>3, <2>1, FS_AddElement
    <2>3. \A u \in Tenants : IsFiniteSet(queue'[u])
      BY <1>5, <2>1, <2>2
    <2> QED
      BY <2>3 DEF QueuesFinite
  <1>9. LiveFlights'
    BY <1>0, <1>4 DEF Guards, LiveFlights
  <1>10. BacklogCovers'
    <2> SUFFICES ASSUME NEW u \in configured, NEW g \in flows[u]
                 PROVE  flowBacklog'[u][g] >=
                           Cardinality(Queued(u, g)') + Cardinality(InFlight(u, g)')
      BY <1>4 DEF BacklogCovers
    <2>1. u \in Tenants /\ g \in Flows /\ flowBacklog[u][g] \in Nat
      BY <1>0 DEF TypeOK
    <2>2. /\ IsFiniteSet(Queued(u, g)) /\ Cardinality(Queued(u, g)) \in Nat
          /\ Cardinality(InFlight(u, g)) \in Nat
      BY <1>0, <2>1, FlowSetsFinite DEF Guards
    <2>3. InFlight(u, g)' = InFlight(u, g)
      BY <1>4 DEF InFlight
    <2>4. flowBacklog[u][g] >= Cardinality(Queued(u, g)) + Cardinality(InFlight(u, g))
      BY <1>0 DEF Guards, BacklogCovers
    <2>5. CASE u = t /\ g = f
      <3>1. Queued(u, g)' = Queued(u, g) \cup {x}
        BY <1>3, <1>5, <2>1, <2>5 DEF Queued
      <3>2. /\ Cardinality(Queued(u, g) \cup {x}) <= Cardinality(Queued(u, g)) + 1
            /\ Cardinality(Queued(u, g) \cup {x}) \in Nat
        BY <2>2, AddAtMostOne
      <3> QED
        BY <1>6, <2>1, <2>2, <2>3, <2>4, <2>5, <3>1, <3>2
    <2>6. CASE ~(u = t /\ g = f)
      <3>1. Queued(u, g)' = Queued(u, g)
        BY <1>3, <1>5, <2>1, <2>6 DEF Queued
      <3> QED
        BY <1>6, <2>1, <2>3, <2>4, <2>6, <3>1
    <2> QED
      BY <2>5, <2>6
  <1> QED
    BY <1>7, <1>8, <1>9, <1>10 DEF Guards

LEMMA DispatchGuards ==
    ASSUME GuardInv, NEW t \in Tenants, NEW x \in Contexts, x \in queue[t],
           Dispatch(t, x), UNCHANGED <<configured, flows, flowBacklog>>
    PROVE  Guards'
  <1>0. TypeOK /\ RegisteredOnce /\ Guards /\ Counted /\ Placed
    BY DEF GuardInv, RegInv, BaseInv
  <1> DEFINE e == [data |-> x.data, tenant |-> t, flow |-> x.flow, time |-> clock]
  <1>1. e.data = x.data /\ e.tenant = t /\ e.flow = x.flow
    OBVIOUS
  <1>2. inFlight' = inFlight \cup {e} /\ queue' = [queue EXCEPT ![t] = @ \ {x}]
    BY DEF Dispatch
  <1> HIDE DEF e
  <1>3. \A u \in Tenants : queue'[u] = IF u = t THEN queue[t] \ {x} ELSE queue[u]
    BY <1>0, <1>2 DEF TypeOK
  <1>4. FlowRemovalSafe'
    BY <1>0, <1>3 DEF Guards, FlowRemovalSafe
  <1>5. LiveFlights'
    BY <1>0, <1>1, <1>2 DEF Guards, LiveFlights, FlowRemovalSafe
  <1>6. QueuesFinite'
    <2>1. \A u \in Tenants : IsFiniteSet(queue[u])
      BY <1>0 DEF Guards, QueuesFinite
    <2>2. IsFiniteSet(queue[t] \ {x})
      BY <2>1, FS_RemoveElement
    <2>3. \A u \in Tenants : IsFiniteSet(queue'[u])
      BY <1>3, <2>1, <2>2
    <2> QED
      BY <2>3 DEF QueuesFinite
  <1>7. BacklogCovers'
    <2> SUFFICES ASSUME NEW u \in configured, NEW g \in flows[u]
                 PROVE  flowBacklog[u][g] >=
                           Cardinality(Queued(u, g)') + Cardinality(InFlight(u, g)')
      BY DEF BacklogCovers
    <2>1. u \in Tenants /\ g \in Flows /\ flowBacklog[u][g] \in Nat
      BY <1>0 DEF TypeOK
    <2>2. /\ IsFiniteSet(Queued(u, g)) /\ Cardinality(Queued(u, g)) \in Nat
          /\ IsFiniteSet(InFlight(u, g)) /\ Cardinality(InFlight(u, g)) \in Nat
      BY <1>0, <2>1, FlowSetsFinite DEF Guards
    <2>3. flowBacklog[u][g] >= Cardinality(Queued(u, g)) + Cardinality(InFlight(u, g))
      BY <1>0 DEF Guards, BacklogCovers
    <2>4. CASE u = t /\ g = x.flow
      <3>1. Queued(u, g)' = Queued(u, g) \ {x} /\ x \in Queued(u, g)
        BY <1>3, <2>1, <2>4 DEF Queued
      <3>2. InFlight(u, g)' = InFlight(u, g) \cup {e}
        BY <1>1, <1>2, <2>4 DEF InFlight
      <3>3. Cardinality(Queued(u, g)') = Cardinality(Queued(u, g)) - 1
        BY <2>2, <3>1, FS_RemoveElement
      <3>4. /\ Cardinality(InFlight(u, g)') <= Cardinality(InFlight(u, g)) + 1
            /\ Cardinality(InFlight(u, g)') \in Nat
        BY <2>2, <3>2, AddAtMostOne
      <3> QED
        BY <2>1, <2>2, <2>3, <3>3, <3>4
    <2>5. CASE ~(u = t /\ g = x.flow)
      <3>1. Queued(u, g)' = Queued(u, g)
        BY <1>3, <2>1, <2>5 DEF Queued
      <3>2. InFlight(u, g)' = InFlight(u, g)
        BY <1>1, <1>2, <2>5 DEF InFlight
      <3> QED
        BY <2>3, <3>1, <3>2
    <2> QED
      BY <2>4, <2>5
  <1> QED
    BY <1>4, <1>5, <1>6, <1>7 DEF Guards

\* hwfq_complete and hwfq_cancel take the session off the guard of its flow.
LEMMA FinishGuards ==
    ASSUME GuardInv, NEW e \in inFlight, inFlight' = inFlight \ {e},
           DropBacklog(e), UNCHANGED <<configured, flows, queue>>
    PROVE  Guards'
  <1>0. TypeOK /\ RegisteredOnce /\ Guards /\ Counted /\ Placed
    BY DEF GuardInv, RegInv, BaseInv
  <1>1. /\ e.tenant \in Tenants /\ e.flow \in Flows
        /\ e.tenant \in configured /\ e.flow \in flows[e.tenant]
    BY <1>0 DEF TypeOK, Entries, Guards, LiveFlights
  <1>2. FlowRemovalSafe' /\ LiveFlights' /\ QueuesFinite'
    BY <1>0 DEF Guards, FlowRemovalSafe, LiveFlights, QueuesFinite
  <1>3. \A u \in Tenants, g \in Flows :
           flowBacklog'[u][g] = IF u = e.tenant /\ g = e.flow
                                THEN Decremented(flowBacklog[u][g])
                                ELSE flowBacklog[u][g]
    BY <1>0, <1>1 DEF DropBacklog, TypeOK
  <1>4. BacklogCovers'
    <2> SUFFICES ASSUME NEW u \in configured, NEW g \in flows[u]
                 PROVE  flowBacklog'[u][g] >=
                           Cardinality(Queued(u, g)') + Cardinality(InFlight(u, g)')
      BY DEF BacklogCovers
    <2>1. u \in Tenants /\ g \in Flows /\ flowBacklog[u][g] \in Nat
      BY <1>0 DEF TypeOK
    <2>2. /\ IsFiniteSet(Queued(u, g)) /\ Cardinality(Queued(u, g)) \in Nat
          /\ IsFiniteSet(InFlight(u, g)) /\ Cardinality(InFlight(u, g)) \in Nat
      BY <1>0, <2>1, FlowSetsFinite DEF Guards
    <2>3. flowBacklog[u][g] >= Cardinality(Queued(u, g)) + Cardinality(InFlight(u, g))
      BY <1>0 DEF Guards, BacklogCovers
    <2>4. Queued(u, g)' = Queued(u, g)
      BY DEF Queued
    <2>5. CASE u = e.tenant /\ g = e.flow
      <3>1. InFlight(u, g)' = InFlight(u, g) \ {e} /\ e \in InFlight(u, g)
        BY <2>5 DEF InFlight
      <3>2. /\ Cardinality(InFlight(u, g)') = Cardinality(InFlight(u, g)) - 1
            /\ Cardinality(InFlight(u, g)') \in Nat
        BY <2>2, <3>1, FS_RemoveElement, FS_CardinalityType
      <3>3. flowBacklog'[u][g] = flowBacklog[u][g] - 1
        BY <1>3, <2>1, <2>2, <2>3, <2>5, <3>2 DEF Decremented
      <3> QED
        BY <2>1, <2>2, <2>3, <2>4, <3>2, <3>3
    <2>6. CASE ~(u = e.tenant /\ g = e.flow)
      <3>1. InFlight(u, g)' = InFlight(u, g)
        BY <2>6 DEF InFlight
      <3> QED
        BY <1>3, <2>1, <2>3, <2>4, <2>6, <3>1
    <2> QED
      BY <2>5, <2>6
  <1> QED
    BY <1>2, <1>4 DEF Guards

LEMMA GuardInvNext == ASSUME ~RemoveInFlight, GuardInv, [Next]_vars PROVE GuardInv'
  <1>0. TypeOK /\ RegisteredOnce /\ Guards /\ Counted
    BY DEF GuardInv, RegInv, BaseInv
  <1> SUFFICES Guards'
    BY RegInvNext DEF GuardInv
  <1>1. ASSUME NEW c \in Callers,
               AddTenant(c) \/ RemoveTenant(c) \/ AddFlow(c) \/ RemoveFlow(c)
        PROVE  Guards'
    BY <1>1, AddTenantGuards, RemoveTenantGuards, AddFlowGuards, RemoveFlowGuards
  <1>2. ASSUME NEW c \in Callers, Enqueue(c) PROVE Guards'
    BY <1>2, EnqueueGuards
  <1>3. ASSUME NEW c \in Callers,
               SampleClock(c) \/ ReportTimeout(c) \/ NotifyAvailable(c)
        PROVE  Guards'
    BY <1>0, <1>3, GuardsUnchanged
    DEF SampleClock, ReportTimeout, NotifyAvailable, tenantVars, queueVars,
        statVars, flightVars
  <1>4. ASSUME NEW c \in Callers, CheckTimeouts(c) PROVE Guards'
    BY <1>4, ShrinkGuards
    DEF CheckTimeouts, TakeOut, tenantVars, queueVars, statVars
  <1>5. ASSUME NEW c \in Callers, NEW e \in inFlight, Complete(c, e) \/ Cancel(c, e)
        PROVE  Guards'
    <2>1. /\ inFlight' = inFlight \ {e} /\ DropBacklog(e)
          /\ UNCHANGED <<configured, flows, queue>>
      BY <1>5 DEF Complete, Cancel, TakeOut, tenantVars, queueVars
    <2> QED
      BY <2>1, FinishGuards
  <1>6. ASSUME NEW w \in Workers,
               WorkerWake(w) \/ DequeueEmpty(w) \/ DequeueInternal(w)
        PROVE  Guards'
    BY <1>0, <1>6, GuardsUnchanged
    DEF WorkerWake, DequeueEmpty, DequeueInternal, tenantVars, queueVars,
        statVars, flightVars
  <1>7. ASSUME NEW w \in Workers, DequeuePutBack(w) PROVE Guards'
    <2>1. PICK t \in Tenants, x \in Contexts :
             \/ queue' = queue
             \/ queue' = [queue EXCEPT ![t] = @ \ {x}]
      <3>1. PICK t \in Tenants, x \in Contexts :
               x \in queue[t] /\ registered[t] > 0 /\ Requeue(t, x)
        BY <1>0, <1>7 DEF DequeuePutBack, TypeOK
      <3> QED
        BY <3>1 DEF Requeue
    <2>2. \A u \in Tenants : queue'[u] \subseteq queue[u]
      BY <1>0, <2>1 DEF TypeOK
    <2> QED
      BY <1>7, <2>2, ShrinkGuards DEF DequeuePutBack, tenantVars, statVars, flightVars
  <1>8. ASSUME NEW w \in Workers, DequeueSuccess(w) PROVE Guards'
    BY <1>0, <1>8, DispatchFacts, DispatchGuards
    DEF DequeueSuccess, tenantVars, statVars
  <1>9. CASE Tick \/ UNCHANGED vars
    BY <1>0, <1>9, GuardsUnchanged
    DEF Tick, vars, tenantVars, queueVars, statVars, flightVars
  <1> QED
    BY <1>1, <1>2, <1>3, <1>4, <1>5, <1>6, <1>7, <1>8, <1>9
    DEF Next, CallerNext, Dequeue

LEMMA GuardInvInit == Init => GuardInv
  BY RegInvInit, FS_EmptySet
  DEF Init, GuardInv, Guards, FlowRemovalSafe, LiveFlights, QueuesFinite,
      BacklogCovers

LEMMA GuardInvAlways == ~RemoveInFlight => (Spec => []GuardInv)
  <1> SUFFICES ASSUME ~RemoveInFlight PROVE Spec => []GuardInv
    OBVIOUS
  <1>1. GuardInv /\ [Next]_vars => GuardInv'
    BY GuardInvNext
  <1> QED
    BY <1>1, GuardInvInit, PTL DEF Spec

\* While no tenant is removed with sessions in flight, and whichever
\* allocations fail, current_backlog counts at least the queued and in-flight
\* sessions of its flow: timeouts and failed put-backs make it too large,
\* never too small.
THEOREM BacklogCoversCorrect == ~RemoveInFlight => (Spec => []BacklogCovers)
  <1>1. GuardInv => BacklogCovers
    BY DEF GuardInv, Guards
  <1> QED
    BY <1>1, GuardInvAlways, PTL

\* Under the same condition hwfq_remove_flow and hwfq_remove_tenant never take
\* a flow away under a session that is still queued.
THEOREM FlowRemovalCorrect == ~RemoveInFlight => (Spec => []FlowRemovalSafe)
  <1>1. GuardInv => FlowRemovalSafe
    BY DEF GuardInv, Guards
  <1> QED
    BY <1>1, GuardInvAlways, PTL

-----------------------------------------------------------------------------
(* The queues.  With the guards, and while allocations succeed, a put-back *)
(* finds its flow configured and loses nothing; has_backlog, the queues    *)
(* and the sessions held agree.  The facts hold only together.             *)

Reliable == AllocResults = {TRUE} /\ ~RemoveInFlight

HeldPlaced == \A s \in held : \/ \E t \in Tenants : \E x \in queue[t] : x.data = s
                              \/ \E e \in inFlight : e.data = s

Core == BacklogRegistered /\ HeldPlaced /\ Guards

CoreInv == RegInv /\ Core

LEMMA CoreUnchanged ==
    ASSUME CoreInv, UNCHANGED <<hasBacklog, queue, inFlight, held>>
    PROVE  BacklogRegistered' /\ HeldPlaced'
  BY DEF CoreInv, Core, BacklogRegistered, HeldPlaced

LEMMA TenantCore ==
    ASSUME CoreInv, NEW c \in Callers, AddTenant(c) \/ RemoveTenant(c)
    PROVE  BacklogRegistered' /\ HeldPlaced'
  <1>0. TypeOK /\ RegisteredOnce /\ Core
    BY DEF CoreInv, RegInv, BaseInv
  <1>1. CASE AddTenant(c)
    <2>1. PICK t \in Tenants \ configured :
             hasBacklog' = [hasBacklog EXCEPT ![t] = FALSE]
      BY <1>1 DEF AddTenant
    <2>2. UNCHANGED <<queue, inFlight, held>>
      BY <1>1 DEF AddTenant, flightVars, histVars
    <2>3. ~hasBacklog[t] /\ hasBacklog' = hasBacklog
      BY <1>0, <2>1 DEF TypeOK, RegisteredOnce
    <2> QED
      BY <2>2, <2>3, CoreUnchanged
  <1>2. CASE RemoveTenant(c)
    <2>1. PICK t \in configured :
             /\ ~hasBacklog[t]
             /\ queue' = [queue EXCEPT ![t] = {}]
             /\ held' = held \ {x.data : x \in queue[t]}
      BY <1>2 DEF RemoveTenant
    <2>2. t \in Tenants /\ queue[t] = {}
      BY <1>0, <2>1 DEF TypeOK, Core, BacklogRegistered
    <2>3. queue' = queue /\ held' = held
      BY <1>0, <2>1, <2>2 DEF TypeOK
    <2>4. UNCHANGED <<hasBacklog, inFlight>>
      BY <1>2 DEF RemoveTenant, flightVars
    <2> QED
      BY <2>3, <2>4, CoreUnchanged
  <1> QED
    BY <1>1, <1>2

LEMMA EnqueueCore ==
    ASSUME Reliable, CoreInv, NEW c \in Callers, Enqueue(c)
    PROVE  BacklogRegistered' /\ HeldPlaced'
  <1>0. TypeOK /\ Core
    BY DEF CoreInv, RegInv, BaseInv
  <1>1. PICK t \in configured :
           \E f \in flows[t], s \in Sessions \ held, ok \in AllocResults :
              /\ queue' = [queue EXCEPT ![t] = @ \cup {[data |-> s, flow |-> f]}]
              /\ Register(t, hasBacklog[t], registered[t], ok)
              /\ held' = held \cup {s}
    BY Zenon DEF Enqueue
  <1>2. PICK f \in flows[t], s \in Sessions :
           /\ queue' = [queue EXCEPT ![t] = @ \cup {[data |-> s, flow |-> f]}]
           /\ Register(t, hasBacklog[t], registered[t], TRUE)
           /\ held' = held \cup {s}
    <2>1. \A ok \in AllocResults : ok = TRUE
      BY DEF Reliable
    <2> QED
      BY <1>1, <2>1
  <1> DEFINE x == [data |-> s, flow |-> f]
  <1>3. t \in Tenants /\ x.data = s
    BY <1>0 DEF TypeOK
  <1>4. inFlight' = inFlight
    BY DEF Enqueue, flightVars
  <1>5. \A u \in Tenants : queue'[u] = IF u = t THEN queue[t] \cup {x} ELSE queue[u]
    BY <1>0, <1>2, <1>3 DEF TypeOK
  <1> HIDE DEF x
  <1>6. \A u \in Tenants : hasBacklog'[u] = IF u = t THEN TRUE ELSE hasBacklog[u]
    BY <1>0, <1>2, <1>3 DEF TypeOK, Register
  <1>7. BacklogRegistered'
    BY <1>0, <1>5, <1>6 DEF Core, BacklogRegistered, TypeOK
  <1>8. HeldPlaced'
    BY <1>0, <1>2, <1>3, <1>4, <1>5 DEF Core, HeldPlaced
  <1> QED
    BY <1>7, <1>8

LEMMA PutBackCore ==
    ASSUME Reliable, CoreInv, NEW w \in Workers, DequeuePutBack(w)
    PROVE  BacklogRegistered' /\ HeldPlaced'
  <1>0. TypeOK /\ RegisteredOnce /\ Core
    BY DEF CoreInv, RegInv, BaseInv
  <1>1. PICK t \in Tenants, x \in Contexts :
           x \in queue[t] /\ registered[t] > 0 /\ Requeue(t, x)
    BY <1>0 DEF DequeuePutBack, TypeOK
  <1>2. x.flow \in flows[t] /\ hasBacklog[t]
    BY <1>0, <1>1, PoppedOnce DEF Core, Guards, FlowRemovalSafe
  <1>3. queue' = queue /\ Register(t, FALSE, registered[t] - 1, TRUE)
    BY <1>1, <1>2 DEF Requeue, Reliable
  <1>4. hasBacklog' = hasBacklog
    BY <1>0, <1>2, <1>3 DEF Register, TypeOK
  <1> QED
    BY <1>3, <1>4, CoreUnchanged DEF DequeuePutBack, flightVars, histVars

LEMMA DispatchCore ==
    ASSUME Reliable, CoreInv, NEW t \in Tenants, NEW x \in Contexts, x \in queue[t],
           Dispatch(t, x), held' = held
    PROVE  BacklogRegistered' /\ HeldPlaced'
  <1>0. TypeOK /\ Core
    BY DEF CoreInv, RegInv, BaseInv
  <1> DEFINE e == [data |-> x.data, tenant |-> t, flow |-> x.flow, time |-> clock]
  <1>1. e.data = x.data
    OBVIOUS
  <1>2. inFlight' = inFlight \cup {e} /\ queue' = [queue EXCEPT ![t] = @ \ {x}]
    BY DEF Dispatch
  <1> HIDE DEF e
  <1>3. \A u \in Tenants : queue'[u] = IF u = t THEN queue[t] \ {x} ELSE queue[u]
    BY <1>0, <1>2 DEF TypeOK
  <1>4. \A u \in Tenants : hasBacklog'[u] = IF u = t THEN queue'[t] # {}
                                            ELSE hasBacklog[u]
    BY <1>0 DEF Dispatch, Register, TypeOK, Reliable
  <1>5. BacklogRegistered'
    BY <1>0, <1>3, <1>4 DEF Core, BacklogRegistered
  <1>6. HeldPlaced'
    BY <1>0, <1>1, <1>2, <1>3 DEF Core, HeldPlaced
  <1> QED
    BY <1>5, <1>6

\* Complete, cancel and timeout: what leaves the in-flight list is no longer
\* held.
LEMMA TakenCore ==
    ASSUME CoreInv, NEW es \in SUBSET inFlight, inFlight' = inFlight \ es,
           held' = held \ {e.data : e \in es}, UNCHANGED <<hasBacklog, queue>>
    PROVE  BacklogRegistered' /\ HeldPlaced'
  <1>1. BacklogRegistered'
    BY DEF CoreInv, Core, BacklogRegistered
  <1>2. HeldPlaced'
    BY DEF CoreInv, Core, HeldPlaced
  <1> QED
    BY <1>1, <1>2

LEMMA CoreInvNext == ASSUME Reliable, CoreInv, [Next]_vars PROVE CoreInv'
  <1>0. TypeOK /\ RegisteredOnce /\ Core
    BY DEF CoreInv, RegInv, BaseInv
  <1>g. GuardInv' /\ RegInv'
    BY GuardInvNext DEF CoreInv, Core, GuardInv, Reliable
  <1> SUFFICES BacklogRegistered' /\ HeldPlaced'
    BY <1>g DEF CoreInv, Core, GuardInv
  <1>1. ASSUME NEW c \in Callers, AddTenant(c) \/ RemoveTenant(c)
        PROVE  BacklogRegistered' /\ HeldPlaced'
    BY <1>1, TenantCore
  <1>2. ASSUME NEW c \in Callers, Enqueue(c) PROVE BacklogRegistered' /\ HeldPlaced'
    BY <1>2, EnqueueCore
  <1>3. ASSUME NEW c \in Callers,
               \/ AddFlow(c) \/ RemoveFlow(c) \/ SampleClock(c)
               \/ ReportTimeout(c) \/ NotifyAvailable(c)
        PROVE  BacklogRegistered' /\ HeldPlaced'
    BY <1>3, CoreUnchanged
    DEF AddFlow, RemoveFlow, SampleClock, ReportTimeout, NotifyAvailable,
        queueVars, flightVars, histVars
  <1>4. ASSUME NEW c \in Callers, CheckTimeouts(c)
        PROVE  BacklogRegistered' /\ HeldPlaced'
    <2>1. Late(c) \in SUBSET inFlight
      BY DEF Late
    <2>2. /\ inFlight' = inFlight \ Late(c)
          /\ held' = held \ {e.data : e \in Late(c)}
          /\ UNCHANGED <<hasBacklog, queue>>
      BY <1>4 DEF CheckTimeouts, TakeOut, Late, queueVars
    <2> QED
      BY <2>1, <2>2, TakenCore
  <1>5. ASSUME NEW c \in Callers, NEW e \in inFlight, Complete(c, e) \/ Cancel(c, e)
        PROVE  BacklogRegistered' /\ HeldPlaced'
    <2>1. /\ inFlight' = inFlight \ {e}
          /\ held' = held \ {g.data : g \in {e}}
          /\ queue' = queue
      BY <1>5 DEF Complete, Cancel, TakeOut, queueVars
    <2>2. hasBacklog' = hasBacklog
      <3>1. CASE Cancel(c, e)
        BY <3>1 DEF Cancel, queueVars
      <3>2. CASE Complete(c, e) /\ e.tenant \in configured /\ queue[e.tenant] # {}
        <4>1. e.tenant \in Tenants /\ hasBacklog[e.tenant]
          BY <1>0, <3>2 DEF TypeOK, Core, BacklogRegistered
        <4>2. Register(e.tenant, hasBacklog[e.tenant], registered[e.tenant], TRUE)
          BY <3>2 DEF Complete, Reliable
        <4> QED
          BY <1>0, <4>1, <4>2 DEF Register, TypeOK
      <3>3. CASE Complete(c, e) /\ ~(e.tenant \in configured /\ queue[e.tenant] # {})
        BY <3>3 DEF Complete
      <3> QED
        BY <1>5, <3>1, <3>2, <3>3
    <2> QED
      BY <2>1, <2>2, TakenCore
  <1>6. ASSUME NEW w \in Workers, WorkerWake(w) \/ DequeueEmpty(w)
        PROVE  BacklogRegistered' /\ HeldPlaced'
    BY <1>6, CoreUnchanged DEF WorkerWake, DequeueEmpty, queueVars, flightVars, histVars
  <1>7. ASSUME NEW w \in Workers, DequeueInternal(w) PROVE FALSE
    BY <1>0, <1>7, PoppedOnce DEF DequeueInternal, Core, BacklogRegistered
  <1>8. ASSUME NEW w \in Workers, DequeuePutBack(w)
        PROVE  BacklogRegistered' /\ HeldPlaced'
    BY <1>8, PutBackCore
  <1>9. ASSUME NEW w \in Workers, DequeueSuccess(w)
        PROVE  BacklogRegistered' /\ HeldPlaced'
    BY <1>0, <1>9, DispatchFacts, DispatchCore DEF DequeueSuccess, histVars
  <1>10. CASE Tick \/ UNCHANGED vars
    BY <1>10, CoreUnchanged DEF Tick, vars, queueVars, flightVars, histVars
  <1> QED
    BY <1>1, <1>2, <1>3, <1>4, <1>5, <1>6, <1>7, <1>8, <1>9, <1>10
    DEF Next, CallerNext, Dequeue

LEMMA CoreInvInit == Init => CoreInv
  <1>1. Init => BacklogRegistered /\ HeldPlaced
    BY DEF Init, BacklogRegistered, HeldPlaced
  <1> QED
    BY <1>1, GuardInvInit DEF CoreInv, Core, GuardInv

LEMMA CoreInvAlways == Reliable => (Spec => []CoreInv)
  <1> SUFFICES ASSUME Reliable PROVE Spec => []CoreInv
    OBVIOUS
  <1>1. CoreInv /\ [Next]_vars => CoreInv'
    BY CoreInvNext
  <1> QED
    BY <1>1, CoreInvInit, PTL DEF Spec

\* While allocations succeed and tenants are removed with nothing in flight,
\* has_backlog is set exactly while the tenant has queued work: nothing is
\* stranded, and hwfq_dequeue never returns HWFQ_ERR_INTERNAL.
THEOREM BacklogRegisteredCorrect == Reliable => (Spec => []BacklogRegistered)
  <1>1. CoreInv => BacklogRegistered
    BY DEF CoreInv, Core
  <1> QED
    BY <1>1, CoreInvAlways, PTL

\* Under the same conditions every session handed to the library is in
\* exactly one flow queue or one in-flight entry until it is given back.
THEOREM NoSessionLostCorrect == Reliable => (Spec => []NoSessionLost)
  <1>1. CoreInv => NoSessionLost
    <2> SUFFICES ASSUME CoreInv PROVE NoSessionLost
      OBVIOUS
    <2>0. TypeOK /\ Placed /\ HeldPlaced
      BY DEF CoreInv, Core, RegInv, BaseInv
    <2>1. held = QueuedSessions \cup InFlightSessions
      BY <2>0 DEF Placed, HeldPlaced, QueuedSessions, InFlightSessions
    <2>2. QueuedSessions \cap InFlightSessions = {}
      BY <2>0 DEF Placed, QueuedSessions, InFlightSessions
    <2> QED
      BY <2>0, <2>1, <2>2 DEF NoSessionLost, Placed
  <1> QED
    BY <1>1, CoreInvAlways, PTL

-----------------------------------------------------------------------------
(* What is drained can be removed.  hwfq_check_timeouts takes sessions out *)
(* of flight without lowering current_backlog, so this needs sessions that *)
(* never time out; current_backlog is then exact, also on the slots no     *)
(* flow uses, since a recycled slot keeps its count.                       *)

NoTimeouts == \A s \in Sessions : Timeout[s] = 0

BacklogBounded ==
    \A t \in configured : \A f \in Flows :
        flowBacklog[t][f] <= Cardinality(Queued(t, f)) + Cardinality(InFlight(t, f))

LEMMA BoundedUnchanged ==
    ASSUME BacklogBounded, UNCHANGED <<queue, flowBacklog, inFlight>>,
           configured' \in SUBSET configured
    PROVE  BacklogBounded'
  BY DEF BacklogBounded, Queued, InFlight

LEMMA AddTenantBounded ==
    ASSUME CoreInv, BacklogBounded, NEW c \in Callers, AddTenant(c)
    PROVE  BacklogBounded'
  <1>0. TypeOK /\ Core /\ Counted
    BY DEF CoreInv, RegInv, BaseInv
  <1>1. PICK t \in Tenants \ configured :
           /\ configured' = configured \cup {t}
           /\ flowBacklog' = [flowBacklog EXCEPT ![t] = [f \in Flows |-> 0]]
    BY DEF AddTenant
  <1>2. \A u, g : Queued(u, g)' = Queued(u, g) /\ InFlight(u, g)' = InFlight(u, g)
    BY DEF AddTenant, flightVars, Queued, InFlight
  <1>3. \A u \in Tenants, g \in Flows :
           flowBacklog'[u][g] = IF u = t THEN 0 ELSE flowBacklog[u][g]
    BY <1>0, <1>1 DEF TypeOK
  <1> SUFFICES ASSUME NEW u \in configured', NEW g \in Flows
               PROVE  flowBacklog'[u][g] <=
                         Cardinality(Queued(u, g)) + Cardinality(InFlight(u, g))
    BY <1>2 DEF BacklogBounded
  <1>4. u \in Tenants
    BY <1>0, <1>1 DEF TypeOK
  <1>5. Cardinality(Queued(u, g)) \in Nat /\ Cardinality(InFlight(u, g)) \in Nat
    BY <1>0, <1>4, FlowSetsFinite DEF Core, Guards
  <1>6. CASE u = t
    BY <1>3, <1>4, <1>5, <1>6
  <1>7. CASE u # t
    BY <1>1, <1>3, <1>4, <1>7 DEF BacklogBounded
  <1> QED
    BY <1>6, <1>7

\* A session that is handed over is in no queue yet: the count and the queue
\* grow together.
LEMMA EnqueueBounded ==
    ASSUME CoreInv, BacklogBounded, NEW c \in Callers, Enqueue(c)
    PROVE  BacklogBounded'
  <1>0. TypeOK /\ Core /\ Counted /\ Placed
    BY DEF CoreInv, RegInv, BaseInv
  <1>1. PICK t \in configured : \E f \in flows[t], s \in Sessions \ held :
           /\ queue' = [queue EXCEPT ![t] = @ \cup {[data |-> s, flow |-> f]}]
           /\ flowBacklog' = [flowBacklog EXCEPT ![t][f] = @ + 1]
    BY DEF Enqueue
  <1>2. PICK f \in flows[t], s \in Sessions \ held :
           /\ queue' = [queue EXCEPT ![t] = @ \cup {[data |-> s, flow |-> f]}]
           /\ flowBacklog' = [flowBacklog EXCEPT ![t][f] = @ + 1]
    BY <1>1
  <1> DEFINE x == [data |-> s, flow |-> f]
  <1>3. t \in Tenants /\ f \in Flows /\ x.data = s /\ x.flow = f
    BY <1>0 DEF TypeOK
  <1>4. configured' = configured /\ inFlight' = inFlight
    BY DEF Enqueue, tenantVars, flightVars
  <1>5. \A u \in Tenants : queue'[u] = IF u = t THEN queue[t] \cup {x} ELSE queue[u]
    BY <1>0, <1>2, <1>3 DEF TypeOK
  <1> HIDE DEF x
  <1>6. \A u \in Tenants, g \in Flows :
           flowBacklog'[u][g] = IF u = t /\ g = f THEN flowBacklog[t][f] + 1
                                ELSE flowBacklog[u][g]
    BY <1>0, <1>2, <1>3 DEF TypeOK
  <1> SUFFICES ASSUME NEW u \in configured, NEW g \in Flows
               PROVE  flowBacklog'[u][g] <=
                         Cardinality(Queued(u, g)') + Cardinality(InFlight(u, g)')
    BY <1>4 DEF BacklogBounded
  <1>7. u \in Tenants /\ flowBacklog[u][g] \in Nat
    BY <1>0 DEF TypeOK
  <1>8. /\ IsFiniteSet(Queued(u, g)) /\ Cardinality(Queued(u, g)) \in Nat
        /\ Cardinality(InFlight(u, g)) \in Nat
    BY <1>0, <1>7, FlowSetsFinite DEF Core, Guards
  <1>9. InFlight(u, g)' = InFlight(u, g)
    BY <1>4 DEF InFlight
  <1>10. flowBacklog[u][g] <= Cardinality(Queued(u, g)) + Cardinality(InFlight(u, g))
    BY DEF BacklogBounded
  <1>11. CASE u = t /\ g = f
    <2>1. Queued(u, g)' = Queued(u, g) \cup {x} /\ x \notin Queued(u, g)
      BY <1>0, <1>2, <1>3, <1>5, <1>7, <1>11 DEF Queued, Placed
    <2>2. Cardinality(Queued(u, g)') = Cardinality(Queued(u, g)) + 1
      BY <1>8, <2>1, FS_AddElement
    <2> QED
      BY <1>6, <1>7, <1>8, <1>9, <1>10, <1>11, <2>2
  <1>12. CASE ~(u = t /\ g = f)
    <2>1. Queued(u, g)' = Queued(u, g)
      BY <1>3, <1>5, <1>7, <1>12 DEF Queued
    <2> QED
      BY <1>6, <1>7, <1>9, <1>10, <1>12, <2>1
  <1> QED
    BY <1>11, <1>12

\* A dispatched session moves from the queue to the list, where it was not.
LEMMA DispatchBounded ==
    ASSUME CoreInv, BacklogBounded, NEW t \in Tenants, NEW x \in Contexts,
           x \in queue[t], Dispatch(t, x), UNCHANGED <<configured, flowBacklog>>
    PROVE  BacklogBounded'
  <1>0. TypeOK /\ Core /\ Counted /\ Placed
    BY DEF CoreInv, RegInv, BaseInv
  <1> DEFINE e == [data |-> x.data, tenant |-> t, flow |-> x.flow, time |-> clock]
  <1>1. e.data = x.data /\ e.tenant = t /\ e.flow = x.flow
    OBVIOUS
  <1>2. inFlight' = inFlight \cup {e} /\ queue' = [queue EXCEPT ![t] = @ \ {x}]
    BY DEF Dispatch
  <1> HIDE DEF e
  <1>3. \A u \in Tenants : queue'[u] = IF u = t THEN queue[t] \ {x} ELSE queue[u]
    BY <1>0, <1>2 DEF TypeOK
  <1>4. e \notin inFlight
    BY <1>0, <1>1 DEF Placed
  <1> SUFFICES ASSUME NEW u \in configured, NEW g \in Flows
               PROVE  flowBacklog[u][g] <=
                         Cardinality(Queued(u, g)') + Cardinality(InFlight(u, g)')
    BY DEF BacklogBounded
  <1>5. u \in Tenants /\ flowBacklog[u][g] \in Nat
    BY <1>0 DEF TypeOK
  <1>6. /\ IsFiniteSet(Queued(u, g)) /\ Cardinality(Queued(u, g)) \in Nat
        /\ IsFiniteSet(InFlight(u, g)) /\ Cardinality(InFlight(u, g)) \in Nat
    BY <1>0, <1>5, FlowSetsFinite DEF Core, Guards
  <1>7. flowBacklog[u][g] <= Cardinality(Queued(u, g)) + Cardinality(InFlight(u, g))
    BY DEF BacklogBounded
  <1>8. CASE u = t /\ g = x.flow
    <2>1. Queued(u, g)' = Queued(u, g) \ {x} /\ x \in Queued(u, g)
      BY <1>3, <1>5, <1>8 DEF Queued
    <2>2. InFlight(u, g)' = InFlight(u, g) \cup {e} /\ e \notin InFlight(u, g)
      BY <1>1, <1>2, <1>4, <1>8 DEF InFlight
    <2>3. Cardinality(Queued(u, g)') = Cardinality(Queued(u, g)) - 1
      BY <1>6, <2>1, FS_RemoveElement
    <2>4. Cardinality(InFlight(u, g)') = Cardinality(InFlight(u, g)) + 1
      BY <1>6, <2>2, FS_AddElement
    <2> QED
      BY <1>5, <1>6, <1>7, <2>3, <2>4
  <1>9. CASE ~(u = t /\ g = x.flow)
    <2>1. Queued(u, g)' = Queued(u, g) /\ InFlight(u, g)' = InFlight(u, g)
      BY <1>1, <1>2, <1>3, <1>5, <1>9 DEF Queued, InFlight
    <2> QED
      BY <1>7, <2>1
  <1> QED
    BY <1>8, <1>9

\* hwfq_complete and hwfq_cancel find the slots of the session in use, so the
\* count and the list shrink together.
LEMMA FinishBounded ==
    ASSUME CoreInv, BacklogBounded, NEW e \in inFlight,
           inFlight' = inFlight \ {e}, DropBacklog(e),
           UNCHANGED <<configured, queue>>
    PROVE  BacklogBounded'
  <1>0. TypeOK /\ Core /\ Counted
    BY DEF CoreInv, RegInv, BaseInv
  <1>1. /\ e.tenant \in Tenants /\ e.flow \in Flows
        /\ e.tenant \in configured /\ e.flow \in flows[e.tenant]
    BY <1>0 DEF TypeOK, Entries, Core, Guards, LiveFlights
  <1>2. \A u \in Tenants, g \in Flows :
           flowBacklog'[u][g] = IF u = e.tenant /\ g = e.flow
                                THEN Decremented(flowBacklog[u][g])
                                ELSE flowBacklog[u][g]
    BY <1>0, <1>1 DEF DropBacklog, TypeOK
  <1> SUFFICES ASSUME NEW u \in configured, NEW g \in Flows
               PROVE  flowBacklog'[u][g] <=
                         Cardinality(Queued(u, g)') + Cardinality(InFlight(u, g)')
    BY DEF BacklogBounded
  <1>3. u \in Tenants /\ flowBacklog[u][g] \in Nat
    BY <1>0 DEF TypeOK
  <1>4. /\ Cardinality(Queued(u, g)) \in Nat
        /\ IsFiniteSet(InFlight(u, g)) /\ Cardinality(InFlight(u, g)) \in Nat
    BY <1>0, <1>3, FlowSetsFinite DEF Core, Guards
  <1>5. flowBacklog[u][g] <= Cardinality(Queued(u, g)) + Cardinality(InFlight(u, g))
    BY DEF BacklogBounded
  <1>6. Queued(u, g)' = Queued(u, g)
    BY DEF Queued
  <1>7. CASE u = e.tenant /\ g = e.flow
    <2>1. InFlight(u, g)' = InFlight(u, g) \ {e} /\ e \in InFlight(u, g)
      BY <1>7 DEF InFlight
    <2>2. /\ Cardinality(InFlight(u, g)') = Cardinality(InFlight(u, g)) - 1
          /\ Cardinality(InFlight(u, g)') \in Nat
      BY <1>4, <2>1, FS_RemoveElement, FS_CardinalityType
    <2>3. flowBacklog'[u][g] = Decremented(flowBacklog[u][g])
      BY <1>2, <1>3, <1>7
    <2> QED
      BY <1>3, <1>4, <1>5, <1>6, <2>2, <2>3 DEF Decremented
  <1>8. CASE ~(u = e.tenant /\ g = e.flow)
    <2>1. InFlight(u, g)' = InFlight(u, g)
      BY <1>8 DEF InFlight
    <2>2. flowBacklog'[u][g] = flowBacklog[u][g]
      BY <1>2, <1>3, <1>8
    <2> QED
      BY <1>5, <1>6, <2>1, <2>2
  <1> QED
    BY <1>7, <1>8

LEMMA BoundedNext ==
    ASSUME Reliable, NoTimeouts, CoreInv, BacklogBounded, [Next]_vars
    PROVE  BacklogBounded'
  <1>0. TypeOK /\ RegisteredOnce /\ Core
    BY DEF CoreInv, RegInv, BaseInv
  <1>1. ASSUME NEW c \in Callers, RemoveTenant(c) PROVE BacklogBounded'
    <2>1. PICK t \in configured : /\ ~hasBacklog[t]
                                  /\ configured' = configured \ {t}
                                  /\ queue' = [queue EXCEPT ![t] = {}]
      BY <1>1 DEF RemoveTenant
    <2>2. queue' = queue
      BY <1>0, <2>1 DEF TypeOK, Core, BacklogRegistered
    <2> QED
      BY <1>1, <2>1, <2>2, BoundedUnchanged DEF RemoveTenant, statVars, flightVars
  <1>2. ASSUME NEW c \in Callers, CheckTimeouts(c) PROVE BacklogBounded'
    <2>1. Late(c) = {}
      BY <1>0 DEF Late, IsTimedOut, NoTimeouts, TypeOK, Entries
    <2>2. inFlight' = inFlight
      BY <1>2, <2>1 DEF CheckTimeouts, TakeOut, Late
    <2> QED
      BY <1>2, <2>2, BoundedUnchanged
      DEF CheckTimeouts, tenantVars, queueVars, statVars
  <1>3. ASSUME NEW c \in Callers, NEW e \in inFlight, Complete(c, e) \/ Cancel(c, e)
        PROVE  BacklogBounded'
    <2>1. /\ inFlight' = inFlight \ {e} /\ DropBacklog(e)
          /\ UNCHANGED <<configured, queue>>
      BY <1>3 DEF Complete, Cancel, TakeOut, tenantVars, queueVars
    <2> QED
      BY <2>1, FinishBounded
  <1>4. ASSUME NEW c \in Callers,
               \/ AddFlow(c) \/ RemoveFlow(c) \/ SampleClock(c)
               \/ ReportTimeout(c) \/ NotifyAvailable(c)
        PROVE  BacklogBounded'
    BY <1>4, BoundedUnchanged
    DEF AddFlow, RemoveFlow, SampleClock, ReportTimeout, NotifyAvailable,
        tenantVars, queueVars, statVars, flightVars
  <1>5. ASSUME NEW w \in Workers, WorkerWake(w) \/ DequeueEmpty(w)
        PROVE  BacklogBounded'
    BY <1>5, BoundedUnchanged
    DEF WorkerWake, DequeueEmpty, tenantVars, queueVars, statVars, flightVars
  <1>6. ASSUME NEW w \in Workers, DequeueInternal(w) PROVE FALSE
    BY <1>0, <1>6, PoppedOnce DEF DequeueInternal, Core, BacklogRegistered
  <1>7. ASSUME NEW w \in Workers, DequeuePutBack(w) PROVE BacklogBounded'
    <2>1. queue' = queue
      BY <1>0, <1>7 DEF DequeuePutBack, Requeue, Reliable, Core, Guards, FlowRemovalSafe
    <2> QED
      BY <1>7, <2>1, BoundedUnchanged
      DEF DequeuePutBack, tenantVars, statVars, flightVars
  <1>8. ASSUME NEW w \in Workers, DequeueSuccess(w) PROVE BacklogBounded'
    BY <1>0, <1>8, DispatchFacts, DispatchBounded
    DEF DequeueSuccess, tenantVars, statVars
  <1>9. CASE Tick \/ UNCHANGED vars
    BY <1>9, BoundedUnchanged
    DEF Tick, vars, tenantVars, queueVars, statVars, flightVars
  <1> QED
    BY <1>1, <1>2, <1>3, <1>4, <1>5, <1>6, <1>7, <1>8, <1>9, AddTenantBounded,
       EnqueueBounded
    DEF Next, CallerNext, Dequeue

\* While allocations succeed, tenants are removed with nothing in flight and
\* no session times out, a flow with nothing queued and nothing in flight
\* passes the guard of hwfq_remove_flow.
THEOREM DrainedFlowCorrect ==
    Reliable /\ NoTimeouts => (Spec => []DrainedFlowRemovable)
  <1> SUFFICES ASSUME Reliable, NoTimeouts PROVE Spec => []DrainedFlowRemovable
    OBVIOUS
  <1>1. Init => BacklogBounded
    BY DEF Init, BacklogBounded
  <1>2. CoreInv /\ BacklogBounded /\ [Next]_vars => BacklogBounded'
    BY BoundedNext
  <1>3. CoreInv /\ BacklogBounded => DrainedFlowRemovable
    <2> SUFFICES ASSUME CoreInv, BacklogBounded, NEW t \in configured,
                        NEW f \in flows[t], Queued(t, f) = {}, InFlight(t, f) = {}
                 PROVE  flowBacklog[t][f] = 0
      BY DEF DrainedFlowRemovable
    <2>1. f \in Flows /\ flowBacklog[t][f] \in Nat
      BY DEF CoreInv, RegInv, BaseInv, TypeOK
    <2>2. Cardinality(Queued(t, f)) = 0 /\ Cardinality(InFlight(t, f)) = 0
      BY FS_EmptySet
    <2> QED
      BY <2>1, <2>2 DEF BacklogBounded
  <1> QED
    BY <1>1, <1>2, <1>3, CoreInvAlways, PTL DEF Spec

\* Under the same conditions the guard of hwfq_remove_flow counts exactly what
\* it stands for: the sessions of the flow that are queued or in flight.
BacklogExact ==
    \A t \in configured : \A f \in flows[t] :
        flowBacklog[t][f] = Cardinality(Queued(t, f)) + Cardinality(InFlight(t, f))

\* Under the same conditions current_backlog is exact at every moment, after
\* any mix of put-backs, completions, cancellations and reused flow slots.
THEOREM BacklogExactCorrect == Reliable /\ NoTimeouts => (Spec => []BacklogExact)
  <1> SUFFICES ASSUME Reliable, NoTimeouts PROVE Spec => []BacklogExact
    OBVIOUS
  <1>1. Init => BacklogBounded
    BY DEF Init, BacklogBounded
  <1>2. CoreInv /\ BacklogBounded /\ [Next]_vars => BacklogBounded'
    BY BoundedNext
  <1>3. CoreInv /\ BacklogBounded => BacklogExact
    <2> SUFFICES ASSUME CoreInv, BacklogBounded, NEW t \in configured,
                        NEW f \in flows[t]
                 PROVE  flowBacklog[t][f] = Cardinality(Queued(t, f))
                                              + Cardinality(InFlight(t, f))
      BY DEF BacklogExact
    <2>0. TypeOK /\ Counted /\ Guards
      BY DEF CoreInv, Core, RegInv, BaseInv
    <2>1. t \in Tenants /\ f \in Flows /\ flowBacklog[t][f] \in Nat
      BY <2>0 DEF TypeOK
    <2>2. Cardinality(Queued(t, f)) \in Nat /\ Cardinality(InFlight(t, f)) \in Nat
      BY <2>0, <2>1, FlowSetsFinite DEF Guards
    <2>3. flowBacklog[t][f] >= Cardinality(Queued(t, f)) + Cardinality(InFlight(t, f))
      BY <2>0 DEF Guards, BacklogCovers
    <2>4. flowBacklog[t][f] <= Cardinality(Queued(t, f)) + Cardinality(InFlight(t, f))
      BY <2>1 DEF BacklogBounded
    <2> QED
      BY <2>1, <2>2, <2>3, <2>4
  <1> QED
    BY <1>1, <1>2, <1>3, CoreInvAlways, PTL DEF Spec

-----------------------------------------------------------------------------
(* No wake-up is lost, for every value of the constants in which every     *)
(* session fits the capacity and allocations succeed.                      *)

\* A session larger than the capacity would be put back for ever.
EverySizeFits == \A s \in Sessions : Size[s] <= TotalCapacity

\* What makes a worker come, or a worker that is there already.
Awake ==
    \/ signalled
    \/ \E w \in Workers : worker[w] = "draining"
    \/ \E c \in Callers :
          pc[c] = "notify" \/ (pc[c] = "reporting" /\ mustNotify[c])

Waiting == \E t \in Tenants : queue[t] # {}

WakeInv == CoreInv /\ WorkInv /\ NoLostWakeup

\* With nothing in flight there is capacity for any session.
LEMMA IdleCapacity ==
    ASSUME InFlightAccounting, inFlight = {}
    PROVE  inFlightWork = 0
  <1>1. UnitsInFlight = {}
    BY DEF UnitsInFlight
  <1> QED
    BY <1>1, FS_EmptySet DEF InFlightAccounting

LEMMA IdleFits ==
    ASSUME EverySizeFits, InFlightAccounting, inFlight = {}, NEW s \in Sessions
    PROVE  ~NoCapacity(s)
  <1>1. inFlightWork = 0 /\ Size[s] \in Nat /\ Size[s] <= TotalCapacity
        /\ Size[s] <= MaxU
    BY IdleCapacity, SizeRange, CapacityAssumption DEF EverySizeFits
  <1> QED
    BY <1>1, CapacityAssumption DEF NoCapacity, Plus

LEMMA IdleHasCapacity ==
    ASSUME InFlightAccounting', inFlight' = {}
    PROVE  HasCapacity
  <1>1. UnitsInFlight' = {}
    BY DEF UnitsInFlight
  <1>2. inFlightWork' = 0
    BY <1>1, FS_EmptySet DEF InFlightAccounting
  <1> QED
    BY <1>2, CapacityAssumption DEF HasCapacity

\* Queued work keeps the system scheduler non-empty.
LEMMA WaitingRegistered ==
    ASSUME CoreInv, Waiting PROVE ~SystemEmpty
  BY DEF CoreInv, RegInv, RegisteredOnce, Core, BacklogRegistered, Waiting, SystemEmpty

LEMMA EnqueueWakes ==
    ASSUME WakeInv, NEW c \in Callers, Enqueue(c), inFlight' = {}
    PROVE  Awake'
  <1>1. inFlight = {} /\ pc \in [Callers -> {"idle", "sampled", "reporting", "notify"}]
    BY DEF Enqueue, flightVars, WakeInv, CoreInv, RegInv, BaseInv, TypeOK
  <1>2. inFlightWork < TotalCapacity
    BY <1>1, IdleCapacity, CapacityAssumption DEF WakeInv, WorkInv
  <1>3. pc'[c] = "notify"
    BY <1>1, <1>2 DEF Enqueue, Return
  <1> QED
    BY <1>3 DEF Awake

LEMMA FinishWakes ==
    ASSUME WakeInv, NEW c \in Callers, NEW e \in inFlight,
           Complete(c, e) \/ Cancel(c, e), InFlightAccounting',
           inFlight' = {}, Waiting'
    PROVE  Awake'
  <1>1. HasCapacity
    BY IdleHasCapacity
  <1>2. queue' = queue
    BY DEF Complete, Cancel, queueVars
  <1>3. Waiting
    BY <1>2 DEF Waiting
  <1>4. ~SystemEmpty
    BY <1>3, WaitingRegistered DEF WakeInv
  <1>5. pc \in [Callers -> {"idle", "sampled", "reporting", "notify"}]
    BY DEF WakeInv, CoreInv, RegInv, BaseInv, TypeOK
  <1>6. \/ Return(c, HasCapacity)
        \/ Return(c, HasCapacity /\ ~SystemEmpty)
    BY DEF Complete, Cancel
  <1>7. pc'[c] = "notify"
    BY <1>1, <1>4, <1>5, <1>6 DEF Return
  <1> QED
    BY <1>7 DEF Awake

LEMMA CheckWakes ==
    ASSUME WakeInv, NEW c \in Callers, CheckTimeouts(c), InFlightAccounting',
           inFlight' = {}, Waiting'
    PROVE  Awake'
  <1>0. TypeOK /\ NoLostWakeup
    BY DEF WakeInv, CoreInv, RegInv, BaseInv
  <1>1. queue' = queue /\ worker' = worker /\ signalled' = signalled
    BY DEF CheckTimeouts, queueVars, workerVars
  <1>2. Waiting /\ ~SystemEmpty
    BY <1>1, WaitingRegistered DEF Waiting, WakeInv
  <1>3. HasCapacity
    BY IdleHasCapacity
  <1>4. /\ inFlight' = inFlight \ Late(c)
        /\ mustNotify' = [mustNotify EXCEPT
              ![c] = Late(c) # {} /\ HasCapacity /\ ~SystemEmpty]
        /\ pc' = [pc EXCEPT ![c] = IF Late(c) = {} THEN "idle" ELSE "reporting"]
        /\ pc[c] = "sampled"
    BY DEF CheckTimeouts, TakeOut, Late
  <1>5. CASE Late(c) # {}
    <2>1. mustNotify'[c] /\ pc'[c] = "reporting"
      BY <1>0, <1>2, <1>3, <1>4, <1>5 DEF TypeOK
    <2> QED
      BY <2>1 DEF Awake
  <1>6. CASE Late(c) = {}
    <2>1. inFlight = {}
      BY <1>4, <1>6
    <2>2. Awake
      BY <1>0, <1>2, <2>1 DEF NoLostWakeup, Awake, Waiting
    <2>3. \A d \in Callers : d # c => pc'[d] = pc[d] /\ mustNotify'[d] = mustNotify[d]
      BY <1>0, <1>4 DEF TypeOK
    <2> QED
      BY <1>1, <1>4, <2>2, <2>3 DEF Awake
  <1> QED
    BY <1>5, <1>6

LEMMA ReportWakes ==
    ASSUME WakeInv, NEW c \in Callers, ReportTimeout(c), Awake
    PROVE  Awake'
  <1>0. TypeOK
    BY DEF WakeInv, CoreInv, RegInv, BaseInv
  <1>1. /\ worker' = worker /\ signalled' = signalled
        /\ pc' = [pc EXCEPT ![c] = IF reports'[c] # {} THEN "reporting"
                                   ELSE IF mustNotify[c] THEN "notify" ELSE "idle"]
        /\ mustNotify' = [mustNotify EXCEPT ![c] = mustNotify[c] /\ reports'[c] # {}]
        /\ pc[c] = "reporting"
    BY <1>0 DEF ReportTimeout, workerVars, TypeOK
  <1>2. \A d \in Callers : d # c => pc'[d] = pc[d] /\ mustNotify'[d] = mustNotify[d]
    BY <1>0, <1>1 DEF TypeOK
  <1>3. CASE mustNotify[c]
    <2>1. \/ pc'[c] = "notify"
          \/ pc'[c] = "reporting" /\ mustNotify'[c]
      BY <1>0, <1>1, <1>3 DEF TypeOK
    <2> QED
      BY <2>1 DEF Awake
  <1>4. CASE ~mustNotify[c]
    BY <1>1, <1>2, <1>4 DEF Awake
  <1> QED
    BY <1>3, <1>4

LEMMA NotifyWakes ==
    ASSUME NEW c \in Callers, NotifyAvailable(c) PROVE Awake'
  BY DEF NotifyAvailable, Awake

LEMMA WorkerWakes ==
    ASSUME WakeInv, NEW w \in Workers, WorkerWake(w) PROVE Awake'
  <1>1. worker \in [Workers -> {"waiting", "draining"}]
    BY DEF WakeInv, CoreInv, RegInv, BaseInv, TypeOK
  <1>2. worker'[w] = "draining"
    BY <1>1 DEF WorkerWake
  <1> QED
    BY <1>2 DEF Awake

\* A worker stops draining only when nothing is queued or something is in
\* flight.
LEMMA DequeueWakes ==
    ASSUME Reliable, EverySizeFits, WakeInv, NEW w \in Workers, Dequeue(w),
           inFlight' = {}, Waiting'
    PROVE  Awake'
  <1>0. TypeOK /\ RegisteredOnce /\ Core
    BY DEF WakeInv, CoreInv, RegInv, BaseInv
  <1>1. ~DequeueEmpty(w)
    <2> SUFFICES ASSUME DequeueEmpty(w) PROVE FALSE
      OBVIOUS
    <2>1. queue' = queue /\ SystemEmpty
      BY DEF DequeueEmpty, queueVars
    <2> QED
      BY <2>1, WaitingRegistered DEF WakeInv, Waiting
  <1>2. ~DequeueInternal(w)
    BY <1>0, PoppedOnce DEF DequeueInternal, Core, BacklogRegistered
  <1>3. ~DequeuePutBack(w)
    <2> SUFFICES ASSUME DequeuePutBack(w) PROVE FALSE
      OBVIOUS
    <2>1. inFlight = {}
      BY DEF DequeuePutBack, flightVars
    <2>2. PICK t \in Tenants : \E x \in queue[t] :
              NoCapacity(x.data) \/ FALSE \in AllocResults
      BY DEF DequeuePutBack
    <2>3. PICK x \in queue[t] : NoCapacity(x.data) \/ FALSE \in AllocResults
      BY <2>2
    <2>4. x.data \in Sessions
      BY <1>0 DEF TypeOK, Contexts
    <2> QED
      BY <2>1, <2>3, <2>4, IdleFits DEF Reliable, WakeInv, WorkInv
  <1>4. ~DequeueSuccess(w)
    BY DEF DequeueSuccess
  <1> QED
    BY <1>1, <1>2, <1>3, <1>4 DEF Dequeue

LEMMA WakeInvNext ==
    ASSUME Reliable, SizesFit, EverySizeFits, WakeInv, [Next]_vars
    PROVE  WakeInv'
  <1>1. CoreInv' /\ WorkInv'
    BY CoreInvNext, WorkInvNext DEF WakeInv
  <1>2. InFlightAccounting'
    BY <1>1 DEF WorkInv
  <1> SUFFICES ASSUME inFlight' = {}, Waiting' PROVE Awake'
    BY <1>1 DEF WakeInv, NoLostWakeup, Waiting, Awake
  <1>3. inFlight = {} /\ Waiting => Awake
    BY DEF WakeInv, NoLostWakeup, Waiting, Awake
  <1>4. ASSUME NEW c \in Callers,
               AddTenant(c) \/ RemoveTenant(c) \/ AddFlow(c) \/ RemoveFlow(c)
        PROVE  Awake'
    <2>1. UNCHANGED <<inFlight, pc, mustNotify, worker, signalled>>
      BY <1>4 DEF AddTenant, RemoveTenant, AddFlow, RemoveFlow, flightVars,
                  callerVars, workerVars
    <2>2. \A t \in Tenants : queue'[t] # {} => queue[t] # {}
      <3>1. queue \in [Tenants -> SUBSET Contexts]
        BY DEF WakeInv, CoreInv, RegInv, BaseInv, TypeOK
      <3> QED
        BY <1>4, <3>1 DEF AddTenant, RemoveTenant, AddFlow, RemoveFlow, queueVars
    <2>3. inFlight = {} /\ Waiting
      BY <2>1, <2>2 DEF Waiting
    <2> QED
      BY <1>3, <2>1, <2>3 DEF Awake
  <1>5. ASSUME NEW c \in Callers, Enqueue(c) PROVE Awake'
    BY <1>5, EnqueueWakes
  <1>6. ASSUME NEW c \in Callers, CheckTimeouts(c) PROVE Awake'
    BY <1>2, <1>6, CheckWakes
  <1>7. ASSUME NEW c \in Callers, ReportTimeout(c) PROVE Awake'
    <2>1. inFlight = {} /\ Waiting
      BY <1>7 DEF ReportTimeout, flightVars, queueVars, Waiting
    <2> QED
      BY <1>3, <1>7, <2>1, ReportWakes
  <1>8. ASSUME NEW c \in Callers, SampleClock(c) PROVE Awake'
    <2>1. UNCHANGED <<inFlight, queue, mustNotify, worker, signalled>>
      BY <1>8 DEF SampleClock, flightVars, queueVars, workerVars
    <2>2. Awake
      BY <1>3, <2>1 DEF Waiting
    <2>3. pc \in [Callers -> {"idle", "sampled", "reporting", "notify"}]
      BY DEF WakeInv, CoreInv, RegInv, BaseInv, TypeOK
    <2>4. \A d \in Callers : pc[d] # "idle" => pc'[d] = pc[d]
      BY <1>8, <2>3 DEF SampleClock
    <2> QED
      BY <2>1, <2>2, <2>4 DEF Awake
  <1>9. ASSUME NEW c \in Callers, NotifyAvailable(c) PROVE Awake'
    BY <1>9, NotifyWakes
  <1>10. ASSUME NEW c \in Callers, NEW e \in inFlight, Complete(c, e) \/ Cancel(c, e)
         PROVE  Awake'
    BY <1>2, <1>10, FinishWakes
  <1>11. ASSUME NEW w \in Workers, WorkerWake(w) PROVE Awake'
    BY <1>11, WorkerWakes
  <1>12. ASSUME NEW w \in Workers, Dequeue(w) PROVE Awake'
    BY <1>12, DequeueWakes
  <1>13. CASE Tick \/ UNCHANGED vars
    <2>1. UNCHANGED <<inFlight, queue, pc, mustNotify, worker, signalled>>
      BY <1>13 DEF Tick, vars, flightVars, queueVars, callerVars, workerVars
    <2> QED
      BY <1>3, <2>1 DEF Awake, Waiting
  <1> QED
    BY <1>4, <1>5, <1>6, <1>7, <1>8, <1>9, <1>10, <1>11, <1>12, <1>13
    DEF Next, CallerNext

LEMMA WakeInvInit == Init => WakeInv
  BY CoreInvInit, WorkInvInit DEF WakeInv, NoLostWakeup, Init

\* Queued work with nothing in flight always has a worker draining or a
\* session_available_fn call made or due: the test of capacity and queue under
\* the lock and the call after the unlock never miss the last chance to wake a
\* worker, for any number of threads and tenants.
THEOREM WakeupCorrect ==
    Reliable /\ SizesFit /\ EverySizeFits => (Spec => []NoLostWakeup)
  <1> SUFFICES ASSUME Reliable, SizesFit, EverySizeFits PROVE Spec => []NoLostWakeup
    OBVIOUS
  <1>1. WakeInv /\ [Next]_vars => WakeInv'
    BY WakeInvNext
  <1>2. WakeInv => NoLostWakeup
    BY DEF WakeInv
  <1> QED
    BY <1>1, <1>2, WakeInvInit, PTL DEF Spec

=============================================================================
