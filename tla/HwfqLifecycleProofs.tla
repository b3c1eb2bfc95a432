------------------------ MODULE HwfqLifecycleProofs ------------------------
(***************************************************************************)
(* HwfqScheduler implements SessionLifecycle, for every value of the       *)
(* constants in which sizes and the capacity do not add up beyond          *)
(* UINT64_MAX, whatever allocations fail and whatever the client removes.  *)
(***************************************************************************)
EXTENDS HwfqLifecycle, HwfqSchedulerProofs

\* A caller has sessions to report only while it reports them.
IdleReports == \A c \in Callers : pc[c] # "reporting" => reports[c] = {}

LifeInv == /\ BaseInv
           /\ ReportedOnce
           /\ WorkInv
           /\ IdleReports
           /\ Reliable => CoreInv

\* The four sets the place of a session is read off.
Apart ==
    /\ held \subseteq Sessions /\ ReportedSessions \subseteq Sessions
    /\ QueuedSessions \subseteq held
    /\ InFlightSessions \subseteq held
    /\ QueuedSessions \cap InFlightSessions = {}
    /\ ReportedSessions \cap held = {}

LEMMA IdleReportsNext == ASSUME TypeOK, IdleReports, [Next]_vars PROVE IdleReports'
  <1>1. CASE UNCHANGED <<pc, reports>>
    BY <1>1 DEF IdleReports
  <1>2. ASSUME NEW c \in Callers,
               \/ Enqueue(c) \/ SampleClock(c) \/ NotifyAvailable(c)
               \/ \E e \in inFlight : Complete(c, e) \/ Cancel(c, e)
        PROVE  IdleReports'
    <2>1. reports' = reports /\ pc[c] # "reporting"
      BY <1>2 DEF Enqueue, SampleClock, NotifyAvailable, Complete, Cancel, Return
    <2>2. \A d \in Callers \ {c} : pc'[d] = pc[d]
      BY <1>2 DEF TypeOK, Enqueue, SampleClock, NotifyAvailable, Complete, Cancel,
                  Return
    <2> QED
      BY <2>1, <2>2 DEF IdleReports
  <1>3. ASSUME NEW c \in Callers, CheckTimeouts(c) PROVE IdleReports'
    <2>1. /\ reports' = [reports EXCEPT ![c] = {e.data : e \in Late(c)}]
          /\ pc' = [pc EXCEPT ![c] = IF Late(c) = {} THEN "idle" ELSE "reporting"]
      BY <1>3 DEF CheckTimeouts, Late
    <2>2. \A d \in Callers \ {c} : pc'[d] = pc[d] /\ reports'[d] = reports[d]
      BY <2>1 DEF TypeOK
    <2>3. pc'[c] # "reporting" => reports'[c] = {}
      BY <2>1 DEF TypeOK
    <2> QED
      BY <2>2, <2>3 DEF IdleReports
  <1>4. ASSUME NEW c \in Callers, ReportTimeout(c) PROVE IdleReports'
    <2>1. PICK s \in reports[c] :
             /\ reports' = [reports EXCEPT ![c] = @ \ {s}]
             /\ pc' = [pc EXCEPT ![c] =
                   IF reports'[c] # {} THEN "reporting"
                   ELSE IF mustNotify[c] THEN "notify" ELSE "idle"]
      BY <1>4 DEF ReportTimeout
    <2>2. \A d \in Callers \ {c} : pc'[d] = pc[d] /\ reports'[d] = reports[d]
      BY <2>1 DEF TypeOK
    <2>3. pc'[c] # "reporting" => reports'[c] = {}
      BY <2>1 DEF TypeOK
    <2> QED
      BY <2>2, <2>3 DEF IdleReports
  <1>5. ASSUME NEW c \in Callers,
               AddTenant(c) \/ RemoveTenant(c) \/ AddFlow(c) \/ RemoveFlow(c)
        PROVE  IdleReports'
    BY <1>1, <1>5 DEF AddTenant, RemoveTenant, AddFlow, RemoveFlow, callerVars
  <1>6. ASSUME NEW w \in Workers, WorkerWake(w) \/ Dequeue(w) PROVE IdleReports'
    BY <1>1, <1>6 DEF WorkerWake, Dequeue, DequeueEmpty, DequeueInternal,
                      DequeuePutBack, DequeueSuccess, callerVars
  <1>7. CASE Tick \/ UNCHANGED vars
    BY <1>1, <1>7 DEF Tick, vars, callerVars
  <1> QED
    BY <1>2, <1>3, <1>4, <1>5, <1>6, <1>7 DEF Next, CallerNext

LEMMA LifeInvAlways == SizesFit => (Spec => []LifeInv)
  <1> SUFFICES ASSUME SizesFit PROVE Spec => []LifeInv
    OBVIOUS
  <1>1. Init => LifeInv
    BY BaseInvInit, WorkInvInit, CoreInvInit
    DEF Init, LifeInv, ReportedOnce, IdleReports
  <1>2. LifeInv /\ [Next]_vars => LifeInv'
    <2> SUFFICES ASSUME LifeInv, [Next]_vars PROVE LifeInv'
      OBVIOUS
    <2>1. BaseInv' /\ WorkInv'
      BY BaseInvNext, WorkInvNext DEF LifeInv
    <2>2. ReportedOnce'
      BY ReportedOnceNext DEF LifeInv, ReportInv
    <2>3. IdleReports'
      BY IdleReportsNext DEF LifeInv, BaseInv
    <2>4. Reliable => CoreInv'
      BY CoreInvNext DEF LifeInv
    <2> QED
      BY <2>1, <2>2, <2>3, <2>4 DEF LifeInv, Reliable
  <1> QED
    BY <1>1, <1>2, PTL DEF Spec

LEMMA LifeApart == LifeInv => Apart
  <1> SUFFICES ASSUME LifeInv PROVE Apart
    OBVIOUS
  <1>1. TypeOK /\ Placed /\ ReportedOnce
    BY DEF LifeInv, BaseInv
  <1>2. held \subseteq Sessions /\ ReportedSessions \subseteq Sessions
    BY <1>1 DEF TypeOK, ReportedSessions
  <1>3. QueuedSessions \subseteq held /\ QueuedSessions \cap InFlightSessions = {}
    BY <1>1 DEF Placed, QueuedSessions, InFlightSessions
  <1>4. InFlightSessions \subseteq held
    BY <1>1 DEF Placed, InFlightSessions
  <1>5. ReportedSessions \cap held = {}
    BY <1>1 DEF ReportedOnce, ReportedSessions
  <1> QED
    BY <1>2, <1>3, <1>4, <1>5 DEF Apart

-----------------------------------------------------------------------------
(* The steps of SessionLifecycle, from what happens to the four sets.      *)

LEMMA SubmitStep ==
    ASSUME Apart, NEW s \in Sessions, s \notin held, s \notin ReportedSessions,
           QueuedSessions' = QueuedSessions \cup {s},
           UNCHANGED <<InFlightSessions, ReportedSessions>>,
           held' = held \cup {s},
           disposed' = disposed \ {s}, cleanups' = cleanups \ {s}
    PROVE  Lifecycle!Submit
  <1>1. s \in Lifecycle!At("client")
    BY DEF Apart, Lifecycle!At, Where
  <1>2. Lifecycle!Moved({s}, "queued")
    BY DEF Apart, Lifecycle!Moved, Where
  <1> QED
    BY <1>1, <1>2 DEF Lifecycle!Submit

LEMMA DispatchStep ==
    ASSUME Apart, NEW s \in QueuedSessions,
           QueuedSessions' = QueuedSessions \ {s},
           InFlightSessions' = InFlightSessions \cup {s},
           UNCHANGED <<ReportedSessions, held, disposed, cleanups>>,
           Work(InFlightSessions') <= TotalCapacity
    PROVE  Lifecycle!Dispatch
  <1>1. s \in Lifecycle!At("queued")
    BY DEF Apart, Lifecycle!At, Where
  <1>2. Lifecycle!Moved({s}, "inFlight")
    BY DEF Apart, Lifecycle!Moved, Where
  <1>3. Lifecycle!At("inFlight") \cup {s} = InFlightSessions'
    BY DEF Apart, Lifecycle!At, Where
  <1>4. Work(Lifecycle!At("inFlight") \cup {s}) <= TotalCapacity
    BY <1>3
  <1> QED
    BY <1>1, <1>2, <1>4 DEF Lifecycle!Dispatch

LEMMA GiveBackStep ==
    ASSUME Apart, NEW s \in InFlightSessions,
           InFlightSessions' = InFlightSessions \ {s},
           held' = held \ {s},
           UNCHANGED <<QueuedSessions, ReportedSessions, cleanups>>,
           disposed' = disposed \/ disposed' = disposed \cup {s}
    PROVE  Lifecycle!Complete \/ Lifecycle!Cancel
  <1>1. s \in Lifecycle!At("inFlight")
    BY DEF Apart, Lifecycle!At, Where
  <1>2. Lifecycle!Moved({s}, "client")
    BY DEF Apart, Lifecycle!Moved, Where
  <1> QED
    BY <1>1, <1>2 DEF Lifecycle!Complete, Lifecycle!Cancel

LEMMA TimeOutStep ==
    ASSUME Apart, NEW S \in SUBSET InFlightSessions,
           \A s \in S : Timeout[s] > 0,
           InFlightSessions' = InFlightSessions \ S,
           held' = held \ S,
           ReportedSessions' = ReportedSessions \cup S,
           UNCHANGED <<QueuedSessions, cleanups>>,
           disposed' = disposed \cup S
    PROVE  Lifecycle!TimeOut
  <1>1. S \in SUBSET Lifecycle!At("inFlight")
    BY DEF Apart, Lifecycle!At, Where
  <1>2. Lifecycle!Moved(S, "timedOut")
    BY DEF Apart, Lifecycle!Moved, Where
  <1> QED
    BY <1>1, <1>2 DEF Lifecycle!TimeOut

LEMMA ReportStep ==
    ASSUME Apart, NEW s \in ReportedSessions,
           ReportedSessions' = ReportedSessions \ {s},
           UNCHANGED <<QueuedSessions, InFlightSessions, held, disposed, cleanups>>
    PROVE  Lifecycle!Report
  <1>1. s \in Lifecycle!At("timedOut")
    BY DEF Apart, Lifecycle!At, Where
  <1>2. Lifecycle!Moved({s}, "client")
    BY DEF Apart, Lifecycle!Moved, Where
  <1> QED
    BY <1>1, <1>2 DEF Lifecycle!Report

LEMMA DiscardStep ==
    ASSUME Apart, NEW S \in SUBSET QueuedSessions,
           QueuedSessions' = QueuedSessions \ S,
           held' = held \ S,
           UNCHANGED <<InFlightSessions, ReportedSessions>>,
           disposed' = disposed \cup S, cleanups' = cleanups \cup S
    PROVE  Lifecycle!Discard
  <1>1. S \in SUBSET Lifecycle!At("queued")
    BY DEF Apart, Lifecycle!At, Where
  <1>2. Lifecycle!Moved(S, "client")
    BY DEF Apart, Lifecycle!Moved, Where
  <1> QED
    BY <1>1, <1>2 DEF Lifecycle!Discard

LEMMA LoseStep ==
    ASSUME Apart, NEW s \in QueuedSessions,
           FALSE \in AllocResults \/ RemoveInFlight,
           QueuedSessions' = QueuedSessions \ {s},
           UNCHANGED <<InFlightSessions, ReportedSessions, held, disposed, cleanups>>
    PROVE  Lifecycle!Lose
  <1>1. s \in Lifecycle!At("queued")
    BY DEF Apart, Lifecycle!At, Where
  <1>2. Lifecycle!Moved({s}, "lost")
    BY DEF Apart, Lifecycle!Moved, Where
  <1> QED
    BY <1>1, <1>2 DEF Lifecycle!Lose

LEMMA Stutter ==
    ASSUME UNCHANGED <<QueuedSessions, InFlightSessions, ReportedSessions, held,
                       disposed, cleanups>>
    PROVE  UNCHANGED Lifecycle!vars
  BY DEF Lifecycle!vars, Where

-----------------------------------------------------------------------------
(* What the actions of HwfqScheduler do to the four sets.                  *)

\* The sessions in flight have at most the units of the in-flight entries.
LEMMA WorkOfEntries ==
    ASSUME NEW es \in SUBSET Entries, IsFiniteSet(es)
    PROVE  Work({e.data : e \in es}) <= Cardinality(Units(es))
  <1> DEFINE U == Units(es)
             T == UNION {{s} \X (1 .. Size[s]) : s \in {e.data : e \in es}}
             f == [u \in U |-> <<u[1].data, u[2]>>]
  <1>1. \A u \in U : u[1] \in es /\ u[2] \in 1 .. Size[u[1].data]
    BY DEF Units
  <1>2. \A u \in U : <<u[1].data, u[2]>> \in T
    BY <1>1
  <1>3. f \in [U -> T]
    BY <1>2
  <1>4. ASSUME NEW v \in T PROVE \E u \in U : f[u] = v
    <2>0. PICK e \in es : \E n \in 1 .. Size[e.data] : v = <<e.data, n>>
      OBVIOUS
    <2>1. PICK n \in 1 .. Size[e.data] : v = <<e.data, n>>
      BY <2>0
    <2>2. <<e, n>> \in U
      BY DEF Units
    <2>3. f[<<e, n>>] = v
      BY <2>1, <2>2
    <2> QED
      BY <2>2, <2>3
  <1>5. f \in Surjection(U, T)
    BY <1>3, <1>4 DEF Surjection
  <1>6. IsFiniteSet(U)
    BY UnitsFinite
  <1> HIDE DEF U, T, f
  <1>7. Cardinality(T) <= Cardinality(U)
    BY <1>5, <1>6, FS_Surjection
  <1> QED
    BY <1>7 DEF Work, T, U

LEMMA QueueShrinks ==
    ASSUME TypeOK, Placed, NEW t \in Tenants, NEW X \in SUBSET queue[t],
           queue' = [queue EXCEPT ![t] = queue[t] \ X]
    PROVE  /\ QueuedSessions' = QueuedSessions \ {x.data : x \in X}
           /\ {x.data : x \in X} \subseteq QueuedSessions
  <1>1. \A u \in Tenants : queue'[u] = IF u = t THEN queue[t] \ X ELSE queue[u]
    BY DEF TypeOK
  <1>2. ASSUME NEW s \in QueuedSessions' PROVE s \in QueuedSessions \ {x.data : x \in X}
    <2>1. PICK u \in Tenants : \E y \in queue'[u] : y.data = s
      BY <1>2 DEF QueuedSessions
    <2>2. PICK y \in queue'[u] : y.data = s
      BY <2>1
    <2>3. y \in queue[u] /\ (u = t => y \notin X)
      BY <1>1, <2>2
    <2>4. \A x \in X : x.data # s
      BY <2>2, <2>3 DEF Placed
    <2> QED
      BY <2>2, <2>3, <2>4 DEF QueuedSessions
  <1>3. ASSUME NEW s \in QueuedSessions \ {x.data : x \in X} PROVE s \in QueuedSessions'
    <2>1. PICK u \in Tenants : \E y \in queue[u] : y.data = s
      BY <1>3 DEF QueuedSessions
    <2>2. PICK y \in queue[u] : y.data = s
      BY <2>1
    <2>3. y \in queue'[u]
      BY <1>1, <1>3, <2>2
    <2> QED
      BY <2>2, <2>3 DEF QueuedSessions
  <1>4. {x.data : x \in X} \subseteq QueuedSessions
    BY DEF QueuedSessions
  <1> QED
    BY <1>2, <1>3, <1>4

LEMMA FlightShrinks ==
    ASSUME Placed, NEW es \in SUBSET inFlight, inFlight' = inFlight \ es
    PROVE  /\ InFlightSessions' = InFlightSessions \ {e.data : e \in es}
           /\ {e.data : e \in es} \subseteq InFlightSessions
  BY DEF Placed, InFlightSessions

LEMMA RemoveTenantLife ==
    ASSUME LifeInv, NEW c \in Callers, RemoveTenant(c) PROVE Lifecycle!Discard
  <1>0. TypeOK /\ Placed /\ Apart
    BY LifeApart DEF LifeInv, BaseInv
  <1>1. PICK t \in configured :
           LET gone == {x.data : x \in queue[t]}
           IN  /\ queue' = [queue EXCEPT ![t] = {}]
               /\ held' = held \ gone
               /\ disposed' = disposed \cup gone
               /\ cleanups' = cleanups \cup gone
    BY DEF RemoveTenant
  <1> DEFINE gone == {x.data : x \in queue[t]}
  <1>2. t \in Tenants /\ queue' = [queue EXCEPT ![t] = queue[t] \ queue[t]]
    BY <1>0, <1>1 DEF TypeOK
  <1>3. /\ QueuedSessions' = QueuedSessions \ gone
        /\ gone \in SUBSET QueuedSessions
    BY <1>0, <1>2, QueueShrinks
  <1>4. UNCHANGED <<InFlightSessions, ReportedSessions>>
    BY DEF RemoveTenant, flightVars, callerVars, InFlightSessions, ReportedSessions
  <1>5. held' = held \ gone /\ disposed' = disposed \cup gone
        /\ cleanups' = cleanups \cup gone
    BY <1>1
  <1> HIDE DEF gone
  <1> QED
    BY <1>0, <1>3, <1>4, <1>5, DiscardStep

LEMMA EnqueueLife ==
    ASSUME LifeInv, NEW c \in Callers, Enqueue(c) PROVE Lifecycle!Submit
  <1>0. TypeOK /\ Apart
    BY LifeApart DEF LifeInv, BaseInv
  <1>1. PICK t \in configured, f \in Flows, s \in Sessions \ held :
           /\ \A d \in Callers : s \notin reports[d]
           /\ queue' = [queue EXCEPT ![t] = @ \cup {[data |-> s, flow |-> f]}]
           /\ held' = held \cup {s}
           /\ disposed' = disposed \ {s}
           /\ cleanups' = cleanups \ {s}
    BY <1>0 DEF Enqueue, TypeOK
  <1>2. t \in Tenants
    BY <1>0 DEF TypeOK
  <1>3. \A u \in Tenants : queue'[u] =
           IF u = t THEN queue[t] \cup {[data |-> s, flow |-> f]} ELSE queue[u]
    BY <1>0, <1>1 DEF TypeOK
  <1>4. QueuedSessions' = QueuedSessions \cup {s}
    <2>1. ASSUME NEW r \in QueuedSessions' PROVE r \in QueuedSessions \cup {s}
      <3>1. PICK u \in Tenants : \E y \in queue'[u] : y.data = r
        BY <2>1 DEF QueuedSessions
      <3> QED
        BY <1>3, <3>1 DEF QueuedSessions
    <2>2. ASSUME NEW r \in QueuedSessions PROVE r \in QueuedSessions'
      <3>1. PICK u \in Tenants : \E y \in queue[u] : y.data = r
        BY <2>2 DEF QueuedSessions
      <3>2. \E y \in queue'[u] : y.data = r
        BY <1>3, <3>1
      <3> QED
        BY <3>2 DEF QueuedSessions
    <2>3. s \in QueuedSessions'
      <3>1. [data |-> s, flow |-> f] \in queue'[t]
        BY <1>2, <1>3
      <3> QED
        BY <1>2, <3>1 DEF QueuedSessions
    <2> QED
      BY <2>1, <2>2, <2>3
  <1>5. UNCHANGED <<InFlightSessions, ReportedSessions>>
    BY DEF Enqueue, Return, flightVars, InFlightSessions, ReportedSessions
  <1>6. s \notin ReportedSessions
    BY <1>1 DEF ReportedSessions
  <1> QED
    BY <1>0, <1>1, <1>4, <1>5, <1>6, SubmitStep

LEMMA FinishLife ==
    ASSUME LifeInv, NEW c \in Callers, NEW e \in inFlight,
           Complete(c, e) \/ Cancel(c, e)
    PROVE  Lifecycle!Complete \/ Lifecycle!Cancel
  <1>0. Placed /\ Apart
    BY LifeApart DEF LifeInv, BaseInv
  <1>1. /\ inFlight' = inFlight \ {e}
        /\ held' = held \ {e.data}
        /\ UNCHANGED <<queue, reports, cleanups>>
        /\ disposed' = disposed \/ disposed' = disposed \cup {e.data}
    BY DEF Complete, Cancel, TakeOut, Return, queueVars
  <1>2. /\ InFlightSessions' = InFlightSessions \ {e.data}
        /\ e.data \in InFlightSessions
    BY <1>0, <1>1 DEF Placed, InFlightSessions
  <1>3. UNCHANGED <<QueuedSessions, ReportedSessions>>
    BY <1>1 DEF QueuedSessions, ReportedSessions
  <1> QED
    BY <1>0, <1>1, <1>2, <1>3, GiveBackStep

LEMMA CheckTimeoutsLife ==
    ASSUME LifeInv, NEW c \in Callers, CheckTimeouts(c) PROVE Lifecycle!TimeOut
  <1>0. TypeOK /\ Placed /\ Apart /\ IdleReports
    BY LifeApart DEF LifeInv, BaseInv
  <1> DEFINE gone == {e.data : e \in Late(c)}
  <1>1. /\ inFlight' = inFlight \ Late(c)
        /\ reports' = [reports EXCEPT ![c] = gone]
        /\ held' = held \ gone
        /\ disposed' = disposed \cup gone
        /\ pc[c] = "sampled"
        /\ UNCHANGED <<queue, cleanups>>
    BY DEF CheckTimeouts, TakeOut, Late, queueVars
  <1>2. /\ InFlightSessions' = InFlightSessions \ gone
        /\ gone \in SUBSET InFlightSessions
    BY <1>0, <1>1, FlightShrinks DEF Late
  <1>3. \A s \in gone : Timeout[s] > 0
    BY DEF Late, IsTimedOut
  <1> HIDE DEF gone
  <1>4. reports[c] = {}
    BY <1>0, <1>1 DEF IdleReports
  <1>5. \A d \in Callers : reports'[d] = IF d = c THEN gone ELSE reports[d]
    BY <1>0, <1>1 DEF TypeOK
  <1>6. ReportedSessions' = ReportedSessions \cup gone
    BY <1>4, <1>5 DEF ReportedSessions
  <1>7. UNCHANGED QueuedSessions
    BY <1>1 DEF QueuedSessions
  <1> QED
    BY <1>0, <1>1, <1>2, <1>3, <1>6, <1>7, TimeOutStep

LEMMA ReportTimeoutLife ==
    ASSUME LifeInv, NEW c \in Callers, ReportTimeout(c) PROVE Lifecycle!Report
  <1>0. TypeOK /\ Apart /\ ReportedOnce
    BY LifeApart DEF LifeInv, BaseInv
  <1>1. PICK s \in reports[c] : reports' = [reports EXCEPT ![c] = @ \ {s}]
    BY DEF ReportTimeout
  <1>2. \A d \in Callers : reports'[d] = reports[d] \ {s}
    BY <1>0, <1>1 DEF TypeOK, ReportedOnce
  <1>3. /\ ReportedSessions' = ReportedSessions \ {s}
        /\ s \in ReportedSessions
    BY <1>2 DEF ReportedSessions
  <1>4. UNCHANGED <<QueuedSessions, InFlightSessions, held, disposed, cleanups>>
    BY DEF ReportTimeout, queueVars, flightVars, histVars, QueuedSessions,
           InFlightSessions
  <1> QED
    BY <1>0, <1>3, <1>4, ReportStep

\* A put-back keeps the session, or loses it when it may be lost.
LEMMA PutBackLife ==
    ASSUME LifeInv, NEW w \in Workers, DequeuePutBack(w)
    PROVE  Lifecycle!Lose \/ UNCHANGED Lifecycle!vars
  <1>0. TypeOK /\ Placed /\ Apart
    BY LifeApart DEF LifeInv, BaseInv
  <1>1. PICK t \in Tenants, x \in Contexts :
           x \in queue[t] /\ registered[t] > 0 /\ Requeue(t, x)
    BY <1>0 DEF DequeuePutBack, TypeOK
  <1>2. UNCHANGED <<InFlightSessions, ReportedSessions, held, disposed, cleanups>>
    BY DEF DequeuePutBack, flightVars, callerVars, histVars, InFlightSessions,
           ReportedSessions
  <1>3. CASE queue' = queue
    BY <1>2, <1>3, Stutter DEF QueuedSessions
  <1>4. CASE queue' # queue
    <2>1. /\ queue' = [queue EXCEPT ![t] = queue[t] \ {x}]
          /\ x.flow \notin flows[t] \/ FALSE \in AllocResults
      BY <1>0, <1>1, <1>4, RequeueFacts
    <2>2. FALSE \in AllocResults \/ RemoveInFlight
      <3>1. CASE Reliable
        BY <1>1, <2>1, <3>1 DEF LifeInv, CoreInv, Core, Guards, FlowRemovalSafe
      <3>2. CASE ~Reliable
        BY <3>2, AllocAssumption DEF Reliable
      <3> QED
        BY <3>1, <3>2
    <2>3. /\ QueuedSessions' = QueuedSessions \ {x.data}
          /\ x.data \in QueuedSessions
      <3>1. /\ QueuedSessions' = QueuedSessions \ {y.data : y \in {x}}
            /\ {y.data : y \in {x}} \subseteq QueuedSessions
        BY <1>0, <1>1, <2>1, QueueShrinks
      <3> QED
        BY <3>1
    <2> QED
      BY <1>0, <1>2, <2>2, <2>3, LoseStep
  <1> QED
    BY <1>3, <1>4

LEMMA DequeueSuccessLife ==
    ASSUME LifeInv, LifeInv', NEW w \in Workers, DequeueSuccess(w)
    PROVE  Lifecycle!Dispatch
  <1>0. TypeOK /\ Placed /\ Apart
    BY LifeApart DEF LifeInv, BaseInv
  <1>1. PICK t \in Tenants, x \in Contexts : x \in queue[t] /\ Dispatch(t, x)
    BY <1>0, DispatchFacts
  <1>2. /\ queue' = [queue EXCEPT ![t] = queue[t] \ {x}]
        /\ inFlight' = inFlight \cup {[data |-> x.data, tenant |-> t,
                                       flow |-> x.flow, time |-> clock]}
    BY <1>1 DEF Dispatch
  <1>3. /\ QueuedSessions' = QueuedSessions \ {x.data}
        /\ x.data \in QueuedSessions
    <2>1. /\ QueuedSessions' = QueuedSessions \ {y.data : y \in {x}}
          /\ {y.data : y \in {x}} \subseteq QueuedSessions
      BY <1>0, <1>1, <1>2, QueueShrinks
    <2> QED
      BY <2>1
  <1>4. InFlightSessions' = InFlightSessions \cup {x.data}
    <2> DEFINE new == [data |-> x.data, tenant |-> t, flow |-> x.flow, time |-> clock]
    <2>1. new.data = x.data /\ inFlight' = inFlight \cup {new}
      BY <1>2
    <2> HIDE DEF new
    <2> QED
      BY <2>1 DEF InFlightSessions
  <1>5. UNCHANGED <<ReportedSessions, held, disposed, cleanups>>
    BY DEF DequeueSuccess, callerVars, histVars, ReportedSessions
  <1>6. Work(InFlightSessions') <= TotalCapacity
    <2>1. inFlight' \in SUBSET Entries /\ IsFiniteSet(inFlight')
      BY DEF LifeInv, BaseInv, TypeOK, Counted
    <2>2. Work({e.data : e \in inFlight'}) <= Cardinality(Units(inFlight'))
      BY <2>1, WorkOfEntries
    <2>3. Cardinality(Units(inFlight')) <= TotalCapacity
      BY DEF LifeInv, WorkInv, CapacityRespected, UnitsInFlight, Units
    <2>4. /\ Cardinality(Units(inFlight')) \in Nat
          /\ Work({e.data : e \in inFlight'}) \in Nat
      <3>1. /\ IsFiniteSet({e.data : e \in inFlight'})
            /\ Cardinality(Units(inFlight')) \in Nat
        BY <2>1, UnitsFinite, FinitenessAssumption, FS_Subset DEF Entries
      <3>2. IsFiniteSet(Sessions \X (1 .. MaxU))
        <4>1. IsFiniteSet(1 .. MaxU)
          BY CapacityAssumption, FS_Interval
        <4> QED
          BY <4>1, FinitenessAssumption, FS_Product
      <3>3. UNION {{s} \X (1 .. Size[s]) : s \in {e.data : e \in inFlight'}}
               \subseteq Sessions \X (1 .. MaxU)
        BY <2>1, SizeRange, CapacityAssumption DEF Entries
      <3> QED
        BY <3>1, <3>2, <3>3, FS_Subset, FS_CardinalityType DEF Work
    <2> QED
      BY <2>2, <2>3, <2>4, CapacityAssumption DEF InFlightSessions
  <1> QED
    BY <1>0, <1>3, <1>4, <1>5, <1>6, DispatchStep

LEMMA LifeNext ==
    ASSUME LifeInv, LifeInv', [Next]_vars
    PROVE  Lifecycle!Next \/ UNCHANGED Lifecycle!vars
  <1>1. ASSUME UNCHANGED <<queue, inFlight, reports, held, disposed, cleanups>>
        PROVE  UNCHANGED Lifecycle!vars
    BY <1>1, Stutter DEF QueuedSessions, InFlightSessions, ReportedSessions
  <1>2. ASSUME NEW c \in Callers,
               \/ AddTenant(c) \/ AddFlow(c) \/ RemoveFlow(c)
               \/ SampleClock(c) \/ NotifyAvailable(c)
        PROVE  UNCHANGED Lifecycle!vars
    BY <1>1, <1>2 DEF AddTenant, AddFlow, RemoveFlow, SampleClock, NotifyAvailable,
                      queueVars, flightVars, callerVars, histVars
  <1>3. ASSUME NEW w \in Workers,
               WorkerWake(w) \/ DequeueEmpty(w) \/ DequeueInternal(w)
        PROVE  UNCHANGED Lifecycle!vars
    BY <1>1, <1>3 DEF WorkerWake, DequeueEmpty, DequeueInternal, queueVars,
                      flightVars, callerVars, histVars
  <1>4. CASE Tick \/ UNCHANGED vars
    BY <1>1, <1>4 DEF Tick, vars, queueVars, flightVars, callerVars, histVars
  <1>5. ASSUME NEW c \in Callers, CallerNext(c)
        PROVE  Lifecycle!Next \/ UNCHANGED Lifecycle!vars
    BY <1>2, <1>5, RemoveTenantLife, EnqueueLife, FinishLife, CheckTimeoutsLife,
       ReportTimeoutLife
    DEF CallerNext, Lifecycle!Next
  <1>6. ASSUME NEW w \in Workers, WorkerWake(w) \/ Dequeue(w)
        PROVE  Lifecycle!Next \/ UNCHANGED Lifecycle!vars
    BY <1>3, <1>6, PutBackLife, DequeueSuccessLife DEF Dequeue, Lifecycle!Next
  <1> QED
    BY <1>4, <1>5, <1>6 DEF Next

\* Every session goes through the life that SessionLifecycle describes: for
\* any numbers of tenants, flows, threads and sessions, any failures of the
\* allocator and any client, hwfq_dequeue, hwfq_complete, hwfq_cancel,
\* hwfq_check_timeouts and the removal of tenants hand each session on, or
\* back, exactly once.
THEOREM LifecycleCorrect == SizesFit => (Spec => ImplementsLifecycle)
  <1> SUFFICES ASSUME SizesFit PROVE Spec => ImplementsLifecycle
    OBVIOUS
  <1>1. Init => Lifecycle!Init
    BY DEF Init, Lifecycle!Init, Where, QueuedSessions, InFlightSessions,
           ReportedSessions
  <1>2. LifeInv /\ LifeInv' /\ [Next]_vars => [Lifecycle!Next]_(Lifecycle!vars)
    BY LifeNext
  <1> QED
    BY <1>1, <1>2, LifeInvAlways, PTL DEF Spec, ImplementsLifecycle, Lifecycle!Spec

=============================================================================
