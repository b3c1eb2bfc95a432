--------------------------- MODULE HwfqScheduler ---------------------------
(***************************************************************************)
(* The hierarchical scheduler of src/src/hwfq_scheduler.c together with    *)
(* the tenant and flow lifecycle of src/src/hwfq_config.c.                 *)
(*                                                                         *)
(* Every API function runs under scheduler->lock, so its body is one       *)
(* action; the callbacks run after the unlock and are actions of their     *)
(* own, taken by the thread that made the call (variable pc).              *)
(*                                                                         *)
(* The two levels of WF2Q+ queues are modelled by what they hold: which    *)
(* session a queue hands out is left open here (module GroupScheduler says *)
(* which one it is), so every property below holds for any service order.  *)
(* An API call that only returns an error code changes nothing and is a    *)
(* stuttering step.                                                        *)
(***************************************************************************)
EXTENDS Naturals, FiniteSets

CONSTANTS
    Tenants,        \* tenant ids, 0 .. max_tenants - 1
    Flows,          \* flow ids other than HWFQ_FLOW_ID_RESERVED
    Sessions,       \* distinct user_data pointers
    Size,           \* work_size of each session
    Timeout,        \* timeout_ns of each session, 0 = never
    TotalCapacity,  \* config.total_capacity
    MaxU,           \* UINT64_MAX
    Callers,        \* threads that call every API but dequeue
    Workers,        \* threads that wait for session_available_fn and dequeue
    AllocResults,   \* {TRUE}: hwfq_alloc succeeds; BOOLEAN: it may fail
    RemoveInFlight, \* may a client remove a tenant with sessions in flight?
    MaxClock,       \* bound on the monotonic clock
    MaxEnqueues     \* bound on the number of accepted sessions

ASSUME SizeAssumption == Size \in [Sessions -> 1 .. MaxU]
ASSUME TimeoutAssumption == Timeout \in [Sessions -> Nat]
ASSUME CapacityAssumption == /\ MaxU \in Nat
                             /\ TotalCapacity \in 1 .. MaxU
ASSUME AllocAssumption == AllocResults \subseteq BOOLEAN /\ AllocResults # {}
ASSUME RemoveAssumption == RemoveInFlight \in BOOLEAN
ASSUME BoundAssumption == MaxClock \in 0 .. MaxU /\ MaxEnqueues \in Nat
ASSUME FinitenessAssumption == IsFiniteSet(Sessions)

VARIABLES
    configured,    \* tenants[t] != NULL
    flows,         \* flow entries with configured = true, per tenant
    hasBacklog,    \* tenant->has_backlog
    registered,    \* number of sessions of the tenant in system_scheduler
    queue,         \* flow_session_context_t's in tenant->flow_scheduler
    tenantBacklog, \* tenant->stats.current_backlog
    flowBacklog,   \* entry->stats.current_backlog
    inFlight,      \* the in-flight list, a set of in_flight_entry_t
    inFlightWork,  \* in_flight_work_size
    inFlightCount, \* in_flight_count
    clock,         \* CLOCK_MONOTONIC
    pc,            \* where each caller is
    sample,        \* current_time_ns passed to check_timeouts
    reports,       \* timed_out_list of the caller
    mustNotify,    \* timeout_count > 0 && has_capacity && has_work
    worker,        \* each worker waits, or drains the scheduler
    signalled,     \* a session_available_fn call no worker has consumed
    enqueues,      \* sessions accepted so far
    held,          \* history: sessions handed to the library, not yet back
    disposed,      \* history: sessions the library disposed of itself
    cleanups       \* history: sessions whose cleanup_fn has been invoked

tenantVars == <<configured, flows>>
queueVars  == <<hasBacklog, registered, queue>>
statVars   == <<tenantBacklog, flowBacklog>>
flightVars == <<inFlight, inFlightWork, inFlightCount>>
callerVars == <<pc, sample, reports, mustNotify>>
workerVars == <<worker, signalled>>
histVars   == <<held, disposed, cleanups>>
vars == <<tenantVars, queueVars, statVars, flightVars, clock, callerVars,
          workerVars, enqueues, histVars>>

-----------------------------------------------------------------------------
(* Data.                                                                   *)

Contexts == [data : Sessions, flow : Flows]

Entries == [data : Sessions, tenant : Tenants, flow : Flows, time : Nat]

\* uint64_t addition and subtraction.
Plus(a, b) == IF a + b > MaxU THEN a + b - (MaxU + 1) ELSE a + b
Minus(a, b) == IF b > a THEN a + (MaxU + 1) - b ELSE a - b

SystemEmpty == \A t \in Tenants : registered[t] = 0

Queued(t, f) == {c \in queue[t] : c.flow = f}

InFlight(t, f) == {e \in inFlight : e.tenant = t /\ e.flow = f}

QueuedSessions == {c.data : c \in UNION {queue[t] : t \in Tenants}}

InFlightSessions == {e.data : e \in inFlight}

\* The units of work in flight: one pair per unit of each session's size.
UnitsInFlight == UNION {{e} \X (1 .. Size[e.data]) : e \in inFlight}

-----------------------------------------------------------------------------
Init ==
    /\ configured = {}
    /\ flows = [t \in Tenants |-> {}]
    /\ hasBacklog = [t \in Tenants |-> FALSE]
    /\ registered = [t \in Tenants |-> 0]
    /\ queue = [t \in Tenants |-> {}]
    /\ tenantBacklog = [t \in Tenants |-> 0]
    /\ flowBacklog = [t \in Tenants |-> [f \in Flows |-> 0]]
    /\ inFlight = {}
    /\ inFlightWork = 0
    /\ inFlightCount = 0
    /\ clock = 0
    /\ pc = [c \in Callers |-> "idle"]
    /\ sample = [c \in Callers |-> 0]
    /\ reports = [c \in Callers |-> {}]
    /\ mustNotify = [c \in Callers |-> FALSE]
    /\ worker = [w \in Workers |-> "waiting"]
    /\ signalled = FALSE
    /\ enqueues = 0
    /\ held = {}
    /\ disposed = {}
    /\ cleanups = {}

-----------------------------------------------------------------------------
(* Tenants and flows.  Which free id is handed out is left open.           *)

AddTenant(c) ==
    /\ pc[c] = "idle"
    /\ \E t \in Tenants \ configured :
          /\ configured' = configured \cup {t}
          /\ flows' = [flows EXCEPT ![t] = {}]
          /\ hasBacklog' = [hasBacklog EXCEPT ![t] = FALSE]
          /\ tenantBacklog' = [tenantBacklog EXCEPT ![t] = 0]
          /\ flowBacklog' = [flowBacklog EXCEPT ![t] = [f \in Flows |-> 0]]
    /\ UNCHANGED <<registered, queue, flightVars, clock, callerVars,
                   workerVars, enqueues, histVars>>

\* The guard is has_backlog alone.  Destroying the flow scheduler invokes
\* the cleanup of whatever is still queued in it.
RemoveTenant(c) ==
    /\ pc[c] = "idle"
    /\ \E t \in configured :
          /\ ~hasBacklog[t]
          /\ RemoveInFlight \/ \A e \in inFlight : e.tenant # t
          /\ configured' = configured \ {t}
          /\ flows' = [flows EXCEPT ![t] = {}]
          /\ queue' = [queue EXCEPT ![t] = {}]
          /\ LET gone == {x.data : x \in queue[t]}
             IN  /\ held' = held \ gone
                 /\ disposed' = disposed \cup gone
                 /\ cleanups' = cleanups \cup gone
    /\ UNCHANGED <<hasBacklog, registered, statVars, flightVars, clock,
                   callerVars, workerVars, enqueues>>

\* A recycled flow slot keeps the statistics of its previous user.
AddFlow(c) ==
    /\ pc[c] = "idle"
    /\ \E t \in configured : \E f \in Flows \ flows[t] :
          flows' = [flows EXCEPT ![t] = @ \cup {f}]
    /\ UNCHANGED <<configured, queueVars, statVars, flightVars, clock,
                   callerVars, workerVars, enqueues, histVars>>

\* Mutant of FlowIdle: the removal guard is missing.
FlowIdle_Unguarded(t, f) == TRUE

FlowIdle(t, f) == flowBacklog[t][f] = 0

RemoveFlow(c) ==
    /\ pc[c] = "idle"
    /\ \E t \in configured : \E f \in flows[t] :
          /\ FlowIdle(t, f)
          /\ flows' = [flows EXCEPT ![t] = @ \ {f}]
    /\ UNCHANGED <<configured, queueVars, statVars, flightVars, clock,
                   callerVars, workerVars, enqueues, histVars>>

-----------------------------------------------------------------------------
(* Scheduling.                                                             *)

\* Mutant of Register: the has_backlog test of the callee is missing.
Register_Unguarded(t, b, r, ok) ==
    /\ hasBacklog' = [hasBacklog EXCEPT ![t] = b \/ ok]
    /\ registered' = [registered EXCEPT ![t] = IF ok THEN r + 1 ELSE r]

\* register_tenant_backlog: one session per backlogged tenant in the system
\* scheduler; ok says whether its allocation succeeds.  b and r are the
\* values of has_backlog and of the tenant's system sessions before the call.
Register(t, b, r, ok) ==
    /\ hasBacklog' = [hasBacklog EXCEPT ![t] = b \/ ok]
    /\ registered' = [registered EXCEPT ![t] = IF ~b /\ ok THEN r + 1 ELSE r]

\* Return from an API call, through session_available_fn if it is due.
Return(c, notify) ==
    /\ pc' = [pc EXCEPT ![c] = IF notify THEN "notify" ELSE "idle"]
    /\ UNCHANGED <<sample, reports, mustNotify>>

\* hwfq_enqueue once the context and its session are allocated; when either
\* allocation fails the counters are restored and nothing has changed.
Enqueue(c) ==
    /\ pc[c] = "idle"
    /\ enqueues < MaxEnqueues
    /\ \E t \in configured : \E f \in flows[t], s \in Sessions \ held,
          ok \in AllocResults :
          /\ \A d \in Callers : s \notin reports[d]
          /\ queue' = [queue EXCEPT ![t] = @ \cup {[data |-> s, flow |-> f]}]
          /\ tenantBacklog' = [tenantBacklog EXCEPT ![t] = @ + 1]
          /\ flowBacklog' = [flowBacklog EXCEPT ![t][f] = @ + 1]
          /\ Register(t, hasBacklog[t], registered[t], ok)
          /\ held' = held \cup {s}
          /\ disposed' = disposed \ {s}
          /\ cleanups' = cleanups \ {s}
    /\ Return(c, inFlightWork < TotalCapacity)
    /\ enqueues' = enqueues + 1
    /\ UNCHANGED <<tenantVars, flightVars, clock, workerVars>>

\* Mutants of Requeue: the tenant, or the session, is forgotten.
Requeue_Unregistered(t, x) ==
    Register(t, FALSE, registered[t] - 1, FALSE) /\ queue' = queue
Requeue_Dropped(t, x) ==
    /\ Register(t, FALSE, registered[t] - 1, TRUE)
    /\ queue' = [queue EXCEPT ![t] = @ \ {x}]

\* hwfq_dequeue puts a session it cannot dispatch back: the tenant is
\* registered again, the context enters the flow scheduler again if its flow
\* is configured and the allocation succeeds; both results are ignored.
Requeue(t, x) ==
    \E ok1, ok2 \in AllocResults :
        /\ Register(t, FALSE, registered[t] - 1, ok1)
        /\ queue' = IF x.flow \in flows[t] /\ ok2
                    THEN queue
                    ELSE [queue EXCEPT ![t] = @ \ {x}]

DequeueEmpty(w) ==
    /\ worker[w] = "draining"
    /\ SystemEmpty
    /\ worker' = [worker EXCEPT ![w] = "waiting"]
    /\ UNCHANGED <<tenantVars, queueVars, statVars, flightVars, clock,
                   callerVars, signalled, enqueues, histVars>>

\* HWFQ_ERR_INTERNAL: the tenant's session was popped, its flows are empty.
DequeueInternal(w) ==
    /\ worker[w] = "draining"
    /\ \E t \in Tenants :
          /\ registered[t] > 0
          /\ queue[t] = {}
          /\ hasBacklog' = [hasBacklog EXCEPT ![t] = FALSE]
          /\ registered' = [registered EXCEPT ![t] = @ - 1]
    /\ worker' = [worker EXCEPT ![w] = "waiting"]
    /\ UNCHANGED <<tenantVars, queue, statVars, flightVars, clock, callerVars,
                   signalled, enqueues, histVars>>

\* Mutant of NoCapacity: the size of the session is not counted.
NoCapacity_WithoutSize(s) == inFlightWork >= TotalCapacity

NoCapacity(s) == Plus(inFlightWork, Size[s]) > TotalCapacity

\* HWFQ_ERR_NO_WORK over capacity, or HWFQ_ERR_NO_MEMORY for the entry.
DequeuePutBack(w) ==
    /\ worker[w] = "draining"
    /\ \E t \in Tenants :
          /\ registered[t] > 0
          /\ \E x \in queue[t] :
                /\ NoCapacity(x.data) \/ FALSE \in AllocResults
                /\ Requeue(t, x)
    /\ worker' = [worker EXCEPT ![w] = "waiting"]
    /\ UNCHANGED <<tenantVars, statVars, flightVars, clock, callerVars,
                   signalled, enqueues, histVars>>

DequeueSuccess(w) ==
    /\ worker[w] = "draining"
    /\ \E t \in Tenants :
          /\ registered[t] > 0
          /\ \E x \in queue[t], ok \in AllocResults :
                /\ ~NoCapacity(x.data)
                /\ queue' = [queue EXCEPT ![t] = @ \ {x}]
                /\ Register(t, FALSE, registered[t] - 1,
                            queue'[t] # {} /\ ok)
                /\ inFlight' = inFlight \cup
                      {[data |-> x.data, tenant |-> t, flow |-> x.flow,
                        time |-> clock]}
                /\ inFlightWork' = Plus(inFlightWork, Size[x.data])
    /\ inFlightCount' = inFlightCount + 1
    /\ UNCHANGED <<tenantVars, statVars, clock, callerVars, workerVars,
                   enqueues, histVars>>

\* Mutants of TakeOut: the counter, or the list, is not updated.
TakeOut_Uncounted(es) ==
    inFlight' = inFlight \ es /\ inFlightCount' = inFlightCount
TakeOut_Kept(es) ==
    inFlight' = inFlight /\ inFlightCount' = inFlightCount - Cardinality(es)

\* in_flight_remove and the counters that go with it.
TakeOut(es) ==
    /\ inFlight' = inFlight \ es
    /\ inFlightCount' = inFlightCount - Cardinality(es)

\* Mutants of Decremented: the test for 0 is missing; the count is reset.
Decremented_Unguarded(n) == n - 1
Decremented_Reset(n) == 0

Decremented(n) == IF n > 0 THEN n - 1 ELSE n

\* Mutant of DropBacklog: the flow's count is forgotten.
DropBacklog_TenantOnly(e) ==
    /\ tenantBacklog' = [tenantBacklog EXCEPT ![e.tenant] =
          IF e.tenant \in configured THEN Decremented(@) ELSE @]
    /\ UNCHANGED flowBacklog

\* current_backlog of tenant and flow, decremented when the slots are in use.
DropBacklog(e) ==
    /\ tenantBacklog' = [tenantBacklog EXCEPT ![e.tenant] =
          IF e.tenant \in configured THEN Decremented(@) ELSE @]
    /\ flowBacklog' = [flowBacklog EXCEPT ![e.tenant][e.flow] =
          IF e.tenant \in configured /\ e.flow \in flows[e.tenant]
          THEN Decremented(@) ELSE @]

\* Mutant of HasCapacity: read before the work is subtracted.
HasCapacity_Stale == inFlightWork < TotalCapacity

HasCapacity == inFlightWork' < TotalCapacity

\* hwfq_complete; the entry is looked up by user_data, or, when that is NULL,
\* the first of (tenant, flow): any entry may be the one found.
Complete(c, e) ==
    /\ pc[c] = "idle"
    /\ e \in inFlight
    /\ TakeOut({e})
    /\ inFlightWork' = Minus(inFlightWork, Size[e.data])
    /\ DropBacklog(e)
    /\ IF e.tenant \in configured /\ queue[e.tenant] # {}
       THEN /\ \E ok \in AllocResults :
                  Register(e.tenant, hasBacklog[e.tenant],
                           registered[e.tenant], ok)
            /\ Return(c, HasCapacity)
       ELSE /\ UNCHANGED <<hasBacklog, registered>>
            /\ Return(c, HasCapacity /\ ~SystemEmpty)
    /\ held' = held \ {e.data}
    /\ UNCHANGED <<tenantVars, queue, clock, workerVars, enqueues, disposed,
                   cleanups>>

\* hwfq_cancel: no cleanup_fn is invoked, no tenant is registered.
Cancel(c, e) ==
    /\ pc[c] = "idle"
    /\ e \in inFlight
    /\ TakeOut({e})
    /\ inFlightWork' = Minus(inFlightWork, Size[e.data])
    /\ DropBacklog(e)
    /\ Return(c, HasCapacity /\ ~SystemEmpty)
    /\ held' = held \ {e.data}
    /\ disposed' = disposed \cup {e.data}
    /\ UNCHANGED <<tenantVars, queueVars, clock, workerVars, enqueues,
                   cleanups>>

\* The caller reads the clock, then calls hwfq_check_timeouts.
SampleClock(c) ==
    /\ pc[c] = "idle"
    /\ pc' = [pc EXCEPT ![c] = "sampled"]
    /\ sample' = [sample EXCEPT ![c] = clock]
    /\ UNCHANGED <<tenantVars, queueVars, statVars, flightVars, clock,
                   reports, mustNotify, workerVars, enqueues, histVars>>

\* Mutant of IsTimedOut: timeout_ns = 0 is not an exception.
IsTimedOut_Zero(e, now) == Minus(now, e.time) >= Timeout[e.data]

IsTimedOut(e, now) ==
    Timeout[e.data] > 0 /\ Minus(now, e.time) >= Timeout[e.data]

\* Sum of the sizes taken out, subtracted one by one in the code.
Released(es) == Cardinality(UNION {{e} \X (1 .. Size[e.data]) : e \in es})

CheckTimeouts(c) ==
    /\ pc[c] = "sampled"
    /\ LET late == {e \in inFlight : IsTimedOut(e, sample[c])}
           gone == {e.data : e \in late}
       IN  /\ TakeOut(late)
           /\ inFlightWork' = Minus(inFlightWork, Released(late) % (MaxU + 1))
           /\ reports' = [reports EXCEPT ![c] = gone]
           /\ mustNotify' = [mustNotify EXCEPT
                 ![c] = late # {} /\ HasCapacity /\ ~SystemEmpty]
           /\ pc' = [pc EXCEPT ![c] = IF late = {} THEN "idle"
                                      ELSE "reporting"]
           /\ held' = held \ gone
           /\ disposed' = disposed \cup gone
    /\ sample' = [sample EXCEPT ![c] = 0]
    /\ UNCHANGED <<tenantVars, queueVars, statVars, clock, workerVars,
                   enqueues, cleanups>>

\* session_timeout_fn for one entry of the timed-out list, in any order.
ReportTimeout(c) ==
    /\ pc[c] = "reporting"
    /\ \E s \in reports[c] :
          /\ reports' = [reports EXCEPT ![c] = @ \ {s}]
          /\ pc' = [pc EXCEPT ![c] =
                IF reports'[c] # {} THEN "reporting"
                ELSE IF mustNotify[c] THEN "notify" ELSE "idle"]
          /\ mustNotify' = [mustNotify EXCEPT ![c] = @ /\ reports'[c] # {}]
    /\ UNCHANGED <<tenantVars, queueVars, statVars, flightVars, clock, sample,
                   workerVars, enqueues, histVars>>

\* session_available_fn: the client remembers that there is work to fetch.
NotifyAvailable(c) ==
    /\ pc[c] = "notify"
    /\ signalled' = TRUE
    /\ pc' = [pc EXCEPT ![c] = "idle"]
    /\ UNCHANGED <<tenantVars, queueVars, statVars, flightVars, clock, sample,
                   reports, mustNotify, worker, enqueues, histVars>>

\* A worker woken by session_available_fn dequeues until it gets an error.
WorkerWake(w) ==
    /\ worker[w] = "waiting"
    /\ signalled
    /\ signalled' = FALSE
    /\ worker' = [worker EXCEPT ![w] = "draining"]
    /\ UNCHANGED <<tenantVars, queueVars, statVars, flightVars, clock,
                   callerVars, enqueues, histVars>>

Tick ==
    /\ clock < MaxClock
    /\ clock' = clock + 1
    /\ UNCHANGED <<tenantVars, queueVars, statVars, flightVars, callerVars,
                   workerVars, enqueues, histVars>>

-----------------------------------------------------------------------------
Dequeue(w) == DequeueEmpty(w) \/ DequeueInternal(w) \/ DequeuePutBack(w)
                 \/ DequeueSuccess(w)

CallerNext(c) ==
    \/ AddTenant(c) \/ RemoveTenant(c) \/ AddFlow(c) \/ RemoveFlow(c)
    \/ Enqueue(c) \/ SampleClock(c) \/ CheckTimeouts(c)
    \/ ReportTimeout(c) \/ NotifyAvailable(c)
    \/ \E e \in inFlight : Complete(c, e) \/ Cancel(c, e)

Next == \/ \E c \in Callers : CallerNext(c)
        \/ \E w \in Workers : WorkerWake(w) \/ Dequeue(w)
        \/ Tick

Spec == Init /\ [][Next]_vars

\* A thread inside an API call finishes it, a worker that has been signalled
\* wakes up and drains, and whoever was given a session completes it (the
\* mutex of the scheduler admits every thread that keeps asking for it).
Fairness ==
    /\ \A c \in Callers : /\ WF_vars(CheckTimeouts(c))
                          /\ WF_vars(ReportTimeout(c))
                          /\ WF_vars(NotifyAvailable(c))
    /\ \A w \in Workers : WF_vars(WorkerWake(w)) /\ WF_vars(Dequeue(w))
    /\ \A s \in Sessions :
          SF_vars(\E c \in Callers, e \in inFlight :
                     e.data = s /\ Complete(c, e))

FairSpec == Spec /\ Fairness

-----------------------------------------------------------------------------
(* Properties.                                                             *)

\* The type invariant of every field above.
TypeOK ==
    /\ configured \subseteq Tenants
    /\ flows \in [Tenants -> SUBSET Flows]
    /\ hasBacklog \in [Tenants -> BOOLEAN]
    /\ registered \in [Tenants -> Nat]
    /\ queue \in [Tenants -> SUBSET Contexts]
    /\ tenantBacklog \in [Tenants -> Nat]
    /\ flowBacklog \in [Tenants -> [Flows -> Nat]]
    /\ inFlight \subseteq Entries
    /\ inFlightWork \in 0 .. MaxU
    /\ inFlightCount \in Nat
    /\ clock \in 0 .. MaxClock
    /\ pc \in [Callers -> {"idle", "sampled", "reporting", "notify"}]
    /\ sample \in [Callers -> 0 .. MaxClock]
    /\ reports \in [Callers -> SUBSET Sessions]
    /\ mustNotify \in [Callers -> BOOLEAN]
    /\ worker \in [Workers -> {"waiting", "draining"}]
    /\ signalled \in BOOLEAN
    /\ enqueues \in 0 .. MaxEnqueues
    /\ held \subseteq Sessions
    /\ disposed \subseteq Sessions
    /\ cleanups \subseteq Sessions

\* has_backlog and the system scheduler never disagree: a tenant has one
\* session there when has_backlog is set, none otherwise, and a tenant with a
\* session there is never removed (hwfq_dequeue would follow a freed pointer).
RegisteredOnce ==
    \A t \in Tenants :
        /\ registered[t] = (IF hasBacklog[t] THEN 1 ELSE 0)
        /\ hasBacklog[t] => t \in configured

\* A tenant is registered exactly while it has queued work: queued work is
\* never stranded outside the system scheduler, and hwfq_dequeue never pops a
\* tenant whose flows are empty (the HWFQ_ERR_INTERNAL return).
BacklogRegistered == \A t \in Tenants : hasBacklog[t] <=> queue[t] # {}

\* The in-flight counters equal what is in the in-flight list, whatever mix
\* of complete, cancel and timeout has taken entries out of it.
InFlightAccounting ==
    /\ inFlightWork = Cardinality(UnitsInFlight)
    /\ inFlightCount = Cardinality(inFlight)

\* hwfq_dequeue never dispatches more work than config.total_capacity.
CapacityRespected == Cardinality(UnitsInFlight) <= TotalCapacity

\* hwfq_remove_flow and hwfq_remove_tenant never take away the flow of a
\* session that is still queued (a put-back would then drop the session).
FlowRemovalSafe ==
    \A t \in Tenants : \A x \in queue[t] :
        t \in configured /\ x.flow \in flows[t]

\* The removal guard of a flow counts at least its queued and in-flight
\* sessions.
BacklogCovers ==
    \A t \in configured : \A f \in flows[t] :
        flowBacklog[t][f] >= Cardinality(Queued(t, f))
                               + Cardinality(InFlight(t, f))

\* A flow with nothing queued and nothing in flight can be removed: its
\* current_backlog is back to 0.
DrainedFlowRemovable ==
    \A t \in configured : \A f \in flows[t] :
        Queued(t, f) = {} /\ InFlight(t, f) = {} => flowBacklog[t][f] = 0

\* Every session handed to the library and not yet given back is in exactly
\* one place: one flow queue or one in-flight entry.
NoSessionLost ==
    /\ held = QueuedSessions \cup InFlightSessions
    /\ QueuedSessions \cap InFlightSessions = {}
    /\ \A t, u \in Tenants : \A x \in queue[t], y \in queue[u] :
          x.data = y.data => t = u /\ x = y
    /\ \A e, g \in inFlight : e.data = g.data => e = g

\* A timed-out session is reported by one thread, and while its report is
\* pending no other call can still complete or cancel it.
ReportedOnce ==
    \A c \in Callers :
        /\ reports[c] \cap held = {}
        /\ \A d \in Callers \ {c} : reports[c] \cap reports[d] = {}

\* Queued work never waits for a wake-up that does not come: while nothing is
\* in flight (nobody is left to complete), a worker is draining, or a
\* session_available_fn call has been made or is about to be made.
NoLostWakeup ==
    (\E t \in Tenants : queue[t] # {}) /\ inFlight = {} =>
        \/ signalled
        \/ \E w \in Workers : worker[w] = "draining"
        \/ \E c \in Callers :
              pc[c] = "notify" \/ (pc[c] = "reporting" /\ mustNotify[c])

\* Every queued session is eventually dispatched (or disposed of).
QueuedDispatched == \A s \in Sessions : s \in QueuedSessions ~>
                                            s \notin QueuedSessions

=============================================================================
