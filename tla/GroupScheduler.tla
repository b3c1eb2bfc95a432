--------------------------- MODULE GroupScheduler ---------------------------
(***************************************************************************)
(* The single-level WF2Q+ scheduler of src/src/hwfq_group_scheduler.c,     *)
(* used once for the tenants and once per tenant for its flows.            *)
(*                                                                         *)
(* The calendar of src/src/hwfq_group_calendar.c is modelled by the set of *)
(* sessions in its bins, the cached min_start_time and the search rule; a  *)
(* tie between equal finish times (bin order and list position in the      *)
(* code) is left open.  min_finish_time and min_session are written by the *)
(* code but never read to make a decision and are left out.                *)
(*                                                                         *)
(* Both users hold the scheduler lock from group_scheduler_dequeue to the  *)
(* call that follows it: update_virtual_time for a session that is         *)
(* dispatched, group_scheduler_enqueue for one that is put back.  The      *)
(* session in between is in out.                                           *)
(***************************************************************************)
EXTENDS Naturals, FiniteSets

CONSTANTS
    EntryIds,       \* ids of the entries (tenants, or flows)
    SessionIds,     \* identities of sessions; bounds how many are queued
    WorkSizes,      \* work_size values
    Allocations,    \* records [type : {"rate", "weight"}, amount]
    TotalCapacity,  \* gs->total_capacity
    Scale,          \* HWFQ_TIME_SCALE_FACTOR
    MaxU,           \* UINT64_MAX
    MaxWeight,      \* UINT32_MAX, the width of total_weight
    MaxLead,        \* bound on how far tags run ahead of virtual time
    CanSaturate,    \* may a finish time be clamped at UINT64_MAX?
    CanPutBack,     \* may a dequeued session be refused for capacity?
    CanReconfigure  \* may an entry with queued sessions be reconfigured?

ASSUME ScaleAssumption == Scale \in Nat \ {0} /\ TotalCapacity \in Nat \ {0}
ASSUME WidthAssumption == /\ MaxU \in Nat \ {0} /\ TotalCapacity <= MaxU
                          /\ MaxWeight \in Nat /\ MaxLead \in Nat
ASSUME WorkAssumption == WorkSizes \subseteq Nat \ {0}
ASSUME AllocationAssumption ==
    /\ Allocations \subseteq [type : {"rate", "weight"}, amount : 1 .. MaxU]
    /\ \A a \in Allocations : a.type = "weight" => a.amount <= MaxWeight
ASSUME SwitchAssumption == /\ CanSaturate \in BOOLEAN
                           /\ CanPutBack \in BOOLEAN
                           /\ CanReconfigure \in BOOLEAN

VARIABLES
    alloc,          \* allocation of each configured entry
    calculatedRate, \* entry->calculated_rate
    lastFinish,     \* entry->last_finish_time
    allocatedRate,  \* gs->allocated_rate_capacity
    totalWeight,    \* gs->total_weight
    queued,         \* the sessions in the calendar
    minStart,       \* gs->min_start_time
    virtualTime,    \* gs->virtual_time
    out             \* the session just dequeued, at most one

entryVars == <<alloc, calculatedRate, lastFinish>>
rateVars  == <<allocatedRate, totalWeight>>
timeVars  == <<queued, minStart, virtualTime>>
vars == <<entryVars, rateVars, timeVars, out>>

Configured == DOMAIN alloc

SessionStates == [id : SessionIds, entry : EntryIds, size : WorkSizes,
                  start : 0 .. MaxU, finish : 0 .. MaxU]

Larger(a, b) == IF a > b THEN a ELSE b

\* Unsigned arithmetic on 0 .. max.
Wrap(n, max) == n % (max + 1)
Plus(a, b, max) == IF a + b > max THEN a + b - (max + 1) ELSE a + b
Minus(a, b, max) == IF a < b THEN a + (max + 1) - b ELSE a - b

-----------------------------------------------------------------------------
(* Rates.                                                                  *)

IsRate(a) == a.type = "rate"

\* calculate_effective_rate for an entry with allocation a: half of its rate
\* or of its weighted share of the unallocated capacity, at least 1; 0 when
\* total_weight has wrapped around to 0.
Share(a, allocated, weight) ==
    Wrap(a.amount * (TotalCapacity - allocated), MaxU) \div weight

EffectiveRate(a, allocated, weight) ==
    IF IsRate(a) THEN Larger(a.amount \div 2, 1)
    ELSE IF weight = 0 THEN 0
    ELSE Larger(Share(a, allocated, weight) \div 2, 1)

\* The rate group_scheduler_enqueue charges a session of entry e at.
ServiceRate(e) ==
    IF IsRate(alloc[e]) THEN calculatedRate[e]
    ELSE EffectiveRate(alloc[e], allocatedRate, totalWeight)

\* Mutant of Recalculated: the other entries keep their rates.
Recalculated_Missing(newAlloc, fixed, allocated, weight) == fixed

\* recalculate_weight_based_rates over the entries of the new configuration;
\* fixed gives the rates of the others.
Recalculated(newAlloc, fixed, allocated, weight) ==
    [e \in EntryIds |->
        IF e \in DOMAIN newAlloc /\ ~IsRate(newAlloc[e])
        THEN EffectiveRate(newAlloc[e], allocated, weight)
        ELSE fixed[e]]

\* What entry e contributes to the two totals.
RateOf(e) == IF e \in Configured /\ IsRate(alloc[e]) THEN alloc[e].amount
             ELSE 0
WeightOf(e) == IF e \in Configured /\ ~IsRate(alloc[e]) THEN alloc[e].amount
               ELSE 0

-----------------------------------------------------------------------------
Init ==
    /\ alloc = [e \in {} |-> 0]
    /\ calculatedRate = [e \in EntryIds |-> 0]
    /\ lastFinish = [e \in EntryIds |-> 0]
    /\ allocatedRate = 0
    /\ totalWeight = 0
    /\ queued = {}
    /\ minStart = MaxU
    /\ virtualTime = 0
    /\ out = {}

\* The two totals with entry e given allocation a in place of its present one.
RateWith(e, a) == Plus(Minus(allocatedRate, RateOf(e), MaxU),
                       IF IsRate(a) THEN a.amount ELSE 0, MaxU)
WeightWith(e, a) == Plus(Minus(totalWeight, WeightOf(e), MaxWeight),
                         IF IsRate(a) THEN 0 ELSE a.amount, MaxWeight)

\* Mutant of Overbooked: the rates already allocated are not counted.
Overbooked_Alone(e, a) == IsRate(a) /\ a.amount > TotalCapacity

Overbooked(e, a) == IsRate(a) /\ RateWith(e, a) > TotalCapacity

\* group_scheduler_configure_entry; an overbooked rate changes nothing.
ConfigureEntry(e, a) ==
    /\ out = {}
    /\ CanReconfigure \/ \A s \in queued : s.entry # e
    /\ ~Overbooked(e, a)
    /\ allocatedRate' = RateWith(e, a)
    /\ totalWeight' = WeightWith(e, a)
    /\ alloc' = [x \in Configured \cup {e} |-> IF x = e THEN a ELSE alloc[x]]
    /\ calculatedRate' =
          Recalculated(alloc', [calculatedRate EXCEPT ![e] = a.amount],
                       allocatedRate', totalWeight')
    /\ lastFinish' = [lastFinish EXCEPT ![e] = 0]
    /\ UNCHANGED <<timeVars, out>>

\* group_scheduler_remove_entry; its callers remove drained entries only.
RemoveEntry(e) ==
    /\ out = {}
    /\ e \in Configured
    /\ \A s \in queued : s.entry # e
    /\ allocatedRate' = Minus(allocatedRate, RateOf(e), MaxU)
    /\ totalWeight' = Minus(totalWeight, WeightOf(e), MaxWeight)
    /\ alloc' = [x \in Configured \ {e} |-> alloc[x]]
    /\ calculatedRate' = Recalculated(alloc', calculatedRate, allocatedRate',
                                      totalWeight')
    /\ UNCHANGED <<lastFinish, timeVars, out>>

-----------------------------------------------------------------------------
(* Sessions.                                                               *)

\* (work_size << shift) / rate, clamped before the shift, at least 1.
ServiceInterval(size, rate) ==
    LET scaled == IF size > MaxU \div Scale THEN MaxU ELSE size * Scale
    IN  Larger(scaled \div rate, 1)

\* start + interval, clamped at UINT64_MAX.
FinishTime(start, interval) ==
    IF start > MaxU - interval THEN MaxU ELSE start + interval

\* Mutant of StartTime: the entry's previous session is forgotten.
StartTime_Now(e) == virtualTime

\* S_i = max(V, last F_i).
StartTime(e) == Larger(virtualTime, lastFinish[e])

\* calendar_insert_session and the tag computation before it.
Insert(id, e, size) ==
    LET start  == StartTime(e)
        finish == FinishTime(start, ServiceInterval(size, ServiceRate(e)))
    IN  /\ CanSaturate \/ finish < MaxU
        /\ finish <= virtualTime + MaxLead
        /\ queued' = queued \cup {[id |-> id, entry |-> e, size |-> size,
                                   start |-> start, finish |-> finish]}
        /\ minStart' = IF start < minStart THEN start ELSE minStart
        /\ lastFinish' = [lastFinish EXCEPT ![e] = finish]

Enqueue(e, size) ==
    /\ out = {}
    /\ e \in Configured
    /\ ServiceRate(e) # 0
    /\ \E id \in SessionIds :
          /\ \A s \in queued : s.id # id
          /\ Insert(id, e, size)
    /\ UNCHANGED <<alloc, calculatedRate, rateVars, virtualTime, out>>

\* hwfq_dequeue refuses the session for lack of capacity and enqueues its
\* work again, as a new session with new tags.
PutBack ==
    /\ CanPutBack
    /\ \E s \in out : ServiceRate(s.entry) # 0 /\ Insert(s.id, s.entry, s.size)
    /\ out' = {}
    /\ UNCHANGED <<alloc, calculatedRate, rateVars, virtualTime>>

\* find_eligible_min_bitfield looks for a finish time strictly below
\* UINT64_MAX.
Eligible(v) == {s \in queued : s.start <= v /\ s.finish < MaxU}

\* Mutant of SearchTime: no jump-ahead.
SearchTime_NoJump == virtualTime

\* calendar_find_min_session: virtual time jumps ahead to min_start_time
\* only when nothing is eligible.
SearchTime ==
    IF Eligible(virtualTime) = {} /\ minStart # MaxU
    THEN Larger(virtualTime, minStart) ELSE virtualTime

\* Mutant of Remove: min_start_time is not searched again.
Remove_Stale(s) ==
    /\ queued' = queued \ {s}
    /\ minStart' = IF queued' = {} THEN MaxU ELSE minStart

\* Mutant of Remove: min_start_time is reset, and not searched again.
Remove_Reset(s) ==
    /\ queued' = queued \ {s}
    /\ minStart' = IF s.start = minStart THEN MaxU ELSE minStart

\* calendar_remove_session: min_start_time is searched again when its holder
\* leaves.
Remove(s) ==
    /\ queued' = queued \ {s}
    /\ IF s.start = minStart
       THEN IF queued' = {} THEN minStart' = MaxU
            ELSE /\ minStart' \in {r.start : r \in queued'}
                 /\ \A r \in queued' : minStart' <= r.start
       ELSE minStart' = minStart

\* group_scheduler_dequeue.
Dequeue ==
    /\ out = {}
    /\ virtualTime' = SearchTime
    /\ \E s \in Eligible(SearchTime) :
          /\ \A r \in Eligible(SearchTime) : s.finish <= r.finish
          /\ Remove(s)
          /\ out' = {s}
    /\ UNCHANGED <<entryVars, rateVars>>

\* group_scheduler_dequeue returns NULL although sessions are queued.
DequeueFails ==
    /\ out = {}
    /\ queued # {}
    /\ virtualTime' = SearchTime
    /\ Eligible(SearchTime) = {}
    /\ UNCHANGED <<entryVars, rateVars, queued, minStart, out>>

\* group_scheduler_remove_session.
RemoveSession ==
    /\ out = {}
    /\ \E s \in queued : Remove(s)
    /\ UNCHANGED <<entryVars, rateVars, virtualTime, out>>

\* (work << shift) / total_capacity, with the shift wrapping, at least 1.
Advance(work) == Larger(Wrap(work * Scale, MaxU) \div TotalCapacity, 1)

\* The jump-ahead uses min_start_time, which is UINT64_MAX when the queue is
\* empty.
AdvancedTime(work) ==
    Larger(FinishTime(virtualTime, Advance(work)), minStart)

\* Mutants of Shifted: no clamp at 0; halved instead of shifted.
Shifted_Unclamped(x, offset) == x - offset
Shifted_Halved(x, offset) == x \div 2

Shifted(x, offset) == IF x >= offset THEN x - offset ELSE 0

\* Mutant of ShiftedSession: the calendar is not rebased.
ShiftedSession_Kept(s, offset) == s

ShiftedSession(s, offset) ==
    [s EXCEPT !.start = Shifted(@, offset), !.finish = Shifted(@, offset)]

\* group_scheduler_rebase_if_needed from virtual time v.
Rebase(v) ==
    LET offset == v \div 2
    IN  /\ virtualTime' = v - offset
        /\ minStart' = IF minStart = MaxU THEN MaxU
                       ELSE Shifted(minStart, offset)
        /\ queued' = {ShiftedSession(s, offset) : s \in queued}
        /\ lastFinish' = [e \in EntryIds |->
              IF e \in Configured THEN Shifted(lastFinish[e], offset)
              ELSE lastFinish[e]]

\* group_scheduler_update_virtual_time for the session just dequeued.
UpdateVirtualTime ==
    /\ \E s \in out :
          LET v == AdvancedTime(s.size)
          IN  IF v >= MaxU \div 2
              THEN Rebase(v)
              ELSE /\ virtualTime' = v
                   /\ UNCHANGED <<minStart, queued, lastFinish>>
    /\ out' = {}
    /\ UNCHANGED <<alloc, calculatedRate, rateVars>>

-----------------------------------------------------------------------------
Next ==
    \/ \E e \in EntryIds : \/ \E a \in Allocations : ConfigureEntry(e, a)
                           \/ RemoveEntry(e)
                           \/ \E z \in WorkSizes : Enqueue(e, z)
    \/ PutBack
    \/ Dequeue
    \/ DequeueFails
    \/ RemoveSession
    \/ UpdateVirtualTime

Spec == Init /\ [][Next]_vars

\* The users of the scheduler keep dequeuing, and finish what they dequeue.
FairSpec == Spec /\ WF_vars(Dequeue) /\ WF_vars(UpdateVirtualTime)

-----------------------------------------------------------------------------
(* Properties.                                                             *)

\* The type invariant.
TypeOK ==
    /\ Configured \subseteq EntryIds
    /\ \A e \in Configured : alloc[e] \in Allocations
    /\ calculatedRate \in [EntryIds -> Nat]
    /\ lastFinish \in [EntryIds -> 0 .. MaxU]
    /\ allocatedRate \in 0 .. MaxU
    /\ totalWeight \in 0 .. MaxWeight
    /\ queued \subseteq SessionStates
    /\ minStart \in 0 .. MaxU
    /\ virtualTime \in 0 .. MaxU
    /\ out \subseteq SessionStates

\* The cached min_start_time is the smallest start time in the calendar, and
\* UINT64_MAX when the calendar is empty, through any sequence of inserts,
\* removals and rebases.
MinStartExact ==
    /\ queued = {} => minStart = MaxU
    /\ queued # {} => \E s \in queued : s.start = minStart
    /\ \A s \in queued : minStart <= s.start

\* group_scheduler_dequeue never returns NULL while sessions are queued: some
\* session is selectable at the current virtual time or after the jump-ahead.
DequeueFindsWork == queued # {} => Eligible(SearchTime) # {}

\* Two queued sessions of one entry never overlap in virtual time: the
\* entry's sessions are charged one after the other.
EntrySerial ==
    \A s, r \in queued :
        s # r /\ s.entry = r.entry => s.finish <= r.start \/ r.finish <= s.start

\* A rebase is invisible to the scheduling order: of two sessions queued
\* before and after a step, the one that finished first still does.
OrderPreserved ==
    [][\A s, r \in queued : \A x, y \in queued' :
          s.id = x.id /\ r.id = y.id /\ s.finish < r.finish =>
              x.finish < y.finish]_vars

\* A queued session never falls behind virtual time by more than what the
\* dispatches of as many sessions as can be queued move it: past its finish
\* time, only sessions that are already queued can still go first.
LagBounded ==
    \A s \in queued : \E z \in WorkSizes :
        virtualTime <= s.finish + Cardinality(SessionIds) * Advance(z)

\* Once eligible, a session stays eligible until it leaves the calendar,
\* rebases included.
StaysEligible ==
    [][\A s \in queued : \A x \in queued' :
          s.id = x.id /\ s.start <= virtualTime => x.start <= virtualTime']_vars

\* The units of rate and of weight the configured entries hold.
RateUnits == UNION {{e} \X (1 .. RateOf(e)) : e \in EntryIds}
WeightUnits == UNION {{e} \X (1 .. WeightOf(e)) : e \in EntryIds}

\* allocated_rate_capacity and total_weight are what the configured entries
\* add up to, and the cached rate of every weighted entry is the one these
\* totals give, through any sequence of configurations and removals.
RatesExact ==
    /\ allocatedRate = Cardinality(RateUnits)
    /\ totalWeight = Cardinality(WeightUnits)
    /\ \A e \in Configured : ~IsRate(alloc[e]) =>
          calculatedRate[e] = EffectiveRate(alloc[e], allocatedRate, totalWeight)

\* The configured rates never exceed the capacity.
NotOverbooked == Cardinality(RateUnits) <= TotalCapacity

\* No starvation: a queued session is eventually handed out, however many
\* others keep arriving.
NoStarvation ==
    \A id \in SessionIds : (\E s \in queued : s.id = id) ~>
                             ~(\E s \in queued : s.id = id)

=============================================================================
