------------------------------ MODULE Calendar ------------------------------
(***************************************************************************)
(* The calendar queue of src/src/hwfq_group_calendar.c as the group        *)
(* scheduler uses it: sorted lists of sessions in bins, a bit per bin      *)
(* (bin_bitfield), a bit per word of that bitfield (group_bitfield), and   *)
(* the cached min_start_time.  Module GroupScheduler describes the same    *)
(* operations over a plain set of sessions; this module implements it with *)
(* queued being the sessions of all bins.                                  *)
(*                                                                         *)
(* A bitfield is the set of the indices of its set bits.  base_interval is *)
(* 1 (group_scheduler_init_common).  A session keeps the bin it was put in *)
(* (session->bin_index) for as long as it is queued, rebases included.     *)
(* Tags clamped at UINT64_MAX and entries reconfigured under their queued  *)
(* sessions are left to GroupScheduler.                                    *)
(***************************************************************************)
EXTENDS Integers, FiniteSets, SequencesExt

CONSTANTS EntryIds, SessionIds, WorkSizes, Allocations, TotalCapacity, Scale,
          MaxU, MaxWeight, MaxLead,   \* as in GroupScheduler
          NumGroups,      \* gs->num_groups
          BinsPerGroup,   \* gs->bins_per_group
          MaxGroup,       \* the largest group index, 15
          WordBits,       \* bits in a word of a bitfield, 32
          GroupBits       \* bits in group_bitfield, 32 words of 32

NumBins == NumGroups * BinsPerGroup
Bins == 0 .. NumBins - 1

ASSUME ShapeAssumption == /\ BinsPerGroup \in Nat \ {0} /\ WordBits \in Nat \ {0}
                          /\ MaxGroup \in Nat /\ GroupBits \in Nat
\* Every group has its bins: otherwise calendar_insert_session refuses the
\* session with HWFQ_ERR_INTERNAL.
ASSUME GroupsAssumption == NumGroups \in Nat /\ NumGroups > MaxGroup
\* Every word of bin_bitfield has its group bit (32768 bins in the code):
\* otherwise a session is inserted where no search looks.
ASSUME SpanAssumption == NumBins <= GroupBits * WordBits

VARIABLES
    alloc, calculatedRate, lastFinish, allocatedRate, totalWeight,
    minStart, virtualTime, out,     \* as in GroupScheduler
    bins,           \* gs->bin_heads and the lists that start there
    binBits,        \* gs->bin_bitfield
    groupBits       \* gs->group_bitfield

\* The sessions in the lists of all bins.
Queued == UNION {ToSet(bins[b]) : b \in Bins}

GS == INSTANCE GroupScheduler
         WITH queued <- Queued,
              CanSaturate <- FALSE, CanPutBack <- TRUE, CanReconfigure <- FALSE

\* The constants are those of a group scheduler.
ASSUME SchedulerAssumption ==
    /\ GS!ScaleAssumption /\ GS!WidthAssumption
    /\ GS!WorkAssumption /\ GS!AllocationAssumption

calendarVars == <<bins, binBits, groupBits>>
vars == <<alloc, calculatedRate, lastFinish, allocatedRate, totalWeight,
          minStart, virtualTime, out, calendarVars>>

-----------------------------------------------------------------------------
(* Where a session goes.                                                   *)

\* base_interval << n.
Power2[n \in Nat] == IF n = 0 THEN 1 ELSE 2 * Power2[n - 1]

\* floor(log2(interval)), clamped.
GroupIndex(interval) ==
    CHOOSE g \in 0 .. MaxGroup :
        Power2[g] <= interval /\ (g = MaxGroup \/ interval < Power2[g + 1])

\* calculate_bin_index_from_finish_time, and the absolute index after it.
BinIndex(group, finish) ==
    LET range == Power2[group + 1]
        bin   == (finish % range) \div GS!Larger(range \div BinsPerGroup, 1)
    IN  group * BinsPerGroup
           + (IF bin >= BinsPerGroup THEN BinsPerGroup - 1 ELSE bin)

\* session_less.
Less(s, r) == s.finish < r.finish \/ (s.finish = r.finish /\ s.start < r.start)

\* Mutant of Sorted: by start time only.
Sorted_ByStart(list, s) ==
    LET ahead == {i \in DOMAIN list : list[i].start < s.start}
    IN  InsertAt(list, Cardinality(ahead) + 1, s)

\* bin_list_insert: behind the sessions that are less, in front of the first
\* that is not.
Sorted(list, s) ==
    InsertAt(list, 1 + Cardinality({i \in DOMAIN list :
                          \A j \in 1 .. i : Less(list[j], s)}), s)

WordOf(bin) == bin \div WordBits

\* The bins that the two-level search visits.
Visited(bits, groups) == {b \in bits : WordOf(b) \in groups}

Insert(id, e, size) ==
    LET interval == GS!ServiceInterval(size, GS!ServiceRate(e))
        start    == GS!StartTime(e)
        finish   == GS!FinishTime(start, interval)
        bin      == BinIndex(GroupIndex(interval), finish)
        session  == [id |-> id, entry |-> e, size |-> size,
                     start |-> start, finish |-> finish]
    IN  /\ finish < MaxU
        /\ finish <= virtualTime + MaxLead
        /\ bins' = [bins EXCEPT ![bin] = Sorted(@, session)]
        /\ binBits' = binBits \cup {bin}
        /\ groupBits' = IF WordOf(bin) < GroupBits
                        THEN groupBits \cup {WordOf(bin)} ELSE groupBits
        /\ minStart' = IF start < minStart THEN start ELSE minStart
        /\ lastFinish' = [lastFinish EXCEPT ![e] = finish]

-----------------------------------------------------------------------------
(* The search.                                                             *)

\* Mutant of Candidate: only the head of the list is looked at.
Candidate_Head(bin, v) ==
    IF Head(bins[bin]).start <= v THEN {Head(bins[bin])} ELSE {}

\* The first session of the bin's list that is eligible.
Candidate(bin, v) ==
    LET list == bins[bin]
    IN  {list[i] : i \in {i \in DOMAIN list :
            list[i].start <= v /\ \A j \in 1 .. i - 1 : list[j].start > v}}

\* What find_eligible_min_bitfield returns, as a set of at most one pair: the
\* first of the bins whose candidate has the smallest finish time.
Found(v) ==
    LET all == {x \in Visited(binBits, groupBits) \X Queued :
                   x[2] \in Candidate(x[1], v)}
    IN  {x \in all : \A y \in all : \/ x[2].finish < y[2].finish
                                    \/ x[2].finish = y[2].finish /\ x[1] <= y[1]}

\* calendar_find_min_session's jump-ahead.
SearchTime ==
    IF Found(virtualTime) = {} /\ minStart # MaxU
    THEN GS!Larger(virtualTime, minStart) ELSE virtualTime

\* Mutant of GroupBitsWithout: the group bit goes with any bin of the word.
GroupBitsWithout_Any(bin, bits) == groupBits \ {WordOf(bin)}

\* The group bit of an emptied bin is cleared when its whole word is clear.
GroupBitsWithout(bin, bits) ==
    IF \E b \in bits : WordOf(b) = WordOf(bin) THEN groupBits
    ELSE groupBits \ {WordOf(bin)}

\* Mutant of StartTimes: only the heads of the lists are looked at.
StartTimes_Heads(lists, visited) == {Head(lists[b]).start : b \in visited}

\* The start times the search for min_start_time goes through.
StartTimes(lists, visited) ==
    {s.start : s \in UNION {ToSet(lists[b]) : b \in visited}}

\* calendar_remove_session, which unlinks the session where it is in its bin's
\* list, and searches min_start_time again when its holder leaves.
RemoveFrom(bin, s) ==
    /\ \E i \in DOMAIN bins[bin] :
          bins[bin][i] = s /\ bins' = [bins EXCEPT ![bin] = RemoveAt(@, i)]
    /\ IF bins'[bin] = <<>>
       THEN /\ binBits' = binBits \ {bin}
            /\ groupBits' = GroupBitsWithout(bin, binBits')
       ELSE UNCHANGED <<binBits, groupBits>>
    /\ minStart' = IF s.start # minStart THEN minStart
                   ELSE Min({MaxU} \cup
                            StartTimes(bins', Visited(binBits', groupBits')))

-----------------------------------------------------------------------------
Init ==
    /\ alloc = [e \in {} |-> 0]
    /\ calculatedRate = [e \in EntryIds |-> 0]
    /\ lastFinish = [e \in EntryIds |-> 0]
    /\ allocatedRate = 0
    /\ totalWeight = 0
    /\ minStart = MaxU
    /\ virtualTime = 0
    /\ out = {}
    /\ bins = [b \in Bins |-> <<>>]
    /\ binBits = {}
    /\ groupBits = {}

\* group_scheduler_configure_entry and group_scheduler_remove_entry do not
\* touch the calendar.
ConfigureEntry(e, a) == UNCHANGED calendarVars /\ GS!ConfigureEntry(e, a)
RemoveEntry(e) == UNCHANGED calendarVars /\ GS!RemoveEntry(e)

Enqueue(e, size) ==
    /\ out = {}
    /\ e \in GS!Configured
    /\ GS!ServiceRate(e) # 0
    /\ \E id \in SessionIds : /\ \A s \in Queued : s.id # id
                              /\ Insert(id, e, size)
    /\ UNCHANGED <<alloc, calculatedRate, allocatedRate, totalWeight,
                   virtualTime, out>>

\* hwfq_dequeue enqueues a session it has no capacity for again.
PutBack ==
    /\ \E s \in out : GS!ServiceRate(s.entry) # 0 /\ Insert(s.id, s.entry, s.size)
    /\ out' = {}
    /\ UNCHANGED <<alloc, calculatedRate, allocatedRate, totalWeight,
                   virtualTime>>

Dequeue ==
    /\ out = {}
    /\ virtualTime' = SearchTime
    /\ \E x \in Found(SearchTime) : RemoveFrom(x[1], x[2]) /\ out' = {x[2]}
    /\ UNCHANGED <<alloc, calculatedRate, lastFinish, allocatedRate,
                   totalWeight>>

RemoveSession ==
    /\ out = {}
    /\ \E b \in binBits : \E s \in ToSet(bins[b]) : RemoveFrom(b, s)
    /\ UNCHANGED <<alloc, calculatedRate, lastFinish, allocatedRate,
                   totalWeight, virtualTime, out>>

\* The rebase walks every list and moves no session to another bin.
Rebased(list, offset) ==
    [i \in DOMAIN list |-> GS!ShiftedSession(list[i], offset)]

\* group_scheduler_rebase_if_needed from virtual time v.
Rebase(v) ==
    LET offset == v \div 2
    IN  /\ virtualTime' = v - offset
        /\ minStart' = IF minStart = MaxU THEN MaxU
                       ELSE GS!Shifted(minStart, offset)
        /\ bins' = [b \in Bins |-> Rebased(bins[b], offset)]
        /\ lastFinish' = [e \in EntryIds |->
              IF e \in GS!Configured THEN GS!Shifted(lastFinish[e], offset)
              ELSE lastFinish[e]]

\* group_scheduler_update_virtual_time for the session just dequeued.
UpdateVirtualTime ==
    /\ \E s \in out :
          LET v == GS!AdvancedTime(s.size)
          IN  IF v >= MaxU \div 2
              THEN Rebase(v)
              ELSE virtualTime' = v /\ UNCHANGED <<minStart, bins, lastFinish>>
    /\ out' = {}
    /\ UNCHANGED <<alloc, calculatedRate, allocatedRate, totalWeight, binBits,
                   groupBits>>

Next ==
    \/ \E e \in EntryIds : \/ \E a \in Allocations : ConfigureEntry(e, a)
                           \/ RemoveEntry(e)
                           \/ \E z \in WorkSizes : Enqueue(e, z)
    \/ PutBack
    \/ Dequeue
    \/ RemoveSession
    \/ UpdateVirtualTime

Spec == Init /\ [][Next]_vars

-----------------------------------------------------------------------------
(* Properties.                                                             *)

\* Both bitfields tell the truth: a bin has its bit exactly when its list has
\* a session, and a word of bin_bitfield has its group bit exactly when one of
\* its bins has one; so the search visits every session, and no empty bin.
BitfieldsAgree ==
    /\ binBits = {b \in Bins : bins[b] # <<>>}
    /\ groupBits = {WordOf(b) : b \in binBits}

\* Every list stays in the order of session_less, through inserts in any order
\* of tags and rebases that clamp tags to 0: the search stops at the first
\* eligible session of a list.
ListsSorted ==
    \A b \in Bins : \A i, j \in DOMAIN bins[b] :
        i < j => ~Less(bins[b][j], bins[b][i])

\* A dequeue finds a session whenever one is queued: no session is in a bin
\* that the two-level search skips.
SearchFindsWork == Queued # {} => Found(SearchTime) # {}

\* The calendar implements the group scheduler's set of sessions: every
\* dequeue hands out an eligible session with the least finish time, and the
\* cached min_start_time is the least start time.
ImplementsGroupScheduler == GS!Spec

=============================================================================
