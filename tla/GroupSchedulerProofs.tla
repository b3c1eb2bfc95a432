----------------------- MODULE GroupSchedulerProofs -----------------------
(* Theorems about GroupScheduler, for every value of its constants.        *)
EXTENDS GroupScheduler, DataProofs

\* Arithmetic of the operators, stated once.
LEMMA DivNat == ASSUME NEW a \in Nat, NEW b \in Nat, b # 0
                PROVE  a \div b \in Nat
  OBVIOUS

LEMMA WrapNat == ASSUME NEW n \in Int, NEW max \in Nat
                 PROVE  Wrap(n, max) \in 0 .. max
  BY DEF Wrap

LEMMA PlusRange == ASSUME NEW max \in Nat, NEW a \in 0 .. max, NEW b \in 0 .. max
                   PROVE  Plus(a, b, max) \in 0 .. max
  BY DEF Plus

LEMMA MinusRange == ASSUME NEW max \in Nat, NEW a \in 0 .. max, NEW b \in 0 .. max
                    PROVE  Minus(a, b, max) \in 0 .. max
  BY DEF Minus

LEMMA LargerRange == ASSUME NEW max \in Nat, NEW a \in 0 .. max, NEW b \in 0 .. max
                     PROVE  /\ Larger(a, b) \in 0 .. max
                            /\ Larger(a, b) >= a /\ Larger(a, b) >= b
  BY DEF Larger

LEMMA ShiftedRange == ASSUME NEW x \in 0 .. MaxU, NEW d \in Nat
                      PROVE  Shifted(x, d) \in 0 .. MaxU
  BY WidthAssumption DEF Shifted

LEMMA FinishRange == ASSUME NEW x \in 0 .. MaxU, NEW d \in Nat
                     PROVE  FinishTime(x, d) \in 0 .. MaxU
  BY WidthAssumption DEF FinishTime

\* A rate is never negative; the rate of a weighted entry is 0 only when the
\* total weight is.
LEMMA EffectiveRateNat ==
    ASSUME NEW a \in Allocations, NEW al \in Nat, NEW w \in Nat
    PROVE  EffectiveRate(a, al, w) \in Nat
  <1>1. a.amount \in Nat
    BY AllocationAssumption, WidthAssumption
  <1>2. CASE IsRate(a)
    BY <1>1, <1>2 DEF EffectiveRate, Larger
  <1>3. CASE ~IsRate(a) /\ w # 0
    <2> DEFINE n == a.amount * (TotalCapacity - al)
    <2>1. n \in Int
      BY <1>1, ScaleAssumption
    <2>2. Wrap(n, MaxU) \in Nat
      BY <2>1, WrapNat, WidthAssumption
    <2>3. Share(a, al, w) \in Nat
      BY <2>2, <1>3, DivNat DEF Share
    <2> QED
      BY <2>3, <1>3 DEF EffectiveRate, Larger
  <1>4. CASE ~IsRate(a) /\ w = 0
    BY <1>4 DEF EffectiveRate
  <1> QED
    BY <1>2, <1>3, <1>4

\* A service interval is at least 1.
LEMMA ServiceIntervalPos ==
    ASSUME NEW size \in WorkSizes, NEW rate \in Nat, rate # 0
    PROVE  ServiceInterval(size, rate) \in Nat \ {0}
  <1> DEFINE scaled == IF size > MaxU \div Scale THEN MaxU ELSE size * Scale
  <1>1. scaled \in Nat
    BY WorkAssumption, WidthAssumption, ScaleAssumption
  <1>2. scaled \div rate \in Nat
    BY <1>1, DivNat
  <1> QED
    BY <1>2 DEF ServiceInterval, Larger

LEMMA AdvancePos ==
    ASSUME NEW work \in WorkSizes
    PROVE  Advance(work) \in Nat \ {0}
  <1>1. Wrap(work * Scale, MaxU) \in Nat
    <2>1. work * Scale \in Int
      BY WorkAssumption, ScaleAssumption
    <2> QED
      BY <2>1, WrapNat, WidthAssumption
  <1>2. Wrap(work * Scale, MaxU) \div TotalCapacity \in Nat
    BY <1>1, DivNat, ScaleAssumption
  <1> QED
    BY <1>2 DEF Advance, Larger

\* The contributions of an entry fit the width of the totals.
LEMMA ContributionRange ==
    ASSUME TypeOK, NEW e \in EntryIds
    PROVE  RateOf(e) \in 0 .. MaxU /\ WeightOf(e) \in 0 .. MaxWeight
  BY AllocationAssumption, WidthAssumption
  DEF TypeOK, RateOf, WeightOf, IsRate

LEMMA ServiceRateNat ==
    ASSUME TypeOK, NEW e \in Configured
    PROVE  ServiceRate(e) \in Nat
  <1>1. alloc[e] \in Allocations /\ e \in EntryIds
    BY DEF TypeOK
  <1>2. calculatedRate[e] \in Nat /\ allocatedRate \in Nat /\ totalWeight \in Nat
    BY <1>1, WidthAssumption DEF TypeOK
  <1> QED
    BY <1>1, <1>2, EffectiveRateNat DEF ServiceRate

-----------------------------------------------------------------------------
(* Type correctness.                                                       *)

LEMMA ConfigureTypeOK ==
    ASSUME TypeOK, NEW e \in EntryIds, NEW a \in Allocations,
           ConfigureEntry(e, a)
    PROVE  TypeOK'
  <1>1. /\ a.amount \in 1 .. MaxU
        /\ ~IsRate(a) => a.amount \in 1 .. MaxWeight
    BY AllocationAssumption, WidthAssumption DEF IsRate
  <1>2. allocatedRate' \in 0 .. MaxU
    <2>1. Minus(allocatedRate, RateOf(e), MaxU) \in 0 .. MaxU
      BY ContributionRange, MinusRange, WidthAssumption DEF TypeOK
    <2>2. (IF IsRate(a) THEN a.amount ELSE 0) \in 0 .. MaxU
      BY <1>1, WidthAssumption
    <2>3. RateWith(e, a) \in 0 .. MaxU
      BY <2>1, <2>2, PlusRange, WidthAssumption DEF RateWith
    <2> QED
      BY <2>3 DEF ConfigureEntry
  <1>3. totalWeight' \in 0 .. MaxWeight
    <2>1. Minus(totalWeight, WeightOf(e), MaxWeight) \in 0 .. MaxWeight
      BY ContributionRange, MinusRange, WidthAssumption DEF TypeOK
    <2>2. (IF IsRate(a) THEN 0 ELSE a.amount) \in 0 .. MaxWeight
      BY <1>1, WidthAssumption
    <2>3. WeightWith(e, a) \in 0 .. MaxWeight
      BY <2>1, <2>2, PlusRange, WidthAssumption DEF WeightWith
    <2> QED
      BY <2>3 DEF ConfigureEntry
  <1>4. /\ Configured' = Configured \cup {e}
        /\ Configured' \subseteq EntryIds
        /\ \A x \in Configured' : alloc'[x] \in Allocations
    BY DEF TypeOK, ConfigureEntry, Configured
  <1>5. calculatedRate' \in [EntryIds -> Nat]
    <2> DEFINE fixed == [calculatedRate EXCEPT ![e] = a.amount]
    <2>1. fixed \in [EntryIds -> Nat]
      BY <1>1, WidthAssumption DEF TypeOK
    <2>2. \A x \in Configured' :
             EffectiveRate(alloc'[x], allocatedRate', totalWeight') \in Nat
      <3>1. allocatedRate' \in Nat /\ totalWeight' \in Nat
        BY <1>2, <1>3, WidthAssumption
      <3> QED
        BY <3>1, <1>4, EffectiveRateNat
    <2>3. calculatedRate' =
             Recalculated(alloc', fixed, allocatedRate', totalWeight')
      BY DEF ConfigureEntry
    <2> HIDE DEF fixed
    <2> QED
      BY <2>1, <2>2, <2>3 DEF Recalculated, Configured
  <1>6. lastFinish' \in [EntryIds -> 0 .. MaxU]
    BY WidthAssumption DEF TypeOK, ConfigureEntry
  <1>7. UNCHANGED <<queued, minStart, virtualTime, out>>
    BY DEF ConfigureEntry, timeVars
  <1> QED
    BY <1>2, <1>3, <1>4, <1>5, <1>6, <1>7 DEF TypeOK

LEMMA RemoveEntryTypeOK ==
    ASSUME TypeOK, NEW e \in EntryIds, RemoveEntry(e)
    PROVE  TypeOK'
  <1>1. allocatedRate' \in 0 .. MaxU /\ totalWeight' \in 0 .. MaxWeight
    BY ContributionRange, MinusRange, WidthAssumption DEF TypeOK, RemoveEntry
  <1>2. /\ Configured' = Configured \ {e}
        /\ Configured' \subseteq EntryIds
        /\ \A x \in Configured' : alloc'[x] \in Allocations
    BY DEF TypeOK, RemoveEntry, Configured
  <1>3. calculatedRate' \in [EntryIds -> Nat]
    <2>1. \A x \in Configured' :
             EffectiveRate(alloc'[x], allocatedRate', totalWeight') \in Nat
      <3>1. allocatedRate' \in Nat /\ totalWeight' \in Nat
        BY <1>1, WidthAssumption
      <3> QED
        BY <3>1, <1>2, EffectiveRateNat
    <2> QED
      BY <2>1 DEF TypeOK, RemoveEntry, Recalculated, Configured
  <1>4. UNCHANGED <<lastFinish, queued, minStart, virtualTime, out>>
    BY DEF RemoveEntry, timeVars
  <1> QED
    BY <1>1, <1>2, <1>3, <1>4 DEF TypeOK

\* The session Insert adds, and the bounds of its tags.
LEMMA InsertTags ==
    ASSUME TypeOK, NEW id \in SessionIds, NEW e \in Configured,
           NEW z \in WorkSizes, ServiceRate(e) # 0, Insert(id, e, z)
    PROVE  \E s \in SessionStates :
              /\ queued' = queued \cup {s}
              /\ s.id = id /\ s.entry = e
              /\ s.start = StartTime(e)
              /\ s.start <= s.finish
              /\ s.finish < MaxU => s.start < s.finish
              /\ CanSaturate \/ s.finish < MaxU
              /\ minStart' = IF s.start < minStart THEN s.start ELSE minStart
              /\ lastFinish' = [lastFinish EXCEPT ![e] = s.finish]
  <1> DEFINE start  == StartTime(e)
             d      == ServiceInterval(z, ServiceRate(e))
             finish == FinishTime(start, d)
             s      == [id |-> id, entry |-> e, size |-> z,
                        start |-> start, finish |-> finish]
  <1>1. e \in EntryIds /\ virtualTime \in 0 .. MaxU /\ lastFinish[e] \in 0 .. MaxU
    BY DEF TypeOK
  <1>2. start \in 0 .. MaxU
    BY <1>1, LargerRange, WidthAssumption DEF StartTime
  <1>3. d \in Nat \ {0}
    BY ServiceRateNat, ServiceIntervalPos
  <1> HIDE DEF start, d
  <1>4. /\ finish \in 0 .. MaxU
        /\ start <= finish
        /\ finish < MaxU => start < finish
    BY <1>2, <1>3, WidthAssumption DEF FinishTime
  <1>5. /\ CanSaturate \/ finish < MaxU
        /\ queued' = queued \cup {s}
        /\ minStart' = IF start < minStart THEN start ELSE minStart
        /\ lastFinish' = [lastFinish EXCEPT ![e] = finish]
    BY DEF Insert, start, d
  <1> HIDE DEF finish
  <1>6. s \in SessionStates
    BY <1>1, <1>2, <1>4 DEF SessionStates
  <1>7. start = StartTime(e)
    BY DEF start
  <1> QED
    BY <1>4, <1>5, <1>6, <1>7

LEMMA InsertTypeOK ==
    ASSUME TypeOK, NEW id \in SessionIds, NEW e \in Configured,
           NEW z \in WorkSizes, ServiceRate(e) # 0, Insert(id, e, z),
           UNCHANGED <<alloc, calculatedRate, rateVars, virtualTime>>,
           out' \subseteq out
    PROVE  TypeOK'
  <1>1. PICK s \in SessionStates :
           /\ queued' = queued \cup {s}
           /\ minStart' = IF s.start < minStart THEN s.start ELSE minStart
           /\ lastFinish' = [lastFinish EXCEPT ![e] = s.finish]
    BY InsertTags
  <1>2. s.start \in 0 .. MaxU /\ s.finish \in 0 .. MaxU
    BY DEF SessionStates
  <1>3. /\ minStart' \in 0 .. MaxU
        /\ queued' \subseteq SessionStates
        /\ lastFinish' \in [EntryIds -> 0 .. MaxU]
    BY <1>1, <1>2 DEF TypeOK
  <1> QED
    BY <1>3 DEF TypeOK, rateVars, Configured

LEMMA SearchTimeRange == ASSUME TypeOK
                         PROVE  SearchTime \in 0 .. MaxU /\ SearchTime >= virtualTime
  <1>1. virtualTime \in 0 .. MaxU /\ minStart \in 0 .. MaxU
    BY DEF TypeOK
  <1> QED
    BY <1>1, WidthAssumption DEF SearchTime, Larger

LEMMA RemoveTypeOK ==
    ASSUME TypeOK, NEW s \in queued, Remove(s)
    PROVE  queued' \subseteq SessionStates /\ minStart' \in 0 .. MaxU
  <1>1. queued' \subseteq SessionStates
    BY DEF Remove, TypeOK
  <1>2. \A r \in queued' : r.start \in 0 .. MaxU
    BY <1>1 DEF SessionStates
  <1> QED
    BY <1>1, <1>2, WidthAssumption DEF Remove, TypeOK

LEMMA DequeueTypeOK == ASSUME TypeOK, Dequeue PROVE TypeOK'
  <1>1. PICK s \in Eligible(SearchTime) : Remove(s) /\ out' = {s}
    BY DEF Dequeue
  <1>2. s \in queued
    BY <1>1 DEF Eligible
  <1>3. queued' \subseteq SessionStates /\ minStart' \in 0 .. MaxU
    BY <1>1, <1>2, RemoveTypeOK
  <1>4. virtualTime' \in 0 .. MaxU
    BY SearchTimeRange DEF Dequeue
  <1>5. out' \subseteq SessionStates
    BY <1>1, <1>2 DEF TypeOK
  <1> QED
    BY <1>3, <1>4, <1>5 DEF Dequeue, TypeOK, entryVars, rateVars, Configured

LEMMA RebaseTypeOK ==
    ASSUME TypeOK, NEW v \in 0 .. MaxU, Rebase(v)
    PROVE  /\ virtualTime' \in 0 .. MaxU
           /\ minStart' \in 0 .. MaxU
           /\ queued' \subseteq SessionStates
           /\ lastFinish' \in [EntryIds -> 0 .. MaxU]
  <1> DEFINE d == v \div 2
  <1>1. d \in Nat /\ v - d \in 0 .. MaxU
    BY WidthAssumption
  <1>2. /\ virtualTime' = v - d
        /\ minStart' = IF minStart = MaxU THEN MaxU ELSE Shifted(minStart, d)
        /\ queued' = {ShiftedSession(s, d) : s \in queued}
        /\ lastFinish' = [e \in EntryIds |->
              IF e \in Configured THEN Shifted(lastFinish[e], d)
              ELSE lastFinish[e]]
    BY DEF Rebase
  <1> HIDE DEF d
  <1>3. minStart' \in 0 .. MaxU
    BY <1>1, <1>2, ShiftedRange, WidthAssumption DEF TypeOK
  <1>4. \A s \in SessionStates : ShiftedSession(s, d) \in SessionStates
    <2> SUFFICES ASSUME NEW s \in SessionStates
                 PROVE  ShiftedSession(s, d) \in SessionStates
      OBVIOUS
    <2>1. Shifted(s.start, d) \in 0 .. MaxU /\ Shifted(s.finish, d) \in 0 .. MaxU
      BY <1>1, ShiftedRange DEF SessionStates
    <2> QED
      BY <2>1 DEF SessionStates, ShiftedSession
  <1>5. queued' \subseteq SessionStates
    BY <1>2, <1>4 DEF TypeOK
  <1>6. lastFinish' \in [EntryIds -> 0 .. MaxU]
    BY <1>1, <1>2, ShiftedRange DEF TypeOK
  <1> QED
    BY <1>1, <1>2, <1>3, <1>5, <1>6

LEMMA AdvancedTimeRange ==
    ASSUME TypeOK, NEW z \in WorkSizes
    PROVE  /\ AdvancedTime(z) \in 0 .. MaxU
           /\ AdvancedTime(z) >= virtualTime
           /\ AdvancedTime(z) >= minStart
  <1>1. Advance(z) \in Nat
    BY AdvancePos
  <1>2. /\ FinishTime(virtualTime, Advance(z)) \in 0 .. MaxU
        /\ FinishTime(virtualTime, Advance(z)) >= virtualTime
    BY <1>1, WidthAssumption DEF TypeOK, FinishTime
  <1> QED
    BY <1>2, WidthAssumption DEF TypeOK, AdvancedTime, Larger

LEMMA UpdateTypeOK == ASSUME TypeOK, UpdateVirtualTime PROVE TypeOK'
  <1>1. PICK s \in out :
           IF AdvancedTime(s.size) >= MaxU \div 2
           THEN Rebase(AdvancedTime(s.size))
           ELSE /\ virtualTime' = AdvancedTime(s.size)
                /\ UNCHANGED <<minStart, queued, lastFinish>>
    BY DEF UpdateVirtualTime
  <1>2. AdvancedTime(s.size) \in 0 .. MaxU
    BY <1>1, AdvancedTimeRange DEF TypeOK, SessionStates
  <1>3. /\ virtualTime' \in 0 .. MaxU
        /\ minStart' \in 0 .. MaxU
        /\ queued' \subseteq SessionStates
        /\ lastFinish' \in [EntryIds -> 0 .. MaxU]
    BY <1>1, <1>2, RebaseTypeOK DEF TypeOK
  <1> QED
    BY <1>3 DEF UpdateVirtualTime, TypeOK, rateVars, Configured

\* Sessions belong to configured entries, so a refused session can always be
\* enqueued again.
EntriesLive == \A s \in queued \cup out : s.entry \in Configured

TypeInv == TypeOK /\ EntriesLive

LEMMA TypeInvInit == Init => TypeInv
  BY WidthAssumption DEF Init, TypeInv, TypeOK, EntriesLive, Configured

LEMMA EnqueueTypeInv ==
    ASSUME TypeInv, NEW e \in EntryIds, NEW z \in WorkSizes, Enqueue(e, z)
    PROVE  TypeInv'
  <1>1. PICK id \in SessionIds : Insert(id, e, z)
    BY DEF Enqueue
  <1>2. /\ e \in Configured /\ ServiceRate(e) # 0
        /\ UNCHANGED <<alloc, calculatedRate, rateVars, virtualTime>>
        /\ out' = out
    BY DEF Enqueue
  <1>3. TypeOK'
    BY <1>1, <1>2, InsertTypeOK DEF TypeInv
  <1>4. EntriesLive'
    <2>1. PICK s \in SessionStates : queued' = queued \cup {s} /\ s.entry = e
      BY <1>1, <1>2, InsertTags DEF TypeInv
    <2> QED
      BY <2>1, <1>2 DEF TypeInv, EntriesLive, Configured
  <1> QED
    BY <1>3, <1>4 DEF TypeInv

LEMMA PutBackTypeInv == ASSUME TypeInv, PutBack PROVE TypeInv'
  <1>1. PICK r \in out : ServiceRate(r.entry) # 0 /\ Insert(r.id, r.entry, r.size)
    BY DEF PutBack
  <1>2. /\ r.id \in SessionIds /\ r.entry \in Configured /\ r.size \in WorkSizes
    BY DEF TypeInv, TypeOK, EntriesLive, SessionStates
  <1>3. /\ UNCHANGED <<alloc, calculatedRate, rateVars, virtualTime>>
        /\ out' = {}
    BY DEF PutBack
  <1>4. TypeOK'
    BY <1>1, <1>2, <1>3, InsertTypeOK DEF TypeInv
  <1>5. EntriesLive'
    <2>1. PICK s \in SessionStates :
             queued' = queued \cup {s} /\ s.entry = r.entry
      BY <1>1, <1>2, InsertTags DEF TypeInv
    <2> QED
      BY <2>1, <1>2, <1>3 DEF TypeInv, EntriesLive, Configured
  <1> QED
    BY <1>4, <1>5 DEF TypeInv

LEMMA UpdateTypeInv == ASSUME TypeInv, UpdateVirtualTime PROVE TypeInv'
  <1>1. TypeOK'
    BY UpdateTypeOK DEF TypeInv
  <1>2. out' = {} /\ alloc' = alloc
    BY DEF UpdateVirtualTime
  <1>3. \A x \in queued' : \E s \in queued : x.entry = s.entry
    <2>1. \A s \in queued : \A d : ShiftedSession(s, d).entry = s.entry
      BY DEF ShiftedSession, TypeInv, TypeOK, SessionStates
    <2> QED
      BY <2>1 DEF UpdateVirtualTime, Rebase
  <1> QED
    BY <1>1, <1>2, <1>3 DEF TypeInv, EntriesLive, Configured

LEMMA TypeInvNext == TypeInv /\ [Next]_vars => TypeInv'
  <1> SUFFICES ASSUME TypeInv, [Next]_vars PROVE TypeInv'
    OBVIOUS
  <1>1. ASSUME NEW e \in EntryIds, NEW a \in Allocations, ConfigureEntry(e, a)
        PROVE  TypeInv'
    <2>1. TypeOK'
      BY <1>1, ConfigureTypeOK DEF TypeInv
    <2> QED
      BY <1>1, <2>1 DEF TypeInv, EntriesLive, ConfigureEntry, timeVars, Configured
  <1>2. ASSUME NEW e \in EntryIds, RemoveEntry(e) PROVE TypeInv'
    <2>1. TypeOK'
      BY <1>2, RemoveEntryTypeOK DEF TypeInv
    <2> QED
      BY <1>2, <2>1 DEF TypeInv, EntriesLive, RemoveEntry, timeVars, Configured
  <1>3. ASSUME NEW e \in EntryIds, NEW z \in WorkSizes, Enqueue(e, z)
        PROVE  TypeInv'
    BY <1>3, EnqueueTypeInv
  <1>4. CASE PutBack
    BY <1>4, PutBackTypeInv
  <1>5. CASE Dequeue
    <2>1. TypeOK'
      BY <1>5, DequeueTypeOK DEF TypeInv
    <2>2. queued' \cup out' \subseteq queued /\ alloc' = alloc
      BY <1>5 DEF Dequeue, Remove, Eligible, entryVars
    <2> QED
      BY <2>1, <2>2 DEF TypeInv, EntriesLive, Configured
  <1>6. CASE DequeueFails
    BY <1>6, SearchTimeRange
    DEF DequeueFails, TypeInv, TypeOK, EntriesLive, entryVars, rateVars, Configured
  <1>7. CASE RemoveSession
    <2>1. PICK s \in queued : Remove(s)
      BY <1>7 DEF RemoveSession
    <2>2. /\ queued' \subseteq SessionStates /\ minStart' \in 0 .. MaxU
          /\ queued' \subseteq queued
      BY <2>1, RemoveTypeOK DEF TypeInv, Remove
    <2> QED
      BY <1>7, <2>2 DEF RemoveSession, TypeInv, TypeOK, EntriesLive, entryVars,
                        rateVars, Configured
  <1>8. CASE UpdateVirtualTime
    BY <1>8, UpdateTypeInv
  <1>9. CASE UNCHANGED vars
    BY <1>9 DEF vars, entryVars, rateVars, timeVars, TypeInv, TypeOK,
                EntriesLive, Configured
  <1> QED
    BY <1>1, <1>2, <1>3, <1>4, <1>5, <1>6, <1>7, <1>8, <1>9 DEF Next

\* Every field of the group scheduler keeps its type and its width.
THEOREM TypeCorrect == Spec => []TypeOK
  <1>1. TypeInv => TypeOK
    BY DEF TypeInv
  <1> QED
    BY <1>1, TypeInvInit, TypeInvNext, PTL DEF Spec

-----------------------------------------------------------------------------
(* The minimum start time and the dequeue that relies on it.  Unless tags  *)
(* saturate, a start time is below UINT64_MAX, so the value that stands    *)
(* for "no session" is not the start time of one: this is what a rebase,   *)
(* which leaves UINT64_MAX alone, needs to keep the cache exact.           *)

Unsaturated == \A s \in queued : s.start <= s.finish /\ s.finish < MaxU

MinInv == TypeInv /\ Unsaturated /\ MinStartExact

LEMMA ShiftedMonotone ==
    ASSUME NEW x \in Nat, NEW y \in Nat, NEW d \in Nat, x <= y
    PROVE  Shifted(x, d) <= Shifted(y, d) /\ Shifted(x, d) <= x
  BY DEF Shifted

LEMMA ShiftedFields ==
    ASSUME NEW s \in SessionStates, NEW d
    PROVE  /\ ShiftedSession(s, d).id = s.id
           /\ ShiftedSession(s, d).entry = s.entry
           /\ ShiftedSession(s, d).start = Shifted(s.start, d)
           /\ ShiftedSession(s, d).finish = Shifted(s.finish, d)
  BY DEF ShiftedSession, SessionStates

LEMMA TagsNat ==
    ASSUME TypeOK
    PROVE  /\ minStart \in Nat /\ virtualTime \in Nat
           /\ \A s \in queued : s.start \in Nat /\ s.finish \in Nat
                                /\ s.start <= MaxU
  BY WidthAssumption DEF TypeOK, SessionStates

LEMMA InsertMinInv ==
    ASSUME MinInv, ~CanSaturate, NEW id \in SessionIds, NEW e \in Configured,
           NEW z \in WorkSizes, ServiceRate(e) # 0, Insert(id, e, z)
    PROVE  Unsaturated' /\ MinStartExact'
  <1>1. PICK s \in SessionStates :
           /\ queued' = queued \cup {s}
           /\ s.start <= s.finish
           /\ CanSaturate \/ s.finish < MaxU
           /\ minStart' = IF s.start < minStart THEN s.start ELSE minStart
    BY InsertTags DEF MinInv, TypeInv
  <1>2. s.start \in Nat /\ s.finish \in Nat
    BY WidthAssumption DEF SessionStates
  <1>3. /\ minStart \in Nat
        /\ \A r \in queued : r.start \in Nat /\ r.finish \in Nat
    BY TagsNat DEF MinInv, TypeInv
  <1>4. Unsaturated'
    BY <1>1, <1>2 DEF MinInv, Unsaturated
  <1>5. s.start < MaxU
    BY <1>1, <1>2, WidthAssumption
  <1>6. \A r \in queued' : minStart' <= r.start
    BY <1>1, <1>2, <1>3 DEF MinInv, MinStartExact
  <1>7. \E r \in queued' : r.start = minStart'
    <2>1. CASE queued = {}
      BY <1>1, <1>5, <2>1 DEF MinInv, MinStartExact
    <2>2. CASE queued # {}
      BY <1>1, <2>2 DEF MinInv, MinStartExact
    <2> QED
      BY <2>1, <2>2
  <1> QED
    BY <1>4, <1>6, <1>7 DEF MinStartExact

LEMMA RemoveMinInv ==
    ASSUME MinInv, NEW s \in queued, Remove(s)
    PROVE  Unsaturated' /\ MinStartExact'
  <1>1. queued' = queued \ {s}
    BY DEF Remove
  <1>2. CASE s.start = minStart
    BY <1>1, <1>2 DEF Remove, MinInv, Unsaturated, MinStartExact
  <1>3. CASE s.start # minStart
    BY <1>1, <1>3 DEF Remove, MinInv, Unsaturated, MinStartExact
  <1> QED
    BY <1>2, <1>3

LEMMA RebaseMinInv ==
    ASSUME MinInv, NEW v \in 0 .. MaxU, Rebase(v)
    PROVE  Unsaturated' /\ MinStartExact'
  <1> DEFINE d == v \div 2
  <1>1. d \in Nat
    OBVIOUS
  <1>2. /\ minStart' = IF minStart = MaxU THEN MaxU ELSE Shifted(minStart, d)
        /\ queued' = {ShiftedSession(s, d) : s \in queued}
    BY DEF Rebase
  <1> HIDE DEF d
  <1>3. /\ minStart \in Nat
        /\ \A s \in queued : s.start \in Nat /\ s.finish \in Nat
    BY TagsNat DEF MinInv, TypeInv
  <1>4. \A s \in queued : /\ ShiftedSession(s, d).start = Shifted(s.start, d)
                          /\ ShiftedSession(s, d).finish = Shifted(s.finish, d)
    BY ShiftedFields DEF MinInv, TypeInv, TypeOK
  <1>5. Unsaturated'
    <2> SUFFICES ASSUME NEW s \in queued
                 PROVE  /\ Shifted(s.start, d) <= Shifted(s.finish, d)
                        /\ Shifted(s.finish, d) < MaxU
      BY <1>2, <1>4 DEF Unsaturated
    <2> QED
      BY <1>1, <1>3, WidthAssumption DEF MinInv, Unsaturated, Shifted
  <1>6. CASE queued = {}
    BY <1>2, <1>5, <1>6 DEF MinInv, MinStartExact
  <1>7. CASE queued # {}
    <2>1. PICK m \in queued : m.start = minStart
      BY <1>7 DEF MinInv, MinStartExact
    <2>2. minStart < MaxU
      BY <2>1, <1>3, WidthAssumption DEF MinInv, Unsaturated
    <2>3. minStart' = Shifted(minStart, d)
      BY <2>2, <1>2, <1>3, WidthAssumption
    <2>4. ShiftedSession(m, d) \in queued' /\ ShiftedSession(m, d).start = minStart'
      BY <1>2, <1>4, <2>1, <2>3
    <2>5. \A s \in queued : Shifted(minStart, d) <= Shifted(s.start, d)
      BY <1>1, <1>3, ShiftedMonotone DEF MinInv, MinStartExact
    <2>6. \A x \in queued' : minStart' <= x.start
      BY <1>2, <1>4, <2>3, <2>5
    <2> QED
      BY <1>5, <2>4, <2>6 DEF MinStartExact
  <1> QED
    BY <1>6, <1>7

LEMMA MinInvNext == ASSUME ~CanSaturate, MinInv, [Next]_vars PROVE MinInv'
  <1>1. TypeInv'
    BY TypeInvNext DEF MinInv
  <1> SUFFICES Unsaturated' /\ MinStartExact'
    BY <1>1 DEF MinInv
  <1>2. ASSUME UNCHANGED <<queued, minStart>> PROVE Unsaturated' /\ MinStartExact'
    BY <1>2 DEF MinInv, Unsaturated, MinStartExact
  <1>3. ASSUME NEW e \in EntryIds, NEW a \in Allocations, ConfigureEntry(e, a)
        PROVE  Unsaturated' /\ MinStartExact'
    BY <1>2, <1>3 DEF ConfigureEntry, timeVars
  <1>4. ASSUME NEW e \in EntryIds, RemoveEntry(e)
        PROVE  Unsaturated' /\ MinStartExact'
    BY <1>2, <1>4 DEF RemoveEntry, timeVars
  <1>5. ASSUME NEW e \in EntryIds, NEW z \in WorkSizes, Enqueue(e, z)
        PROVE  Unsaturated' /\ MinStartExact'
    BY <1>5, InsertMinInv DEF Enqueue
  <1>6. CASE PutBack
    <2>1. PICK r \in out : ServiceRate(r.entry) # 0 /\ Insert(r.id, r.entry, r.size)
      BY <1>6 DEF PutBack
    <2>2. /\ r.id \in SessionIds /\ r.entry \in Configured /\ r.size \in WorkSizes
      BY DEF MinInv, TypeInv, TypeOK, EntriesLive, SessionStates
    <2> QED
      BY <2>1, <2>2, InsertMinInv
  <1>7. CASE Dequeue
    BY <1>7, RemoveMinInv DEF Dequeue, Eligible
  <1>8. CASE DequeueFails
    BY <1>2, <1>8 DEF DequeueFails
  <1>9. CASE RemoveSession
    BY <1>9, RemoveMinInv DEF RemoveSession
  <1>10. CASE UpdateVirtualTime
    <2>1. PICK s \in out :
             \/ Rebase(AdvancedTime(s.size))
             \/ UNCHANGED <<minStart, queued, lastFinish>>
      BY <1>10 DEF UpdateVirtualTime
    <2>2. AdvancedTime(s.size) \in 0 .. MaxU
      BY AdvancedTimeRange DEF MinInv, TypeInv, TypeOK, SessionStates
    <2> QED
      BY <1>2, <2>1, <2>2, RebaseMinInv
  <1>11. CASE UNCHANGED vars
    BY <1>2, <1>11 DEF vars, timeVars
  <1> QED
    BY <1>3, <1>4, <1>5, <1>6, <1>7, <1>8, <1>9, <1>10, <1>11 DEF Next

LEMMA MinInvInit == Init => MinInv
  BY TypeInvInit DEF Init, MinInv, Unsaturated, MinStartExact

\* While finish times stay below UINT64_MAX, the cached min_start_time is the
\* minimum over the calendar, whatever is inserted, removed or rebased.
THEOREM MinStartCorrect == ~CanSaturate => (Spec => []MinStartExact)
  <1> SUFFICES ASSUME ~CanSaturate PROVE Spec => []MinStartExact
    OBVIOUS
  <1>1. MinInv /\ [Next]_vars => MinInv'
    BY MinInvNext
  <1>2. MinInv => MinStartExact
    BY DEF MinInv
  <1> QED
    BY <1>1, <1>2, MinInvInit, PTL DEF Spec

\* The jump-ahead to the cached minimum makes its holder eligible.
LEMMA MinInvFindsWork == ASSUME ~CanSaturate, MinInv PROVE DequeueFindsWork
  <1> SUFFICES ASSUME queued # {} PROVE Eligible(SearchTime) # {}
    BY DEF DequeueFindsWork
  <1>1. PICK m \in queued : m.start = minStart
    BY DEF MinInv, MinStartExact
  <1>2. /\ m.start \in Nat /\ m.finish \in Nat /\ minStart \in Nat
        /\ virtualTime \in Nat
    BY <1>1, TagsNat DEF MinInv, TypeInv
  <1>3. m.finish < MaxU /\ minStart # MaxU
    BY <1>1, <1>2, WidthAssumption DEF MinInv, Unsaturated
  <1>4. CASE Eligible(virtualTime) = {}
    BY <1>1, <1>2, <1>3, <1>4 DEF SearchTime, Eligible, Larger
  <1>5. CASE Eligible(virtualTime) # {}
    BY <1>5 DEF SearchTime
  <1> QED
    BY <1>4, <1>5

\* While finish times stay below UINT64_MAX, a dequeue from a non-empty
\* calendar always finds a session: the jump-ahead to the cached minimum
\* makes its holder eligible.
THEOREM DequeueCorrect == ~CanSaturate => (Spec => []DequeueFindsWork)
  <1> SUFFICES ASSUME ~CanSaturate PROVE Spec => []DequeueFindsWork
    OBVIOUS
  <1>1. MinInv /\ [Next]_vars => MinInv'
    BY MinInvNext
  <1>2. MinInv => DequeueFindsWork
    BY MinInvFindsWork
  <1> QED
    BY <1>1, <1>2, MinInvInit, PTL DEF Spec

-----------------------------------------------------------------------------
(* Serial service of each entry.  last_finish_time bounds the finish tags  *)
(* of the entry's queued sessions, so the next one starts after them all;  *)
(* reconfiguring an entry that has queued sessions resets it to 0.         *)

TagsCovered ==
    \A s \in queued : s.start <= s.finish /\ s.finish <= lastFinish[s.entry]

SerialInv == TypeInv /\ TagsCovered /\ EntrySerial

LEMMA LastFinishNat ==
    ASSUME TypeOK, NEW e \in EntryIds PROVE lastFinish[e] \in Nat
  BY WidthAssumption DEF TypeOK

LEMMA InsertSerial ==
    ASSUME SerialInv, NEW id \in SessionIds, NEW e \in Configured,
           NEW z \in WorkSizes, ServiceRate(e) # 0, Insert(id, e, z)
    PROVE  TagsCovered' /\ EntrySerial'
  <1>1. PICK s \in SessionStates :
           /\ queued' = queued \cup {s}
           /\ s.entry = e
           /\ s.start = StartTime(e)
           /\ s.start <= s.finish
           /\ lastFinish' = [lastFinish EXCEPT ![e] = s.finish]
    BY InsertTags DEF SerialInv, TypeInv
  <1>2. /\ s.start \in Nat /\ s.finish \in Nat /\ e \in EntryIds
        /\ virtualTime \in Nat /\ lastFinish[e] \in Nat
        /\ lastFinish \in [EntryIds -> 0 .. MaxU]
        /\ \A r \in queued : /\ r.start \in Nat /\ r.finish \in Nat
                             /\ r.entry \in EntryIds
    BY WidthAssumption, LastFinishNat, TagsNat
    DEF SerialInv, TypeInv, TypeOK, SessionStates
  <1>3. lastFinish[e] <= s.start
    BY <1>1, <1>2 DEF StartTime, Larger
  <1>4. \A r \in queued : r.entry = e => r.finish <= s.start
    BY <1>2, <1>3 DEF SerialInv, TagsCovered
  <1>5. TagsCovered'
    <2>1. lastFinish'[e] = s.finish
      BY <1>1, <1>2
    <2>2. \A r \in queued : r.entry = e => r.finish <= s.finish
      BY <1>1, <1>2, <1>4
    <2>3. \A r \in queued : r.finish <= lastFinish'[r.entry]
      BY <1>1, <1>2, <2>1, <2>2 DEF SerialInv, TagsCovered
    <2> QED
      BY <1>1, <1>2, <2>1, <2>3 DEF SerialInv, TagsCovered
  <1>6. EntrySerial'
    BY <1>1, <1>4 DEF SerialInv, EntrySerial
  <1> QED
    BY <1>5, <1>6

LEMMA RebaseSerial ==
    ASSUME SerialInv, NEW v \in 0 .. MaxU, Rebase(v)
    PROVE  TagsCovered' /\ EntrySerial'
  <1> DEFINE d == v \div 2
  <1>1. d \in Nat
    OBVIOUS
  <1>2. /\ queued' = {ShiftedSession(s, d) : s \in queued}
        /\ lastFinish' = [e \in EntryIds |->
              IF e \in Configured THEN Shifted(lastFinish[e], d)
              ELSE lastFinish[e]]
    BY DEF Rebase
  <1> HIDE DEF d
  <1>3. \A s \in queued :
           /\ s.start \in Nat /\ s.finish \in Nat /\ s.entry \in EntryIds
           /\ lastFinish[s.entry] \in Nat /\ s.entry \in Configured
           /\ ShiftedSession(s, d).entry = s.entry
           /\ ShiftedSession(s, d).start = Shifted(s.start, d)
           /\ ShiftedSession(s, d).finish = Shifted(s.finish, d)
    <2> SUFFICES ASSUME NEW s \in queued
                 PROVE  /\ s.start \in Nat /\ s.finish \in Nat
                        /\ s.entry \in EntryIds
                        /\ lastFinish[s.entry] \in Nat /\ s.entry \in Configured
                        /\ ShiftedSession(s, d).entry = s.entry
                        /\ ShiftedSession(s, d).start = Shifted(s.start, d)
                        /\ ShiftedSession(s, d).finish = Shifted(s.finish, d)
      OBVIOUS
    <2>1. s \in SessionStates /\ s.entry \in EntryIds /\ s.entry \in Configured
      BY DEF SerialInv, TypeInv, TypeOK, EntriesLive, SessionStates
    <2> QED
      BY <2>1, ShiftedFields, LastFinishNat, TagsNat DEF SerialInv, TypeInv
  <1>4. TagsCovered'
    <2> SUFFICES ASSUME NEW s \in queued
                 PROVE  /\ Shifted(s.start, d) <= Shifted(s.finish, d)
                        /\ Shifted(s.finish, d) <= lastFinish'[s.entry]
      BY <1>2, <1>3 DEF TagsCovered
    <2>1. s.start <= s.finish /\ s.finish <= lastFinish[s.entry]
      BY DEF SerialInv, TagsCovered
    <2>2. lastFinish'[s.entry] = Shifted(lastFinish[s.entry], d)
      BY <1>2, <1>3
    <2> QED
      BY <1>1, <1>3, <2>1, <2>2, ShiftedMonotone
  <1>5. EntrySerial'
    <2> SUFFICES ASSUME NEW s \in queued, NEW r \in queued, s # r,
                        s.entry = r.entry
                 PROVE  \/ Shifted(s.finish, d) <= Shifted(r.start, d)
                        \/ Shifted(r.finish, d) <= Shifted(s.start, d)
      BY <1>2, <1>3 DEF EntrySerial
    <2>1. s.finish <= r.start \/ r.finish <= s.start
      BY DEF SerialInv, EntrySerial
    <2> QED
      BY <1>1, <1>3, <2>1, ShiftedMonotone
  <1> QED
    BY <1>4, <1>5

LEMMA SerialInvNext ==
    ASSUME ~CanReconfigure, SerialInv, [Next]_vars PROVE SerialInv'
  <1>1. TypeInv'
    BY TypeInvNext DEF SerialInv
  <1> SUFFICES TagsCovered' /\ EntrySerial'
    BY <1>1 DEF SerialInv
  <1>2. ASSUME queued' \subseteq queued, lastFinish' = lastFinish
        PROVE  TagsCovered' /\ EntrySerial'
    BY <1>2 DEF SerialInv, TagsCovered, EntrySerial
  <1>3. ASSUME NEW e \in EntryIds, NEW a \in Allocations, ConfigureEntry(e, a)
        PROVE  TagsCovered' /\ EntrySerial'
    <2>1. /\ queued' = queued
          /\ lastFinish' = [lastFinish EXCEPT ![e] = 0]
          /\ \A s \in queued : s.entry # e
      BY <1>3 DEF ConfigureEntry, timeVars
    <2>2. \A s \in queued : lastFinish'[s.entry] = lastFinish[s.entry]
      BY <2>1 DEF SerialInv, TypeInv, TypeOK, SessionStates
    <2> QED
      BY <2>1, <2>2 DEF SerialInv, TagsCovered, EntrySerial
  <1>4. ASSUME NEW e \in EntryIds, RemoveEntry(e)
        PROVE  TagsCovered' /\ EntrySerial'
    BY <1>2, <1>4 DEF RemoveEntry, timeVars
  <1>5. ASSUME NEW e \in EntryIds, NEW z \in WorkSizes, Enqueue(e, z)
        PROVE  TagsCovered' /\ EntrySerial'
    BY <1>5, InsertSerial DEF Enqueue
  <1>6. CASE PutBack
    <2>1. PICK r \in out : ServiceRate(r.entry) # 0 /\ Insert(r.id, r.entry, r.size)
      BY <1>6 DEF PutBack
    <2>2. /\ r.id \in SessionIds /\ r.entry \in Configured /\ r.size \in WorkSizes
      BY DEF SerialInv, TypeInv, TypeOK, EntriesLive, SessionStates
    <2> QED
      BY <2>1, <2>2, InsertSerial
  <1>7. CASE Dequeue
    BY <1>2, <1>7 DEF Dequeue, Remove, entryVars
  <1>8. CASE DequeueFails
    BY <1>2, <1>8 DEF DequeueFails, entryVars
  <1>9. CASE RemoveSession
    BY <1>2, <1>9 DEF RemoveSession, Remove, entryVars
  <1>10. CASE UpdateVirtualTime
    <2>1. PICK s \in out :
             \/ Rebase(AdvancedTime(s.size))
             \/ UNCHANGED <<minStart, queued, lastFinish>>
      BY <1>10 DEF UpdateVirtualTime
    <2>2. AdvancedTime(s.size) \in 0 .. MaxU
      BY AdvancedTimeRange DEF SerialInv, TypeInv, TypeOK, SessionStates
    <2> QED
      BY <1>2, <2>1, <2>2, RebaseSerial
  <1>11. CASE UNCHANGED vars
    BY <1>2, <1>11 DEF vars, timeVars, entryVars
  <1> QED
    BY <1>3, <1>4, <1>5, <1>6, <1>7, <1>8, <1>9, <1>10, <1>11 DEF Next

LEMMA SerialInvInit == Init => SerialInv
  BY TypeInvInit DEF Init, SerialInv, TagsCovered, EntrySerial

\* While only drained entries are reconfigured, two queued sessions of one
\* entry never overlap in virtual time, rebases and put-backs included, even
\* when finish times are clamped at UINT64_MAX.
THEOREM EntrySerialCorrect == ~CanReconfigure => (Spec => []EntrySerial)
  <1> SUFFICES ASSUME ~CanReconfigure PROVE Spec => []EntrySerial
    OBVIOUS
  <1>1. SerialInv /\ [Next]_vars => SerialInv'
    BY SerialInvNext
  <1>2. SerialInv => EntrySerial
    BY DEF SerialInv
  <1> QED
    BY <1>1, <1>2, SerialInvInit, PTL DEF Spec

-----------------------------------------------------------------------------
(* Eligibility across steps.                                               *)

\* A session's identity is its own, in the calendar and in the caller's hand.
UniqueIds ==
    /\ \A s, r \in queued : s.id = r.id => s = r
    /\ \A s \in queued, o \in out : s.id # o.id

IdInv == TypeInv /\ UniqueIds

EligibleKept ==
    \A s \in queued : \A x \in queued' :
        s.id = x.id /\ s.start <= virtualTime => x.start <= virtualTime'

LEMMA RebaseIds ==
    ASSUME IdInv, NEW v \in 0 .. MaxU, v >= virtualTime, Rebase(v), out' = {}
    PROVE  UniqueIds' /\ EligibleKept
  <1> DEFINE d == v \div 2
  <1>1. d \in Nat /\ v \in Nat /\ d <= v
    BY WidthAssumption
  <1>2. /\ queued' = {ShiftedSession(s, d) : s \in queued}
        /\ virtualTime' = v - d
    BY DEF Rebase
  <1> HIDE DEF d
  <1>3. \A s \in queued :
           /\ s.start \in Nat
           /\ ShiftedSession(s, d).id = s.id
           /\ ShiftedSession(s, d).start = Shifted(s.start, d)
    <2> SUFFICES ASSUME NEW s \in queued
                 PROVE  /\ s.start \in Nat
                        /\ ShiftedSession(s, d).id = s.id
                        /\ ShiftedSession(s, d).start = Shifted(s.start, d)
      OBVIOUS
    <2>1. s \in SessionStates
      BY DEF IdInv, TypeInv, TypeOK
    <2> QED
      BY <2>1, ShiftedFields, TagsNat DEF IdInv, TypeInv
  <1>4. UniqueIds'
    BY <1>2, <1>3 DEF IdInv, UniqueIds
  <1>5. virtualTime \in Nat
    BY TagsNat DEF IdInv, TypeInv
  <1>6. \A s \in queued : s.start <= virtualTime => Shifted(s.start, d) <= v - d
    BY <1>1, <1>3, <1>5 DEF Shifted
  <1> QED
    BY <1>2, <1>3, <1>4, <1>6 DEF IdInv, UniqueIds, EligibleKept

LEMMA IdInvNext == ASSUME IdInv, [Next]_vars PROVE IdInv' /\ EligibleKept
  <1>1. TypeInv'
    BY TypeInvNext DEF IdInv
  <1> SUFFICES UniqueIds' /\ EligibleKept
    BY <1>1 DEF IdInv
  <1>2. virtualTime \in Nat /\ \A s \in queued : s.start \in Nat
    BY TagsNat DEF IdInv, TypeInv
  <1>3. ASSUME queued' \subseteq queued, out' \subseteq out,
               virtualTime' \in Nat, virtualTime' >= virtualTime
        PROVE  UniqueIds' /\ EligibleKept
    BY <1>2, <1>3 DEF IdInv, UniqueIds, EligibleKept
  <1>4. ASSUME NEW id \in SessionIds, NEW e \in Configured, NEW z \in WorkSizes,
               ServiceRate(e) # 0, Insert(id, e, z),
               \A s \in queued : s.id # id,
               out' = {}, virtualTime' = virtualTime
        PROVE  UniqueIds' /\ EligibleKept
    <2>1. PICK s \in SessionStates : queued' = queued \cup {s} /\ s.id = id
      BY <1>4, InsertTags DEF IdInv, TypeInv
    <2> QED
      BY <1>4, <2>1 DEF IdInv, UniqueIds, EligibleKept
  <1>5. ASSUME NEW e \in EntryIds, NEW a \in Allocations, ConfigureEntry(e, a)
        PROVE  UniqueIds' /\ EligibleKept
    BY <1>2, <1>3, <1>5 DEF ConfigureEntry, timeVars
  <1>6. ASSUME NEW e \in EntryIds, RemoveEntry(e)
        PROVE  UniqueIds' /\ EligibleKept
    BY <1>2, <1>3, <1>6 DEF RemoveEntry, timeVars
  <1>7. ASSUME NEW e \in EntryIds, NEW z \in WorkSizes, Enqueue(e, z)
        PROVE  UniqueIds' /\ EligibleKept
    BY <1>4, <1>7 DEF Enqueue
  <1>8. CASE PutBack
    <2>1. PICK r \in out : ServiceRate(r.entry) # 0 /\ Insert(r.id, r.entry, r.size)
      BY <1>8 DEF PutBack
    <2>2. /\ r.id \in SessionIds /\ r.entry \in Configured /\ r.size \in WorkSizes
      BY DEF IdInv, TypeInv, TypeOK, EntriesLive, SessionStates
    <2>3. \A s \in queued : s.id # r.id
      BY DEF IdInv, UniqueIds
    <2> QED
      BY <1>4, <1>8, <2>1, <2>2, <2>3 DEF PutBack
  <1>9. CASE Dequeue
    <2>1. PICK s \in queued : queued' = queued \ {s} /\ out' = {s}
      BY <1>9 DEF Dequeue, Eligible, Remove
    <2>2. virtualTime' \in Nat /\ virtualTime' >= virtualTime
      BY <1>9, SearchTimeRange, WidthAssumption DEF Dequeue, IdInv, TypeInv
    <2> QED
      BY <1>2, <2>1, <2>2 DEF IdInv, UniqueIds, EligibleKept
  <1>10. CASE DequeueFails
    <2>1. virtualTime' \in Nat /\ virtualTime' >= virtualTime
      BY <1>10, SearchTimeRange, WidthAssumption DEF DequeueFails, IdInv, TypeInv
    <2> QED
      BY <1>3, <1>10, <2>1 DEF DequeueFails
  <1>11. CASE RemoveSession
    BY <1>2, <1>3, <1>11 DEF RemoveSession, Remove
  <1>12. CASE UpdateVirtualTime
    <2>1. PICK s \in out :
             LET v == AdvancedTime(s.size)
             IN  \/ Rebase(v)
                 \/ virtualTime' = v /\ UNCHANGED <<minStart, queued, lastFinish>>
      BY <1>12 DEF UpdateVirtualTime
    <2>2. /\ AdvancedTime(s.size) \in 0 .. MaxU
          /\ AdvancedTime(s.size) >= virtualTime
      BY AdvancedTimeRange DEF IdInv, TypeInv, TypeOK, SessionStates
    <2>3. out' = {} /\ AdvancedTime(s.size) \in Nat
      BY <1>12, <2>2, WidthAssumption DEF UpdateVirtualTime
    <2> QED
      BY <1>3, <2>1, <2>2, <2>3, RebaseIds
  <1>13. CASE UNCHANGED vars
    BY <1>2, <1>3, <1>13 DEF vars, timeVars
  <1> QED
    BY <1>5, <1>6, <1>7, <1>8, <1>9, <1>10, <1>11, <1>12, <1>13 DEF Next

\* No step, a rebase included, makes an eligible session ineligible, even
\* when finish times are clamped at UINT64_MAX or entries are reconfigured.
THEOREM EligibilityCorrect == Spec => StaysEligible
  <1>1. Init => IdInv
    BY TypeInvInit DEF Init, IdInv, UniqueIds
  <1>2. IdInv /\ [Next]_vars => IdInv' /\ EligibleKept
    BY IdInvNext
  <1> QED
    BY <1>1, <1>2, PTL DEF Spec, StaysEligible, EligibleKept

-----------------------------------------------------------------------------
(* How far virtual time may leave a queued session behind.  Once it has    *)
(* passed the session's finish time, later arrivals and put-backs get      *)
(* later tags, so only the sessions counted here can still go first, and   *)
(* the dispatch of each moves virtual time once.  The same bound says that *)
(* a rebase, which shifts by half of virtual time, clamps no finish time,  *)
(* and so that it keeps the order.                                         *)

\* Sessions that may be dispatched no later than one that finishes at f.
Before(f) == {r.id : r \in {q \in queued : q.finish <= f}}

Ahead(f) == Before(f) \cup {o.id : o \in out}

\* Every k dispatches that virtual time is past a session leave at least k
\* identities that are not ahead of it.
LagWithin(a) ==
    \A s \in queued : \E k \in Nat :
        /\ Cardinality(Ahead(s.finish)) + k <= Cardinality(SessionIds)
        /\ virtualTime <= s.finish + a * k

\* What the dispatches of as many sessions as can be queued move virtual time
\* is less than a quarter of the range, so less than the offset of a rebase.
LagFits ==
    /\ IsFiniteSet(SessionIds)
    /\ \A z \in WorkSizes :
          2 * (Cardinality(SessionIds) * Advance(z)) < MaxU \div 2

\* a is the most that one dispatch moves virtual time.
Most(a) == /\ a \in Nat
           /\ \A z \in WorkSizes : Advance(z) <= a
           /\ 2 * (Cardinality(SessionIds) * a) < MaxU \div 2

LagInv(a) == MinInv /\ IdInv /\ LagWithin(a)

OrderKept ==
    \A s, r \in queued : \A x, y \in queued' :
        s.id = x.id /\ r.id = y.id /\ s.finish < r.finish =>
            x.finish < y.finish

LEMMA AdvanceRange ==
    ASSUME NEW z \in WorkSizes PROVE Advance(z) \in 1 .. MaxU
<1> DEFINE w == Wrap(z * Scale, MaxU)
<1>1. w \in 0 .. MaxU
  <2>1. z * Scale \in Int
    BY WorkAssumption, ScaleAssumption
  <2> QED
    BY <2>1, WrapNat, WidthAssumption
<1> HIDE DEF w
<1>2. w \div TotalCapacity \in 0 .. MaxU
  <2>1. /\ w \div TotalCapacity \in Nat
        /\ TotalCapacity * (w \div TotalCapacity) <= w
    BY <1>1, ScaleAssumption
  <2>2. w \div TotalCapacity <= TotalCapacity * (w \div TotalCapacity)
    BY <2>1, ScaleAssumption
  <2> QED
    BY <1>1, <2>1, <2>2, ScaleAssumption, WidthAssumption
<1> QED
  BY <1>2, WidthAssumption DEF w, Advance, Larger

LEMMA MostExists ==
    ASSUME LagFits, WorkSizes # {}
    PROVE  \E z \in WorkSizes : Most(Advance(z))
<1> DEFINE T == {MaxU - Advance(z) : z \in WorkSizes}
<1>1. \A z \in WorkSizes : Advance(z) \in 1 .. MaxU
  BY AdvanceRange
<1>2. T \in SUBSET Nat /\ T # {}
  BY <1>1, WidthAssumption
<1>3. PICK m \in T : \A y \in T : m <= y
  BY <1>2, LeastNatural
<1>4. PICK z \in WorkSizes : m = MaxU - Advance(z)
  BY <1>3
<1>5. \A y \in WorkSizes : Advance(y) <= Advance(z)
  <2> TAKE y \in WorkSizes
  <2>1. MaxU - Advance(y) \in T
    OBVIOUS
  <2> HIDE DEF T
  <2> QED
    BY <1>1, <1>3, <1>4, <2>1, WidthAssumption
<1> QED
  BY <1>1, <1>5 DEF Most, LagFits

\* The sets that are counted.
LEMMA AheadFinite ==
    ASSUME TypeOK, IsFiniteSet(SessionIds), NEW f
    PROVE  /\ Ahead(f) \in SUBSET SessionIds /\ IsFiniteSet(Ahead(f))
           /\ Cardinality(Ahead(f)) \in Nat
           /\ Cardinality(Ahead(f)) <= Cardinality(SessionIds)
           /\ Cardinality(SessionIds) \in Nat
<1>1. Ahead(f) \in SUBSET SessionIds
  BY DEF Ahead, Before, TypeOK, SessionStates
<1> HIDE DEF Ahead
<1> QED
  BY <1>1, FS_Subset, FS_CardinalityType

\* A step after which no more sessions are ahead, or after which virtual time
\* is not past the finish time, keeps the bound for a session.
LEMMA LagKept ==
    ASSUME TypeOK, TypeOK', IsFiniteSet(SessionIds), NEW a \in Nat,
           LagWithin(a), NEW s \in queued, s.finish \in Nat,
           \/ virtualTime' <= s.finish
           \/ virtualTime' <= virtualTime /\ Ahead(s.finish)' \subseteq Ahead(s.finish)
    PROVE  \E k \in Nat :
              /\ Cardinality(Ahead(s.finish)') + k <= Cardinality(SessionIds)
              /\ virtualTime' <= s.finish + a * k
<1> DEFINE A == Ahead(s.finish)
           B == Ahead(s.finish)'
<1>1. /\ IsFiniteSet(A) /\ Cardinality(A) \in Nat
      /\ Cardinality(SessionIds) \in Nat
  BY AheadFinite
<1>2. B \in SUBSET SessionIds
  BY DEF Ahead, Before, TypeOK, SessionStates
<1>3. /\ IsFiniteSet(B) /\ Cardinality(B) \in Nat
      /\ Cardinality(B) <= Cardinality(SessionIds)
  BY <1>2, FS_Subset, FS_CardinalityType
<1>4. PICK k \in Nat : /\ Cardinality(A) + k <= Cardinality(SessionIds)
                       /\ virtualTime <= s.finish + a * k
  BY DEF LagWithin
<1>5. virtualTime \in Nat /\ virtualTime' \in Nat
  BY WidthAssumption DEF TypeOK
<1>6. CASE virtualTime' <= s.finish
  BY <1>1, <1>3, <1>5, <1>6
<1>7. CASE virtualTime' <= virtualTime /\ B \subseteq A
  <2>1. Cardinality(B) <= Cardinality(A)
    BY <1>1, <1>7, FS_Subset
  <2>2. a * k \in Nat
    OBVIOUS
  <2> HIDE DEF A, B
  <2> QED
    BY <1>1, <1>3, <1>4, <1>5, <1>7, <2>1, <2>2 DEF B
<1> QED
  BY <1>6, <1>7

\* What Insert does, whether for a new session or for one put back.
LEMMA InsertLag ==
    ASSUME MinInv, IdInv, ~CanSaturate, IsFiniteSet(SessionIds),
           NEW a \in Nat, LagWithin(a), TypeOK',
           NEW id \in SessionIds, NEW e \in Configured, NEW z \in WorkSizes,
           ServiceRate(e) # 0, Insert(id, e, z), \A s \in queued : s.id # id,
           out' = {}, virtualTime' = virtualTime
    PROVE  LagWithin(a)' /\ OrderKept
<1>1. PICK x \in SessionStates :
         /\ queued' = queued \cup {x} /\ x.id = id
         /\ x.start = StartTime(e) /\ x.start <= x.finish
  BY InsertTags DEF MinInv, TypeInv
<1>2. /\ virtualTime \in Nat /\ x.start \in Nat /\ x.finish \in Nat
      /\ \A s \in queued : s.finish \in Nat
  BY TagsNat, WidthAssumption DEF MinInv, TypeInv, SessionStates
<1>3. virtualTime <= x.finish
  <2>1. e \in EntryIds /\ lastFinish[e] \in Nat
    BY WidthAssumption DEF MinInv, TypeInv, TypeOK
  <2>2. virtualTime <= x.start
    BY <1>1, <1>2, <2>1 DEF StartTime, Larger
  <2> QED
    BY <1>1, <1>2, <2>2
<1>4. LagWithin(a)'
  <2> SUFFICES ASSUME NEW s \in queued'
               PROVE  \E k \in Nat :
                         /\ Cardinality(Ahead(s.finish)') + k
                               <= Cardinality(SessionIds)
                         /\ virtualTime' <= s.finish + a * k
    BY DEF LagWithin
  <2>1. CASE s \in queued
    <3>1. CASE virtualTime' <= s.finish
      BY <1>2, <2>1, <3>1, LagKept DEF MinInv, TypeInv
    <3>2. CASE ~(virtualTime' <= s.finish)
      <4>1. ~(x.finish <= s.finish)
        BY <1>2, <1>3, <2>1, <3>2
      <4>2. Ahead(s.finish)' \subseteq Ahead(s.finish)
        BY <1>1, <4>1 DEF Ahead, Before
      <4> QED
        BY <1>2, <2>1, <4>2, LagKept DEF MinInv, TypeInv
    <3> QED
      BY <3>1, <3>2
  <2>2. CASE s = x
    <3>1. /\ Ahead(x.finish)' \in SUBSET SessionIds
      BY DEF Ahead, Before, TypeOK, SessionStates
    <3>2. /\ Cardinality(Ahead(x.finish)') \in Nat
          /\ Cardinality(Ahead(x.finish)') <= Cardinality(SessionIds)
          /\ Cardinality(SessionIds) \in Nat
      BY <3>1, FS_Subset, FS_CardinalityType
    <3>3. virtualTime' <= x.finish + a * 0
      BY <1>2, <1>3
    <3> QED
      BY <2>2, <3>2, <3>3
  <2> QED
    BY <1>1, <2>1, <2>2
<1>5. OrderKept
  BY <1>1 DEF OrderKept, IdInv, UniqueIds
<1> QED
  BY <1>4, <1>5

\* Dequeue takes the least finish time; a session that finishes earlier and
\* is passed over has not started.
LEMMA DequeueLag ==
    ASSUME MinInv, IdInv, IsFiniteSet(SessionIds), NEW a \in Nat, LagWithin(a),
           TypeOK', Dequeue
    PROVE  LagWithin(a)' /\ OrderKept
<1>1. PICK r \in Eligible(SearchTime) :
         /\ \A q \in Eligible(SearchTime) : r.finish <= q.finish
         /\ queued' = queued \ {r} /\ out' = {r}
  BY DEF Dequeue, Remove
<1>2. /\ virtualTime' = SearchTime /\ out = {}
      /\ SearchTime <= virtualTime \/ SearchTime <= minStart
      /\ SearchTime \in Nat /\ virtualTime \in Nat /\ minStart \in Nat
  <2>1. SearchTime \in Nat /\ virtualTime \in Nat /\ minStart \in Nat
    BY SearchTimeRange, WidthAssumption, TagsNat DEF MinInv, TypeInv
  <2> QED
    BY <2>1 DEF Dequeue, SearchTime, Larger
<1>3. /\ r \in queued
      /\ \A s \in queued : /\ s.start \in Nat /\ s.finish \in Nat
                           /\ s.start <= s.finish /\ s.finish < MaxU
                           /\ minStart <= s.start
  BY TagsNat DEF MinInv, TypeInv, Unsaturated, MinStartExact, Eligible
<1>4. LagWithin(a)'
  <2> SUFFICES ASSUME NEW s \in queued, s # r
               PROVE  \E k \in Nat :
                         /\ Cardinality(Ahead(s.finish)') + k
                               <= Cardinality(SessionIds)
                         /\ virtualTime' <= s.finish + a * k
    BY <1>1 DEF LagWithin
  <2>1. CASE virtualTime' <= s.finish
    BY <1>3, <2>1, LagKept DEF MinInv, TypeInv
  <2>2. CASE ~(virtualTime' <= s.finish)
    <3>1. virtualTime' <= virtualTime
      BY <1>2, <1>3, <2>2
    <3>2. s \in Eligible(SearchTime)
      BY <1>2, <1>3, <2>2 DEF Eligible
    <3>3. r.finish <= s.finish
      BY <1>1, <3>2
    <3>4. Ahead(s.finish)' \subseteq Ahead(s.finish)
      BY <1>1, <1>3, <3>3 DEF Ahead, Before
    <3> QED
      BY <1>3, <3>1, <3>4, LagKept DEF MinInv, TypeInv
  <2> QED
    BY <2>1, <2>2
<1>5. OrderKept
  BY <1>1 DEF OrderKept, IdInv, UniqueIds
<1> QED
  BY <1>4, <1>5

\* The dispatch of the session in hand: virtual time advances, and one
\* session less is ahead of the others.
LEMMA DispatchLag ==
    ASSUME MinInv, IdInv, IsFiniteSet(SessionIds), NEW a, Most(a), LagWithin(a),
           NEW o \in out, NEW s \in queued
    PROVE  \E k \in Nat :
              /\ IsFiniteSet(Before(s.finish)) /\ Cardinality(Before(s.finish)) \in Nat
              /\ Cardinality(Before(s.finish)) + k <= Cardinality(SessionIds)
              /\ AdvancedTime(o.size) <= s.finish + a * k
<1> DEFINE A == Ahead(s.finish)
           B == Before(s.finish)
           v == AdvancedTime(o.size)
<1>1. /\ A \in SUBSET SessionIds /\ IsFiniteSet(A) /\ Cardinality(A) \in Nat
      /\ Cardinality(SessionIds) \in Nat
  BY AheadFinite DEF MinInv, TypeInv
<1>2. o.id \in A /\ B \subseteq A \ {o.id}
  BY DEF Ahead, Before, IdInv, UniqueIds
<1> HIDE DEF A, B
<1>3. /\ IsFiniteSet(A \ {o.id}) /\ Cardinality(A \ {o.id}) = Cardinality(A) - 1
  BY <1>1, <1>2, FS_RemoveElement
<1>4. /\ IsFiniteSet(B) /\ Cardinality(B) \in Nat
      /\ Cardinality(B) + 1 <= Cardinality(A)
  <2>1. /\ IsFiniteSet(B) /\ Cardinality(B) <= Cardinality(A \ {o.id})
    BY <1>2, <1>3, FS_Subset
  <2>2. Cardinality(B) \in Nat
    BY <2>1, FS_CardinalityType
  <2> QED
    BY <1>1, <1>3, <2>1, <2>2
<1>5. PICK k \in Nat : /\ Cardinality(A) + k <= Cardinality(SessionIds)
                       /\ virtualTime <= s.finish + a * k
  BY DEF LagWithin, A
<1>6. /\ o.size \in WorkSizes /\ Advance(o.size) \in Nat /\ Advance(o.size) <= a
      /\ a \in Nat
  <2>1. o.size \in WorkSizes
    BY DEF MinInv, TypeInv, TypeOK, SessionStates
  <2> QED
    BY <2>1, AdvancePos DEF Most
<1>7. /\ virtualTime \in Nat /\ minStart \in Nat /\ s.start \in Nat
      /\ s.finish \in Nat /\ minStart <= s.start /\ s.start <= s.finish
  BY TagsNat DEF MinInv, TypeInv, MinStartExact, Unsaturated
<1>8. v \in Nat /\ (v <= virtualTime + a \/ v <= s.finish)
  <2>1. v \in Nat
    BY <1>6, AdvancedTimeRange, WidthAssumption DEF MinInv, TypeInv
  <2>2. FinishTime(virtualTime, Advance(o.size)) <= virtualTime + a
    BY <1>6, <1>7, WidthAssumption DEF FinishTime
  <2> QED
    BY <1>6, <1>7, <2>1, <2>2 DEF AdvancedTime, Larger
<1> HIDE DEF v
<1>9. CASE v <= s.finish
  <2>1. v <= s.finish + a * 0
    BY <1>6, <1>7, <1>8, <1>9
  <2> QED
    BY <1>1, <1>4, <1>5, <2>1 DEF B, v
<1>10. CASE v <= virtualTime + a
  <2>1. a * (k + 1) = a * k + a /\ a * k \in Nat
    BY <1>6
  <2>2. v <= s.finish + a * (k + 1)
    BY <1>5, <1>6, <1>7, <1>8, <1>10, <2>1
  <2>3. Cardinality(B) + (k + 1) <= Cardinality(SessionIds)
    BY <1>1, <1>4, <1>5
  <2> QED
    BY <1>4, <2>2, <2>3 DEF B, v
<1> QED
  BY <1>8, <1>9, <1>10

\* A rebase from virtual time v, which is far enough beyond every session.
LEMMA RebaseLag ==
    ASSUME MinInv, IdInv, IsFiniteSet(SessionIds), NEW a, Most(a), LagWithin(a),
           NEW o \in out, Rebase(AdvancedTime(o.size)),
           AdvancedTime(o.size) >= MaxU \div 2, out' = {}
    PROVE  LagWithin(a)' /\ OrderKept
<1> DEFINE v == AdvancedTime(o.size)
           d == v \div 2
<1>1. /\ queued' = {ShiftedSession(s, d) : s \in queued}
      /\ virtualTime' = v - d
  BY DEF Rebase
<1>2. /\ v \in Nat /\ v >= MaxU \div 2
      /\ d \in Nat /\ d <= v /\ 2 * d <= v
      /\ MaxU \div 2 \in Nat
  <2>1. v \in Nat
    BY AdvancedTimeRange, WidthAssumption
       DEF MinInv, TypeInv, TypeOK, SessionStates
  <2> HIDE DEF v
  <2> QED
    BY <2>1, WidthAssumption DEF v
<1>3. ASSUME NEW s \in queued
      PROVE  \E k \in Nat :
                /\ IsFiniteSet(Before(s.finish))
                /\ Cardinality(Before(s.finish)) \in Nat
                /\ Cardinality(Before(s.finish)) + k <= Cardinality(SessionIds)
                /\ v <= s.finish + a * k
  BY DispatchLag
<1> HIDE DEF v, d
<1>4. a \in Nat /\ Cardinality(SessionIds) \in Nat
  BY FS_CardinalityType DEF Most
<1>5. ASSUME NEW s \in queued
      PROVE  /\ s.start \in Nat /\ s.finish \in Nat /\ d < s.finish
             /\ ShiftedSession(s, d).id = s.id
             /\ ShiftedSession(s, d).finish = s.finish - d
  <2>1. /\ s.start \in Nat /\ s.finish \in Nat
        /\ ShiftedSession(s, d).id = s.id
        /\ ShiftedSession(s, d).finish = Shifted(s.finish, d)
    BY TagsNat, ShiftedFields DEF MinInv, TypeInv, TypeOK
  <2>2. PICK k \in Nat : /\ Cardinality(Before(s.finish)) \in Nat
                         /\ Cardinality(Before(s.finish)) + k
                               <= Cardinality(SessionIds)
                         /\ v <= s.finish + a * k
    BY <1>3
  <2>3. a * k <= Cardinality(SessionIds) * a
    <3>1. k <= Cardinality(SessionIds)
      BY <1>4, <2>2
    <3> QED
      BY <1>4, <3>1
  <2>4. /\ a * k \in Nat /\ Cardinality(SessionIds) * a \in Nat
        /\ 2 * (Cardinality(SessionIds) * a) < MaxU \div 2
    BY <1>4 DEF Most
  <2>5. d < s.finish
    BY <1>2, <2>1, <2>2, <2>3, <2>4
  <2> QED
    BY <1>2, <2>1, <2>5 DEF Shifted
<1>6. LagWithin(a)'
  <2> SUFFICES ASSUME NEW x \in queued'
               PROVE  \E k \in Nat :
                         /\ Cardinality(Ahead(x.finish)') + k
                               <= Cardinality(SessionIds)
                         /\ virtualTime' <= x.finish + a * k
    BY DEF LagWithin
  <2>1. PICK s \in queued : x = ShiftedSession(s, d)
    BY <1>1
  <2>2. Ahead(x.finish)' = Before(s.finish)
    <3>1. \A q \in queued : ShiftedSession(q, d).finish <= x.finish
                             <=> q.finish <= s.finish
      BY <1>2, <1>5, <2>1
    <3>2. ASSUME NEW r \in queued', r.finish <= x.finish
          PROVE  r.id \in {q.id : q \in {q \in queued : q.finish <= s.finish}}
      BY <1>1, <1>5, <3>1, <3>2
    <3>3. ASSUME NEW r \in queued, r.finish <= s.finish
          PROVE  r.id \in {q.id : q \in {q \in queued' : q.finish <= x.finish}}
      <4>1. /\ ShiftedSession(r, d) \in {q \in queued' : q.finish <= x.finish}
            /\ ShiftedSession(r, d).id = r.id
        BY <1>1, <1>5, <3>1, <3>3
      <4> QED
        BY <4>1
    <3>4. Ahead(x.finish)' = {q.id : q \in {q \in queued' : q.finish <= x.finish}}
      BY DEF Ahead, Before
    <3> QED
      BY <3>2, <3>3, <3>4 DEF Before
  <2>3. PICK k \in Nat : /\ Cardinality(Before(s.finish)) + k
                               <= Cardinality(SessionIds)
                         /\ v <= s.finish + a * k
    BY <1>3
  <2>4. virtualTime' <= x.finish + a * k
    <3>1. a * k \in Nat
      BY <1>4
    <3> QED
      BY <1>1, <1>2, <1>5, <2>1, <2>3, <3>1
  <2> QED
    BY <2>2, <2>3, <2>4
<1>7. OrderKept
  <2> SUFFICES ASSUME NEW s \in queued, NEW r \in queued, s.finish < r.finish,
                      NEW x \in queued', NEW y \in queued',
                      s.id = x.id, r.id = y.id
               PROVE  x.finish < y.finish
    BY DEF OrderKept
  <2>1. x = ShiftedSession(s, d) /\ y = ShiftedSession(r, d)
    BY <1>1, <1>5 DEF IdInv, UniqueIds
  <2> QED
    BY <1>2, <1>5, <2>1
<1> QED
  BY <1>6, <1>7

LEMMA LagNext ==
    ASSUME ~CanSaturate, IsFiniteSet(SessionIds), NEW a, Most(a), LagInv(a),
           [Next]_vars
    PROVE  LagInv(a)' /\ OrderKept
<1>1. MinInv /\ IdInv /\ LagWithin(a) /\ a \in Nat
  BY DEF LagInv, Most
<1>2. MinInv' /\ IdInv'
  BY <1>1, MinInvNext, IdInvNext
<1>3. TypeOK /\ TypeOK'
  BY <1>1, <1>2 DEF MinInv, TypeInv
<1> SUFFICES LagWithin(a)' /\ OrderKept
  BY <1>2 DEF LagInv
<1>4. ASSUME queued' \subseteq queued, out' \subseteq out,
             \A s \in queued' : virtualTime' <= virtualTime
                                 \/ virtualTime' <= s.finish
      PROVE  LagWithin(a)' /\ OrderKept
  <2>1. LagWithin(a)'
    <3> SUFFICES ASSUME NEW s \in queued'
                 PROVE  \E k \in Nat :
                           /\ Cardinality(Ahead(s.finish)') + k
                                 <= Cardinality(SessionIds)
                           /\ virtualTime' <= s.finish + a * k
      BY DEF LagWithin
    <3>1. Ahead(s.finish)' \subseteq Ahead(s.finish)
      BY <1>4 DEF Ahead, Before
    <3>2. s \in queued /\ s.finish \in Nat
      BY <1>1, <1>4, TagsNat DEF MinInv, TypeInv
    <3> QED
      BY <1>1, <1>3, <1>4, <3>1, <3>2, LagKept
  <2>2. OrderKept
    BY <1>1, <1>4 DEF OrderKept, IdInv, UniqueIds
  <2> QED
    BY <2>1, <2>2
<1>5. virtualTime \in Nat
  BY <1>3, TagsNat
<1>6. ASSUME queued' \subseteq queued, out' \subseteq out,
             virtualTime' = virtualTime
      PROVE  LagWithin(a)' /\ OrderKept
  BY <1>4, <1>5, <1>6
<1>7. ASSUME NEW e \in EntryIds, NEW t \in Allocations, ConfigureEntry(e, t)
      PROVE  LagWithin(a)' /\ OrderKept
  BY <1>6, <1>7 DEF ConfigureEntry, timeVars
<1>8. ASSUME NEW e \in EntryIds, RemoveEntry(e)
      PROVE  LagWithin(a)' /\ OrderKept
  BY <1>6, <1>8 DEF RemoveEntry, timeVars
<1>9. ASSUME NEW e \in EntryIds, NEW z \in WorkSizes, Enqueue(e, z)
      PROVE  LagWithin(a)' /\ OrderKept
  BY <1>1, <1>3, <1>9, InsertLag DEF Enqueue
<1>10. CASE PutBack
  <2>1. PICK r \in out : ServiceRate(r.entry) # 0 /\ Insert(r.id, r.entry, r.size)
    BY <1>10 DEF PutBack
  <2>2. r.id \in SessionIds /\ r.entry \in Configured /\ r.size \in WorkSizes
    BY <1>1 DEF MinInv, TypeInv, TypeOK, EntriesLive, SessionStates
  <2>3. \A s \in queued : s.id # r.id
    BY <1>1 DEF IdInv, UniqueIds
  <2>4. out' = {} /\ virtualTime' = virtualTime
    BY <1>10 DEF PutBack
  <2> QED
    BY <1>1, <1>3, <2>1, <2>2, <2>3, <2>4, InsertLag
<1>11. CASE Dequeue
  BY <1>1, <1>3, <1>11, DequeueLag
<1>12. CASE DequeueFails
  <2>1. /\ queued' = queued /\ out' = out /\ virtualTime' = SearchTime
    BY <1>12 DEF DequeueFails
  <2>2. SearchTime <= virtualTime \/ SearchTime <= minStart
    BY <1>3, <1>5, TagsNat DEF SearchTime, Larger
  <2>3. \A s \in queued : /\ minStart <= s.start /\ s.start <= s.finish
                           /\ s.start \in Nat /\ s.finish \in Nat
    BY <1>1, TagsNat DEF MinInv, TypeInv, MinStartExact, Unsaturated
  <2>4. SearchTime \in Nat /\ minStart \in Nat
    BY <1>3, SearchTimeRange, TagsNat, WidthAssumption
  <2> QED
    BY <1>4, <2>1, <2>2, <2>3, <2>4
<1>13. CASE RemoveSession
  BY <1>6, <1>13 DEF RemoveSession, Remove
<1>14. CASE UpdateVirtualTime
  <2>1. PICK o \in out :
           LET v == AdvancedTime(o.size)
           IN  IF v >= MaxU \div 2 THEN Rebase(v)
               ELSE virtualTime' = v /\ UNCHANGED <<minStart, queued, lastFinish>>
    BY <1>14 DEF UpdateVirtualTime
  <2>2. out' = {}
    BY <1>14 DEF UpdateVirtualTime
  <2>3. CASE AdvancedTime(o.size) >= MaxU \div 2
    BY <1>1, <2>1, <2>2, <2>3, RebaseLag
  <2>4. CASE ~(AdvancedTime(o.size) >= MaxU \div 2)
    <3>1. virtualTime' = AdvancedTime(o.size) /\ queued' = queued
      BY <2>1, <2>4
    <3>2. ASSUME NEW s \in queued
          PROVE  Ahead(s.finish)' = Before(s.finish)
      BY <2>2, <3>1 DEF Ahead, Before
    <3>3. LagWithin(a)'
      BY <1>1, <3>1, <3>2, DispatchLag DEF LagWithin
    <3>4. OrderKept
      BY <1>1, <3>1 DEF OrderKept, IdInv, UniqueIds
    <3> QED
      BY <3>3, <3>4
  <2> QED
    BY <2>3, <2>4
<1>15. CASE UNCHANGED vars
  BY <1>6, <1>15 DEF vars, timeVars
<1> QED
  BY <1>7, <1>8, <1>9, <1>10, <1>11, <1>12, <1>13, <1>14, <1>15 DEF Next

LEMMA LagInit == ASSUME NEW a, Init PROVE LagInv(a)
<1>1. LagWithin(a)
  BY DEF Init, LagWithin
<1>2. MinInv /\ IdInv
  BY MinInvInit, TypeInvInit DEF Init, IdInv, UniqueIds
<1> QED
  BY <1>1, <1>2 DEF LagInv

\* Without work sizes nothing is ever queued.
LEMMA NothingQueued ==
    ASSUME WorkSizes = {} PROVE Spec => [](queued = {}) /\ [][OrderKept]_vars
<1>1. Spec => []TypeOK
  BY TypeCorrect
<1>2. TypeOK => queued = {}
  BY DEF TypeOK, SessionStates
<1>3. queued = {} => OrderKept
  BY DEF OrderKept
<1> QED
  BY <1>1, <1>2, <1>3, PTL DEF Spec

LEMMA LagInvBounded ==
    ASSUME LagFits, NEW z \in WorkSizes, Most(Advance(z)), LagInv(Advance(z))
    PROVE  LagBounded
<1> SUFFICES ASSUME NEW s \in queued
             PROVE  virtualTime <= s.finish + Cardinality(SessionIds) * Advance(z)
  BY DEF LagBounded
<1> DEFINE a == Advance(z)
<1>1. PICK k \in Nat :
         /\ Cardinality(Ahead(s.finish)) + k <= Cardinality(SessionIds)
         /\ virtualTime <= s.finish + a * k
  BY DEF LagInv, LagWithin
<1>2. /\ Cardinality(Ahead(s.finish)) \in Nat
      /\ Cardinality(SessionIds) \in Nat
  BY AheadFinite DEF LagInv, MinInv, TypeInv, LagFits
<1>3. a \in Nat /\ virtualTime \in Nat /\ s.finish \in Nat
  BY TagsNat DEF Most, LagInv, MinInv, TypeInv
<1> HIDE DEF a
<1>4. k <= Cardinality(SessionIds)
  BY <1>1, <1>2
<1>5. a * k <= Cardinality(SessionIds) * a
  BY <1>2, <1>3, <1>4
<1>6. a * k \in Nat /\ Cardinality(SessionIds) * a \in Nat
  BY <1>2, <1>3
<1>7. virtualTime <= s.finish + Cardinality(SessionIds) * a
  BY <1>1, <1>3, <1>5, <1>6
<1> QED
  BY <1>7 DEF a

\* Virtual time never leaves a queued session further behind than the
\* dispatches of as many sessions as can be queued, through put-backs,
\* jump-aheads, reconfigurations and rebases.
THEOREM LagCorrect == ASSUME ~CanSaturate, LagFits PROVE Spec => []LagBounded
<1>1. CASE WorkSizes = {}
  <2>1. queued = {} => LagBounded
    BY DEF LagBounded
  <2> QED
    BY <1>1, <2>1, NothingQueued, PTL
<1>2. CASE WorkSizes # {}
  <2>1. PICK z \in WorkSizes : Most(Advance(z))
    BY <1>2, MostExists
  <2>2. LagInv(Advance(z)) => LagBounded
    BY <2>1, LagInvBounded
  <2>3. Init => LagInv(Advance(z))
    BY LagInit
  <2>4. LagInv(Advance(z)) /\ [Next]_vars => LagInv(Advance(z))'
    BY <2>1, LagNext DEF LagFits
  <2> QED
    BY <2>2, <2>3, <2>4, PTL DEF Spec
<1> QED
  BY <1>1, <1>2

\* A rebase is invisible to the order of service: it would merge two finish
\* times by clamping both to 0 only if a queued session were behind virtual
\* time by as much as the rebase shifts.
THEOREM OrderCorrect == ASSUME ~CanSaturate, LagFits PROVE Spec => OrderPreserved
<1>1. Spec => [][OrderKept]_vars
  <2>1. CASE WorkSizes = {}
    BY <2>1, NothingQueued, PTL
  <2>2. CASE WorkSizes # {}
    <3>1. PICK z \in WorkSizes : Most(Advance(z))
      BY <2>2, MostExists
    <3>2. Init => LagInv(Advance(z))
      BY LagInit
    <3>3. LagInv(Advance(z)) /\ [Next]_vars => LagInv(Advance(z))' /\ OrderKept
      BY <3>1, LagNext DEF LagFits
    <3> QED
      BY <3>2, <3>3, PTL DEF Spec
  <2> QED
    BY <2>1, <2>2
<1> QED
  BY <1>1, PTL DEF OrderPreserved, OrderKept

-----------------------------------------------------------------------------
(* The two totals, allocated_rate_capacity and total_weight: they are      *)
(* updated by differences, and stay sums over the configured entries when  *)
(* neither can wrap.                                                       *)

\* No sum of rates wraps.
RatesFit ==
    /\ IsFiniteSet(EntryIds)
    /\ \A a \in Allocations : IsRate(a) => TotalCapacity + a.amount <= MaxU

\* No sum of weights wraps.
WeightsFit ==
    \E w \in Nat : /\ \A a \in Allocations : ~IsRate(a) => a.amount <= w
                   /\ Cardinality(EntryIds) * w <= MaxWeight

RateTable == [e \in EntryIds |-> RateOf(e)]
WeightTable == [e \in EntryIds |-> WeightOf(e)]

LEMMA UnitsArePairs ==
    RateUnits = Pairs(RateTable) /\ WeightUnits = Pairs(WeightTable)
  BY DEF RateUnits, WeightUnits, Pairs, RateTable, WeightTable

LEMMA TableTypes ==
    ASSUME TypeOK
    PROVE  /\ RateTable \in [EntryIds -> 0 .. MaxU]
           /\ WeightTable \in [EntryIds -> 0 .. MaxWeight]
  BY ContributionRange DEF RateTable, WeightTable

\* What entry e contributes with allocation a.
RateFor(a) == IF IsRate(a) THEN a.amount ELSE 0
WeightFor(a) == IF IsRate(a) THEN 0 ELSE a.amount

LEMMA ConfigureTables ==
    ASSUME TypeOK, NEW e \in EntryIds, NEW a \in Allocations, ConfigureEntry(e, a)
    PROVE  /\ RateTable'[e] = RateFor(a) /\ WeightTable'[e] = WeightFor(a)
           /\ \A x \in EntryIds \ {e} : /\ RateTable'[x] = RateTable[x]
                                        /\ WeightTable'[x] = WeightTable[x]
<1>1. alloc' = [x \in Configured \cup {e} |-> IF x = e THEN a ELSE alloc[x]]
  BY DEF ConfigureEntry
<1>2. Configured' = Configured \cup {e} /\ alloc'[e] = a
  BY <1>1 DEF Configured
<1>3. \A x \in EntryIds \ {e} : /\ x \in Configured' <=> x \in Configured
                                /\ x \in Configured => alloc'[x] = alloc[x]
  BY <1>1, <1>2
<1>4. /\ RateTable'[e] = RateFor(a) /\ WeightTable'[e] = WeightFor(a)
  BY <1>2 DEF RateTable, WeightTable, RateOf, WeightOf, RateFor, WeightFor
<1>5. \A x \in EntryIds \ {e} : /\ RateTable'[x] = RateTable[x]
                                /\ WeightTable'[x] = WeightTable[x]
  BY <1>3 DEF RateTable, WeightTable, RateOf, WeightOf
<1> QED
  BY <1>4, <1>5

LEMMA RemoveTables ==
    ASSUME TypeOK, NEW e \in EntryIds, RemoveEntry(e)
    PROVE  /\ RateTable'[e] = 0 /\ WeightTable'[e] = 0
           /\ \A x \in EntryIds \ {e} : /\ RateTable'[x] = RateTable[x]
                                        /\ WeightTable'[x] = WeightTable[x]
<1>1. alloc' = [x \in Configured \ {e} |-> alloc[x]]
  BY DEF RemoveEntry
<1>2. Configured' = Configured \ {e}
  BY <1>1 DEF Configured
<1>3. \A x \in EntryIds \ {e} : /\ x \in Configured' <=> x \in Configured
                                /\ x \in Configured => alloc'[x] = alloc[x]
  BY <1>1, <1>2
<1>4. RateTable'[e] = 0 /\ WeightTable'[e] = 0
  BY <1>2 DEF RateTable, WeightTable, RateOf, WeightOf
<1>5. \A x \in EntryIds \ {e} : /\ RateTable'[x] = RateTable[x]
                                /\ WeightTable'[x] = WeightTable[x]
  BY <1>3 DEF RateTable, WeightTable, RateOf, WeightOf
<1> QED
  BY <1>4, <1>5

-----------------------------------------------------------------------------
(* The rates.                                                              *)

RateInv == /\ TypeInv
           /\ allocatedRate = Cardinality(Pairs(RateTable))
           /\ allocatedRate <= TotalCapacity

LEMMA RateInit == ASSUME IsFiniteSet(EntryIds), Init PROVE RateInv
<1>1. TypeInv /\ allocatedRate = 0
  BY TypeInvInit DEF Init
<1>2. \A e \in EntryIds : RateTable[e] = 0
  BY DEF Init, RateTable, RateOf, Configured
<1>3. DOMAIN RateTable = EntryIds
  BY DEF RateTable
<1>4. Pairs(RateTable) = {}
  BY <1>2, <1>3 DEF Pairs
<1>5. Cardinality(Pairs(RateTable)) = 0 /\ 0 <= TotalCapacity
  BY <1>4, FS_EmptySet, ScaleAssumption
<1> QED
  BY <1>1, <1>5 DEF RateInv

LEMMA RateStep == ASSUME RatesFit, RateInv, [Next]_vars PROVE RateInv'
<1> DEFINE f == RateTable
           g == RateTable'
           total == Cardinality(Pairs(f))
<1>1. TypeInv' /\ TypeInv /\ TypeOK /\ TypeOK'
  BY TypeInvNext DEF RateInv, TypeInv
<1>2. /\ f \in [EntryIds -> 0 .. MaxU]
      /\ g = [e \in EntryIds |-> g[e]]
  BY <1>1, TableTypes DEF RateTable
<1>3. allocatedRate = total /\ total <= TotalCapacity /\ total \in Nat
      /\ MaxU \in Nat /\ TotalCapacity <= MaxU /\ TotalCapacity \in Nat
      /\ IsFiniteSet(EntryIds)
  BY <1>2, PairsBound, ScaleAssumption, WidthAssumption DEF RateInv, RatesFit
\* The total follows the change of one entry.
<1>4. ASSUME NEW e \in EntryIds, NEW n \in 0 .. MaxU, g[e] = n,
             \A x \in EntryIds \ {e} : g[x] = f[x],
             allocatedRate' = (allocatedRate - f[e]) + n,
             allocatedRate' <= TotalCapacity
      PROVE  RateInv'
  <2>1. Cardinality(Pairs(g)) = (total - f[e]) + g[e]
    <3> HIDE DEF f, g
    <3>1. g \in [EntryIds -> 0 .. MaxU]
      BY <1>2, <1>4
    <3> QED
      BY <1>2, <1>3, <1>4, <3>1, PairsChange DEF total
  <2>2. allocatedRate' = Cardinality(Pairs(g))
    BY <1>3, <1>4, <2>1
  <2> QED
    BY <1>1, <1>4, <2>2 DEF RateInv
<1>5. ASSUME UNCHANGED <<alloc, allocatedRate>> PROVE RateInv'
  <2>1. \A e \in EntryIds : RateOf(e)' = RateOf(e)
    BY <1>5 DEF RateOf, Configured
  <2>2. g = f
    BY <2>1 DEF RateTable
  <2> QED
    BY <1>1, <1>3, <1>5, <2>2 DEF RateInv
<1>6. \A e \in EntryIds : f[e] = RateOf(e) /\ f[e] \in Nat /\ f[e] <= allocatedRate
  <2> TAKE e \in EntryIds
  <2>1. f[e] <= total
    <3> HIDE DEF f
    <3> QED
      BY <1>2, <1>3, PairsChange DEF total
  <2> QED
    BY <1>2, <1>3, <2>1 DEF RateTable
<1>7. ASSUME NEW e \in EntryIds, NEW a \in Allocations, ConfigureEntry(e, a)
      PROVE  RateInv'
  <2> DEFINE n == RateFor(a)
  <2>1. /\ n \in 0 .. MaxU
        /\ IsRate(a) => TotalCapacity + n <= MaxU
        /\ ~IsRate(a) => n = 0
    BY AllocationAssumption, WidthAssumption DEF RateFor, RatesFit
  <2>2. allocatedRate' = Plus(Minus(allocatedRate, f[e], MaxU), n, MaxU)
    BY <1>6, <1>7 DEF ConfigureEntry, RateWith, RateFor
  <2>3. Minus(allocatedRate, f[e], MaxU) = allocatedRate - f[e]
    BY <1>3, <1>6 DEF Minus
  <2>4. allocatedRate' = (allocatedRate - f[e]) + n
    BY <1>3, <1>6, <2>1, <2>2, <2>3 DEF Plus
  <2>5. allocatedRate' <= TotalCapacity
    <3>1. CASE IsRate(a)
      BY <1>1, <1>3, <1>7, <3>1, WidthAssumption
      DEF ConfigureEntry, Overbooked, TypeOK
    <3>2. CASE ~IsRate(a)
      BY <1>3, <1>6, <2>1, <2>4, <3>2
    <3> QED
      BY <3>1, <3>2
  <2>6. g[e] = n /\ \A x \in EntryIds \ {e} : g[x] = f[x]
    BY <1>1, <1>7, ConfigureTables
  <2> HIDE DEF n, f, g
  <2> QED
    BY <1>4, <2>1, <2>4, <2>5, <2>6
<1>8. ASSUME NEW e \in EntryIds, RemoveEntry(e) PROVE RateInv'
  <2>1. allocatedRate' = Minus(allocatedRate, f[e], MaxU)
    BY <1>6, <1>8 DEF RemoveEntry
  <2>2. allocatedRate' = (allocatedRate - f[e]) + 0
    BY <1>3, <1>6, <2>1 DEF Minus
  <2>3. allocatedRate' <= TotalCapacity
    BY <1>3, <1>6, <2>2
  <2>4. g[e] = 0 /\ \A x \in EntryIds \ {e} : g[x] = f[x]
    BY <1>1, <1>8, RemoveTables
  <2> HIDE DEF f, g
  <2> QED
    BY <1>3, <1>4, <2>2, <2>3, <2>4
<1>9. CASE \/ \E e \in EntryIds, z \in WorkSizes : Enqueue(e, z)
           \/ PutBack \/ Dequeue \/ DequeueFails \/ RemoveSession
           \/ UpdateVirtualTime \/ UNCHANGED vars
  <2>1. UNCHANGED <<alloc, allocatedRate>>
    BY <1>9 DEF Enqueue, PutBack, Dequeue, DequeueFails, RemoveSession,
                UpdateVirtualTime, vars, entryVars, rateVars
  <2> QED
    BY <1>5, <2>1
<1> QED
  BY <1>7, <1>8, <1>9 DEF Next

\* The configured rates never exceed the capacity, whatever the order of
\* configurations and removals, when no sum of rates wraps.
THEOREM NotOverbookedCorrect == ASSUME RatesFit PROVE Spec => []NotOverbooked
<1>1. Init => RateInv
  BY RateInit DEF RatesFit
<1>2. RateInv /\ [Next]_vars => RateInv'
  BY RateStep
<1>3. RateInv => NotOverbooked
  BY UnitsArePairs DEF RateInv, NotOverbooked
<1> QED
  BY <1>1, <1>2, <1>3, PTL DEF Spec

-----------------------------------------------------------------------------
(* The weights, and the rates cached from both totals.                     *)

WeightInv == TypeInv /\ totalWeight = Cardinality(Pairs(WeightTable))

LEMMA WeightInit == Init => WeightInv
<1> SUFFICES ASSUME Init PROVE WeightInv
  OBVIOUS
<1>1. TypeInv /\ totalWeight = 0
  BY TypeInvInit DEF Init
<1>2. \A e \in EntryIds : WeightTable[e] = 0
  BY DEF Init, WeightTable, WeightOf, Configured
<1>3. DOMAIN WeightTable = EntryIds
  BY DEF WeightTable
<1>4. Pairs(WeightTable) = {}
  BY <1>2, <1>3 DEF Pairs
<1>5. Cardinality(Pairs(WeightTable)) = 0
  BY <1>4, FS_EmptySet
<1> QED
  BY <1>1, <1>5 DEF WeightInv

\* No entry has more weight than an allocation can give it.
LEMMA WeightRange ==
    ASSUME TypeOK, NEW w \in Nat,
           \A a \in Allocations : ~IsRate(a) => a.amount <= w
    PROVE  WeightTable \in [EntryIds -> 0 .. w]
<1> SUFFICES ASSUME NEW e \in EntryIds PROVE WeightOf(e) \in 0 .. w
  BY DEF WeightTable
<1>1. WeightOf(e) \in Nat
  BY ContributionRange, WidthAssumption
<1>2. CASE e \in Configured /\ ~IsRate(alloc[e])
  BY <1>1, <1>2 DEF WeightOf, TypeOK
<1>3. CASE ~(e \in Configured /\ ~IsRate(alloc[e]))
  BY <1>3 DEF WeightOf
<1> QED
  BY <1>2, <1>3

LEMMA WeightStep ==
    ASSUME IsFiniteSet(EntryIds), WeightsFit, WeightInv, [Next]_vars
    PROVE  WeightInv'
<1> DEFINE f == WeightTable
           g == WeightTable'
           total == Cardinality(Pairs(f))
<1>1. TypeInv' /\ TypeInv /\ TypeOK /\ TypeOK'
  BY TypeInvNext DEF WeightInv, TypeInv
<1>0. PICK w \in Nat : /\ \A a \in Allocations : ~IsRate(a) => a.amount <= w
                       /\ Cardinality(EntryIds) * w <= MaxWeight
  BY DEF WeightsFit
<1>2. /\ f \in [EntryIds -> 0 .. w]
      /\ g = [e \in EntryIds |-> g[e]]
  BY <1>0, <1>1, WeightRange DEF WeightTable
<1>3. totalWeight = total /\ total \in Nat /\ MaxWeight \in Nat
  BY <1>2, PairsBound, WidthAssumption DEF WeightInv
<1>4. \A e \in EntryIds : f[e] = WeightOf(e) /\ f[e] \in Nat /\ f[e] <= totalWeight
  <2> TAKE e \in EntryIds
  <2>1. f[e] <= total
    <3> HIDE DEF f
    <3> QED
      BY <1>2, <1>3, PairsChange DEF total
  <2> QED
    BY <1>2, <1>3, <2>1 DEF WeightTable
\* What the sum is after the change of one entry.
<1>5. ASSUME NEW e \in EntryIds, NEW n \in 0 .. w, g[e] = n,
             \A x \in EntryIds \ {e} : g[x] = f[x]
      PROVE  /\ Cardinality(Pairs(g)) = (totalWeight - f[e]) + n
             /\ (totalWeight - f[e]) + n <= MaxWeight
  <2> HIDE DEF f, g
  <2>1. g \in [EntryIds -> 0 .. w]
    BY <1>2, <1>5
  <2>2. Cardinality(Pairs(g)) = (total - f[e]) + g[e]
    BY <1>2, <1>3, <1>5, <2>1, PairsChange DEF total
  <2>3. /\ Cardinality(Pairs(g)) <= Cardinality(EntryIds) * w
        /\ Cardinality(Pairs(g)) \in Nat
    BY <2>1, PairsBound
  <2>4. Cardinality(EntryIds) * w \in Nat
    BY FS_CardinalityType
  <2>5. Cardinality(Pairs(g)) <= MaxWeight
    BY <1>0, <1>3, <2>3, <2>4
  <2> QED
    BY <1>3, <1>5, <2>2, <2>5
<1>6. ASSUME UNCHANGED <<alloc, totalWeight>> PROVE WeightInv'
  <2>1. \A e \in EntryIds : WeightOf(e)' = WeightOf(e)
    BY <1>6 DEF WeightOf, Configured
  <2>2. g = f
    BY <2>1 DEF WeightTable
  <2> QED
    BY <1>1, <1>3, <1>6, <2>2 DEF WeightInv
<1>7. ASSUME NEW e \in EntryIds, NEW a \in Allocations, ConfigureEntry(e, a)
      PROVE  WeightInv'
  <2> DEFINE n == WeightFor(a)
  <2>1. n \in 0 .. w
    BY <1>0, AllocationAssumption, WidthAssumption DEF WeightFor
  <2>2. totalWeight' = Plus(Minus(totalWeight, f[e], MaxWeight), n, MaxWeight)
    BY <1>4, <1>7 DEF ConfigureEntry, WeightWith, WeightFor
  <2>3. Minus(totalWeight, f[e], MaxWeight) = totalWeight - f[e]
    BY <1>3, <1>4 DEF Minus
  <2>4. g[e] = n /\ \A x \in EntryIds \ {e} : g[x] = f[x]
    BY <1>1, <1>7, ConfigureTables
  <2> HIDE DEF n, f, g
  <2>5. /\ Cardinality(Pairs(g)) = (totalWeight - f[e]) + n
        /\ (totalWeight - f[e]) + n <= MaxWeight
    BY <1>5, <2>1, <2>4
  <2>6. totalWeight' = (totalWeight - f[e]) + n
    BY <1>3, <1>4, <2>1, <2>2, <2>3, <2>5 DEF Plus
  <2> QED
    BY <1>1, <2>5, <2>6 DEF WeightInv, g
<1>8. ASSUME NEW e \in EntryIds, RemoveEntry(e) PROVE WeightInv'
  <2>1. totalWeight' = Minus(totalWeight, f[e], MaxWeight)
    BY <1>4, <1>8 DEF RemoveEntry
  <2>2. totalWeight' = (totalWeight - f[e]) + 0
    BY <1>3, <1>4, <2>1 DEF Minus
  <2>3. g[e] = 0 /\ \A x \in EntryIds \ {e} : g[x] = f[x]
    BY <1>1, <1>8, RemoveTables
  <2> HIDE DEF f, g
  <2>4. Cardinality(Pairs(g)) = (totalWeight - f[e]) + 0
    BY <1>5, <2>3, 0 \in 0 .. w
  <2> QED
    BY <1>1, <2>2, <2>4 DEF WeightInv, g
<1>9. CASE \/ \E e \in EntryIds, z \in WorkSizes : Enqueue(e, z)
           \/ PutBack \/ Dequeue \/ DequeueFails \/ RemoveSession
           \/ UpdateVirtualTime \/ UNCHANGED vars
  <2>1. UNCHANGED <<alloc, totalWeight>>
    BY <1>9 DEF Enqueue, PutBack, Dequeue, DequeueFails, RemoveSession,
                UpdateVirtualTime, vars, entryVars, rateVars
  <2> QED
    BY <1>6, <2>1
<1> QED
  BY <1>7, <1>8, <1>9 DEF Next

\* The cached rate of each weighted entry is the one the totals give.
RatesCached ==
    \A e \in Configured : ~IsRate(alloc[e]) =>
        calculatedRate[e] = EffectiveRate(alloc[e], allocatedRate, totalWeight)

LEMMA CachedStep == ASSUME TypeInv, RatesCached, [Next]_vars PROVE RatesCached'
<1>1. ASSUME NEW e \in EntryIds, NEW a \in Allocations, ConfigureEntry(e, a)
      PROVE  RatesCached'
  <2>1. Configured' \subseteq EntryIds
    BY <1>1 DEF ConfigureEntry, TypeInv, TypeOK, Configured
  <2> QED
    BY <1>1, <2>1 DEF ConfigureEntry, Recalculated, RatesCached, Configured
<1>2. ASSUME NEW e \in EntryIds, RemoveEntry(e) PROVE RatesCached'
  <2>1. Configured' \subseteq EntryIds
    BY <1>2 DEF RemoveEntry, TypeInv, TypeOK, Configured
  <2> QED
    BY <1>2, <2>1 DEF RemoveEntry, Recalculated, RatesCached, Configured
<1>3. CASE \/ \E e \in EntryIds, z \in WorkSizes : Enqueue(e, z)
           \/ PutBack \/ Dequeue \/ DequeueFails \/ RemoveSession
           \/ UpdateVirtualTime \/ UNCHANGED vars
  <2>1. UNCHANGED <<alloc, calculatedRate, allocatedRate, totalWeight>>
    BY <1>3 DEF Enqueue, PutBack, Dequeue, DequeueFails, RemoveSession,
                UpdateVirtualTime, vars, entryVars, rateVars
  <2> QED
    BY <2>1 DEF RatesCached, Configured, EffectiveRate, Share, IsRate
<1> QED
  BY <1>1, <1>2, <1>3 DEF Next

\* allocated_rate_capacity and total_weight are what the configured entries
\* add up to, and every cached rate follows from them: an update by difference
\* loses nothing and counts nothing twice.
THEOREM RatesCorrect ==
    ASSUME RatesFit, WeightsFit PROVE Spec => []RatesExact
<1>1. Init => RateInv /\ WeightInv /\ RatesCached
  <2>1. Init => RatesCached
    BY DEF Init, RatesCached, Configured
  <2> QED
    BY <2>1, RateInit, WeightInit DEF RatesFit
<1>2. RateInv /\ WeightInv /\ RatesCached /\ [Next]_vars
         => (RateInv /\ WeightInv /\ RatesCached)'
  <2>1. RateInv /\ [Next]_vars => RateInv'
    BY RateStep
  <2>2. WeightInv /\ [Next]_vars => WeightInv'
    BY WeightStep DEF RatesFit
  <2>3. RateInv /\ RatesCached /\ [Next]_vars => RatesCached'
    BY CachedStep DEF RateInv
  <2> QED
    BY <2>1, <2>2, <2>3
<1>3. RateInv /\ WeightInv /\ RatesCached => RatesExact
  BY UnitsArePairs DEF RateInv, WeightInv, RatesCached, RatesExact
<1> QED
  BY <1>1, <1>2, <1>3, PTL DEF Spec

-----------------------------------------------------------------------------
(* What the totals are for: group_scheduler_enqueue refuses a session when *)
(* the rate of its entry is 0, and hwfq_dequeue ignores that refusal when  *)
(* it puts a session back.                                                 *)

EntriesServed == \A e \in Configured : ServiceRate(e) \in Nat /\ ServiceRate(e) >= 1

\* An entry with a rate is charged at the rate it was given.
RateKept == \A e \in Configured : IsRate(alloc[e]) => calculatedRate[e] = alloc[e].amount

LEMMA RateKeptInit == Init => RateKept
  BY DEF Init, RateKept, Configured

LEMMA RateKeptStep == ASSUME TypeInv, RateKept, [Next]_vars PROVE RateKept'
<1>0. TypeOK
  BY DEF TypeInv
<1>1. ASSUME NEW e \in EntryIds, NEW a \in Allocations, ConfigureEntry(e, a)
      PROVE  RateKept'
  <2>1. /\ alloc' = [x \in Configured \cup {e} |-> IF x = e THEN a ELSE alloc[x]]
        /\ calculatedRate' =
              Recalculated(alloc', [calculatedRate EXCEPT ![e] = a.amount],
                           allocatedRate', totalWeight')
    BY <1>1 DEF ConfigureEntry
  <2>2. Configured' = Configured \cup {e} /\ Configured' \subseteq EntryIds
    BY <1>0, <2>1 DEF Configured, TypeOK
  <2> SUFFICES ASSUME NEW x \in Configured', IsRate(alloc'[x])
               PROVE  calculatedRate'[x] = alloc'[x].amount
    BY DEF RateKept
  <2>3. calculatedRate'[x] = [calculatedRate EXCEPT ![e] = a.amount][x]
    BY <2>1, <2>2 DEF Recalculated
  <2>4. CASE x = e
    BY <1>0, <2>1, <2>2, <2>3, <2>4 DEF TypeOK
  <2>5. CASE x # e
    <3>1. x \in Configured /\ alloc'[x] = alloc[x]
      BY <2>1, <2>2, <2>5
    <3>2. calculatedRate'[x] = calculatedRate[x]
      BY <1>0, <2>2, <2>3, <2>5 DEF TypeOK
    <3> QED
      BY <3>1, <3>2 DEF RateKept
  <2> QED
    BY <2>4, <2>5
<1>2. ASSUME NEW e \in EntryIds, RemoveEntry(e) PROVE RateKept'
  <2>1. /\ alloc' = [x \in Configured \ {e} |-> alloc[x]]
        /\ calculatedRate' = Recalculated(alloc', calculatedRate,
                                          allocatedRate', totalWeight')
    BY <1>2 DEF RemoveEntry
  <2>2. Configured' = Configured \ {e} /\ Configured \subseteq EntryIds
    BY <1>0, <2>1 DEF Configured, TypeOK
  <2>3. \A x \in Configured' : IsRate(alloc'[x]) => calculatedRate'[x] = calculatedRate[x]
    BY <2>1, <2>2 DEF Recalculated
  <2>4. \A x \in Configured' : alloc'[x] = alloc[x]
    BY <2>1, <2>2
  <2> QED
    BY <2>2, <2>3, <2>4 DEF RateKept
<1>3. CASE \/ \E e \in EntryIds, z \in WorkSizes : Enqueue(e, z)
           \/ PutBack \/ Dequeue \/ DequeueFails \/ RemoveSession
           \/ UpdateVirtualTime \/ UNCHANGED vars
  <2>1. UNCHANGED <<alloc, calculatedRate>>
    BY <1>3 DEF Enqueue, PutBack, Dequeue, DequeueFails, RemoveSession,
                UpdateVirtualTime, vars, entryVars
  <2> QED
    BY <2>1 DEF RateKept, Configured
<1> QED
  BY <1>1, <1>2, <1>3 DEF Next

\* A weighted entry is part of total_weight, which is then not 0.
LEMMA ServedInv ==
    ASSUME IsFiniteSet(EntryIds), WeightInv, RateKept PROVE EntriesServed
<1> SUFFICES ASSUME NEW e \in Configured
             PROVE  ServiceRate(e) \in Nat /\ ServiceRate(e) >= 1
  BY DEF EntriesServed
<1>1. /\ TypeOK /\ e \in EntryIds /\ alloc[e] \in Allocations
      /\ totalWeight = Cardinality(Pairs(WeightTable))
  BY DEF WeightInv, TypeInv, TypeOK
<1>2. alloc[e].amount \in Nat /\ alloc[e].amount >= 1
  BY <1>1, AllocationAssumption, WidthAssumption
<1>3. CASE IsRate(alloc[e])
  BY <1>2, <1>3 DEF ServiceRate, RateKept
<1>4. CASE ~IsRate(alloc[e])
  <2>1. WeightTable \in [EntryIds -> 0 .. MaxWeight]
    BY <1>1, TableTypes
  <2>2. WeightTable[e] = alloc[e].amount
    BY <1>1, <1>4 DEF WeightTable, WeightOf
  <2>3. WeightTable[e] <= totalWeight
    BY <1>1, <2>1, PairsChange, WidthAssumption
  <2>4. totalWeight \in Nat /\ totalWeight # 0
    BY <1>1, <1>2, <2>2, <2>3, WidthAssumption DEF TypeOK
  <2>5. ServiceRate(e) = Larger(Share(alloc[e], allocatedRate, totalWeight) \div 2, 1)
    BY <1>4, <2>4 DEF ServiceRate, EffectiveRate
  <2>6. ServiceRate(e) \in Nat
    BY <1>1, ServiceRateNat
  <2> DEFINE half == Share(alloc[e], allocatedRate, totalWeight) \div 2
  <2>7. (Larger(half, 1) = half /\ half > 1) \/ Larger(half, 1) = 1
    BY DEF Larger
  <2> HIDE DEF half
  <2> QED
    BY <2>5, <2>6, <2>7 DEF half
<1> QED
  BY <1>3, <1>4

\* While no sum of weights wraps, every configured entry has a rate to be
\* charged at, through any sequence of configurations and removals: no session
\* is refused for its rate, and no put-back loses one.
THEOREM EntriesServedAlways ==
    ASSUME IsFiniteSet(EntryIds), WeightsFit PROVE Spec => []EntriesServed
<1>1. Init => WeightInv /\ RateKept
  BY WeightInit, RateKeptInit
<1>2. WeightInv /\ RateKept /\ [Next]_vars => (WeightInv /\ RateKept)'
  <2>1. WeightInv /\ [Next]_vars => WeightInv'
    BY WeightStep
  <2>2. WeightInv /\ RateKept /\ [Next]_vars => RateKept'
    BY RateKeptStep DEF WeightInv
  <2> QED
    BY <2>1, <2>2
<1>3. WeightInv /\ RateKept => EntriesServed
  BY ServedInv
<1> QED
  BY <1>1, <1>2, <1>3, PTL DEF Spec

=============================================================================
