---------------------------- MODULE CalendarProofs ----------------------------
(* Theorems about Calendar, for every value of its constants.              *)
EXTENDS Calendar, DataProofs, FiniteSetTheorems, SequenceTheorems, TLAPS

-----------------------------------------------------------------------------
(* Lists: a session is inserted at a position, or unlinked from one.       *)

LEMMA InsertAtProperties ==
    ASSUME NEW X, NEW list \in Seq(X), NEW s \in X,
           NEW k \in 1 .. Len(list) + 1
    PROVE  /\ InsertAt(list, k, s) \in Seq(X)
           /\ Len(InsertAt(list, k, s)) = Len(list) + 1
           /\ \A j \in 1 .. Len(list) + 1 :
                 InsertAt(list, k, s)[j] = IF j < k THEN list[j]
                                           ELSE IF j = k THEN s ELSE list[j - 1]
<1> DEFINE A == SubSeq(list, 1, k - 1)
           B == SubSeq(list, k, Len(list))
           C == A \o <<s>>
<1>1. Len(list) \in Nat /\ \A j \in 1 .. Len(list) : list[j] \in X
  BY ElementOfSeq, LenProperties
<1>2. A \in Seq(X) /\ Len(A) = k - 1 /\ \A j \in 1 .. k - 1 : A[j] = list[j]
  BY <1>1, SubSeqProperties
<1>3. /\ B \in Seq(X) /\ Len(B) = Len(list) - k + 1
      /\ \A j \in 1 .. Len(list) - k + 1 : B[j] = list[k + j - 1]
  BY <1>1, SubSeqProperties
<1>4. <<s>> \in Seq(X) /\ Len(<<s>>) = 1 /\ <<s>>[1] = s
  OBVIOUS
<1>5. InsertAt(list, k, s) = C \o B
  BY DEF InsertAt
<1> HIDE DEF A, B
<1>6. /\ C \in Seq(X) /\ Len(C) = k
      /\ \A j \in 1 .. k : C[j] = IF j <= k - 1 THEN list[j] ELSE s
  BY <1>1, <1>2, <1>4, ConcatProperties
<1> HIDE DEF C
<1>7. C \o B \in Seq(X) /\ Len(C \o B) = Len(C) + Len(B)
  BY <1>3, <1>6, ConcatProperties
<1>8. \A j \in 1 .. Len(C) + Len(B) :
         (C \o B)[j] = IF j <= Len(C) THEN C[j] ELSE B[j - Len(C)]
  BY <1>3, <1>6, ConcatProperties
<1>9. Len(C) + Len(B) = Len(list) + 1
  BY <1>1, <1>3, <1>6
<1>10. ASSUME NEW j \in 1 .. Len(list) + 1
       PROVE  (C \o B)[j] = IF j < k THEN list[j]
                            ELSE IF j = k THEN s ELSE list[j - 1]
  <2>1. (C \o B)[j] = IF j <= k THEN C[j] ELSE B[j - k]
    BY <1>6, <1>8, <1>9
  <2>2. CASE j <= k
    BY <1>1, <1>6, <2>1, <2>2
  <2>3. CASE j > k
    <3>1. j - k \in 1 .. Len(list) - k + 1 /\ k + (j - k) - 1 = j - 1
      BY <1>1, <2>3
    <3> QED
      BY <1>1, <1>3, <2>1, <2>3, <3>1
  <2>4. j <= k \/ j > k
    BY <1>1
  <2> QED
    BY <2>2, <2>3, <2>4
<1> QED
  BY <1>5, <1>7, <1>9, <1>10

LEMMA RemoveAtProperties ==
    ASSUME NEW X, NEW list \in Seq(X), NEW k \in 1 .. Len(list)
    PROVE  /\ RemoveAt(list, k) \in Seq(X)
           /\ Len(RemoveAt(list, k)) = Len(list) - 1
           /\ \A j \in 1 .. Len(list) - 1 :
                 RemoveAt(list, k)[j] = IF j < k THEN list[j] ELSE list[j + 1]
<1> DEFINE A == SubSeq(list, 1, k - 1)
           B == SubSeq(list, k + 1, Len(list))
<1>1. Len(list) \in Nat /\ \A j \in 1 .. Len(list) : list[j] \in X
  BY ElementOfSeq, LenProperties
<1>2. A \in Seq(X) /\ Len(A) = k - 1 /\ \A j \in 1 .. k - 1 : A[j] = list[j]
  BY <1>1, SubSeqProperties
<1>3. /\ B \in Seq(X) /\ Len(B) = Len(list) - k
      /\ \A j \in 1 .. Len(list) - k : B[j] = list[k + j]
  BY <1>1, SubSeqProperties
<1>4. RemoveAt(list, k) = A \o B
  BY DEF RemoveAt
<1> HIDE DEF A, B
<1>5. A \o B \in Seq(X) /\ Len(A \o B) = Len(A) + Len(B)
  BY <1>2, <1>3, ConcatProperties
<1>6. \A j \in 1 .. Len(A) + Len(B) :
         (A \o B)[j] = IF j <= Len(A) THEN A[j] ELSE B[j - Len(A)]
  BY <1>2, <1>3, ConcatProperties
<1>7. Len(A) + Len(B) = Len(list) - 1
  BY <1>1, <1>2, <1>3
<1>8. ASSUME NEW j \in 1 .. Len(list) - 1
      PROVE  (A \o B)[j] = IF j < k THEN list[j] ELSE list[j + 1]
  <2>1. (A \o B)[j] = IF j <= k - 1 THEN A[j] ELSE B[j - (k - 1)]
    BY <1>2, <1>6, <1>7
  <2>2. CASE j <= k - 1
    BY <1>1, <1>2, <2>1, <2>2
  <2>3. CASE j >= k
    <3>1. j - (k - 1) \in 1 .. Len(list) - k /\ k + (j - (k - 1)) = j + 1
      BY <1>1, <2>3
    <3> QED
      BY <1>1, <1>3, <2>1, <2>3, <3>1
  <2>4. j <= k - 1 \/ j >= k
    BY <1>1
  <2> QED
    BY <2>2, <2>3, <2>4
<1> QED
  BY <1>4, <1>5, <1>7, <1>8

\* The elements of a list are those at its positions.
LEMMA ListElements ==
    ASSUME NEW X, NEW list \in Seq(X)
    PROVE  /\ Len(list) \in Nat /\ DOMAIN list = 1 .. Len(list)
           /\ \A j \in 1 .. Len(list) : list[j] \in X
           /\ ToSet(list) = {list[j] : j \in 1 .. Len(list)}
           /\ list = <<>> <=> Len(list) = 0
  BY ElementOfSeq, LenProperties, EmptySeq DEF ToSet

\* An insertion adds the session to the elements, a removal takes it out when
\* it is in the list once.
LEMMA InsertAtElements ==
    ASSUME NEW X, NEW list \in Seq(X), NEW s \in X,
           NEW k \in 1 .. Len(list) + 1
    PROVE  ToSet(InsertAt(list, k, s)) = ToSet(list) \cup {s}
<1> DEFINE new == InsertAt(list, k, s)
           n   == Len(list)
<1>1. /\ n \in Nat /\ new \in Seq(X) /\ Len(new) = n + 1
      /\ \A j \in 1 .. n + 1 :
            new[j] = IF j < k THEN list[j] ELSE IF j = k THEN s ELSE list[j - 1]
  BY InsertAtProperties, ListElements
<1> HIDE DEF new
<1>2. /\ ToSet(new) = {new[j] : j \in 1 .. n + 1}
      /\ ToSet(list) = {list[j] : j \in 1 .. n}
  BY <1>1, ListElements
<1> HIDE DEF n
<1>3. ASSUME NEW j \in 1 .. n + 1 PROVE new[j] \in ToSet(list) \cup {s}
  <2>1. CASE j < k
    BY <1>1, <1>2, <2>1 DEF n
  <2>2. CASE j = k
    BY <1>1, <2>2
  <2>3. CASE j > k
    <3>1. j - 1 \in 1 .. n /\ new[j] = list[j - 1]
      BY <1>1, <2>3
    <3> QED
      BY <1>2, <3>1
  <2> QED
    BY <1>1, <2>1, <2>2, <2>3
<1>4. ASSUME NEW j \in 1 .. n PROVE list[j] \in ToSet(new)
  <2>1. CASE j < k
    <3>1. j \in 1 .. n + 1 /\ new[j] = list[j]
      BY <1>1, <2>1
    <3> QED
      BY <1>2, <3>1
  <2>2. CASE j >= k
    <3>1. j + 1 \in 1 .. n + 1 /\ new[j + 1] = list[j]
      BY <1>1, <2>2
    <3> QED
      BY <1>2, <3>1
  <2> QED
    BY <1>1, <2>1, <2>2
<1>5. s \in ToSet(new)
  <2>1. k \in 1 .. n + 1 /\ new[k] = s
    BY <1>1 DEF n
  <2> QED
    BY <1>2, <2>1
<1> QED
  BY <1>2, <1>3, <1>4, <1>5 DEF new

LEMMA RemoveAtElements ==
    ASSUME NEW X, NEW list \in Seq(X), NEW k \in 1 .. Len(list),
           \A i, j \in 1 .. Len(list) : list[i] = list[j] => i = j
    PROVE  ToSet(RemoveAt(list, k)) = ToSet(list) \ {list[k]}
<1> DEFINE new == RemoveAt(list, k)
           n   == Len(list)
<1>1. /\ n \in Nat /\ new \in Seq(X) /\ Len(new) = n - 1
      /\ \A j \in 1 .. n - 1 : new[j] = IF j < k THEN list[j] ELSE list[j + 1]
  BY RemoveAtProperties, ListElements
<1> HIDE DEF new
<1>2. /\ ToSet(new) = {new[j] : j \in 1 .. n - 1}
      /\ ToSet(list) = {list[j] : j \in 1 .. n}
  BY <1>1, ListElements
<1>3. ASSUME NEW j \in 1 .. n - 1 PROVE new[j] \in ToSet(list) \ {list[k]}
  <2>1. CASE j < k
    <3>1. j \in 1 .. n /\ j # k /\ new[j] = list[j]
      BY <1>1, <2>1
    <3> QED
      BY <1>2, <3>1
  <2>2. CASE j >= k
    <3>1. j + 1 \in 1 .. n /\ j + 1 # k /\ new[j] = list[j + 1]
      BY <1>1, <2>2
    <3> QED
      BY <1>2, <3>1
  <2> QED
    BY <1>1, <2>1, <2>2
<1>4. ASSUME NEW j \in 1 .. n, j # k PROVE list[j] \in ToSet(new)
  <2>1. CASE j < k
    <3>1. j \in 1 .. n - 1 /\ new[j] = list[j]
      BY <1>1, <2>1
    <3> QED
      BY <1>2, <3>1
  <2>2. CASE j > k
    <3>1. j - 1 \in 1 .. n - 1 /\ new[j - 1] = list[j]
      BY <1>1, <2>2
    <3> QED
      BY <1>2, <3>1
  <2> QED
    BY <1>1, <1>4, <2>1, <2>2
<1>5. ToSet(new) \subseteq ToSet(list) \ {list[k]}
  BY <1>2, <1>3
<1>6. ToSet(list) \ {list[k]} \subseteq ToSet(new)
  BY <1>2, <1>4
<1> QED
  BY <1>5, <1>6 DEF new

-----------------------------------------------------------------------------
(* Bins.                                                                   *)

LEMMA PowerUnfolds ==
    /\ Power2[0] = 1
    /\ \A n \in Nat : Power2[n] \in Nat \ {0} /\ Power2[n + 1] = 2 * Power2[n]
<1> DEFINE A == Nat \ {0}
<1>1. PICK F \in [A -> A] : \A x \in A : F[x] = 2 * x
  <2> DEFINE G == [x \in A |-> 2 * x]
  <2>1. G \in [A -> A] /\ \A x \in A : G[x] = 2 * x
    OBVIOUS
  <2> QED
    BY <2>1
<1>2. PICK a \in A : a = 1
  OBVIOUS
<1>3. PICK h \in [Nat -> A] : h[0] = a /\ \A n \in Nat : h[n + 1] = F[h[n]]
  <2> HIDE DEF A
  <2> QED
    BY Iteration
<1>4. h = [n \in Nat |-> IF n = 0 THEN 1 ELSE 2 * h[n - 1]]
  <2>1. \A n \in Nat : h[n] = IF n = 0 THEN 1 ELSE 2 * h[n - 1]
    <3>1. \A n \in Nat : n # 0 => /\ n - 1 \in Nat /\ (n - 1) + 1 = n
                                  /\ h[n - 1] \in A
      OBVIOUS
    <3> QED
      BY <1>1, <1>2, <1>3, <3>1
  <2> QED
    BY <2>1
<1>5. Power2 = [n \in Nat |-> IF n = 0 THEN 1 ELSE 2 * Power2[n - 1]]
  BY <1>4 DEF Power2
<1>6. Power2[0] = 1 /\ \A n \in Nat : Power2[n + 1] = 2 * Power2[n]
  <2> DEFINE P == Power2
  <2>1. P = [n \in Nat |-> IF n = 0 THEN 1 ELSE 2 * P[n - 1]]
    BY <1>5
  <2> HIDE DEF P
  <2>2. P[0] = 1
    BY <2>1
  <2>3. ASSUME NEW n \in Nat PROVE P[n + 1] = 2 * P[n]
    <3>1. n + 1 \in Nat /\ n + 1 # 0 /\ (n + 1) - 1 = n
      OBVIOUS
    <3> QED
      BY <2>1, <3>1
  <2> QED
    BY <2>2, <2>3 DEF P
<1>7. Nat \subseteq {n \in Nat : Power2[n] \in A}
  <2> DEFINE T == {n \in Nat : Power2[n] \in A}
  <2>1. 0 \in T /\ \A n \in Nat : n \in T => n + 1 \in T
    BY <1>6
  <2> HIDE DEF T
  <2> QED
    BY <2>1, AllNaturals DEF T
<1> QED
  BY <1>6, <1>7

\* Every service interval has a group.
LEMMA GroupIndexRange ==
    ASSUME NEW interval \in Nat, interval # 0
    PROVE  GroupIndex(interval) \in 0 .. MaxGroup
<1> DEFINE Fits(g) == Power2[g] <= interval
                      /\ (g = MaxGroup \/ interval < Power2[g + 1])
           T == {g \in 0 .. MaxGroup : g = MaxGroup \/ interval < Power2[g + 1]}
<1>1. MaxGroup \in Nat
  BY ShapeAssumption
<1>2. PICK g \in T : \A h \in T : g <= h
  <2>1. T \in SUBSET Nat /\ MaxGroup \in T
    BY <1>1
  <2> HIDE DEF T
  <2> QED
    BY <2>1, LeastNatural
<1>3. g \in Nat /\ g <= MaxGroup
  BY <1>1
<1>4. Power2[g] <= interval
  <2>1. CASE g = 0
    BY <2>1, PowerUnfolds
  <2>2. CASE g # 0
    <3>1. g - 1 \in 0 .. MaxGroup /\ g - 1 \in Nat /\ (g - 1) + 1 = g
      BY <1>1, <1>3, <2>2
    <3>2. g - 1 \notin T
      BY <1>2, <1>3
    <3>3. ~(interval < Power2[g])
      BY <3>1, <3>2
    <3> QED
      BY <1>3, <3>3, PowerUnfolds
  <2> QED
    BY <2>1, <2>2
<1>5. g \in 0 .. MaxGroup /\ Fits(g)
  BY <1>2, <1>4
<1>6. GroupIndex(interval) = CHOOSE h \in 0 .. MaxGroup : Fits(h)
  BY DEF GroupIndex
<1> HIDE DEF Fits
<1> QED
  BY <1>5, <1>6

\* Every session has a bin, and every bin has a bit in a word with a group bit.
LEMMA BinIndexRange ==
    ASSUME NEW group \in 0 .. MaxGroup, NEW finish \in Nat
    PROVE  BinIndex(group, finish) \in Bins
<1> DEFINE range == Power2[group + 1]
           size  == GS!Larger(range \div BinsPerGroup, 1)
           bin   == (finish % range) \div size
           place == IF bin >= BinsPerGroup THEN BinsPerGroup - 1 ELSE bin
<1>1. /\ BinsPerGroup \in Nat /\ BinsPerGroup # 0 /\ MaxGroup \in Nat
      /\ NumGroups \in Nat /\ NumGroups > MaxGroup
  BY ShapeAssumption, GroupsAssumption
<1>2. group \in Nat /\ group + 1 <= NumGroups
  BY <1>1
<1>3. range \in Nat /\ range # 0
  BY <1>2, PowerUnfolds
<1>4. BinIndex(group, finish) = group * BinsPerGroup + place
  BY DEF BinIndex
<1> HIDE DEF range
<1>5. size \in Nat /\ size # 0
  BY <1>1, <1>3 DEF GS!Larger
<1> HIDE DEF size
<1>6. finish % range \in Nat
  BY <1>3
<1>7. bin \in Nat
  BY <1>5, <1>6
<1> HIDE DEF bin
<1>8. place \in 0 .. BinsPerGroup - 1
  BY <1>1, <1>7
<1> HIDE DEF place
<1>9. /\ group * BinsPerGroup \in Nat /\ NumGroups * BinsPerGroup \in Nat
      /\ group * BinsPerGroup + BinsPerGroup <= NumGroups * BinsPerGroup
  <2>1. group * BinsPerGroup + BinsPerGroup = (group + 1) * BinsPerGroup
    BY <1>1, <1>2
  <2>2. (group + 1) * BinsPerGroup <= NumGroups * BinsPerGroup
    BY <1>1, <1>2
  <2> QED
    BY <1>1, <1>2, <2>1, <2>2
<1> QED
  BY <1>1, <1>4, <1>8, <1>9 DEF Bins, NumBins

LEMMA WordHasGroupBit ==
    ASSUME NEW b \in Bins
    PROVE  WordOf(b) < GroupBits
<1>1. /\ b \in Nat /\ b < NumBins /\ NumBins \in Nat
      /\ WordBits \in Nat \ {0} /\ GroupBits \in Nat
      /\ NumBins <= GroupBits * WordBits
  BY ShapeAssumption, GroupsAssumption, SpanAssumption DEF Bins, NumBins
<1>2. b < GroupBits * WordBits
  BY <1>1
<1>3. WordOf(b) \in Nat /\ WordBits * WordOf(b) <= b
  BY <1>1 DEF WordOf
<1>4. WordOf(b) >= GroupBits => WordBits * WordOf(b) >= WordBits * GroupBits
  BY <1>1, <1>3
<1> QED
  BY <1>1, <1>2, <1>3, <1>4

-----------------------------------------------------------------------------
(* The order of a list.                                                    *)

LEMMA SessionTags ==
    ASSUME NEW s \in GS!SessionStates
    PROVE  /\ s.start \in Nat /\ s.finish \in Nat
           /\ s.start <= MaxU /\ s.finish <= MaxU
           /\ s.id \in SessionIds /\ s.entry \in EntryIds
           /\ s.size \in WorkSizes
  BY SchedulerAssumption DEF GS!SessionStates, GS!WidthAssumption

\* session_less is a strict weak order.
LEMMA LessOrder ==
    ASSUME NEW r \in GS!SessionStates, NEW s \in GS!SessionStates,
           NEW t \in GS!SessionStates
    PROVE  /\ Less(r, s) => ~Less(s, r)
           /\ ~Less(r, s) /\ ~Less(s, t) => ~Less(r, t)
           /\ ~Less(r, s) => s.finish <= r.finish
  BY SessionTags DEF Less

Ordered(list) == \A i, j \in DOMAIN list : i < j => ~Less(list[j], list[i])

\* No element is in the list twice.
Once(list) == \A i, j \in DOMAIN list : list[i] = list[j] => i = j

\* The positions up to which all are good are those before the first that is
\* not.
LEMMA PrefixCount ==
    ASSUME NEW n \in Nat, NEW Good
    PROVE  \E k \in 1 .. n + 1 :
              /\ \A i \in 1 .. k - 1 : i \in Good
              /\ k <= n => k \notin Good
              /\ 1 + Cardinality({i \in 1 .. n : \A j \in 1 .. i : j \in Good}) = k
<1> DEFINE T == {k \in 1 .. n + 1 : k = n + 1 \/ k \notin Good}
           P == {i \in 1 .. n : \A j \in 1 .. i : j \in Good}
<1>1. PICK k \in T : \A j \in T : k <= j
  <2>1. T \in SUBSET Nat /\ n + 1 \in T
    OBVIOUS
  <2> HIDE DEF T
  <2> QED
    BY <2>1, LeastNatural
<1>2. \A i \in 1 .. k - 1 : i \in Good
  BY <1>1
<1>3. k \in 1 .. n + 1 /\ (k <= n => k \notin Good)
  OBVIOUS
<1>4. P = 1 .. k - 1
  <2>1. 1 .. k - 1 \subseteq P
    BY <1>2, <1>3
  <2>2. ASSUME NEW i \in P PROVE i \in 1 .. k - 1
    BY <1>3
  <2> QED
    BY <2>1, <2>2
<1>5. Cardinality(P) = k - 1
  <2>1. k - 1 \in Nat
    BY <1>3
  <2> HIDE DEF P
  <2> QED
    BY <1>4, <2>1, UpToCard
<1> HIDE DEF P, T
<1>6. 1 + Cardinality(P) = k
  BY <1>3, <1>5
<1> QED
  BY <1>2, <1>3, <1>6 DEF P

\* Sorted puts a session behind those that are less.
LEMMA SortedPlace ==
    ASSUME NEW list \in Seq(GS!SessionStates), NEW s \in GS!SessionStates
    PROVE  \E k \in 1 .. Len(list) + 1 :
              /\ Sorted(list, s) = InsertAt(list, k, s)
              /\ \A i \in 1 .. k - 1 : Less(list[i], s)
              /\ k <= Len(list) => ~Less(list[k], s)
<1> DEFINE n    == Len(list)
           Good == {i \in 1 .. n : Less(list[i], s)}
           P    == {i \in 1 .. n : \A j \in 1 .. i : j \in Good}
<1>1. n \in Nat /\ DOMAIN list = 1 .. n
  BY ListElements
<1>2. P = {i \in DOMAIN list : \A j \in 1 .. i : Less(list[j], s)}
  BY <1>1
<1>3. PICK k \in 1 .. n + 1 :
         /\ \A i \in 1 .. k - 1 : i \in Good
         /\ k <= n => k \notin Good
         /\ 1 + Cardinality(P) = k
  <2> HIDE DEF Good, n
  <2> QED
    BY <1>1, PrefixCount
<1>4. Sorted(list, s) = InsertAt(list, k, s)
  <2> HIDE DEF P
  <2> QED
    BY <1>2, <1>3 DEF Sorted
<1>5. \A i \in 1 .. k - 1 : Less(list[i], s)
  BY <1>3
<1>6. k <= n => ~Less(list[k], s)
  BY <1>3
<1> QED
  BY <1>3, <1>4, <1>5, <1>6

\* An ordered list stays ordered, and its elements gain the session.
LEMMA SortedInsertion ==
    ASSUME NEW list \in Seq(GS!SessionStates), NEW s \in GS!SessionStates,
           Ordered(list)
    PROVE  /\ Sorted(list, s) \in Seq(GS!SessionStates)
           /\ Ordered(Sorted(list, s))
           /\ ToSet(Sorted(list, s)) = ToSet(list) \cup {s}
           /\ Sorted(list, s) # <<>>
           /\ Once(list) /\ s \notin ToSet(list) => Once(Sorted(list, s))
<1> DEFINE X   == GS!SessionStates
           n   == Len(list)
           new == Sorted(list, s)
<1>1. PICK k \in 1 .. n + 1 :
         /\ new = InsertAt(list, k, s)
         /\ \A i \in 1 .. k - 1 : Less(list[i], s)
         /\ k <= n => ~Less(list[k], s)
  BY SortedPlace
<1>2. /\ n \in Nat /\ DOMAIN list = 1 .. n
      /\ \A i \in 1 .. n : list[i] \in X
      /\ ToSet(list) = {list[i] : i \in 1 .. n}
  BY ListElements
<1>3. /\ new \in Seq(X) /\ Len(new) = n + 1
      /\ \A i \in 1 .. n + 1 :
            new[i] = IF i < k THEN list[i] ELSE IF i = k THEN s ELSE list[i - 1]
  <2>1. /\ InsertAt(list, k, s) \in Seq(X)
        /\ Len(InsertAt(list, k, s)) = Len(list) + 1
        /\ \A i \in 1 .. Len(list) + 1 :
              InsertAt(list, k, s)[i] = IF i < k THEN list[i]
                                        ELSE IF i = k THEN s ELSE list[i - 1]
    <3> HIDE DEF X
    <3>1. list \in Seq(X) /\ s \in X /\ k \in 1 .. Len(list) + 1
      BY DEF X
    <3> QED
      BY <3>1, InsertAtProperties
  <2> HIDE DEF X, new
  <2> QED
    BY <1>1, <2>1
<1>4. ToSet(new) = ToSet(list) \cup {s}
  BY <1>1, InsertAtElements
<1>5. DOMAIN new = 1 .. n + 1 /\ new # <<>>
  BY <1>2, <1>3, ListElements
<1> HIDE DEF new, n, X
<1>6. ASSUME NEW i \in 1 .. n + 1, NEW j \in 1 .. n + 1, i < j
      PROVE  ~Less(new[j], new[i])
  <2>1. i \in Int /\ j \in Int /\ k \in Int /\ i >= 1 /\ j <= n + 1
    BY <1>2
  <2>2. CASE j < k
    <3>1. i \in 1 .. n /\ j \in 1 .. n /\ new[i] = list[i] /\ new[j] = list[j]
      BY <1>2, <1>3, <1>6, <2>1, <2>2
    <3> QED
      BY <1>2, <1>6, <3>1 DEF Ordered
  <2>3. CASE j = k
    <3>1. i \in 1 .. k - 1 /\ i \in 1 .. n /\ new[i] = list[i] /\ new[j] = s
      BY <1>2, <1>3, <1>6, <2>1, <2>3
    <3>2. Less(list[i], s) /\ list[i] \in X
      BY <1>1, <1>2, <3>1
    <3> QED
      BY <3>1, <3>2, LessOrder DEF X
  <2>4. CASE i = k
    <3>1. /\ j - 1 \in 1 .. n /\ k \in 1 .. n /\ k <= j - 1
          /\ new[j] = list[j - 1] /\ new[i] = s
      BY <1>2, <1>3, <1>6, <2>1, <2>4
    <3>2. ~Less(list[k], s) /\ list[k] \in X /\ list[j - 1] \in X
      BY <1>1, <1>2, <3>1
    <3>3. list[j - 1] = list[k] \/ ~Less(list[j - 1], list[k])
      BY <1>2, <2>1, <3>1 DEF Ordered
    <3> QED
      BY <3>1, <3>2, <3>3, LessOrder DEF X
  <2>5. CASE i < k /\ j > k
    <3>1. /\ i \in 1 .. n /\ j - 1 \in 1 .. n /\ i < j - 1
          /\ new[i] = list[i] /\ new[j] = list[j - 1]
      BY <1>2, <1>3, <1>6, <2>1, <2>5
    <3> QED
      BY <1>2, <3>1 DEF Ordered
  <2>6. CASE i > k
    <3>1. /\ i - 1 \in 1 .. n /\ j - 1 \in 1 .. n /\ i - 1 < j - 1
          /\ new[i] = list[i - 1] /\ new[j] = list[j - 1]
      BY <1>2, <1>3, <1>6, <2>1, <2>6
    <3> QED
      BY <1>2, <3>1 DEF Ordered
  <2> QED
    BY <1>6, <2>1, <2>2, <2>3, <2>4, <2>5, <2>6
<1>7. ASSUME Once(list), s \notin ToSet(list),
             NEW i \in 1 .. n + 1, NEW j \in 1 .. n + 1, new[i] = new[j]
      PROVE  i = j
  <2>1. i \in Int /\ j \in Int /\ k \in Int /\ \A h \in 1 .. n : list[h] # s
    BY <1>2, <1>7
  <2>2. ASSUME NEW h \in 1 .. n + 1
        PROVE  \/ h < k /\ h \in 1 .. n /\ new[h] = list[h]
               \/ h = k /\ new[h] = s
               \/ h > k /\ h - 1 \in 1 .. n /\ new[h] = list[h - 1]
    BY <1>2, <1>3, <2>1
  <2>3. \/ i < k /\ i \in 1 .. n /\ new[i] = list[i]
        \/ i = k /\ new[i] = s
        \/ i > k /\ i - 1 \in 1 .. n /\ new[i] = list[i - 1]
    BY <2>2
  <2>4. \/ j < k /\ j \in 1 .. n /\ new[j] = list[j]
        \/ j = k /\ new[j] = s
        \/ j > k /\ j - 1 \in 1 .. n /\ new[j] = list[j - 1]
    BY <2>2
  <2> QED
    BY <1>2, <1>7, <2>1, <2>3, <2>4 DEF Once
<1>8. Ordered(new)
  BY <1>5, <1>6 DEF Ordered
<1>9. Once(list) /\ s \notin ToSet(list) => Once(new)
  BY <1>5, <1>7 DEF Once
<1> QED
  BY <1>3, <1>4, <1>5, <1>8, <1>9 DEF new, X

\* Unlinking a session keeps the order of the others.
LEMMA OrderedRemoval ==
    ASSUME NEW list \in Seq(GS!SessionStates), NEW k \in DOMAIN list,
           Ordered(list), Once(list)
    PROVE  /\ RemoveAt(list, k) \in Seq(GS!SessionStates)
           /\ Ordered(RemoveAt(list, k))
           /\ ToSet(RemoveAt(list, k)) = ToSet(list) \ {list[k]}
           /\ Once(RemoveAt(list, k))
<1> DEFINE X   == GS!SessionStates
           n   == Len(list)
           new == RemoveAt(list, k)
<1>1. /\ n \in Nat /\ DOMAIN list = 1 .. n /\ k \in 1 .. n
      /\ \A i \in 1 .. n : list[i] \in X
  BY ListElements
<1>2. /\ new \in Seq(X) /\ Len(new) = n - 1
      /\ \A i \in 1 .. n - 1 : new[i] = IF i < k THEN list[i] ELSE list[i + 1]
  <2>1. /\ RemoveAt(list, k) \in Seq(X)
        /\ Len(RemoveAt(list, k)) = Len(list) - 1
        /\ \A i \in 1 .. Len(list) - 1 :
              RemoveAt(list, k)[i] = IF i < k THEN list[i] ELSE list[i + 1]
    <3> HIDE DEF X
    <3>1. list \in Seq(X) /\ k \in 1 .. Len(list)
      BY <1>1 DEF X
    <3> QED
      BY <3>1, RemoveAtProperties, Zenon
  <2> QED
    BY <2>1
<1>3. ToSet(new) = ToSet(list) \ {list[k]}
  BY <1>1, RemoveAtElements DEF Once
<1>4. DOMAIN new = 1 .. n - 1
  BY <1>1, <1>2, ListElements
<1> HIDE DEF new, n, X
<1> DEFINE old(i) == IF i < k THEN i ELSE i + 1
<1>5. \A i \in 1 .. n - 1 : old(i) \in 1 .. n /\ new[i] = list[old(i)]
  BY <1>1, <1>2
<1>6. \A i, j \in 1 .. n - 1 : i < j => old(i) < old(j)
  BY <1>1
<1>7. \A i, j \in 1 .. n - 1 : old(i) = old(j) => i = j
  BY <1>1
<1> HIDE DEF old
<1>8. Ordered(new)
  BY <1>1, <1>4, <1>5, <1>6 DEF Ordered
<1>9. Once(new)
  BY <1>1, <1>4, <1>5, <1>7 DEF Once
<1> QED
  BY <1>2, <1>3, <1>8, <1>9 DEF new, X

LEMMA ShiftedSessionFields ==
    ASSUME NEW s \in GS!SessionStates, NEW d \in Nat
    PROVE  /\ GS!ShiftedSession(s, d) \in GS!SessionStates
           /\ GS!ShiftedSession(s, d).id = s.id
           /\ GS!ShiftedSession(s, d).start = GS!Shifted(s.start, d)
           /\ GS!ShiftedSession(s, d).finish = GS!Shifted(s.finish, d)
<1>1. /\ GS!Shifted(s.start, d) \in 0 .. MaxU
      /\ GS!Shifted(s.finish, d) \in 0 .. MaxU
  BY SessionTags, SchedulerAssumption DEF GS!Shifted, GS!WidthAssumption
<1> QED
  BY <1>1 DEF GS!ShiftedSession, GS!SessionStates

\* A rebase clamps tags to 0 and keeps the order all the same: a session whose
\* finish time is clamped has its start time clamped as well.
LEMMA ShiftedOrder ==
    ASSUME NEW r \in GS!SessionStates, NEW s \in GS!SessionStates, NEW d \in Nat,
           r.start <= r.finish, s.start <= s.finish, ~Less(r, s)
    PROVE  ~Less(GS!ShiftedSession(r, d), GS!ShiftedSession(s, d))
<1>1. /\ r.start \in Nat /\ r.finish \in Nat
      /\ s.start \in Nat /\ s.finish \in Nat
  BY SessionTags
<1>2. \/ s.finish < r.finish
      \/ s.finish = r.finish /\ s.start <= r.start
  BY <1>1 DEF Less
<1>3. \/ GS!Shifted(s.finish, d) < GS!Shifted(r.finish, d)
      \/ /\ GS!Shifted(s.finish, d) = GS!Shifted(r.finish, d)
         /\ GS!Shifted(s.start, d) <= GS!Shifted(r.start, d)
  BY <1>1, <1>2 DEF GS!Shifted
<1>4. /\ GS!Shifted(r.start, d) \in Nat /\ GS!Shifted(r.finish, d) \in Nat
      /\ GS!Shifted(s.start, d) \in Nat /\ GS!Shifted(s.finish, d) \in Nat
  BY <1>1 DEF GS!Shifted
<1> DEFINE x == GS!ShiftedSession(r, d)
           y == GS!ShiftedSession(s, d)
<1>5. /\ x.start = GS!Shifted(r.start, d) /\ x.finish = GS!Shifted(r.finish, d)
      /\ y.start = GS!Shifted(s.start, d) /\ y.finish = GS!Shifted(s.finish, d)
  BY ShiftedSessionFields
<1> HIDE DEF x, y
<1>6. ~Less(x, y)
  BY <1>3, <1>4, <1>5 DEF Less
<1> QED
  BY <1>6 DEF x, y

LEMMA RebasedList ==
    ASSUME NEW list \in Seq(GS!SessionStates), NEW d \in Nat,
           Ordered(list), Once(list),
           \A s \in ToSet(list) : s.start <= s.finish,
           \A r, s \in ToSet(list) : r.id = s.id => r = s
    PROVE  /\ Rebased(list, d) \in Seq(GS!SessionStates)
           /\ Ordered(Rebased(list, d))
           /\ Once(Rebased(list, d))
           /\ ToSet(Rebased(list, d)) =
                 {GS!ShiftedSession(s, d) : s \in ToSet(list)}
           /\ DOMAIN Rebased(list, d) = DOMAIN list
           /\ \A i \in DOMAIN list :
                 Rebased(list, d)[i] = GS!ShiftedSession(list[i], d)
           /\ Rebased(list, d) = <<>> <=> list = <<>>
<1> DEFINE X   == GS!SessionStates
           n   == Len(list)
           new == Rebased(list, d)
<1>1. /\ n \in Nat /\ DOMAIN list = 1 .. n
      /\ \A i \in 1 .. n : list[i] \in X
      /\ ToSet(list) = {list[i] : i \in 1 .. n}
      /\ list = <<>> <=> n = 0
  BY ListElements
<1>2. new = [i \in 1 .. n |-> GS!ShiftedSession(list[i], d)]
  BY <1>1 DEF Rebased
<1>3. \A i \in 1 .. n : GS!ShiftedSession(list[i], d) \in X
  BY <1>1, ShiftedSessionFields
<1> HIDE DEF n, new
<1>4. new \in [1 .. n -> X]
  BY <1>2, <1>3
<1>5. new \in Seq(X)
  BY <1>1, <1>4, SeqDef
<1>6. DOMAIN new = 1 .. n /\ Len(new) = n
  BY <1>1, <1>4, <1>5, ListElements
<1>7. \A i \in 1 .. n : new[i] = GS!ShiftedSession(list[i], d)
  BY <1>2
<1>8. new = <<>> <=> list = <<>>
  BY <1>1, <1>5, <1>6, ListElements
<1>9. ToSet(new) = {GS!ShiftedSession(s, d) : s \in ToSet(list)}
  <2>1. ToSet(new) = {new[i] : i \in 1 .. n}
    BY <1>6 DEF ToSet
  <2> QED
    BY <1>1, <1>7, <2>1
<1>10. Ordered(new)
  <2> SUFFICES ASSUME NEW i \in 1 .. n, NEW j \in 1 .. n, i < j
               PROVE  ~Less(GS!ShiftedSession(list[j], d),
                            GS!ShiftedSession(list[i], d))
    BY <1>6, <1>7 DEF Ordered
  <2>1. /\ list[i] \in X /\ list[j] \in X /\ ~Less(list[j], list[i])
        /\ list[i].start <= list[i].finish /\ list[j].start <= list[j].finish
    BY <1>1 DEF Ordered
  <2> QED
    BY <2>1, ShiftedOrder
<1>11. Once(new)
  <2> SUFFICES ASSUME NEW i \in 1 .. n, NEW j \in 1 .. n, new[i] = new[j]
               PROVE  i = j
    BY <1>6 DEF Once
  <2>1. list[i].id = list[j].id
    <3>1. /\ list[i] \in GS!SessionStates /\ list[j] \in GS!SessionStates
          /\ GS!ShiftedSession(list[i], d) = GS!ShiftedSession(list[j], d)
      BY <1>1, <1>7
    <3> DEFINE r == list[i]
               s == list[j]
    <3> HIDE DEF r, s
    <3>2. r \in GS!SessionStates /\ s \in GS!SessionStates
      BY <3>1 DEF r, s
    <3>3. GS!ShiftedSession(r, d).id = r.id
      BY <3>2, ShiftedSessionFields
    <3>4. GS!ShiftedSession(s, d).id = s.id
      BY <3>2, ShiftedSessionFields
    <3> QED
      BY <3>1, <3>3, <3>4 DEF r, s
  <2> QED
    BY <1>1, <2>1 DEF Once
<1> QED
  BY <1>1, <1>5, <1>6, <1>7, <1>8, <1>9, <1>10, <1>11 DEF new, X

-----------------------------------------------------------------------------
(* The group scheduler that the calendar implements, with its theorems.    *)

GSP == INSTANCE GroupSchedulerProofs
          WITH queued <- Queued,
               CanSaturate <- FALSE, CanPutBack <- TRUE, CanReconfigure <- FALSE

LEMMA SameOperators ==
    /\ GS!Configured = GSP!Configured
    /\ GS!SessionStates = GSP!SessionStates
    /\ GS!SearchTime = GSP!SearchTime
    /\ GS!vars = GSP!vars
    /\ \A e : GS!ServiceRate(e) = GSP!ServiceRate(e)
    /\ \A size, rate : GS!ServiceInterval(size, rate) = GSP!ServiceInterval(size, rate)
    /\ \A v : GS!Eligible(v) = GSP!Eligible(v)
    /\ \A z : GS!AdvancedTime(z) = GSP!AdvancedTime(z)
<1>1. GS!Configured = GSP!Configured
  BY DEF GS!Configured, GSP!Configured
<1>2. GS!SessionStates = GSP!SessionStates
  BY DEF GS!SessionStates, GSP!SessionStates
<1>3. \A v : GS!Eligible(v) = GSP!Eligible(v)
  BY DEF GS!Eligible, GSP!Eligible
<1>4. GS!SearchTime = GSP!SearchTime
  BY DEF GS!SearchTime, GSP!SearchTime, GS!Eligible, GSP!Eligible,
         GS!Larger, GSP!Larger
<1>5. GS!vars = GSP!vars
  BY DEF GS!vars, GSP!vars, GS!entryVars, GSP!entryVars, GS!rateVars,
         GSP!rateVars, GS!timeVars, GSP!timeVars
<1>6. \A e : GS!ServiceRate(e) = GSP!ServiceRate(e)
  BY DEF GS!ServiceRate, GSP!ServiceRate, GS!IsRate, GSP!IsRate,
         GS!EffectiveRate, GSP!EffectiveRate, GS!Share, GSP!Share,
         GS!Wrap, GSP!Wrap, GS!Larger, GSP!Larger
<1>7. \A size, rate :
         GS!ServiceInterval(size, rate) = GSP!ServiceInterval(size, rate)
  BY DEF GS!ServiceInterval, GSP!ServiceInterval, GS!Larger, GSP!Larger
<1>8. \A z : GS!AdvancedTime(z) = GSP!AdvancedTime(z)
  BY DEF GS!AdvancedTime, GSP!AdvancedTime, GS!Advance, GSP!Advance,
         GS!FinishTime, GSP!FinishTime, GS!Wrap, GSP!Wrap, GS!Larger, GSP!Larger
<1> QED
  BY <1>1, <1>2, <1>3, <1>4, <1>5, <1>6, <1>7, <1>8

LEMMA SameNext == GS!Next => GSP!Next
<1>1. \A id, e, z : GS!Insert(id, e, z) <=> GSP!Insert(id, e, z)
  BY SameOperators
  DEF GS!Insert, GSP!Insert, GS!StartTime, GSP!StartTime, GS!FinishTime,
      GSP!FinishTime, GS!Larger, GSP!Larger
<1>2. \A s : GS!Remove(s) <=> GSP!Remove(s)
  BY DEF GS!Remove, GSP!Remove
<1>3. \A v : GS!Rebase(v) <=> GSP!Rebase(v)
  BY DEF GS!Rebase, GSP!Rebase, GS!Shifted, GSP!Shifted, GS!ShiftedSession,
         GSP!ShiftedSession, GS!Configured, GSP!Configured
<1>4. \A e, a : GS!ConfigureEntry(e, a) <=> GSP!ConfigureEntry(e, a)
  BY DEF GS!ConfigureEntry, GSP!ConfigureEntry, GS!Overbooked, GSP!Overbooked,
         GS!RateWith, GSP!RateWith, GS!WeightWith, GSP!WeightWith, GS!Plus,
         GSP!Plus, GS!Minus, GSP!Minus, GS!RateOf, GSP!RateOf, GS!WeightOf,
         GSP!WeightOf, GS!IsRate, GSP!IsRate, GS!Configured, GSP!Configured,
         GS!Recalculated, GSP!Recalculated, GS!EffectiveRate,
         GSP!EffectiveRate, GS!Share, GSP!Share, GS!Wrap, GSP!Wrap, GS!Larger,
         GSP!Larger, GS!timeVars, GSP!timeVars
<1>5. \A e : GS!RemoveEntry(e) <=> GSP!RemoveEntry(e)
  BY DEF GS!RemoveEntry, GSP!RemoveEntry, GS!Minus, GSP!Minus, GS!RateOf,
         GSP!RateOf, GS!WeightOf, GSP!WeightOf, GS!IsRate, GSP!IsRate,
         GS!Configured, GSP!Configured, GS!Recalculated, GSP!Recalculated,
         GS!EffectiveRate, GSP!EffectiveRate, GS!Share, GSP!Share, GS!Wrap,
         GSP!Wrap, GS!Larger, GSP!Larger, GS!timeVars, GSP!timeVars
<1>6. \A e, z : GS!Enqueue(e, z) <=> GSP!Enqueue(e, z)
  BY <1>1, SameOperators DEF GS!Enqueue, GSP!Enqueue, GS!rateVars, GSP!rateVars
<1>7. GS!PutBack <=> GSP!PutBack
  BY <1>1, SameOperators DEF GS!PutBack, GSP!PutBack, GS!rateVars, GSP!rateVars
<1>8. GS!Dequeue <=> GSP!Dequeue
  BY <1>2, SameOperators
  DEF GS!Dequeue, GSP!Dequeue, GS!entryVars, GSP!entryVars, GS!rateVars,
      GSP!rateVars
<1>9. GS!DequeueFails <=> GSP!DequeueFails
  BY SameOperators
  DEF GS!DequeueFails, GSP!DequeueFails, GS!entryVars, GSP!entryVars,
      GS!rateVars, GSP!rateVars
<1>10. GS!RemoveSession <=> GSP!RemoveSession
  BY <1>2 DEF GS!RemoveSession, GSP!RemoveSession, GS!entryVars, GSP!entryVars,
              GS!rateVars, GSP!rateVars
<1>11. GS!UpdateVirtualTime <=> GSP!UpdateVirtualTime
  BY <1>3, SameOperators
  DEF GS!UpdateVirtualTime, GSP!UpdateVirtualTime, GS!rateVars, GSP!rateVars
<1> QED
  BY <1>4, <1>5, <1>6, <1>7, <1>8, <1>9, <1>10, <1>11 DEF GS!Next, GSP!Next

-----------------------------------------------------------------------------
(* The inductive invariant.                                                *)

\* The lists and their bits: every session is at one place.
CalendarInv ==
    /\ bins \in [Bins -> Seq(GS!SessionStates)]
    /\ BitfieldsAgree
    /\ \A b \in Bins : Ordered(bins[b]) /\ Once(bins[b])
    /\ \A b, c \in Bins : b # c => ToSet(bins[b]) \cap ToSet(bins[c]) = {}

\* The invariants of the group scheduler for the sessions of all bins.
SchedulerInv == GSP!MinInv /\ GSP!IdInv

Inv == CalendarInv /\ SchedulerInv

LEMMA BinElements ==
    ASSUME CalendarInv, NEW b \in Bins
    PROVE  /\ bins[b] \in Seq(GS!SessionStates)
           /\ ToSet(bins[b]) \subseteq GS!SessionStates
           /\ ToSet(bins[b]) \subseteq Queued
           /\ bins[b] # <<>> <=> ToSet(bins[b]) # {}
<1>1. bins[b] \in Seq(GS!SessionStates)
  BY DEF CalendarInv
<1>2. /\ Len(bins[b]) \in Nat
      /\ \A j \in 1 .. Len(bins[b]) : bins[b][j] \in GS!SessionStates
      /\ ToSet(bins[b]) = {bins[b][j] : j \in 1 .. Len(bins[b])}
      /\ bins[b] = <<>> <=> Len(bins[b]) = 0
  BY <1>1, ListElements
<1>3. bins[b] # <<>> => ToSet(bins[b]) # {}
  <2>1. bins[b] # <<>> => 1 \in 1 .. Len(bins[b])
    BY <1>2
  <2> QED
    BY <1>2, <2>1
<1>4. bins[b] = <<>> => ToSet(bins[b]) = {}
  BY <1>2
<1> QED
  BY <1>1, <1>2, <1>3, <1>4 DEF Queued

LEMMA QueuedSessions ==
    ASSUME CalendarInv
    PROVE  Queued \subseteq GS!SessionStates
  BY BinElements DEF Queued

\* What the calendar's actions use of the scheduler's invariants.
LEMMA SchedulerParts ==
    ASSUME SchedulerInv
    PROVE  /\ GS!Configured \subseteq EntryIds
           /\ lastFinish \in [EntryIds -> 0 .. MaxU]
           /\ minStart \in 0 .. MaxU /\ minStart \in Nat
           /\ virtualTime \in 0 .. MaxU /\ virtualTime \in Nat
           /\ out \subseteq GS!SessionStates
           /\ MaxU \in Nat /\ MaxU # 0
           /\ \A s \in Queued : s.start <= s.finish /\ s.finish < MaxU
           /\ \A r, s \in Queued : r.id = s.id => r = s
           /\ \A s \in Queued, o \in out : s.id # o.id
           /\ \A s \in out : s.entry \in GS!Configured
<1>1. MaxU \in Nat /\ MaxU # 0
  BY SchedulerAssumption DEF GS!WidthAssumption
<1>2. GSP!TypeOK /\ GSP!EntriesLive /\ GSP!Unsaturated /\ GSP!UniqueIds
  BY DEF SchedulerInv, GSP!MinInv, GSP!IdInv, GSP!TypeInv
<1>3. /\ GS!Configured \subseteq EntryIds
      /\ lastFinish \in [EntryIds -> 0 .. MaxU]
      /\ minStart \in 0 .. MaxU /\ virtualTime \in 0 .. MaxU
      /\ out \subseteq GS!SessionStates
  BY <1>2, SameOperators DEF GSP!TypeOK
<1>4. \A s \in out : s.entry \in GS!Configured
  BY <1>2, SameOperators DEF GSP!EntriesLive
<1>5. \A s \in Queued : s.start <= s.finish /\ s.finish < MaxU
  BY <1>2 DEF GSP!Unsaturated
<1>6. /\ \A r, s \in Queued : r.id = s.id => r = s
      /\ \A s \in Queued, o \in out : s.id # o.id
  BY <1>2 DEF GSP!UniqueIds
<1> QED
  BY <1>1, <1>3, <1>4, <1>5, <1>6

\* A bin is given another list.
LEMMA BinReplaced ==
    ASSUME CalendarInv, NEW b \in Bins, NEW new \in Seq(GS!SessionStates),
           bins' = [bins EXCEPT ![b] = new],
           Ordered(new), Once(new),
           (Queued \ ToSet(bins[b])) \cap ToSet(new) = {}
    PROVE  /\ bins' \in [Bins -> Seq(GS!SessionStates)]
           /\ \A c \in Bins : Ordered(bins'[c]) /\ Once(bins'[c])
           /\ \A c, d \in Bins : c # d => ToSet(bins'[c]) \cap ToSet(bins'[d]) = {}
           /\ Queued' = (Queued \ ToSet(bins[b])) \cup ToSet(new)
<1>1. /\ bins \in [Bins -> Seq(GS!SessionStates)]
      /\ \A c \in Bins : Ordered(bins[c]) /\ Once(bins[c])
      /\ \A c, d \in Bins : c # d => ToSet(bins[c]) \cap ToSet(bins[d]) = {}
  BY DEF CalendarInv
<1>2. /\ bins' \in [Bins -> Seq(GS!SessionStates)]
      /\ bins'[b] = new
      /\ \A c \in Bins : c # b => bins'[c] = bins[c]
  BY <1>1
<1>3. \A c \in Bins : Ordered(bins'[c]) /\ Once(bins'[c])
  BY <1>1, <1>2
<1>4. \A c \in Bins : ToSet(bins[c]) \subseteq Queued
  BY BinElements
<1>5. \A c \in Bins : c # b => ToSet(bins[c]) \subseteq Queued \ ToSet(bins[b])
  BY <1>1, <1>4
<1>6. \A c, d \in Bins : c # d => ToSet(bins'[c]) \cap ToSet(bins'[d]) = {}
  <2> SUFFICES ASSUME NEW c \in Bins, NEW d \in Bins, c # d
               PROVE  ToSet(bins'[c]) \cap ToSet(bins'[d]) = {}
    OBVIOUS
  <2>1. CASE c = b
    BY <1>2, <1>5, <2>1
  <2>2. CASE d = b
    BY <1>2, <1>5, <2>2
  <2>3. CASE c # b /\ d # b
    BY <1>1, <1>2, <2>3
  <2> QED
    BY <2>1, <2>2, <2>3
<1>7. Queued' = UNION {ToSet(bins'[c]) : c \in Bins}
  BY DEF Queued
<1>8. Queued' = (Queued \ ToSet(bins[b])) \cup ToSet(new)
  <2>1. ASSUME NEW s \in Queued' PROVE s \in (Queued \ ToSet(bins[b])) \cup ToSet(new)
    <3>1. PICK c \in Bins : s \in ToSet(bins'[c])
      BY <1>7
    <3> QED
      BY <1>2, <1>5, <3>1
  <2>2. ASSUME NEW s \in Queued, s \notin ToSet(bins[b]) PROVE s \in Queued'
    <3>1. PICK c \in Bins : s \in ToSet(bins[c])
      BY DEF Queued
    <3>2. c # b /\ bins'[c] = bins[c]
      BY <1>2, <2>2, <3>1
    <3> QED
      BY <1>7, <3>1, <3>2
  <2>3. ToSet(new) \subseteq Queued'
    BY <1>2, <1>7
  <2> QED
    BY <2>1, <2>2, <2>3
<1> QED
  BY <1>2, <1>3, <1>6, <1>8

-----------------------------------------------------------------------------
(* The insertion.                                                          *)

LEMMA InsertStep ==
    ASSUME Inv, NEW id \in SessionIds, NEW e \in GS!Configured,
           NEW z \in WorkSizes, GS!ServiceRate(e) # 0,
           \A s \in Queued : s.id # id, Insert(id, e, z)
    PROVE  CalendarInv' /\ GS!Insert(id, e, z)
<1> DEFINE interval == GS!ServiceInterval(z, GS!ServiceRate(e))
           start    == GS!StartTime(e)
           finish   == GS!FinishTime(start, interval)
           bin      == BinIndex(GroupIndex(interval), finish)
           session  == [id |-> id, entry |-> e, size |-> z,
                        start |-> start, finish |-> finish]
           new      == Sorted(bins[bin], session)
<1>1. CalendarInv /\ SchedulerInv /\ e \in EntryIds
  BY SchedulerParts DEF Inv
<1>2. interval \in Nat \ {0}
  <2>1. GSP!TypeOK
    BY <1>1 DEF SchedulerInv, GSP!MinInv, GSP!TypeInv
  <2>2. GS!ServiceRate(e) \in Nat
    BY <2>1, SameOperators, GSP!ServiceRateNat, SchedulerAssumption
  <2>3. GSP!ServiceInterval(z, GS!ServiceRate(e)) \in Nat \ {0}
    BY <2>2, GSP!ServiceIntervalPos, SchedulerAssumption
  <2> QED
    BY <2>3, SameOperators
<1>3. start \in 0 .. MaxU
  BY <1>1, SchedulerParts DEF GS!StartTime, GS!Larger
<1> HIDE DEF interval, start
<1>4. finish \in 0 .. MaxU
  BY <1>1, <1>2, <1>3, SchedulerParts DEF GS!FinishTime
<1>5. /\ finish < MaxU /\ finish <= virtualTime + MaxLead
      /\ bins' = [bins EXCEPT ![bin] = new]
      /\ binBits' = binBits \cup {bin}
      /\ groupBits' = IF WordOf(bin) < GroupBits
                      THEN groupBits \cup {WordOf(bin)} ELSE groupBits
      /\ minStart' = IF start < minStart THEN start ELSE minStart
      /\ lastFinish' = [lastFinish EXCEPT ![e] = finish]
  BY DEF Insert, interval, start
<1>6. bin \in Bins
  <2>1. GroupIndex(interval) \in 0 .. MaxGroup
    BY <1>2, GroupIndexRange
  <2>2. finish \in Nat
    BY <1>1, <1>4, SchedulerParts
  <2> HIDE DEF finish
  <2> QED
    BY <2>1, <2>2, BinIndexRange
<1>7. session \in GS!SessionStates /\ session.id = id
  BY <1>1, <1>3, <1>4 DEF GS!SessionStates
<1>8. GS!Insert(id, e, z) <=> Queued' = Queued \cup {session}
  BY <1>5 DEF GS!Insert, interval, start
<1> HIDE DEF bin, session, finish
<1>9. session \notin Queued
  BY <1>7
<1>10. /\ bins[bin] \in Seq(GS!SessionStates)
       /\ Ordered(bins[bin]) /\ Once(bins[bin])
       /\ ToSet(bins[bin]) \subseteq Queued
  BY <1>1, <1>6, BinElements DEF CalendarInv
<1>11. /\ new \in Seq(GS!SessionStates) /\ Ordered(new) /\ Once(new)
       /\ ToSet(new) = ToSet(bins[bin]) \cup {session} /\ new # <<>>
  BY <1>7, <1>9, <1>10, SortedInsertion
<1> HIDE DEF new
<1>12. (Queued \ ToSet(bins[bin])) \cap ToSet(new) = {}
  BY <1>9, <1>11
<1>13. /\ bins' \in [Bins -> Seq(GS!SessionStates)]
       /\ \A c \in Bins : Ordered(bins'[c]) /\ Once(bins'[c])
       /\ \A c, d \in Bins : c # d => ToSet(bins'[c]) \cap ToSet(bins'[d]) = {}
       /\ Queued' = (Queued \ ToSet(bins[bin])) \cup ToSet(new)
  BY <1>1, <1>5, <1>6, <1>11, <1>12, BinReplaced
<1>14. Queued' = Queued \cup {session}
  BY <1>10, <1>11, <1>13
<1>15. BitfieldsAgree'
  <2>1. groupBits' = groupBits \cup {WordOf(bin)}
    BY <1>5, <1>6, WordHasGroupBit
  <2>2. /\ binBits = {b \in Bins : bins[b] # <<>>}
        /\ groupBits = {WordOf(b) : b \in binBits}
    BY <1>1 DEF CalendarInv, BitfieldsAgree
  <2>3. groupBits' = {WordOf(b) : b \in binBits'}
    BY <1>5, <2>1, <2>2
  <2>4. bins'[bin] = new /\ \A b \in Bins : b # bin => bins'[b] = bins[b]
    BY <1>1, <1>5, <1>6 DEF CalendarInv
  <2>5. binBits' = {b \in Bins : bins'[b] # <<>>}
    BY <1>5, <1>6, <1>11, <2>2, <2>4
  <2> QED
    BY <2>3, <2>5 DEF BitfieldsAgree
<1> QED
  BY <1>8, <1>13, <1>14, <1>15 DEF CalendarInv

-----------------------------------------------------------------------------
(* The removal.                                                            *)

LEMMA LeastMin ==
    ASSUME NEW T \in SUBSET Nat, T # {}
    PROVE  Min(T) \in T /\ \A y \in T : Min(T) <= y
  BY LeastNatural DEF Min

\* The search visits every bin that has its bit.
LEMMA VisitedAll ==
    ASSUME NEW bits, NEW groups, groups = {WordOf(b) : b \in bits}
    PROVE  Visited(bits, groups) = bits
  BY DEF Visited

LEMMA RemovalStep ==
    ASSUME Inv, NEW b \in Bins, NEW s \in ToSet(bins[b]), RemoveFrom(b, s)
    PROVE  CalendarInv' /\ GS!Remove(s) /\ s \in Queued
<1>1. CalendarInv /\ SchedulerInv
  BY DEF Inv
<1>2. /\ bins[b] \in Seq(GS!SessionStates)
      /\ Ordered(bins[b]) /\ Once(bins[b])
      /\ ToSet(bins[b]) \subseteq Queued
  BY <1>1, BinElements DEF CalendarInv
<1>3. PICK k \in DOMAIN bins[b] :
         bins[b][k] = s /\ bins' = [bins EXCEPT ![b] = RemoveAt(@, k)]
  BY DEF RemoveFrom
<1> DEFINE new == RemoveAt(bins[b], k)
<1>4. bins' = [bins EXCEPT ![b] = new]
  BY <1>3
<1>5. /\ new \in Seq(GS!SessionStates) /\ Ordered(new) /\ Once(new)
      /\ ToSet(new) = ToSet(bins[b]) \ {s}
  BY <1>2, <1>3, OrderedRemoval
<1> HIDE DEF new
<1>6. (Queued \ ToSet(bins[b])) \cap ToSet(new) = {}
  BY <1>5
<1>7. /\ bins' \in [Bins -> Seq(GS!SessionStates)]
      /\ \A c \in Bins : Ordered(bins'[c]) /\ Once(bins'[c])
      /\ \A c, d \in Bins : c # d => ToSet(bins'[c]) \cap ToSet(bins'[d]) = {}
      /\ Queued' = (Queued \ ToSet(bins[b])) \cup ToSet(new)
  BY <1>1, <1>4, <1>5, <1>6, BinReplaced
<1>8. Queued' = Queued \ {s}
  BY <1>2, <1>5, <1>7
<1>9. BitfieldsAgree'
  <2>1. /\ binBits = {c \in Bins : bins[c] # <<>>}
        /\ groupBits = {WordOf(c) : c \in binBits}
    BY <1>1 DEF CalendarInv, BitfieldsAgree
  <2>2. bins'[b] = new /\ \A c \in Bins : c # b => bins'[c] = bins[c]
    BY <1>1, <1>4 DEF CalendarInv
  <2>3. b \in binBits
    BY <1>1, <2>1, BinElements
  <2>4. CASE new = <<>>
    <3>1. /\ binBits' = binBits \ {b}
          /\ groupBits' = GroupBitsWithout(b, binBits')
      BY <2>2, <2>4 DEF RemoveFrom
    <3>2. binBits' = {c \in Bins : bins'[c] # <<>>}
      BY <2>1, <2>2, <2>4, <3>1
    <3>3. groupBits' = {WordOf(c) : c \in binBits'}
      BY <2>1, <3>1 DEF GroupBitsWithout
    <3> QED
      BY <3>2, <3>3 DEF BitfieldsAgree
  <2>5. CASE new # <<>>
    <3>1. binBits' = binBits /\ groupBits' = groupBits
      BY <2>2, <2>5 DEF RemoveFrom
    <3>2. binBits' = {c \in Bins : bins'[c] # <<>>}
      BY <2>1, <2>2, <2>3, <2>5, <3>1
    <3> QED
      BY <2>1, <3>1, <3>2 DEF BitfieldsAgree
  <2> QED
    BY <2>4, <2>5
<1>10. CalendarInv'
  BY <1>7, <1>9 DEF CalendarInv
<1>11. GS!Remove(s)
  <2>1. CASE s.start # minStart
    BY <1>8, <2>1 DEF RemoveFrom, GS!Remove
  <2>2. CASE s.start = minStart
    <3> DEFINE starts == {r.start : r \in Queued'}
               T      == {MaxU} \cup starts
    <3>1. StartTimes(bins', Visited(binBits', groupBits')) = starts
      <4>1. Visited(binBits', groupBits') = binBits'
        BY <1>9, VisitedAll DEF BitfieldsAgree
      <4>2. /\ binBits' \subseteq Bins
            /\ \A c \in Bins : c \notin binBits' => bins'[c] = <<>>
        BY <1>9 DEF BitfieldsAgree
      <4>3. ToSet(<<>>) = {}
        BY DEF ToSet
      <4>4. UNION {ToSet(bins'[c]) : c \in binBits'} = Queued'
        BY <4>2, <4>3 DEF Queued
      <4> QED
        BY <4>1, <4>4 DEF StartTimes
    <3>2. minStart' = Min(T)
      BY <2>2, <3>1 DEF RemoveFrom
    <3>3. /\ MaxU \in Nat
          /\ \A r \in Queued' : r.start \in Nat /\ r.start < MaxU
      <4>1. MaxU \in Nat /\ \A r \in Queued : r.start <= r.finish /\ r.finish < MaxU
        BY <1>1, SchedulerParts
      <4>2. \A r \in Queued : r.start \in Nat /\ r.finish \in Nat
        BY <1>1, QueuedSessions, SessionTags
      <4> QED
        BY <1>8, <4>1, <4>2
    <3>4. minStart' \in T /\ \A y \in T : minStart' <= y
      <4>1. T \in SUBSET Nat /\ T # {}
        BY <3>3
      <4> HIDE DEF T
      <4> QED
        BY <3>2, <4>1, LeastMin
    <3>5. Queued' = {} => minStart' = MaxU
      BY <3>4
    <3>6. Queued' # {} => /\ minStart' \in {r.start : r \in Queued'}
                          /\ \A r \in Queued' : minStart' <= r.start
      BY <3>3, <3>4
    <3> QED
      BY <1>8, <2>2, <3>5, <3>6 DEF GS!Remove
  <2> QED
    BY <2>1, <2>2
<1> QED
  BY <1>2, <1>10, <1>11

-----------------------------------------------------------------------------
(* The search.                                                             *)

\* The pairs among which the search takes the first with the least finish time.
Candidates(v) ==
    {x \in Visited(binBits, groupBits) \X Queued : x[2] \in Candidate(x[1], v)}

LEMMA CandidatesDef ==
    ASSUME CalendarInv, NEW v
    PROVE  /\ \A x \in Candidates(v) : /\ x[1] \in Bins /\ x[1] \in Nat
                                       /\ x[2] \in ToSet(bins[x[1]])
                                       /\ x[2] \in Queued /\ x[2].start <= v
           /\ \A b \in Bins : \A s \in Candidate(b, v) : <<b, s>> \in Candidates(v)
           /\ Found(v) = {x \in Candidates(v) : \A y \in Candidates(v) :
                 \/ x[2].finish < y[2].finish
                 \/ x[2].finish = y[2].finish /\ x[1] <= y[1]}
<1>1. /\ binBits = {b \in Bins : bins[b] # <<>>}
      /\ groupBits = {WordOf(b) : b \in binBits}
  BY DEF CalendarInv, BitfieldsAgree
<1>2. Visited(binBits, groupBits) = binBits
  BY <1>1, VisitedAll
<1>3. Bins \subseteq Nat
  BY DEF Bins
<1>4. \A b \in Bins : \A s \in Candidate(b, v) : s \in ToSet(bins[b]) /\ s.start <= v
  BY DEF Candidate, ToSet
<1>5. \A b \in Bins : \A s \in Candidate(b, v) : b \in binBits /\ s \in Queued
  BY <1>1, <1>4, BinElements
<1>6. \A x \in Candidates(v) : /\ x[1] \in Bins /\ x[2] \in Queued
                               /\ x[2] \in Candidate(x[1], v)
  BY <1>1, <1>2 DEF Candidates
<1>7. \A b \in Bins : \A s \in Candidate(b, v) : <<b, s>> \in Candidates(v)
  BY <1>2, <1>5 DEF Candidates
<1>8. Found(v) = {x \in Candidates(v) : \A y \in Candidates(v) :
                    \/ x[2].finish < y[2].finish
                    \/ x[2].finish = y[2].finish /\ x[1] <= y[1]}
  BY DEF Found, Candidates
<1> QED
  BY <1>3, <1>4, <1>6, <1>7, <1>8

\* The first eligible session of an ordered list has the least finish time of
\* those that are eligible.
LEMMA CandidateBest ==
    ASSUME CalendarInv, NEW v \in Nat, NEW b \in Bins, NEW r \in ToSet(bins[b]),
           r.start <= v
    PROVE  \E s \in Candidate(b, v) : s.finish <= r.finish
<1> DEFINE list == bins[b]
           T    == {i \in DOMAIN list : list[i].start <= v}
<1>1. /\ list \in Seq(GS!SessionStates) /\ Ordered(list)
      /\ ToSet(list) \subseteq GS!SessionStates
  BY BinElements DEF CalendarInv
<1>2. /\ Len(list) \in Nat /\ DOMAIN list = 1 .. Len(list)
      /\ \A i \in 1 .. Len(list) : list[i] \in GS!SessionStates
      /\ ToSet(list) = {list[i] : i \in 1 .. Len(list)}
  BY <1>1, ListElements
<1>3. PICK j \in DOMAIN list : list[j] = r
  BY <1>2
<1>4. PICK i \in T : \A h \in T : i <= h
  <2>1. T \in SUBSET Nat /\ j \in T
    BY <1>2, <1>3
  <2> HIDE DEF T
  <2> QED
    BY <2>1, LeastNatural
<1>5. i <= j
  BY <1>3, <1>4
<1>6. \A h \in 1 .. i - 1 : ~(list[h].start <= v)
  <2>1. ASSUME NEW h \in 1 .. i - 1 PROVE h \in DOMAIN list /\ ~(i <= h)
    BY <1>2
  <2> QED
    BY <1>4, <2>1
<1>7. list[i] \in Candidate(b, v)
  <2>1. ASSUME NEW h \in 1 .. i - 1 PROVE list[h].start > v
    <3>1. h \in 1 .. Len(list)
      BY <1>2
    <3>2. list[h].start \in Nat
      BY <1>2, <3>1, SessionTags
    <3> QED
      BY <1>6, <2>1, <3>2
  <2> QED
    BY <2>1 DEF Candidate
<1>8. i = j \/ ~Less(list[j], list[i])
  BY <1>1, <1>2, <1>5 DEF Ordered
<1>9. list[i].finish <= r.finish
  <2>1. list[i] \in GS!SessionStates /\ list[j] \in GS!SessionStates
    BY <1>2
  <2> QED
    BY <1>3, <1>8, <2>1, LessOrder, SessionTags
<1> QED
  BY <1>7, <1>9

\* What the search finds is eligible, in the bin it names, and no eligible
\* session finishes earlier.
LEMMA SearchSound ==
    ASSUME Inv, NEW v \in Nat, NEW x \in Found(v)
    PROVE  /\ x[1] \in Bins /\ x[2] \in ToSet(bins[x[1]])
           /\ x[2] \in GS!Eligible(v)
           /\ \A r \in GS!Eligible(v) : x[2].finish <= r.finish
<1>1. CalendarInv /\ SchedulerInv
  BY DEF Inv
<1>2. /\ x \in Candidates(v)
      /\ \A y \in Candidates(v) :
            \/ x[2].finish < y[2].finish
            \/ x[2].finish = y[2].finish /\ x[1] <= y[1]
  BY <1>1, CandidatesDef
<1>3. /\ x[1] \in Bins /\ x[2] \in ToSet(bins[x[1]])
      /\ x[2] \in Queued /\ x[2].start <= v
  BY <1>1, <1>2, CandidatesDef
<1>4. x[2] \in GS!Eligible(v)
  BY <1>1, <1>3, SchedulerParts DEF GS!Eligible
<1>5. ASSUME NEW r \in GS!Eligible(v) PROVE x[2].finish <= r.finish
  <2>1. r \in Queued /\ r.start <= v
    BY DEF GS!Eligible
  <2>2. PICK b \in Bins : r \in ToSet(bins[b])
    BY <2>1 DEF Queued
  <2>3. PICK s \in Candidate(b, v) : s.finish <= r.finish
    BY <1>1, <2>1, <2>2, CandidateBest
  <2>4. <<b, s>> \in Candidates(v)
    BY <1>1, CandidatesDef
  <2>5. <<b, s>>[2] = s /\ <<b, s>>[1] = b
    OBVIOUS
  <2>6. s \in Queued
    BY <1>1, <2>4, <2>5, CandidatesDef
  <2>7. x[2].finish < s.finish \/ x[2].finish = s.finish
    <3>1. \/ x[2].finish < <<b, s>>[2].finish
          \/ x[2].finish = <<b, s>>[2].finish /\ x[1] <= <<b, s>>[1]
      BY <1>2, <2>4
    <3> QED
      BY <2>5, <3>1
  <2>8. x[2].finish \in Nat /\ s.finish \in Nat /\ r.finish \in Nat
    BY <1>1, <1>3, <2>1, <2>6, QueuedSessions, SessionTags
  <2> QED
    BY <2>3, <2>7, <2>8
<1> QED
  BY <1>3, <1>4, <1>5

\* The search finds a session whenever one is eligible.
LEMMA SearchComplete ==
    ASSUME Inv, NEW v \in Nat
    PROVE  Found(v) # {} <=> GS!Eligible(v) # {}
<1>1. CalendarInv /\ SchedulerInv
  BY DEF Inv
<1>2. Found(v) # {} => GS!Eligible(v) # {}
  BY SearchSound
<1>3. ASSUME GS!Eligible(v) # {} PROVE Found(v) # {}
  <2> DEFINE C == Candidates(v)
             F == {y[2].finish : y \in C}
  <2>1. C # {}
    <3>1. PICK r \in Queued : r.start <= v
      BY <1>3 DEF GS!Eligible
    <3>2. PICK b \in Bins : r \in ToSet(bins[b])
      BY DEF Queued
    <3>3. PICK s \in Candidate(b, v) : s.finish <= r.finish
      BY <1>1, <3>1, <3>2, CandidateBest
    <3> QED
      BY <1>1, <3>3, CandidatesDef
  <2>2. \A y \in C : y[1] \in Nat /\ y[2].finish \in Nat
    BY <1>1, CandidatesDef, QueuedSessions, SessionTags
  <2>3. Found(v) = {y \in C : \A z \in C :
                       \/ y[2].finish < z[2].finish
                       \/ y[2].finish = z[2].finish /\ y[1] <= z[1]}
    BY <1>1, CandidatesDef
  <2> HIDE DEF C
  <2>4. PICK f \in F : \A g \in F : f <= g
    <3>1. F \in SUBSET Nat /\ F # {}
      BY <2>1, <2>2
    <3> HIDE DEF F
    <3> QED
      BY <3>1, LeastNatural
  <2> DEFINE B == {y[1] : y \in {z \in C : z[2].finish = f}}
  <2>5. PICK b \in B : \A c \in B : b <= c
    <3>1. B \in SUBSET Nat /\ B # {}
      BY <2>2, <2>4
    <3> HIDE DEF B
    <3> QED
      BY <3>1, LeastNatural
  <2>6. PICK y \in C : y[1] = b /\ y[2].finish = f
    BY <2>5
  <2>7. ASSUME NEW z \in C
        PROVE  \/ y[2].finish < z[2].finish
               \/ y[2].finish = z[2].finish /\ y[1] <= z[1]
    <3>1. f <= z[2].finish /\ f \in Nat /\ z[2].finish \in Nat
      BY <2>2, <2>4, <2>6
    <3>2. z[2].finish = f => b <= z[1]
      BY <2>5
    <3> QED
      BY <2>6, <3>1, <3>2
  <2> QED
    BY <2>3, <2>6, <2>7
<1> QED
  BY <1>2, <1>3

\* So the two searches advance virtual time alike.
LEMMA SearchTimes ==
    ASSUME Inv
    PROVE  SearchTime = GS!SearchTime /\ SearchTime \in Nat
<1>1. virtualTime \in Nat /\ minStart \in Nat
  BY SchedulerParts DEF Inv
<1>2. Found(virtualTime) = {} <=> GS!Eligible(virtualTime) = {}
  BY <1>1, SearchComplete
<1> QED
  BY <1>1, <1>2 DEF SearchTime, GS!SearchTime, GS!Larger

\* While a session is queued, a dequeue finds one.
LEMMA FindsWork == Inv => SearchFindsWork
<1> SUFFICES ASSUME Inv, Queued # {} PROVE Found(SearchTime) # {}
  BY DEF SearchFindsWork
<1>1. GSP!DequeueFindsWork
  <2>1. GSP!MinInv
    BY DEF Inv, SchedulerInv
  <2> QED
    BY <2>1, GSP!MinInvFindsWork, SchedulerAssumption
<1>2. GS!Eligible(SearchTime) # {}
  BY <1>1, SearchTimes, SameOperators DEF GSP!DequeueFindsWork
<1> QED
  BY <1>2, SearchTimes, SearchComplete

-----------------------------------------------------------------------------
(* The steps.                                                              *)

LEMMA RebaseStep ==
    ASSUME Inv, NEW v \in 0 .. MaxU, Rebase(v), UNCHANGED <<binBits, groupBits>>
    PROVE  CalendarInv' /\ GS!Rebase(v)
<1> DEFINE d == v \div 2
<1>1. CalendarInv /\ SchedulerInv
  BY DEF Inv
<1>2. d \in Nat
  BY <1>1, SchedulerParts
<1>3. bins' = [b \in Bins |-> Rebased(bins[b], d)]
  BY DEF Rebase
<1>4. GS!Rebase(v) <=> Queued' = {GS!ShiftedSession(s, d) : s \in Queued}
  BY DEF Rebase, GS!Rebase
<1> HIDE DEF d
<1>5. ASSUME NEW b \in Bins
      PROVE  /\ bins'[b] \in Seq(GS!SessionStates)
             /\ Ordered(bins'[b]) /\ Once(bins'[b])
             /\ ToSet(bins'[b]) = {GS!ShiftedSession(s, d) : s \in ToSet(bins[b])}
             /\ bins'[b] = <<>> <=> bins[b] = <<>>
  <2>1. /\ bins[b] \in Seq(GS!SessionStates)
        /\ Ordered(bins[b]) /\ Once(bins[b])
        /\ ToSet(bins[b]) \subseteq Queued
    BY <1>1, BinElements DEF CalendarInv
  <2>2. /\ \A s \in ToSet(bins[b]) : s.start <= s.finish
        /\ \A r, s \in ToSet(bins[b]) : r.id = s.id => r = s
    BY <1>1, <2>1, SchedulerParts
  <2>3. bins'[b] = Rebased(bins[b], d)
    BY <1>3
  <2> DEFINE list == bins[b]
  <2> HIDE DEF list
  <2>4. /\ list \in Seq(GS!SessionStates) /\ Ordered(list) /\ Once(list)
        /\ \A s \in ToSet(list) : s.start <= s.finish
        /\ \A r, s \in ToSet(list) : r.id = s.id => r = s
    BY <2>1, <2>2 DEF list
  <2>5. /\ Rebased(list, d) \in Seq(GS!SessionStates)
        /\ Ordered(Rebased(list, d)) /\ Once(Rebased(list, d))
        /\ ToSet(Rebased(list, d)) = {GS!ShiftedSession(s, d) : s \in ToSet(list)}
        /\ Rebased(list, d) = <<>> <=> list = <<>>
    BY <1>2, <2>4, RebasedList
  <2> QED
    BY <2>3, <2>5 DEF list
<1>6. bins' \in [Bins -> Seq(GS!SessionStates)]
  BY <1>3, <1>5
<1>7. Queued' = {GS!ShiftedSession(s, d) : s \in Queued}
  <2>1. Queued' = UNION {ToSet(bins'[b]) : b \in Bins}
    BY DEF Queued
  <2>2. ASSUME NEW x \in Queued' PROVE \E s \in Queued : x = GS!ShiftedSession(s, d)
    <3>1. PICK b \in Bins : x \in ToSet(bins'[b])
      BY <2>1
    <3>2. PICK s \in ToSet(bins[b]) : x = GS!ShiftedSession(s, d)
      BY <1>5, <3>1
    <3> QED
      BY <3>2 DEF Queued
  <2>3. ASSUME NEW s \in Queued PROVE GS!ShiftedSession(s, d) \in Queued'
    <3>1. PICK b \in Bins : s \in ToSet(bins[b])
      BY DEF Queued
    <3>2. GS!ShiftedSession(s, d) \in ToSet(bins'[b])
      BY <1>5, <3>1
    <3> QED
      BY <2>1, <3>2
  <2> QED
    BY <2>2, <2>3
<1>8. ASSUME NEW b \in Bins, NEW c \in Bins, b # c
      PROVE  ToSet(bins'[b]) \cap ToSet(bins'[c]) = {}
  <2> SUFFICES ASSUME NEW x \in ToSet(bins'[b]), x \in ToSet(bins'[c])
               PROVE  FALSE
    OBVIOUS
  <2>1. PICK r \in ToSet(bins[b]) : x = GS!ShiftedSession(r, d)
    BY <1>5
  <2>2. PICK s \in ToSet(bins[c]) : x = GS!ShiftedSession(s, d)
    BY <1>5
  <2>3. /\ r \in GS!SessionStates /\ s \in GS!SessionStates
        /\ r \in Queued /\ s \in Queued
    BY <1>1, BinElements
  <2>4. x.id = r.id /\ x.id = s.id
    <3>1. GS!ShiftedSession(r, d).id = r.id
      BY <1>2, <2>3, ShiftedSessionFields
    <3>2. GS!ShiftedSession(s, d).id = s.id
      BY <1>2, <2>3, ShiftedSessionFields
    <3> QED
      BY <2>1, <2>2, <3>1, <3>2
  <2>5. r = s
    BY <1>1, <2>3, <2>4, SchedulerParts
  <2> QED
    BY <1>1, <1>8, <2>5 DEF CalendarInv
<1>9. BitfieldsAgree'
  BY <1>1, <1>5 DEF CalendarInv, BitfieldsAgree
<1> QED
  BY <1>4, <1>5, <1>6, <1>7, <1>8, <1>9 DEF CalendarInv

LEMMA UpdateStep ==
    ASSUME Inv, UpdateVirtualTime
    PROVE  CalendarInv' /\ GS!UpdateVirtualTime
<1>1. CalendarInv /\ SchedulerInv
  BY DEF Inv
<1>2. PICK s \in out :
         IF GS!AdvancedTime(s.size) >= MaxU \div 2
         THEN Rebase(GS!AdvancedTime(s.size))
         ELSE /\ virtualTime' = GS!AdvancedTime(s.size)
              /\ UNCHANGED <<minStart, bins, lastFinish>>
  BY DEF UpdateVirtualTime
<1> DEFINE v == GS!AdvancedTime(s.size)
<1>3. v \in 0 .. MaxU
  <2>1. s.size \in WorkSizes
    BY <1>1, SchedulerParts, SessionTags
  <2>2. GSP!TypeOK
    BY <1>1 DEF SchedulerInv, GSP!MinInv, GSP!TypeInv
  <2>3. GSP!AdvancedTime(s.size) \in 0 .. MaxU
    BY <2>1, <2>2, GSP!AdvancedTimeRange, SchedulerAssumption
  <2> QED
    BY <2>3, SameOperators
<1>4. UNCHANGED <<alloc, calculatedRate, allocatedRate, totalWeight, binBits,
                  groupBits>> /\ out' = {}
  BY DEF UpdateVirtualTime
<1>5. CASE v >= MaxU \div 2
  <2>1. Rebase(v)
    BY <1>2, <1>5
  <2>2. CalendarInv' /\ GS!Rebase(v)
    BY <1>3, <1>4, <2>1, RebaseStep
  <2>3. GS!UpdateVirtualTime
    BY <1>4, <1>5, <2>2 DEF GS!UpdateVirtualTime, GS!rateVars
  <2> QED
    BY <2>2, <2>3
<1>6. CASE ~(v >= MaxU \div 2)
  <2>1. /\ virtualTime' = v /\ UNCHANGED <<minStart, bins, lastFinish>>
    BY <1>2, <1>6
  <2>2. Queued' = Queued
    BY <2>1 DEF Queued
  <2>3. CalendarInv'
    BY <1>1, <1>4, <2>1 DEF CalendarInv, BitfieldsAgree
  <2>4. GS!UpdateVirtualTime
    BY <1>4, <1>6, <2>1, <2>2 DEF GS!UpdateVirtualTime, GS!rateVars
  <2> QED
    BY <2>3, <2>4
<1> QED
  BY <1>5, <1>6

LEMMA EnqueueStep ==
    ASSUME Inv, NEW e \in EntryIds, NEW z \in WorkSizes, Enqueue(e, z)
    PROVE  CalendarInv' /\ GS!Enqueue(e, z)
<1>1. PICK id \in SessionIds : (\A s \in Queued : s.id # id) /\ Insert(id, e, z)
  BY DEF Enqueue
<1>2. e \in GS!Configured /\ GS!ServiceRate(e) # 0
  BY DEF Enqueue
<1>3. CalendarInv' /\ GS!Insert(id, e, z)
  BY <1>1, <1>2, InsertStep
<1> QED
  BY <1>1, <1>2, <1>3 DEF Enqueue, GS!Enqueue, GS!rateVars

LEMMA PutBackStep ==
    ASSUME Inv, PutBack
    PROVE  CalendarInv' /\ GS!PutBack
<1>1. PICK s \in out : GS!ServiceRate(s.entry) # 0 /\ Insert(s.id, s.entry, s.size)
  BY DEF PutBack
<1>2. /\ s.entry \in GS!Configured /\ s.id \in SessionIds /\ s.size \in WorkSizes
      /\ \A r \in Queued : r.id # s.id
  BY SchedulerParts, SessionTags DEF Inv
<1>3. CalendarInv' /\ GS!Insert(s.id, s.entry, s.size)
  BY <1>1, <1>2, InsertStep
<1> QED
  BY <1>1, <1>3 DEF PutBack, GS!PutBack, GS!rateVars

LEMMA DequeueStep ==
    ASSUME Inv, Dequeue
    PROVE  CalendarInv' /\ GS!Dequeue
<1>1. PICK x \in Found(SearchTime) : RemoveFrom(x[1], x[2]) /\ out' = {x[2]}
  BY DEF Dequeue
<1>2. SearchTime = GS!SearchTime /\ SearchTime \in Nat
  BY SearchTimes
<1>3. /\ x[1] \in Bins /\ x[2] \in ToSet(bins[x[1]])
      /\ x[2] \in GS!Eligible(GS!SearchTime)
      /\ \A r \in GS!Eligible(GS!SearchTime) : x[2].finish <= r.finish
  BY <1>2, SearchSound
<1>4. CalendarInv' /\ GS!Remove(x[2])
  BY <1>1, <1>3, RemovalStep
<1>5. /\ out = {} /\ virtualTime' = GS!SearchTime
      /\ UNCHANGED <<alloc, calculatedRate, lastFinish, allocatedRate, totalWeight>>
  BY <1>2 DEF Dequeue
<1> QED
  BY <1>1, <1>3, <1>4, <1>5 DEF GS!Dequeue, GS!entryVars, GS!rateVars

LEMMA RemoveSessionStep ==
    ASSUME Inv, RemoveSession
    PROVE  CalendarInv' /\ GS!RemoveSession
<1>1. PICK b \in binBits : \E s \in ToSet(bins[b]) : RemoveFrom(b, s)
  BY DEF RemoveSession
<1>2. b \in Bins
  BY DEF Inv, CalendarInv, BitfieldsAgree
<1>3. PICK s \in ToSet(bins[b]) : CalendarInv' /\ GS!Remove(s) /\ s \in Queued
  BY <1>1, <1>2, RemovalStep
<1> QED
  BY <1>3 DEF RemoveSession, GS!RemoveSession, GS!entryVars, GS!rateVars

LEMMA CalendarKept ==
    ASSUME CalendarInv, UNCHANGED calendarVars
    PROVE  CalendarInv' /\ Queued' = Queued
  BY DEF CalendarInv, BitfieldsAgree, calendarVars, Queued

\* Every step of the calendar is one of the group scheduler.
LEMMA StepRefines ==
    ASSUME Inv, [Next]_vars
    PROVE  CalendarInv' /\ [GS!Next]_(GS!vars)
<1>1. CalendarInv
  BY DEF Inv
<1>2. ASSUME NEW e \in EntryIds, NEW a \in Allocations, ConfigureEntry(e, a)
      PROVE  CalendarInv' /\ GS!Next
  BY <1>1, <1>2, CalendarKept DEF ConfigureEntry, GS!Next
<1>3. ASSUME NEW e \in EntryIds, RemoveEntry(e)
      PROVE  CalendarInv' /\ GS!Next
  BY <1>1, <1>3, CalendarKept DEF RemoveEntry, GS!Next
<1>4. ASSUME NEW e \in EntryIds, NEW z \in WorkSizes, Enqueue(e, z)
      PROVE  CalendarInv' /\ GS!Next
  BY <1>4, EnqueueStep DEF GS!Next
<1>5. ASSUME PutBack PROVE CalendarInv' /\ GS!Next
  BY <1>5, PutBackStep DEF GS!Next
<1>6. ASSUME Dequeue PROVE CalendarInv' /\ GS!Next
  BY <1>6, DequeueStep DEF GS!Next
<1>7. ASSUME RemoveSession PROVE CalendarInv' /\ GS!Next
  BY <1>7, RemoveSessionStep DEF GS!Next
<1>8. ASSUME UpdateVirtualTime PROVE CalendarInv' /\ GS!Next
  BY <1>8, UpdateStep DEF GS!Next
<1>9. ASSUME UNCHANGED vars PROVE CalendarInv' /\ UNCHANGED GS!vars
  <2>1. UNCHANGED calendarVars
    BY <1>9 DEF vars
  <2> QED
    BY <1>1, <1>9, <2>1, CalendarKept
    DEF vars, GS!vars, GS!entryVars, GS!rateVars, GS!timeVars
<1>10. CASE Next
  BY <1>2, <1>3, <1>4, <1>5, <1>6, <1>7, <1>8, <1>10 DEF Next
<1> QED
  BY <1>9, <1>10

LEMMA SchedulerStep ==
    ASSUME Inv, [Next]_vars
    PROVE  [GSP!Next]_(GSP!vars)
<1>1. [GS!Next]_(GS!vars)
  BY StepRefines
<1>2. UNCHANGED GS!vars => UNCHANGED GSP!vars
  BY DEF GS!vars, GS!entryVars, GS!rateVars, GS!timeVars,
         GSP!vars, GSP!entryVars, GSP!rateVars, GSP!timeVars
<1> QED
  BY <1>1, <1>2, SameNext

LEMMA InvNext ==
    ASSUME Inv, [Next]_vars
    PROVE  Inv'
<1>1. CalendarInv'
  BY StepRefines
<1>2. [GSP!Next]_(GSP!vars)
  BY SchedulerStep
<1>3. GSP!MinInv'
  BY <1>2, GSP!MinInvNext, SchedulerAssumption DEF Inv, SchedulerInv
<1>4. GSP!IdInv'
  BY <1>2, GSP!IdInvNext, SchedulerAssumption DEF Inv, SchedulerInv
<1> QED
  BY <1>1, <1>3, <1>4 DEF Inv, SchedulerInv

-----------------------------------------------------------------------------
(* The initial states.                                                     *)

LEMMA InitRefines == Init => GS!Init /\ Inv
<1> SUFFICES ASSUME Init PROVE GS!Init /\ Inv
  OBVIOUS
<1>1. \A b \in Bins : bins[b] = <<>>
  BY DEF Init
<1>2. Queued = {}
  BY <1>1 DEF Queued, ToSet
<1>3. GS!Init
  BY <1>2 DEF Init, GS!Init
<1>4. CalendarInv
  <2>1. <<>> \in Seq(GS!SessionStates) /\ Ordered(<<>>) /\ Once(<<>>)
        /\ ToSet(<<>>) = {}
    BY DEF Ordered, Once, ToSet
  <2>2. bins \in [Bins -> Seq(GS!SessionStates)]
    BY <2>1 DEF Init
  <2>3. BitfieldsAgree
    BY <1>1 DEF Init, BitfieldsAgree
  <2> QED
    BY <1>1, <2>1, <2>2, <2>3 DEF CalendarInv
<1>5. GSP!Init
  BY <1>2 DEF Init, GSP!Init
<1>6. GSP!MinInv
  BY <1>5, GSP!MinInvInit, SchedulerAssumption
<1>7. GSP!IdInv
  BY <1>2, <1>5, <1>6 DEF Init, GSP!IdInv, GSP!MinInv, GSP!UniqueIds
<1> QED
  BY <1>3, <1>4, <1>6, <1>7 DEF Inv, SchedulerInv

-----------------------------------------------------------------------------
(* The theorems.                                                           *)

LEMMA InvAlways == Spec => []Inv
<1>1. Init => Inv
  BY InitRefines
<1>2. Inv /\ [Next]_vars => Inv'
  BY InvNext
<1> QED
  BY <1>1, <1>2, PTL DEF Spec

\* Both bitfields agree with the lists after any inserts, removals and
\* rebases: calendar_find_min_session skips no session and visits no empty bin.
THEOREM BitfieldsCorrect == Spec => []BitfieldsAgree
<1>1. Inv => BitfieldsAgree
  BY DEF Inv, CalendarInv
<1> QED
  BY <1>1, InvAlways, PTL

\* Every list stays in the order of session_less: bin_list_insert keeps it,
\* and so does the rebase that clamps tags to 0.
THEOREM ListsCorrect == Spec => []ListsSorted
<1>1. Inv => ListsSorted
  BY DEF Inv, CalendarInv, Ordered, ListsSorted
<1> QED
  BY <1>1, InvAlways, PTL

\* calendar_find_min_session finds a session whenever one is queued.
THEOREM SearchCorrect == Spec => []SearchFindsWork
  BY FindsWork, InvAlways, PTL

\* The calendar queue implements the group scheduler's set of sessions: what
\* the theorems of GroupSchedulerProofs say of the set holds of the calendar.
THEOREM CalendarImplements == Spec => ImplementsGroupScheduler
<1>1. Init => GS!Init
  BY InitRefines
<1>2. Inv /\ [Next]_vars => [GS!Next]_(GS!vars)
  BY StepRefines
<1>3. Spec => GS!Spec
  BY <1>1, <1>2, InvAlways, PTL DEF Spec, GS!Spec
<1> QED
  BY <1>3 DEF ImplementsGroupScheduler

-----------------------------------------------------------------------------
(* What the scheduler's theorems say of the calendar queue: the same       *)
(* invariants, for the sessions in its bins.                               *)

LEMMA SchedulerInit == Init => GSP!Init
  BY InitRefines DEF GS!Init, GSP!Init

LEMMA SameProperties ==
    /\ GS!MinStartExact <=> GSP!MinStartExact
    /\ GS!DequeueFindsWork <=> GSP!DequeueFindsWork
    /\ GS!EntrySerial <=> GSP!EntrySerial
    /\ GS!LagBounded <=> GSP!LagBounded
<1>1. GS!MinStartExact <=> GSP!MinStartExact
  BY DEF GS!MinStartExact, GSP!MinStartExact
<1>2. GS!DequeueFindsWork <=> GSP!DequeueFindsWork
  BY SameOperators DEF GS!DequeueFindsWork, GSP!DequeueFindsWork
<1>3. GS!EntrySerial <=> GSP!EntrySerial
  BY DEF GS!EntrySerial, GSP!EntrySerial
<1>4. GS!LagBounded <=> GSP!LagBounded
  <2>1. GS!Cardinality(SessionIds) = GSP!Cardinality(SessionIds)
    BY DEF GS!Cardinality, GSP!Cardinality
  <2>2. \A z : GS!Advance(z) = GSP!Advance(z)
    BY DEF GS!Advance, GSP!Advance, GS!Wrap, GSP!Wrap, GS!Larger, GSP!Larger
  <2> QED
    BY <2>1, <2>2 DEF GS!LagBounded, GSP!LagBounded
<1> QED
  BY <1>1, <1>2, <1>3, <1>4

\* The min_start_time that calendar_insert_session and calendar_remove_session
\* keep is the least start time in all lists of all bins, so the jump-ahead
\* always reaches a session.
THEOREM CalendarMinStart == Spec => [](GS!MinStartExact /\ GS!DequeueFindsWork)
<1>1. Inv => GS!MinStartExact /\ GS!DequeueFindsWork
  <2> SUFFICES ASSUME Inv PROVE GSP!MinStartExact /\ GSP!DequeueFindsWork
    BY SameProperties
  <2>1. GSP!MinInv
    BY DEF Inv, SchedulerInv
  <2>2. GSP!MinStartExact
    BY <2>1 DEF GSP!MinInv
  <2>3. GSP!DequeueFindsWork
    BY <2>1, GSP!MinInvFindsWork, SchedulerAssumption
  <2> QED
    BY <2>2, <2>3
<1> QED
  BY <1>1, InvAlways, PTL

\* Two sessions of one tenant or flow never overlap in virtual time, wherever
\* their bins are and however often they are put back or rebased.
THEOREM CalendarSerial == Spec => []GS!EntrySerial
<1>1. Init => GSP!SerialInv
  BY SchedulerInit, GSP!SerialInvInit, SchedulerAssumption
<1>2. Inv /\ GSP!SerialInv /\ [Next]_vars => GSP!SerialInv'
  BY SchedulerStep, GSP!SerialInvNext, SchedulerAssumption
<1>3. GSP!SerialInv => GS!EntrySerial
  BY SameProperties DEF GSP!SerialInv
<1> QED
  BY <1>1, <1>2, <1>3, InvAlways, PTL DEF Spec

\* Eligibility in the calendar is never lost, rebases of sorted lists included.
THEOREM CalendarEligible == Spec => GS!StaysEligible
<1>1. Inv /\ [Next]_vars => [GSP!EligibleKept]_(GS!vars)
  BY SchedulerStep, GSP!IdInvNext, SchedulerAssumption DEF Inv, SchedulerInv
<1> QED
  BY <1>1, InvAlways, PTL DEF Spec, GS!StaysEligible, GSP!EligibleKept

\* The lag that the scheduler's bound needs, for the most that one dispatch of
\* a session of the given sizes moves virtual time.
LEMMA LagStart == ASSUME NEW a, Init PROVE GSP!LagInv(a)
  BY SchedulerInit, GSP!LagInit, SchedulerAssumption

LEMMA LagStep ==
    ASSUME GSP!LagFits, NEW a, GSP!Most(a), Inv, GSP!LagInv(a), [Next]_vars
    PROVE  GSP!LagInv(a)' /\ GSP!OrderKept
<1>1. GSP!IsFiniteSet(SessionIds)
  BY DEF GSP!LagFits
<1> QED
  BY <1>1, SchedulerStep, GSP!LagNext, SchedulerAssumption

\* Without work sizes nothing is ever queued.
LEMMA NoSizes == ASSUME WorkSizes = {}, Inv PROVE Queued = {}
  BY QueuedSessions DEF Inv, GS!SessionStates

\* Virtual time never leaves a session of the calendar further behind than the
\* dispatches of as many sessions as can be queued.
THEOREM CalendarLag == ASSUME GSP!LagFits PROVE Spec => []GS!LagBounded
<1>1. CASE WorkSizes = {}
  <2>1. Inv => GS!LagBounded
    BY <1>1, NoSizes DEF GS!LagBounded
  <2> QED
    BY <2>1, InvAlways, PTL
<1>2. CASE WorkSizes # {}
  <2>1. PICK z \in WorkSizes : GSP!Most(GSP!Advance(z))
    BY <1>2, GSP!MostExists, SchedulerAssumption
  <2>2. GSP!LagInv(GSP!Advance(z)) => GS!LagBounded
    BY <2>1, GSP!LagInvBounded, SameProperties, SchedulerAssumption
  <2>3. Init => GSP!LagInv(GSP!Advance(z))
    BY LagStart
  <2>4. Inv /\ GSP!LagInv(GSP!Advance(z)) /\ [Next]_vars
           => GSP!LagInv(GSP!Advance(z))'
    BY <2>1, LagStep
  <2> QED
    BY <2>2, <2>3, <2>4, InvAlways, PTL DEF Spec
<1> QED
  BY <1>1, <1>2

\* A rebase of the lists, which clamps tags to 0 and moves no session to
\* another bin, is invisible to the order of service.
THEOREM CalendarOrder == ASSUME GSP!LagFits PROVE Spec => GS!OrderPreserved
<1>1. CASE WorkSizes = {}
  <2>1. Inv => Queued = {}
    BY <1>1, NoSizes
  <2>2. Queued = {} => [GSP!OrderKept]_(GS!vars)
    BY DEF GSP!OrderKept
  <2> QED
    BY <2>1, <2>2, InvAlways, PTL DEF Spec, GS!OrderPreserved, GSP!OrderKept
<1>2. CASE WorkSizes # {}
  <2>1. PICK z \in WorkSizes : GSP!Most(GSP!Advance(z))
    BY <1>2, GSP!MostExists, SchedulerAssumption
  <2>2. Init => GSP!LagInv(GSP!Advance(z))
    BY LagStart
  <2>3. Inv /\ GSP!LagInv(GSP!Advance(z)) /\ [Next]_vars
           => GSP!LagInv(GSP!Advance(z))' /\ [GSP!OrderKept]_(GS!vars)
    BY <2>1, LagStep
  <2> QED
    BY <2>2, <2>3, InvAlways, PTL DEF Spec, GS!OrderPreserved, GSP!OrderKept
<1> QED
  BY <1>1, <1>2

\* No session is refused, or lost by a put-back, for the rate of its entry.
THEOREM CalendarServed ==
    ASSUME IsFiniteSet(EntryIds), GSP!WeightsFit PROVE Spec => []GSP!EntriesServed
<1>0. GSP!IsFiniteSet(EntryIds)
  BY DEF IsFiniteSet, GSP!IsFiniteSet
<1>1. Init => GSP!WeightInv /\ GSP!RateKept
  BY SchedulerInit, GSP!WeightInit, GSP!RateKeptInit, SchedulerAssumption
<1>2. Inv /\ GSP!WeightInv /\ GSP!RateKept /\ [Next]_vars
         => (GSP!WeightInv /\ GSP!RateKept)'
  <2> SUFFICES ASSUME Inv, GSP!WeightInv, GSP!RateKept, [Next]_vars
               PROVE  GSP!WeightInv' /\ GSP!RateKept'
    OBVIOUS
  <2>1. [GSP!Next]_(GSP!vars)
    BY SchedulerStep
  <2>2. GSP!WeightInv'
    BY <1>0, <2>1, GSP!WeightStep, SchedulerAssumption
  <2>3. GSP!RateKept'
    BY <2>1, GSP!RateKeptStep, SchedulerAssumption DEF GSP!WeightInv
  <2> QED
    BY <2>2, <2>3
<1>3. GSP!WeightInv /\ GSP!RateKept => GSP!EntriesServed
  BY <1>0, GSP!ServedInv, SchedulerAssumption
<1> QED
  BY <1>1, <1>2, <1>3, InvAlways, PTL DEF Spec

=============================================================================
