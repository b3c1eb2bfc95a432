------------------------------ MODULE FlowTrie ------------------------------
(***************************************************************************)
(* The four-level bitmap of src/src/hwfq_flow_trie.c.  In the leaves a set *)
(* bit is an allocated id; in the levels above a set bit says that the     *)
(* word below it has a free id somewhere.  The bits beyond the size asked  *)
(* for are set in the leaves and clear above.                              *)
(*                                                                         *)
(* A bitmap is the set of the indices of its set bits.  The client calls   *)
(* the trie one operation at a time and starts with a trie that has been   *)
(* destroyed; an init that fails for lack of memory leaves no trie and is  *)
(* not a step.                                                             *)
(***************************************************************************)
EXTENDS Naturals, FiniteSets

CONSTANTS
    WordBits,       \* bits in a word, 64
    Sizes           \* values of max_flows that init is called with

ASSUME WordAssumption == WordBits \in Nat \ {0, 1}
\* level2 is a single word: beyond WordBits^4 ids (16M in the code) the upper
\* words of level1 are never searched.
ASSUME SizesAssumption ==
    Sizes \subseteq 1 .. WordBits * WordBits * WordBits * WordBits

VARIABLES
    maxFlows,       \* trie->max_flows, 0 when there is no trie
    leaf, level0, level1, level2,
    allocatedCount, \* trie->allocated_count
    answer          \* what the last hwfq_flow_trie_alloc returned

vars == <<maxFlows, leaf, level0, level1, level2, allocatedCount, answer>>

\* bits_to_words.
Words(bits) == (bits + WordBits - 1) \div WordBits

WordOf(bit) == bit \div WordBits
WordRange(w) == w * WordBits .. (w + 1) * WordBits - 1

FullWord(bits, w) == WordRange(w) \subseteq bits
EmptyWord(bits, w) == WordRange(w) \cap bits = {}

\* Mutant of Least: the last bit instead of the first (clz for ctz).
Least_Greatest(S) == {x \in S : \A y \in S : x >= y}

Least(S) == {x \in S : \A y \in S : x <= y}

\* find_first_set_bit64 and find_first_zero_bit64 in word w; {} for none.
FirstSet(bits, w) == Least(WordRange(w) \cap bits)
FirstZero(bits, w) == Least(WordRange(w) \ bits)

\* The ids a trie of n flows can hand out: 0 is HWFQ_FLOW_ID_RESERVED.
Pool(n) == IF n = 0 THEN {} ELSE 1 .. n - 1

Allocated == leaf \cap Pool(maxFlows)

\* Mutant of Summarised: only the level above is told that a word is full.
Summarised_OneLevel(w) ==
    /\ level0' = IF FullWord(leaf', w) THEN level0 \ {w} ELSE level0
    /\ UNCHANGED <<level1, level2>>

\* The bits above leaf word w are cleared as far as words have become full.
Summarised(w) ==
    /\ level0' = IF FullWord(leaf', w) THEN level0 \ {w} ELSE level0
    /\ level1' = IF FullWord(leaf', w) /\ EmptyWord(level0', WordOf(w))
                 THEN level1 \ {WordOf(w)} ELSE level1
    /\ level2' = IF /\ FullWord(leaf', w)
                    /\ EmptyWord(level0', WordOf(w))
                    /\ EmptyWord(level1', WordOf(WordOf(w)))
                 THEN level2 \ {WordOf(WordOf(w))} ELSE level2

-----------------------------------------------------------------------------
Init ==
    /\ maxFlows = 0
    /\ leaf = {} /\ level0 = {} /\ level1 = {} /\ level2 = {}
    /\ allocatedCount = 0
    /\ answer = "none"

\* The bits of the last leaf word beyond max_flows, marked as allocated.
LastLeafPad(n) == n .. Words(n) * WordBits - 1

\* hwfq_flow_trie_init.  The masks leave level0, level1 and level2 with one
\* bit for each word below; then id 0 is reserved and its word summarised.
Create(n) ==
    /\ maxFlows = 0
    /\ maxFlows' = n
    /\ allocatedCount' = 1
    /\ LET words0 == Words(n)
           words1 == Words(words0)
           words2 == Words(words1)
           full   == FullWord(leaf', 0)
       IN  /\ leaf' = {0} \cup LastLeafPad(n)
           /\ level0' = (0 .. words0 - 1) \ (IF full THEN {0} ELSE {})
           /\ level1' = (0 .. words1 - 1) \
                 (IF full /\ EmptyWord(level0', 0) THEN {0} ELSE {})
           /\ level2' = (0 .. words2 - 1) \
                 (IF full /\ EmptyWord(level0', 0) /\ EmptyWord(level1', 0)
                  THEN {0} ELSE {})
    /\ answer' = "none"

\* hwfq_flow_trie_destroy.
Destroy ==
    /\ maxFlows' = 0
    /\ leaf' = {} /\ level0' = {} /\ level1' = {} /\ level2' = {}
    /\ allocatedCount' = 0
    /\ answer' = "none"

\* The leaf word that the search of hwfq_flow_trie_alloc comes to; {} when a
\* word on the way has no bit set (HWFQ_ERR_INTERNAL).
LeafFound ==
    UNION {UNION {FirstSet(level0, w) : w \in FirstSet(level1, v)} :
               v \in FirstSet(level2, 0)}

\* The id that hwfq_flow_trie_alloc hands out, if any.
NextId == {id \in UNION {FirstZero(leaf, w) : w \in LeafFound} : id < maxFlows}

\* hwfq_flow_trie_alloc: down the first set bits, then up again.
Alloc ==
    /\ \E id \in NextId : leaf' = leaf \cup {id} /\ Summarised(WordOf(id))
    /\ allocatedCount' = allocatedCount + 1
    /\ answer' = "ok"
    /\ UNCHANGED maxFlows

\* HWFQ_ERR_NO_MEMORY when level2 is clear or the id is out of range.
AllocFails ==
    /\ NextId = {}
    /\ answer' = IF level2 = {} \/ \E w \in LeafFound : FirstZero(leaf, w) # {}
                 THEN "full" ELSE "internal"
    /\ UNCHANGED <<maxFlows, leaf, level0, level1, level2, allocatedCount>>

\* Mutant of Raised: level0 is not told when it had free words already.
Raised_Level0(w) ==
    /\ level0' = level0 \cup {w}
    /\ UNCHANGED <<level1, level2>>

\* The first free id of leaf word w is announced as far up as it is the first
\* of its word.
Raised(w) ==
    /\ level0' = level0 \cup {w}
    /\ level1' = IF level0' \cap WordRange(WordOf(w)) = {w}
                 THEN level1 \cup {WordOf(w)} ELSE level1
    /\ level2' = IF /\ level0' \cap WordRange(WordOf(w)) = {w}
                    /\ level1' \cap WordRange(WordOf(WordOf(w))) = {WordOf(w)}
                 THEN level2 \cup {WordOf(WordOf(w))} ELSE level2

\* Mutant of CanFree: an id that is free already is freed again.
CanFree_Twice(id) == id # 0 /\ id < maxFlows

\* 0, an id out of range and a free id are ignored.
CanFree(id) == id # 0 /\ id < maxFlows /\ id \in leaf

\* hwfq_flow_trie_free.
Free(id) ==
    /\ CanFree(id)
    /\ leaf' = leaf \ {id}
    /\ IF FullWord(leaf, WordOf(id))
       THEN Raised(WordOf(id)) ELSE UNCHANGED <<level0, level1, level2>>
    /\ allocatedCount' = allocatedCount - 1
    /\ answer' = "none"
    /\ UNCHANGED maxFlows

Next ==
    \/ \E n \in Sizes : Create(n)
    \/ Destroy
    \/ Alloc
    \/ AllocFails
    \/ \E id \in 0 .. maxFlows : Free(id)

Spec == Init /\ [][Next]_vars

-----------------------------------------------------------------------------
(* Properties.                                                             *)

\* The type invariant.
TypeOK ==
    /\ maxFlows \in Sizes \cup {0}
    /\ leaf \subseteq 0 .. Words(maxFlows) * WordBits - 1
    /\ level0 \subseteq 0 .. Words(maxFlows) - 1
    /\ level1 \subseteq 0 .. Words(Words(maxFlows)) - 1
    /\ level2 \subseteq 0 .. WordBits - 1
    /\ allocatedCount \in Nat
    /\ answer \in {"none", "ok", "full", "internal"}

\* The summaries agree with the leaves: a bit is set exactly when the word
\* below it has a free id, at each of the three levels, through every mix of
\* allocations and frees, id 0 and the padding of the last words included.
SummariesAgree ==
    /\ level0 = {w \in 0 .. Words(maxFlows) - 1 : ~FullWord(leaf, w)}
    /\ level1 = {w \in 0 .. Words(Words(maxFlows)) - 1 : ~EmptyWord(level0, w)}
    /\ level2 = {w \in 0 .. Words(Words(Words(maxFlows))) - 1 :
                    ~EmptyWord(level1, w)}

\* allocated_count, from which free_count is computed, counts the allocated
\* ids and the reserved one, and frees of ids that are not allocated do not
\* disturb it.
CountExact ==
    allocatedCount = IF maxFlows = 0 THEN 0 ELSE Cardinality(Allocated) + 1

\* The least free id is the one handed out ("Prefers lower flow IDs").
LeastFirst ==
    [][\A id \in Allocated' \ Allocated :
          \A free \in Pool(maxFlows) \ Allocated : id <= free]_vars

\* The trie implements a pool of the ids 1 .. max_flows - 1: an id is never
\* handed out twice, id 0 and the padding never, and NO_MEMORY is returned
\* only when every id is taken.
Abstract == INSTANCE IdPool
               WITH AllIds <- UNION {Pool(n) : n \in Sizes},
                    ids <- Pool(maxFlows), inUse <- Allocated

ImplementsIdPool == Abstract!Spec

=============================================================================
