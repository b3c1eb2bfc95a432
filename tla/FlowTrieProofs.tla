---------------------------- MODULE FlowTrieProofs ----------------------------
(* Theorems about FlowTrie, for every word size and every set of sizes.    *)
EXTENDS FlowTrie, Integers, FiniteSetTheorems, DataProofs, TLAPS

-----------------------------------------------------------------------------
(* Bits and words.                                                         *)

\* A bit is in the range of its word and of no other.
LEMMA WordOfRange ==
    ASSUME NEW a \in Nat, NEW w \in Nat
    PROVE  a \in WordRange(w) <=> WordOf(a) = w
<1>1. CASE a \in WordRange(w)
  BY <1>1, WordAssumption DEF WordRange, WordOf
<1>2. CASE WordOf(a) = w
  <2>1. WordBits * w <= a /\ a < WordBits * w + WordBits
    BY <1>2, WordAssumption DEF WordOf
  <2> QED
    BY <2>1, <1>2, WordAssumption DEF WordRange
<1> QED
  BY <1>1, <1>2

LEMMA WordOfNat ==
    ASSUME NEW a \in Nat
    PROVE  /\ WordOf(a) \in Nat
           /\ WordBits * WordOf(a) <= a /\ a < WordBits * WordOf(a) + WordBits
  BY WordAssumption DEF WordOf

LEMMA WordRangeNat ==
    ASSUME NEW w \in Nat
    PROVE  /\ WordRange(w) \subseteq Nat
           /\ w * WordBits \in WordRange(w) /\ w * WordBits \in Nat
  BY WordAssumption DEF WordRange

LEMMA WordMonotone ==
    ASSUME NEW a \in Nat, NEW b \in Nat, WordOf(a) < WordOf(b)
    PROVE  a < b
<1>1. /\ WordOf(a) \in Nat /\ WordOf(b) \in Nat
      /\ a < WordBits * WordOf(a) + WordBits /\ WordBits * WordOf(b) <= b
  BY WordOfNat
<1>2. WordBits * WordOf(b) >= WordBits * (WordOf(a) + 1)
  BY <1>1, WordAssumption
<1> QED
  BY <1>1, <1>2, WordAssumption

\* The words that bits_to_words gives just cover the bits.
LEMMA WordsCover ==
    ASSUME NEW n \in Nat
    PROVE  /\ Words(n) \in Nat
           /\ n <= Words(n) * WordBits /\ Words(n) * WordBits < n + WordBits
<1> DEFINE m == n + WordBits - 1
<1>1. m \in Nat
  BY WordAssumption
<1>2. /\ m \div WordBits \in Nat
      /\ WordBits * (m \div WordBits) <= m
      /\ m < WordBits * (m \div WordBits) + WordBits
  BY <1>1, WordAssumption
<1> QED
  BY <1>2, WordAssumption DEF Words

\* A bit belongs to one of the words that cover the bits, and every one of
\* these words has a bit that was asked for.
LEMMA WordsOfBits ==
    ASSUME NEW n \in Nat
    PROVE  /\ \A a \in 0 .. Words(n) * WordBits - 1 : WordOf(a) \in 0 .. Words(n) - 1
           /\ \A a \in 0 .. n - 1 : WordOf(a) \in 0 .. Words(n) - 1
           /\ \A w \in 0 .. Words(n) - 1 : /\ w * WordBits \in 0 .. n - 1
                                           /\ WordOf(w * WordBits) = w
<1>1. /\ Words(n) \in Nat
      /\ n <= Words(n) * WordBits /\ Words(n) * WordBits < n + WordBits
  BY WordsCover
<1>2. ASSUME NEW a \in 0 .. Words(n) * WordBits - 1
      PROVE  WordOf(a) \in 0 .. Words(n) - 1
  <2>1. a \in Nat /\ a < Words(n) * WordBits
    BY <1>1, WordAssumption
  <2>2. WordOf(a) \in Nat /\ WordBits * WordOf(a) <= a
    BY <2>1, WordOfNat
  <2>3. ~(WordOf(a) >= Words(n))
    <3>1. WordOf(a) >= Words(n) => WordBits * WordOf(a) >= WordBits * Words(n)
      BY <1>1, <2>2, WordAssumption
    <3> QED
      BY <3>1, <1>1, <2>1, <2>2, WordAssumption
  <2> QED
    BY <1>1, <2>2, <2>3
<1>3. ASSUME NEW w \in 0 .. Words(n) - 1
      PROVE  w * WordBits \in 0 .. n - 1 /\ WordOf(w * WordBits) = w
  <2>1. w \in Nat /\ w + 1 <= Words(n)
    BY <1>1
  <2>2. (w + 1) * WordBits <= Words(n) * WordBits
    BY <1>1, <2>1, WordAssumption
  <2>3. w * WordBits < n /\ w * WordBits \in Nat
    BY <1>1, <2>1, <2>2, WordAssumption
  <2>4. WordOf(w * WordBits) = w
    BY <2>1, WordRangeNat, WordOfRange
  <2> QED
    BY <2>3, <2>4
<1>4. 0 .. n - 1 \subseteq 0 .. Words(n) * WordBits - 1
  BY <1>1, WordAssumption
<1> QED
  BY <1>2, <1>3, <1>4

LEMMA WordsBound ==
    ASSUME NEW n \in Nat, NEW k \in Nat, n <= WordBits * k
    PROVE  Words(n) \in 0 .. k
<1>1. /\ Words(n) \in Nat
      /\ Words(n) * WordBits < n + WordBits
  BY WordsCover
<1>2. Words(n) > k => Words(n) * WordBits >= (k + 1) * WordBits
  BY <1>1, WordAssumption
<1> QED
  BY <1>1, <1>2, WordAssumption

\* The sizes that init is called with fit four levels: one word is enough for
\* the top.
LEMMA LevelSizes ==
    ASSUME NEW n \in Sizes \cup {0}
    PROVE  /\ n \in Nat /\ Words(n) \in Nat /\ Words(Words(n)) \in Nat
           /\ Words(Words(Words(n))) \in 0 .. WordBits
           /\ n # 0 => /\ 0 \in 0 .. Words(n) - 1
                       /\ 0 \in 0 .. Words(Words(n)) - 1
                       /\ 0 \in 0 .. Words(Words(Words(n))) - 1
           /\ n = 0 => Words(n) = 0
<1> DEFINE square == WordBits * WordBits
           cube   == WordBits * square
<1>1. square \in Nat /\ cube \in Nat /\ WordBits \in Nat
  BY WordAssumption
<1>2. n \in Nat /\ n <= WordBits * cube
  <2>1. WordBits * cube \in Nat
    BY <1>1
  <2>2. WordBits * cube = WordBits * WordBits * WordBits * WordBits
    BY WordAssumption
  <2> QED
    BY <2>1, <2>2, SizesAssumption
<1> HIDE DEF square, cube
<1>3. Words(n) \in 0 .. cube
  BY <1>1, <1>2, WordsBound
<1>4. Words(Words(n)) \in 0 .. square
  BY <1>1, <1>3, WordsBound DEF cube
<1>5. Words(Words(Words(n))) \in 0 .. WordBits
  BY <1>1, <1>4, WordsBound DEF square
<1>6. \A m \in Nat : m # 0 => 0 \in 0 .. Words(m) - 1
  BY WordsCover, WordAssumption
<1>7. n = 0 => Words(n) = 0
  BY WordsCover, WordAssumption
<1>8. \A m \in Nat : m # 0 => Words(m) # 0
  BY WordsCover, WordAssumption
<1> QED
  BY <1>1, <1>2, <1>3, <1>4, <1>5, <1>6, <1>7, <1>8

-----------------------------------------------------------------------------
(* One level above another.                                                *)

\* The first n words of a bitmap that have a bit set.
Some(bits, n) == {w \in 0 .. n - 1 : ~EmptyWord(bits, w)}

\* The words with a bit when bit b is cleared.
LEMMA SomeLowered ==
    ASSUME NEW bits \in SUBSET Nat, NEW n \in Nat, NEW b \in bits
    PROVE  Some(bits \ {b}, n) = IF EmptyWord(bits \ {b}, WordOf(b))
                                 THEN Some(bits, n) \ {WordOf(b)}
                                 ELSE Some(bits, n)
<1>1. b \in Nat /\ WordOf(b) \in Nat /\ b \in WordRange(WordOf(b))
  BY WordOfNat, WordOfRange
<1>2. \A w \in 0 .. n - 1 : w # WordOf(b) => b \notin WordRange(w)
  BY <1>1, WordOfRange
<1>3. \A w \in 0 .. n - 1 :
         w # WordOf(b) => (EmptyWord(bits \ {b}, w) <=> EmptyWord(bits, w))
  BY <1>2 DEF EmptyWord
<1>4. ~EmptyWord(bits, WordOf(b))
  BY <1>1 DEF EmptyWord
<1> QED
  BY <1>3, <1>4 DEF Some

\* The words with a bit when bit b is set.
LEMMA SomeRaised ==
    ASSUME NEW bits \in SUBSET Nat, NEW n \in Nat, NEW b \in Nat, b \notin bits,
           WordOf(b) \in 0 .. n - 1
    PROVE  Some(bits \cup {b}, n) =
              IF (bits \cup {b}) \cap WordRange(WordOf(b)) = {b}
              THEN Some(bits, n) \cup {WordOf(b)} ELSE Some(bits, n)
<1>1. b \in WordRange(WordOf(b))
  BY WordOfNat, WordOfRange
<1>2. \A w \in 0 .. n - 1 : w # WordOf(b) => b \notin WordRange(w)
  BY WordOfRange
<1>3. \A w \in 0 .. n - 1 :
         w # WordOf(b) => (EmptyWord(bits \cup {b}, w) <=> EmptyWord(bits, w))
  BY <1>2 DEF EmptyWord
<1>4. ~EmptyWord(bits \cup {b}, WordOf(b))
  BY <1>1 DEF EmptyWord
<1>5. (bits \cup {b}) \cap WordRange(WordOf(b)) # {b}
         => ~EmptyWord(bits, WordOf(b))
  BY <1>1 DEF EmptyWord
<1> QED
  BY <1>3, <1>4, <1>5 DEF Some

\* A word of leaves is full when it has no hole.
Holes == Nat \ leaf

LEMMA FullIsNoHole ==
    ASSUME NEW w \in Nat
    PROVE  FullWord(leaf, w) <=> EmptyWord(Holes, w)
  BY WordRangeNat DEF FullWord, EmptyWord, Holes

LEMMA FullIsNoHoleNext ==
    ASSUME NEW w \in Nat
    PROVE  FullWord(leaf', w) <=> EmptyWord(Holes', w)
  BY WordRangeNat DEF FullWord, EmptyWord, Holes

\* The three levels say which words below them have a bit, the leaves being
\* seen by their holes.
Levels(n) == /\ level0 = Some(Holes, Words(n))
             /\ level1 = Some(level0, Words(Words(n)))
             /\ level2 = Some(level1, Words(Words(Words(n))))

LEMMA SummariesAreLevels ==
    ASSUME maxFlows \in Sizes \cup {0}
    PROVE  SummariesAgree <=> Levels(maxFlows)
<1>1. Words(maxFlows) \in Nat
  BY LevelSizes
<1>2. \A w \in 0 .. Words(maxFlows) - 1 :
         FullWord(leaf, w) <=> EmptyWord(Holes, w)
  BY <1>1, FullIsNoHole
<1> QED
  BY <1>2 DEF SummariesAgree, Levels, Some

LEMMA SummariesAreLevelsNext ==
    ASSUME maxFlows' \in Sizes \cup {0}
    PROVE  SummariesAgree' <=> Levels(maxFlows)'
<1>1. Words(maxFlows') \in Nat
  BY LevelSizes
<1>2. \A w \in 0 .. Words(maxFlows') - 1 :
         FullWord(leaf', w) <=> EmptyWord(Holes', w)
  BY <1>1, FullIsNoHoleNext
<1> QED
  BY <1>2 DEF SummariesAgree, Levels, Some

\* The levels of a trie are sets of natural numbers.
LEMMA LevelsType ==
    ASSUME NEW n \in Sizes \cup {0}, Levels(n)
    PROVE  /\ level0 \subseteq 0 .. Words(n) - 1
           /\ level1 \subseteq 0 .. Words(Words(n)) - 1
           /\ level2 \subseteq 0 .. WordBits - 1
           /\ level0 \in SUBSET Nat /\ level1 \in SUBSET Nat
           /\ Holes \in SUBSET Nat
  BY LevelSizes, WordAssumption DEF Levels, Some, Holes

LEMMA LevelsTypeNext ==
    ASSUME NEW n \in Sizes \cup {0}, Levels(n)'
    PROVE  /\ level0' \subseteq 0 .. Words(n) - 1
           /\ level1' \subseteq 0 .. Words(Words(n)) - 1
           /\ level2' \subseteq 0 .. WordBits - 1
  BY LevelSizes, WordAssumption DEF Levels, Some, Holes

\* Summarised keeps the levels when a hole of word w is filled.
LEMMA LevelsFilled ==
    ASSUME NEW n \in Sizes \cup {0}, Levels(n), NEW id \in Holes,
           WordOf(id) \in 0 .. Words(n) - 1,
           leaf' = leaf \cup {id}, Summarised(WordOf(id))
    PROVE  Levels(n)'
<1> DEFINE w == WordOf(id)
           n0 == Words(n)
           n1 == Words(Words(n))
           n2 == Words(Words(Words(n)))
<1>1. n0 \in Nat /\ n1 \in Nat /\ n2 \in Nat
  BY LevelSizes
<1>2. /\ level0 \in SUBSET Nat /\ level1 \in SUBSET Nat
      /\ Holes \in SUBSET Nat
  BY LevelsType
<1>3. Holes' = Holes \ {id}
  BY DEF Holes
<1>4. id \in Nat /\ w \in Nat
  BY <1>2, WordOfNat
<1>5. Some(Holes', n0) = IF FullWord(leaf', w) THEN level0 \ {w} ELSE level0
  BY <1>1, <1>2, <1>3, <1>4, SomeLowered, FullIsNoHoleNext DEF Levels
<1>6. level0' = Some(Holes', n0)
  BY <1>5 DEF Summarised
<1>7. w \in level0
  <2>1. ~EmptyWord(Holes, w)
    BY <1>4, WordOfRange DEF EmptyWord
  <2> QED
    BY <2>1 DEF Levels, Some
<1>8. Some(level0', n1) =
         IF FullWord(leaf', w) /\ EmptyWord(level0', WordOf(w))
         THEN level1 \ {WordOf(w)} ELSE level1
  <2>1. CASE FullWord(leaf', w)
    <3>1. level0' = level0 \ {w}
      BY <2>1 DEF Summarised
    <3> QED
      BY <1>1, <1>2, <1>7, <2>1, <3>1, SomeLowered DEF Levels
  <2>2. CASE ~FullWord(leaf', w)
    BY <2>2 DEF Summarised, Levels
  <2> QED
    BY <2>1, <2>2
<1>9. level1' = Some(level0', n1)
  BY <1>8 DEF Summarised
<1>10. WordOf(w) \in level1
  <2>1. WordOf(w) \in Nat /\ WordOf(w) \in 0 .. n1 - 1
    BY <1>1, <1>4, WordOfNat, WordsOfBits
  <2>2. ~EmptyWord(level0, WordOf(w))
    BY <1>4, <1>7, <2>1, WordOfRange DEF EmptyWord
  <2> QED
    BY <2>1, <2>2 DEF Levels, Some
<1>11. Some(level1', n2) =
          IF /\ FullWord(leaf', w)
             /\ EmptyWord(level0', WordOf(w))
             /\ EmptyWord(level1', WordOf(WordOf(w)))
          THEN level2 \ {WordOf(WordOf(w))} ELSE level2
  <2>1. CASE FullWord(leaf', w) /\ EmptyWord(level0', WordOf(w))
    <3>1. level1' = level1 \ {WordOf(w)}
      BY <2>1 DEF Summarised
    <3> QED
      BY <1>1, <1>2, <1>10, <2>1, <3>1, SomeLowered DEF Levels
  <2>2. CASE ~(FullWord(leaf', w) /\ EmptyWord(level0', WordOf(w)))
    <3>1. level1' = level1
      BY <2>2 DEF Summarised
    <3> QED
      BY <2>2, <3>1 DEF Levels
  <2> QED
    BY <2>1, <2>2
<1>12. level2' = Some(level1', n2)
  BY <1>11 DEF Summarised
<1> QED
  BY <1>6, <1>9, <1>12 DEF Levels

\* Raised keeps the levels when a full word w gets a hole.
LEMMA LevelsRaised ==
    ASSUME NEW n \in Sizes \cup {0}, Levels(n), NEW id \in Nat, id \in leaf,
           WordOf(id) \in 0 .. Words(n) - 1, FullWord(leaf, WordOf(id)),
           leaf' = leaf \ {id}, Raised(WordOf(id))
    PROVE  Levels(n)'
<1> DEFINE w == WordOf(id)
           n0 == Words(n)
           n1 == Words(Words(n))
           n2 == Words(Words(Words(n)))
<1>1. n0 \in Nat /\ n1 \in Nat /\ n2 \in Nat
  BY LevelSizes
<1>2. /\ level0 \in SUBSET Nat /\ level1 \in SUBSET Nat
      /\ Holes \in SUBSET Nat
  BY LevelsType
<1>3. Holes' = Holes \cup {id} /\ id \notin Holes
  BY DEF Holes
<1>4. w \in Nat /\ w \in 0 .. n0 - 1
  BY WordOfNat
<1>5. EmptyWord(Holes, w)
  BY <1>4, FullIsNoHole
<1>6. (Holes \cup {id}) \cap WordRange(w) = {id}
  BY <1>5, WordOfNat, WordOfRange DEF EmptyWord
<1>7. level0' = Some(Holes', n0)
  BY <1>1, <1>2, <1>3, <1>4, <1>6, SomeRaised DEF Levels, Raised
<1>8. w \notin level0
  BY <1>5 DEF Levels, Some
<1>9. WordOf(w) \in Nat /\ WordOf(w) \in 0 .. n1 - 1
  BY <1>1, <1>4, WordOfNat, WordsOfBits
<1>10. level0' = level0 \cup {w}
  BY DEF Raised
<1>11. level1' = Some(level0', n1)
  <2>1. Some(level0 \cup {w}, n1) =
           IF (level0 \cup {w}) \cap WordRange(WordOf(w)) = {w}
           THEN Some(level0, n1) \cup {WordOf(w)} ELSE Some(level0, n1)
    BY <1>1, <1>2, <1>4, <1>8, <1>9, SomeRaised
  <2>2. level1' = IF level0' \cap WordRange(WordOf(w)) = {w}
                  THEN level1 \cup {WordOf(w)} ELSE level1
    BY DEF Raised
  <2>3. level1 = Some(level0, n1)
    BY DEF Levels
  <2> QED
    BY <1>10, <2>1, <2>2, <2>3
<1>12. CASE level0' \cap WordRange(WordOf(w)) = {w}
  <2>1. level1' = level1 \cup {WordOf(w)}
    BY <1>12 DEF Raised
  <2>2. WordOf(w) \notin level1
    <3>1. EmptyWord(level0, WordOf(w))
      BY <1>8, <1>10, <1>12 DEF EmptyWord
    <3> QED
      BY <3>1 DEF Levels, Some
  <2>3. WordOf(WordOf(w)) \in 0 .. n2 - 1
    BY <1>1, <1>9, WordsOfBits
  <2>4. Some(level1 \cup {WordOf(w)}, n2) =
           IF (level1 \cup {WordOf(w)}) \cap WordRange(WordOf(WordOf(w)))
                 = {WordOf(w)}
           THEN Some(level1, n2) \cup {WordOf(WordOf(w))} ELSE Some(level1, n2)
    BY <1>1, <1>2, <1>9, <2>2, <2>3, SomeRaised
  <2>5. level2' = IF level1' \cap WordRange(WordOf(WordOf(w))) = {WordOf(w)}
                  THEN level2 \cup {WordOf(WordOf(w))} ELSE level2
    BY <1>12 DEF Raised
  <2>6. level2 = Some(level1, n2)
    BY DEF Levels
  <2>7. level2' = Some(level1', n2)
    BY <2>1, <2>4, <2>5, <2>6
  <2> QED
    BY <1>7, <1>11, <2>7 DEF Levels
<1>13. CASE level0' \cap WordRange(WordOf(w)) # {w}
  <2>1. level1' = level1 /\ level2' = level2
    BY <1>13 DEF Raised
  <2> QED
    BY <1>7, <1>11, <2>1 DEF Levels
<1> QED
  BY <1>12, <1>13

\* The levels stay when a word that has a hole gets another one.
LEMMA LevelsFreed ==
    ASSUME NEW n \in Sizes \cup {0}, Levels(n), NEW id \in Nat, id \in leaf,
           WordOf(id) \in 0 .. Words(n) - 1, ~FullWord(leaf, WordOf(id)),
           leaf' = leaf \ {id}, UNCHANGED <<level0, level1, level2>>
    PROVE  Levels(n)'
<1> DEFINE w == WordOf(id)
<1>1. Words(n) \in Nat /\ Holes \in SUBSET Nat
  BY LevelSizes, LevelsType
<1>2. Holes' = Holes \cup {id} /\ id \notin Holes
  BY DEF Holes
<1>3. w \in 0 .. Words(n) - 1 /\ w \in Nat
  BY WordOfNat
<1>4. ~EmptyWord(Holes, w)
  BY <1>3, FullIsNoHole
<1>5. w \in Some(Holes, Words(n))
  BY <1>3, <1>4 DEF Some
<1>6. Some(Holes \cup {id}, Words(n)) =
         IF (Holes \cup {id}) \cap WordRange(w) = {id}
         THEN Some(Holes, Words(n)) \cup {w} ELSE Some(Holes, Words(n))
  BY <1>1, <1>2, <1>3, SomeRaised
<1>7. Some(Holes', Words(n)) = Some(Holes, Words(n))
  <2> HIDE DEF w
  <2> QED
    BY <1>2, <1>5, <1>6
<1> QED
  BY <1>7 DEF Levels

\* A new trie: every word has its first bit set but the first, in which id 0
\* is reserved.
LEMMA LevelsCreated ==
    ASSUME NEW n \in Sizes, Create(n)
    PROVE  Levels(n)'
<1> DEFINE n0 == Words(n)
           n1 == Words(Words(n))
           n2 == Words(Words(Words(n)))
           full == FullWord(leaf', 0)
<1>1. /\ n \in Nat /\ n0 \in Nat /\ n1 \in Nat /\ n2 \in Nat
      /\ 0 \in 0 .. n0 - 1 /\ 0 \in 0 .. n1 - 1 /\ 0 \in 0 .. n2 - 1
  BY LevelSizes, SizesAssumption
<1>2. /\ leaf' = {0} \cup LastLeafPad(n)
      /\ level0' = (0 .. n0 - 1) \ (IF full THEN {0} ELSE {})
      /\ level1' = (0 .. n1 - 1) \
            (IF full /\ EmptyWord(level0', 0) THEN {0} ELSE {})
      /\ level2' = (0 .. n2 - 1) \
            (IF full /\ EmptyWord(level0', 0) /\ EmptyWord(level1', 0)
             THEN {0} ELSE {})
  BY DEF Create
\* A word that is not the first has its first bit set.
<1>3. ASSUME NEW bits, NEW m \in Nat, NEW w \in 0 .. Words(m) - 1, w # 0,
             \A b \in 0 .. m - 1 : b # 0 => b \in bits
      PROVE  ~EmptyWord(bits, w)
  <2>1. w * WordBits \in 0 .. m - 1 /\ Words(m) \in Nat
    BY <1>3, WordsOfBits, WordsCover
  <2>2. w \in Nat /\ w * WordBits # 0
    BY <1>3, <2>1, WordAssumption
  <2> QED
    BY <1>3, <2>1, <2>2, WordRangeNat DEF EmptyWord
<1>4. 0 \in WordRange(0)
  BY WordAssumption DEF WordRange
<1>5. level0' = Some(Holes', n0)
  <2>1. \A b \in 0 .. n - 1 : b # 0 => b \in Holes'
    BY <1>1, <1>2 DEF LastLeafPad, Holes
  <2>2. \A w \in 0 .. n0 - 1 : w # 0 => ~EmptyWord(Holes', w)
    BY <1>1, <1>3, <2>1
  <2>3. full <=> EmptyWord(Holes', 0)
    BY FullIsNoHoleNext
  <2> QED
    BY <1>1, <1>2, <2>2, <2>3 DEF Some
<1>6. level1' = Some(level0', n1)
  <2>1. \A b \in 0 .. n0 - 1 : b # 0 => b \in level0'
    BY <1>1, <1>2
  <2>2. \A w \in 0 .. n1 - 1 : w # 0 => ~EmptyWord(level0', w)
    BY <1>1, <1>3, <2>1
  <2>3. ~full => ~EmptyWord(level0', 0)
    BY <1>1, <1>2, <1>4 DEF EmptyWord
  <2> QED
    BY <1>1, <1>2, <2>2, <2>3 DEF Some
<1>7. level2' = Some(level1', n2)
  <2>1. \A b \in 0 .. n1 - 1 : b # 0 => b \in level1'
    BY <1>1, <1>2
  <2>2. \A w \in 0 .. n2 - 1 : w # 0 => ~EmptyWord(level1', w)
    BY <1>1, <1>3, <2>1
  <2>3. ~(full /\ EmptyWord(level0', 0)) => ~EmptyWord(level1', 0)
    BY <1>1, <1>2, <1>4 DEF EmptyWord
  <2> QED
    BY <1>1, <1>2, <2>2, <2>3 DEF Some
<1> QED
  BY <1>5, <1>6, <1>7 DEF Levels

\* No trie: no level has a bit.
LEMMA LevelsNone ==
    ASSUME level0 = {}, level1 = {}, level2 = {}
    PROVE  Levels(0)
<1>1. Words(0) = 0 /\ Words(Words(0)) = 0 /\ Words(Words(Words(0))) = 0
  BY LevelSizes
<1> QED
  BY <1>1 DEF Levels, Some

-----------------------------------------------------------------------------
(* The inductive invariant.                                                *)

\* Id 0 and the padding of the last word are never free.
Reserved == maxFlows # 0 => {0} \cup LastLeafPad(maxFlows) \subseteq leaf

TrieInv == TypeOK /\ SummariesAgree /\ CountExact /\ Reserved

\* What the invariant says of the parts that the actions use.
LEMMA TrieParts ==
    ASSUME TrieInv
    PROVE  /\ maxFlows \in Sizes \cup {0} /\ maxFlows \in Nat
           /\ Levels(maxFlows)
           /\ Words(maxFlows) \in Nat
           /\ maxFlows <= Words(maxFlows) * WordBits
           /\ Words(maxFlows) * WordBits \in Nat
           /\ leaf \subseteq 0 .. Words(maxFlows) * WordBits - 1
           /\ Allocated \subseteq 0 .. maxFlows /\ IsFiniteSet(Allocated)
           /\ Cardinality(Allocated) \in Nat /\ allocatedCount \in Nat
<1>1. maxFlows \in Sizes \cup {0}
  BY DEF TrieInv, TypeOK
<1>2. maxFlows \in Nat /\ Words(maxFlows) \in Nat
  BY <1>1, LevelSizes
<1>3. Allocated \subseteq 0 .. maxFlows
  BY <1>2 DEF Allocated, Pool
<1>4. IsFiniteSet(Allocated) /\ Cardinality(Allocated) \in Nat
  <2> DEFINE I == 0 .. maxFlows
             A == Allocated
  <2>1. IsFiniteSet(I)
    BY <1>2, FS_Interval
  <2>2. A \in SUBSET I
    BY <1>3
  <2> HIDE DEF A, I
  <2>3. IsFiniteSet(A) /\ Cardinality(A) \in Nat
    BY <2>1, <2>2, FS_Subset, FS_CardinalityType
  <2> QED
    BY <2>3 DEF A
<1>5. /\ maxFlows <= Words(maxFlows) * WordBits
      /\ Words(maxFlows) * WordBits \in Nat
  BY <1>2, WordsCover, WordAssumption
<1> QED
  BY <1>1, <1>2, <1>3, <1>4, <1>5, SummariesAreLevels DEF TrieInv, TypeOK

\* The invariant from its parts in the next state.
LEMMA TrieInvFrom ==
    ASSUME maxFlows' \in Sizes \cup {0}, Levels(maxFlows)', CountExact',
           leaf' \subseteq 0 .. Words(maxFlows') * WordBits - 1,
           allocatedCount' \in Nat,
           answer' \in {"none", "ok", "full", "internal"}, Reserved'
    PROVE  TrieInv'
<1>1. SummariesAgree'
  BY SummariesAreLevelsNext
<1>2. /\ level0' \subseteq 0 .. Words(maxFlows') - 1
      /\ level1' \subseteq 0 .. Words(Words(maxFlows')) - 1
      /\ level2' \subseteq 0 .. WordBits - 1
  BY LevelsTypeNext DEF Levels
<1> QED
  BY <1>1, <1>2 DEF TrieInv, TypeOK

\* An id that the trie knows is free: how it looks in the leaves.
LEMMA NextIdFree ==
    ASSUME TrieInv, NEW id \in NextId
    PROVE  /\ id \in Nat /\ id \in Holes /\ id \in Pool(maxFlows)
           /\ maxFlows # 0 /\ id \in 0 .. maxFlows - 1
           /\ WordOf(id) \in 0 .. Words(maxFlows) - 1
           /\ id \notin leaf
<1>1. PICK w \in LeafFound : id \in FirstZero(leaf, w) /\ id < maxFlows
  BY DEF NextId
<1>2. w \in Nat
  BY <1>1, LevelsType, TrieParts DEF LeafFound, FirstSet, Least
<1>3. id \in Nat /\ id \notin leaf
  BY <1>1, <1>2, WordRangeNat DEF FirstZero, Least
<1>4. maxFlows # 0 /\ id \in 0 .. maxFlows - 1 /\ maxFlows \in Nat
  BY <1>1, <1>3, TrieParts
<1>5. id # 0
  BY <1>3, <1>4 DEF TrieInv, Reserved
<1> QED
  BY <1>3, <1>4, <1>5, WordsOfBits DEF Holes, Pool

LEMMA AllocTrieInv ==
    ASSUME TrieInv, Alloc
    PROVE  TrieInv'
<1>1. PICK id \in NextId : leaf' = leaf \cup {id} /\ Summarised(WordOf(id))
  BY DEF Alloc
<1>2. /\ maxFlows' = maxFlows /\ allocatedCount' = allocatedCount + 1
      /\ answer' = "ok"
  BY DEF Alloc
<1>3. /\ id \in Nat /\ id \in Holes /\ id \in Pool(maxFlows) /\ maxFlows # 0
      /\ id \in 0 .. maxFlows - 1 /\ id \notin leaf
      /\ WordOf(id) \in 0 .. Words(maxFlows) - 1
  BY NextIdFree
<1>4. Levels(maxFlows)'
  <2>1. \A n \in Sizes \cup {0} : n = maxFlows => Levels(n)'
    BY <1>1, <1>3, TrieParts, LevelsFilled
  <2> QED
    BY <1>2, <2>1, TrieParts DEF Levels
<1>5. Allocated' = Allocated \cup {id} /\ id \notin Allocated
  BY <1>1, <1>2, <1>3 DEF Allocated
<1>6. Cardinality(Allocated') = Cardinality(Allocated) + 1
  BY <1>5, TrieParts, FS_AddElement
<1>7. CountExact'
  BY <1>2, <1>3, <1>6, TrieParts DEF TrieInv, CountExact
<1>8. leaf' \subseteq 0 .. Words(maxFlows') * WordBits - 1
  BY <1>1, <1>2, <1>3, TrieParts
<1>9. Reserved'
  BY <1>1, <1>2 DEF TrieInv, Reserved
<1> QED
  BY <1>2, <1>4, <1>7, <1>8, <1>9, TrieParts, TrieInvFrom

LEMMA FreeTrieInv ==
    ASSUME TrieInv, NEW id \in 0 .. maxFlows, Free(id)
    PROVE  TrieInv' /\ id \in Allocated /\ Allocated' = Allocated \ {id}
<1>1. /\ id # 0 /\ id < maxFlows /\ id \in leaf
      /\ leaf' = leaf \ {id}
      /\ IF FullWord(leaf, WordOf(id))
         THEN Raised(WordOf(id)) ELSE UNCHANGED <<level0, level1, level2>>
      /\ allocatedCount' = allocatedCount - 1
      /\ answer' = "none" /\ maxFlows' = maxFlows
  BY DEF Free, CanFree
<1>2. id \in Nat /\ id \in 0 .. maxFlows - 1 /\ maxFlows # 0
  BY <1>1, TrieParts
<1>3. WordOf(id) \in 0 .. Words(maxFlows) - 1
  BY <1>2, TrieParts, WordsOfBits
<1>4. Levels(maxFlows)'
  <2>1. \A n \in Sizes \cup {0} : n = maxFlows => Levels(n)'
    BY <1>1, <1>2, <1>3, TrieParts, LevelsRaised, LevelsFreed
  <2> QED
    BY <1>1, <2>1, TrieParts DEF Levels
<1>5. id \in Allocated /\ Allocated' = Allocated \ {id}
  BY <1>1, <1>2 DEF Allocated, Pool
<1>6. /\ Cardinality(Allocated') = Cardinality(Allocated) - 1
      /\ Cardinality(Allocated') \in Nat
  BY <1>5, TrieParts, FS_RemoveElement, FS_CardinalityType
<1>7. CountExact' /\ allocatedCount' \in Nat
  BY <1>1, <1>2, <1>6, TrieParts DEF TrieInv, CountExact
<1>8. Reserved'
  BY <1>1, <1>2, TrieParts DEF TrieInv, Reserved, LastLeafPad
<1> QED
  BY <1>1, <1>4, <1>5, <1>7, <1>8, TrieParts, TrieInvFrom

LEMMA CreateTrieInv ==
    ASSUME NEW n \in Sizes, Create(n)
    PROVE  TrieInv' /\ Allocated' = {}
<1>1. /\ maxFlows' = n /\ allocatedCount' = 1 /\ answer' = "none"
      /\ leaf' = {0} \cup LastLeafPad(n)
  BY DEF Create
<1>2. n \in Nat /\ n # 0 /\ Words(n) \in Nat /\ n <= Words(n) * WordBits
  BY SizesAssumption, WordsCover, LevelSizes
<1>3. Levels(maxFlows)'
  BY <1>1, LevelsCreated DEF Levels
<1>4. Allocated' = {}
  BY <1>1, <1>2 DEF Allocated, Pool, LastLeafPad
<1>5. CountExact'
  BY <1>1, <1>2, <1>4, FS_EmptySet DEF CountExact
<1>6. leaf' \subseteq 0 .. Words(maxFlows') * WordBits - 1
  BY <1>1, <1>2, WordAssumption DEF LastLeafPad
<1>7. Reserved'
  BY <1>1 DEF Reserved
<1> QED
  BY <1>1, <1>3, <1>4, <1>5, <1>6, <1>7, TrieInvFrom

LEMMA DestroyTrieInv == ASSUME Destroy PROVE TrieInv' /\ Allocated' = {}
<1>1. /\ maxFlows' = 0 /\ allocatedCount' = 0 /\ answer' = "none"
      /\ leaf' = {} /\ level0' = {} /\ level1' = {} /\ level2' = {}
  BY DEF Destroy
<1>2. Levels(maxFlows)'
  <2>1. Words(0) = 0 /\ Words(Words(0)) = 0 /\ Words(Words(Words(0))) = 0
    BY LevelSizes
  <2> QED
    BY <1>1, <2>1 DEF Levels, Some
<1> QED
  BY <1>1, <1>2, TrieInvFrom DEF CountExact, Reserved, Allocated

LEMMA InitTrieInv == ASSUME Init PROVE TrieInv
<1>1. Words(0) = 0
  BY LevelSizes
<1> QED
  BY <1>1, LevelsNone, SummariesAreLevels
  DEF Init, TrieInv, TypeOK, CountExact, Reserved

LEMMA TrieInvNext == ASSUME TrieInv, [Next]_vars PROVE TrieInv'
<1>1. CASE AllocFails
  <2>1. /\ UNCHANGED <<maxFlows, leaf, level0, level1, level2, allocatedCount>>
        /\ answer' \in {"none", "ok", "full", "internal"}
    BY <1>1 DEF AllocFails
  <2> QED
    BY <2>1 DEF TrieInv, TypeOK, SummariesAgree, CountExact, Reserved, Allocated
<1>2. CASE UNCHANGED vars
  BY <1>2 DEF vars, TrieInv, TypeOK, SummariesAgree, CountExact, Reserved,
              Allocated
<1> QED
  BY <1>1, <1>2, AllocTrieInv, FreeTrieInv, CreateTrieInv, DestroyTrieInv
  DEF Next

\* The trie keeps its types for every word size and every number of flows
\* that four levels can hold.
THEOREM TrieTypeCorrect == Spec => []TypeOK
  <1>1. TrieInv => TypeOK
    BY DEF TrieInv
  <1> QED
    BY <1>1, InitTrieInv, TrieInvNext, PTL DEF Spec

\* Each of the three summary levels has a bit set exactly for the words below
\* it that have a free id, through every mix of allocations and frees, the
\* reserved id and the padding of the last words included.
THEOREM SummariesCorrect == Spec => []SummariesAgree
  <1>1. TrieInv => SummariesAgree
    BY DEF TrieInv
  <1> QED
    BY <1>1, InitTrieInv, TrieInvNext, PTL DEF Spec

\* allocated_count is the number of ids handed out and the reserved one: an
\* id freed twice or out of range does not disturb it.
THEOREM CountCorrect == Spec => []CountExact
  <1>1. TrieInv => CountExact
    BY DEF TrieInv
  <1> QED
    BY <1>1, InitTrieInv, TrieInvNext, PTL DEF Spec

-----------------------------------------------------------------------------
(* The search.                                                             *)

LEMMA LeastExists ==
    ASSUME NEW S \in SUBSET Nat, S # {}
    PROVE  Least(S) # {}
  BY LeastNatural DEF Least

\* The first bit of a word comes before every bit of this and of later words.
LEMMA FirstIsLeast ==
    ASSUME NEW bits \in SUBSET Nat, NEW w \in Nat,
           NEW b \in Least(WordRange(w) \cap bits), NEW c \in bits,
           w <= WordOf(c)
    PROVE  b <= c
<1>1. b \in bits /\ b \in WordRange(w) /\ b \in Nat /\ c \in Nat
  BY DEF Least
<1>2. WordOf(b) = w /\ WordOf(c) \in Nat
  BY <1>1, WordOfRange, WordOfNat
<1>3. CASE w = WordOf(c)
  BY <1>1, <1>3, WordOfRange DEF Least
<1>4. CASE w < WordOf(c)
  BY <1>1, <1>2, <1>4, WordMonotone
<1> QED
  BY <1>2, <1>3, <1>4

\* A free leaf is announced at all three levels.
LEMMA HoleAnnounced ==
    ASSUME TrieInv, NEW f \in Holes, f < Words(maxFlows) * WordBits
    PROVE  /\ WordOf(f) \in level0 /\ WordOf(WordOf(f)) \in level1
           /\ WordOf(WordOf(WordOf(f))) \in level2
           /\ WordOf(WordOf(WordOf(WordOf(f)))) = 0
<1> DEFINE n0 == Words(maxFlows)
           n1 == Words(Words(maxFlows))
           n2 == Words(Words(Words(maxFlows)))
           w  == WordOf(f)
           l  == WordOf(w)
           v  == WordOf(l)
<1>1. n0 \in Nat /\ n1 \in Nat /\ n2 \in Nat /\ Levels(maxFlows)
  BY TrieParts, LevelSizes
<1>2. f \in Nat /\ w \in Nat /\ l \in Nat /\ v \in Nat
  BY WordOfNat DEF Holes
<1>3. w \in 0 .. n0 - 1
  BY <1>1, <1>2, TrieParts, WordsOfBits
<1>4. l \in 0 .. n1 - 1
  BY <1>1, <1>3, WordsOfBits
<1>5. v \in 0 .. n2 - 1
  BY <1>1, <1>4, WordsOfBits
<1>6. w \in level0
  BY <1>1, <1>2, <1>3, WordOfRange DEF Levels, Some, EmptyWord
<1>7. l \in level1
  BY <1>1, <1>2, <1>4, <1>6, WordOfRange DEF Levels, Some, EmptyWord
<1>8. v \in level2
  BY <1>1, <1>2, <1>5, <1>7, WordOfRange DEF Levels, Some, EmptyWord
<1>9. v \in WordRange(0)
  BY <1>8, LevelsType, TrieParts, WordAssumption DEF WordRange
<1>10. WordOf(v) = 0
  BY <1>2, <1>9, WordOfRange
<1> QED
  BY <1>6, <1>7, <1>8, <1>10

\* The search comes to the least free leaf.
LEMMA SearchIsLeast ==
    ASSUME TrieInv, NEW id \in NextId, NEW f \in Holes,
           f < Words(maxFlows) * WordBits
    PROVE  id <= f
<1>1. /\ level0 \in SUBSET Nat /\ level1 \in SUBSET Nat
      /\ level2 \in SUBSET Nat /\ Holes \in SUBSET Nat
  BY LevelsType, TrieParts, WordAssumption
<1>2. PICK v \in FirstSet(level2, 0) :
        \E l \in FirstSet(level1, v) : \E w \in FirstSet(level0, l) :
           id \in FirstZero(leaf, w)
  BY DEF NextId, LeafFound
<1>3. PICK l \in FirstSet(level1, v) : \E w \in FirstSet(level0, l) :
           id \in FirstZero(leaf, w)
  BY <1>2
<1>4. PICK w \in FirstSet(level0, l) : id \in FirstZero(leaf, w)
  BY <1>3
<1>5. v \in Nat /\ l \in Nat /\ w \in Nat
  BY <1>1 DEF FirstSet, Least
<1>6. /\ WordOf(f) \in level0 /\ WordOf(WordOf(f)) \in level1
      /\ WordOf(WordOf(WordOf(f))) \in level2
      /\ WordOf(WordOf(WordOf(WordOf(f)))) = 0
  BY HoleAnnounced
<1>7. v <= WordOf(WordOf(WordOf(f)))
  <2>1. 0 \in Nat /\ 0 <= WordOf(WordOf(WordOf(WordOf(f))))
    BY <1>6
  <2>2. v \in Least(WordRange(0) \cap level2)
    BY DEF FirstSet
  <2> QED
    BY <1>1, <1>6, <2>1, <2>2, FirstIsLeast
<1>8. l <= WordOf(WordOf(f))
  BY <1>1, <1>5, <1>6, <1>7, FirstIsLeast DEF FirstSet
<1>9. w <= WordOf(f)
  BY <1>1, <1>5, <1>6, <1>8, FirstIsLeast DEF FirstSet
<1>10. WordRange(w) \ leaf = WordRange(w) \cap Holes
  BY <1>5, WordRangeNat DEF Holes
<1> QED
  BY <1>1, <1>4, <1>5, <1>9, <1>10, FirstIsLeast DEF FirstZero

\* The search finds an id whenever the top word has a bit set.
LEMMA SearchFinds ==
    ASSUME TrieInv, level2 # {}
    PROVE  NextId # {}
<1>1. /\ level0 \in SUBSET Nat /\ level1 \in SUBSET Nat
      /\ level2 \subseteq 0 .. WordBits - 1 /\ Holes \in SUBSET Nat
      /\ level0 \subseteq 0 .. Words(maxFlows) - 1
      /\ Levels(maxFlows)
  BY LevelsType, TrieParts
<1>2. PICK v \in FirstSet(level2, 0) : v \in level2
  <2>1. WordRange(0) = 0 .. WordBits - 1
    BY WordAssumption DEF WordRange
  <2>2. level2 \subseteq WordRange(0) /\ WordRange(0) \subseteq Nat
    BY <1>1, <2>1, WordRangeNat
  <2>3. WordRange(0) \cap level2 = level2 /\ level2 \in SUBSET Nat
    BY <2>2
  <2> QED
    BY <2>3, LeastExists DEF FirstSet, Least
<1>3. v \in Nat
  BY <1>1, <1>2, WordAssumption
<1>4. PICK l \in FirstSet(level1, v) : l \in level1
  <2>1. WordRange(v) \cap level1 # {} /\ WordRange(v) \cap level1 \in SUBSET Nat
    BY <1>1, <1>2 DEF Levels, Some, EmptyWord
  <2> QED
    BY <2>1, LeastExists DEF FirstSet, Least
<1>5. l \in Nat
  BY <1>1, <1>4
<1>6. PICK w \in FirstSet(level0, l) : w \in level0
  <2>1. WordRange(l) \cap level0 # {} /\ WordRange(l) \cap level0 \in SUBSET Nat
    BY <1>1, <1>4 DEF Levels, Some, EmptyWord
  <2> QED
    BY <2>1, LeastExists DEF FirstSet, Least
<1>7. w \in Nat /\ w \in 0 .. Words(maxFlows) - 1
  BY <1>1, <1>6
<1>8. PICK id \in FirstZero(leaf, w) : id \in WordRange(w) /\ id \notin leaf
  <2>1. WordRange(w) \ leaf # {} /\ WordRange(w) \ leaf \in SUBSET Nat
    BY <1>1, <1>6, <1>7, WordRangeNat DEF Levels, Some, EmptyWord, Holes
  <2> QED
    BY <2>1, LeastExists DEF FirstZero, Least
<1>9. id \in Nat /\ id < Words(maxFlows) * WordBits
  <2>1. id \in Nat /\ id < (w + 1) * WordBits
    BY <1>7, <1>8, WordRangeNat, WordAssumption DEF WordRange
  <2>2. (w + 1) * WordBits <= Words(maxFlows) * WordBits
    <3>1. w + 1 <= Words(maxFlows) /\ Words(maxFlows) \in Nat
      BY <1>7, TrieParts
    <3> QED
      BY <1>7, <3>1, WordAssumption
  <2> QED
    BY <1>7, <2>1, <2>2, TrieParts, WordAssumption
<1>10. maxFlows # 0
  BY <1>7, LevelSizes, TrieParts
<1>11. id < maxFlows
  BY <1>8, <1>9, <1>10, TrieParts DEF TrieInv, Reserved, LastLeafPad
<1>12. w \in LeafFound
  BY <1>2, <1>4, <1>6 DEF LeafFound
<1> QED
  BY <1>8, <1>11, <1>12 DEF NextId

\* The search gives up only when every id is taken.
LEMMA SearchFailsWhenFull ==
    ASSUME TrieInv, NextId = {}
    PROVE  level2 = {} /\ Allocated = Pool(maxFlows)
<1>1. level2 = {}
  BY SearchFinds
<1>2. ASSUME NEW f \in Pool(maxFlows), f \notin leaf
      PROVE  FALSE
  <2>1. f \in Nat /\ f < maxFlows
    BY TrieParts DEF Pool
  <2>2. f \in Holes /\ f < Words(maxFlows) * WordBits
    BY <1>2, <2>1, TrieParts DEF Holes
  <2> QED
    BY <1>1, <2>2, HoleAnnounced
<1> QED
  BY <1>1, <1>2 DEF Allocated

\* The id handed out is the least that is free.
LEMMA StepLeastFirst ==
    ASSUME TrieInv, [Next]_vars
    PROVE  \A id \in Allocated' \ Allocated :
              \A free \in Pool(maxFlows) \ Allocated : id <= free
<1>1. CASE Alloc
  <2>1. PICK id \in NextId : leaf' = leaf \cup {id}
    BY <1>1 DEF Alloc
  <2>2. Allocated' \ Allocated \subseteq {id}
    BY <1>1, <2>1 DEF Alloc, Allocated
  <2>3. ASSUME NEW f \in Pool(maxFlows) \ Allocated PROVE id <= f
    <3>1. f \in Holes /\ f < Words(maxFlows) * WordBits
      BY <2>3, TrieParts DEF Allocated, Pool, Holes
    <3> QED
      BY <3>1, SearchIsLeast
  <2> QED
    BY <2>2, <2>3
<1>2. ASSUME NEW n \in Sizes, Create(n) PROVE Allocated' = {}
  BY <1>2, CreateTrieInv
<1>3. Destroy => Allocated' = {}
  BY DestroyTrieInv
<1>4. ASSUME NEW id \in 0 .. maxFlows, Free(id)
      PROVE  Allocated' \subseteq Allocated
  BY <1>4, FreeTrieInv
<1>5. AllocFails \/ UNCHANGED vars => Allocated' = Allocated
  BY DEF AllocFails, vars, Allocated
<1> QED
  BY <1>1, <1>2, <1>3, <1>4, <1>5 DEF Next

\* "Prefers lower flow IDs": whatever was allocated and freed before, the id
\* handed out is the least free one.
THEOREM LeastFirstCorrect == Spec => LeastFirst
  BY InitTrieInv, TrieInvNext, StepLeastFirst, PTL DEF Spec, LeastFirst

\* Every step of the trie is a step of the pool of ids or changes nothing of
\* it.
LEMMA TrieImplementsStep ==
    ASSUME TrieInv, [Next]_vars
    PROVE  [Abstract!Next]_(Abstract!vars)
<1>1. ASSUME NEW n \in Sizes, Create(n) PROVE Abstract!Open
  BY <1>1, CreateTrieInv DEF Create, Abstract!Open
<1>2. ASSUME Destroy PROVE Abstract!Open
  BY <1>2, DestroyTrieInv DEF Destroy, Abstract!Open, Pool
<1>3. ASSUME Alloc PROVE Abstract!Alloc
  <2>1. PICK id \in NextId : leaf' = leaf \cup {id}
    BY <1>3 DEF Alloc
  <2>2. id \in Pool(maxFlows) \ Allocated
    BY <2>1, NextIdFree DEF Allocated
  <2>3. Allocated' = Allocated \cup {id}
    BY <1>3, <2>1, <2>2 DEF Alloc, Allocated
  <2> QED
    BY <1>3, <2>2, <2>3 DEF Alloc, Abstract!Alloc
<1>4. ASSUME AllocFails PROVE Abstract!Refuse
  <2>1. answer' = "full" /\ UNCHANGED <<maxFlows, leaf>>
    BY <1>4, SearchFailsWhenFull DEF AllocFails
  <2>2. Allocated = Pool(maxFlows)
    BY <1>4, SearchFailsWhenFull DEF AllocFails
  <2> QED
    BY <2>1, <2>2 DEF Abstract!Refuse, Allocated
<1>5. ASSUME NEW id \in 0 .. maxFlows, Free(id) PROVE Abstract!Free
  BY <1>5, FreeTrieInv DEF Free, Abstract!Free
<1>6. ASSUME UNCHANGED vars PROVE UNCHANGED Abstract!vars
  BY <1>6 DEF vars, Abstract!vars, Allocated
<1> QED
  BY <1>1, <1>2, <1>3, <1>4, <1>5, <1>6 DEF Next, Abstract!Next

\* The trie implements a pool of ids: an id that is handed out was free, id 0
\* and the padding are never handed out, and an allocation is refused only
\* when every id is taken.
THEOREM TrieImplementsIdPool == Spec => ImplementsIdPool
  <1>1. Init => Abstract!Init
    BY DEF Init, Abstract!Init, Allocated, Pool
  <1>2. TrieInv /\ [Next]_vars => [Abstract!Next]_(Abstract!vars)
    BY TrieImplementsStep
  <1> QED
    BY <1>1, <1>2, InitTrieInv, TrieInvNext, PTL
    DEF Spec, ImplementsIdPool, Abstract!Spec

=============================================================================
