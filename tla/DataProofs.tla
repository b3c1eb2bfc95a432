------------------------------ MODULE DataProofs ------------------------------
(***************************************************************************)
(* Facts about data that the other proofs cite: least numbers, induction   *)
(* over the naturals as a fact about a set, functions defined by iteration,*)
(* and sums written as the cardinality of a set of pairs.                  *)
(***************************************************************************)
EXTENDS Integers, FiniteSets, FiniteSetTheorems, WellFoundedInduction, TLAPS

-----------------------------------------------------------------------------
(* Induction.  The induction theorems of the library take an operator; here*)
(* what they say is said of a set, from the well-foundedness of strict     *)
(* inclusion between finite sets.                                          *)

\* Every set of natural numbers that has an element has a least one.
LEMMA LeastNatural ==
    ASSUME NEW T \in SUBSET Nat, T # {}
    PROVE  \E x \in T : \A y \in T : x <= y
<1> DEFINE I == {0 .. x : x \in T}
           R == StrictSubsetOrdering(Nat)
<1>1. I \subseteq FiniteSubsetsOf(Nat)
  <2>1. \A x \in T : IsFiniteSet(0 .. x)
    BY FS_Interval
  <2> QED
    BY <2>1 DEF FiniteSubsetsOf
<1>2. I # {}
  OBVIOUS
<1>3. IsWellFoundedOn(R, FiniteSubsetsOf(Nat))
  BY FS_StrictSubsetOrderingWellFounded
<1>4. \E A \in I : \A B \in I : <<B, A>> \notin R
  <2> HIDE DEF I, R
  <2> QED
    BY <1>1, <1>2, <1>3, WFMin
<1>5. PICK x \in T : \A y \in T : <<0 .. y, 0 .. x>> \notin R
  BY <1>4
<1>6. ASSUME NEW y \in T, ~(x <= y)
      PROVE  FALSE
  <2>1. /\ 0 .. y \in SUBSET Nat /\ 0 .. x \in SUBSET Nat
        /\ 0 .. y \subseteq 0 .. x
        /\ x \in 0 .. x /\ x \notin 0 .. y
    BY <1>6
  <2>2. <<0 .. y, 0 .. x>> \in R
    <3> DEFINE C == 0 .. y  D == 0 .. x
    <3>1. C # D
      BY <2>1
    <3> HIDE DEF C, D
    <3>2. C \in SUBSET Nat /\ D \in SUBSET Nat /\ C \subseteq D
      BY <2>1 DEF C, D
    <3> QED
      BY <3>1, <3>2 DEF StrictSubsetOrdering, C, D
  <2> QED
    BY <1>5, <2>2
<1> QED
  BY <1>5, <1>6

\* A set that holds 0 and with a number the next one holds all of them.
LEMMA AllNaturals ==
    ASSUME NEW T, 0 \in T, \A n \in Nat : n \in T => n + 1 \in T
    PROVE  Nat \subseteq T
<1> SUFFICES ASSUME Nat \ T # {} PROVE FALSE
  OBVIOUS
<1>1. PICK x \in Nat \ T : \A y \in Nat \ T : x <= y
  BY LeastNatural
<1>2. x # 0 /\ x - 1 \in Nat
  BY <1>1
<1>3. x - 1 \in T
  BY <1>1, <1>2
<1> QED
  BY <1>1, <1>2, <1>3

\* There is a sequence that starts with a and goes on by F: so a function that
\* is defined by recursion over the naturals is what its equation says.
LEMMA Iteration ==
    ASSUME NEW A, NEW a \in A, NEW F \in [A -> A]
    PROVE  \E h \in [Nat -> A] :
              h[0] = a /\ \A n \in Nat : h[n + 1] = F[h[n]]
<1> DEFINE Steps(h, n) ==
              h[0] = a /\ \A k \in 0 .. n - 1 : h[k + 1] = F[h[k]]
           T == {n \in Nat : \E h \in [Nat -> A] : Steps(h, n)}
<1>1. 0 \in T
  <2> DEFINE h == [n \in Nat |-> a]
  <2>1. h \in [Nat -> A] /\ Steps(h, 0)
    OBVIOUS
  <2> QED
    BY <2>1
<1>2. ASSUME NEW n \in Nat, n \in T
      PROVE  n + 1 \in T
  <2>1. PICK h \in [Nat -> A] : Steps(h, n)
    BY <1>2
  <2> DEFINE g == [h EXCEPT ![n + 1] = F[h[n]]]
  <2>2. h[n] \in A /\ F[h[n]] \in A
    OBVIOUS
  <2>3. g \in [Nat -> A]
    BY <2>2
  <2>4. Steps(g, n + 1)
    <3>1. g[0] = a
      BY <2>1
    <3>2. ASSUME NEW k \in 0 .. n PROVE g[k + 1] = F[g[k]]
      BY <2>1
    <3> QED
      BY <3>1, <3>2
  <2>5. n + 1 \in Nat /\ g \in [Nat -> A] /\ Steps(g, n + 1)
    BY <2>3, <2>4
  <2> HIDE DEF g, Steps
  <2> QED
    BY <2>5
<1>3. Nat \subseteq T
  BY <1>1, <1>2, AllNaturals
<1>4. \A n \in Nat : \E h \in [Nat -> A] : Steps(h, n)
  BY <1>3
\* Two of them agree as far as they go.
<1>5. ASSUME NEW n \in Nat, NEW g \in [Nat -> A], NEW h \in [Nat -> A],
             Steps(g, n), Steps(h, n)
      PROVE  g[n] = h[n]
  <2> DEFINE U == {k \in Nat : k <= n => g[k] = h[k]}
  <2>1. 0 \in U
    BY <1>5
  <2>2. \A k \in Nat : k \in U => k + 1 \in U
    BY <1>5
  <2>3. Nat \subseteq U
    <3> HIDE DEF U
    <3> QED
      BY <2>1, <2>2, AllNaturals
  <2> QED
    BY <2>3
<1> DEFINE f == [n \in Nat |-> (CHOOSE h \in [Nat -> A] : Steps(h, n))[n]]
<1>6. ASSUME NEW n \in Nat, NEW h \in [Nat -> A], Steps(h, n)
      PROVE  f[n] = h[n]
  <2> DEFINE c == CHOOSE g \in [Nat -> A] : Steps(g, n)
  <2>1. c \in [Nat -> A] /\ Steps(c, n)
    BY <1>6
  <2>2. f[n] = c[n]
    OBVIOUS
  <2> HIDE DEF c, Steps, f
  <2> QED
    BY <1>5, <1>6, <2>1, <2>2
<1>7. f \in [Nat -> A] /\ f[0] = a /\ \A n \in Nat : f[n + 1] = F[f[n]]
  <2>1. ASSUME NEW n \in Nat
        PROVE  f[n] \in A /\ f[0] = a /\ f[n + 1] = F[f[n]]
    <3>1. PICK h \in [Nat -> A] : Steps(h, n + 1)
      <4>1. n + 1 \in Nat
        OBVIOUS
      <4> QED
        BY <4>1, <1>4
    <3>2. Steps(h, n) /\ Steps(h, 0) /\ h[n + 1] = F[h[n]] /\ h[0] = a
      BY <3>1
    <3> HIDE DEF f, Steps
    <3>3. f[n] = h[n] /\ f[0] = h[0] /\ f[n + 1] = h[n + 1]
      <4>1. n + 1 \in Nat /\ 0 \in Nat
        OBVIOUS
      <4> QED
        BY <4>1, <1>6, <3>1, <3>2
    <3> QED
      BY <3>2, <3>3
  <2>2. f = [n \in Nat |-> f[n]]
    OBVIOUS
  <2> HIDE DEF f
  <2> QED
    BY <2>1, <2>2
<1> QED
  BY <1>7

-----------------------------------------------------------------------------
(* Sums.                                                                   *)

LEMMA UpToCard ==
    ASSUME NEW n \in Nat
    PROVE  IsFiniteSet(1 .. n) /\ Cardinality(1 .. n) = n
  BY FS_Interval

\* A row of pairs has as many elements as its second components.
LEMMA RowCard ==
    ASSUME NEW x, NEW A, IsFiniteSet(A)
    PROVE  IsFiniteSet({x} \X A) /\ Cardinality({x} \X A) = Cardinality(A)
<1>1. IsFiniteSet({x}) /\ Cardinality({x}) = 1 /\ Cardinality(A) \in Nat
  BY FS_Singleton, FS_CardinalityType
<1>2. /\ IsFiniteSet({x} \X A)
      /\ Cardinality({x} \X A) = Cardinality({x}) * Cardinality(A)
  BY <1>1, FS_Product
<1> QED
  BY <1>1, <1>2

\* Q is the set of pairs P with the row A of x replaced by B.
Replaced(P, Q, x, A, B) ==
    /\ {x} \X A \subseteq P
    /\ \A b \in B : <<x, b>> \in P => b \in A
    /\ Q = (P \ ({x} \X A)) \cup ({x} \X B)

LEMMA ReplaceRow ==
    ASSUME NEW P, IsFiniteSet(P), NEW x, NEW A, NEW B, IsFiniteSet(A),
           IsFiniteSet(B), NEW Q, Replaced(P, Q, x, A, B)
    PROVE  /\ IsFiniteSet(Q)
           /\ Cardinality(Q) = (Cardinality(P) - Cardinality(A)) + Cardinality(B)
           /\ Cardinality(A) <= Cardinality(P)
           /\ Cardinality(P) \in Nat /\ Cardinality(A) \in Nat
           /\ Cardinality(B) \in Nat
<1> DEFINE V == {x} \X A
           W == {x} \X B
           R == P \ V
<1>1. IsFiniteSet(V) /\ Cardinality(V) = Cardinality(A)
  BY RowCard
<1>2. IsFiniteSet(W) /\ Cardinality(W) = Cardinality(B)
  BY RowCard
<1>3. P \cap V = V /\ R \cap W = {}
  BY DEF Replaced
<1>4. R = P \ V /\ Q = R \cup W /\ V \in SUBSET P
  BY DEF Replaced
<1> HIDE DEF V, W, R
<1>5. IsFiniteSet(R) /\ Cardinality(R) = Cardinality(P) - Cardinality(V)
  BY <1>3, <1>4, FS_Difference
<1>6. /\ IsFiniteSet(Q)
      /\ Cardinality(Q) = Cardinality(R) + Cardinality(W) - Cardinality(R \cap W)
  BY <1>2, <1>4, <1>5, FS_Union
<1>7. Cardinality(R \cap W) = 0
  BY <1>3, FS_EmptySet
<1>8. Cardinality(V) <= Cardinality(P)
  BY <1>4, FS_Subset
<1>9. /\ Cardinality(P) \in Nat /\ Cardinality(A) \in Nat
      /\ Cardinality(B) \in Nat /\ Cardinality(R) \in Nat
  BY <1>5, FS_CardinalityType
<1> QED
  BY <1>1, <1>2, <1>5, <1>6, <1>7, <1>8, <1>9

\* The units of a table of numbers, one pair for each.
Pairs(f) == UNION {{x} \X (1 .. f[x]) : x \in DOMAIN f}

\* A sum of finitely many numbers up to m is at most so many times m.
LEMMA PairsBound ==
    ASSUME NEW D, IsFiniteSet(D), NEW m \in Nat, NEW f \in [D -> 0 .. m]
    PROVE  /\ IsFiniteSet(Pairs(f)) /\ Cardinality(Pairs(f)) \in Nat
           /\ Cardinality(Pairs(f)) <= Cardinality(D) * m
<1> DEFINE I == 1 .. m
           S == D \X I
           P == Pairs(f)
<1>1. IsFiniteSet(I) /\ Cardinality(I) = m
  BY UpToCard
<1>2. \A x \in D : 1 .. f[x] \subseteq I
  OBVIOUS
<1>3. DOMAIN f = D
  OBVIOUS
<1> HIDE DEF I
<1>4. P \in SUBSET S
  BY <1>2, <1>3 DEF Pairs
<1>5. IsFiniteSet(S) /\ Cardinality(S) = Cardinality(D) * m
  BY <1>1, FS_Product
<1> HIDE DEF S, P
<1>6. IsFiniteSet(P) /\ Cardinality(P) <= Cardinality(S)
  BY <1>4, <1>5, FS_Subset
<1> QED
  BY <1>5, <1>6, FS_CardinalityType DEF P

\* Changing one number changes the sum by the difference.
LEMMA PairsChange ==
    ASSUME NEW D, IsFiniteSet(D), NEW m \in Nat, NEW f \in [D -> 0 .. m],
           NEW g \in [D -> 0 .. m], NEW x \in D,
           \A z \in D \ {x} : g[z] = f[z]
    PROVE  /\ Cardinality(Pairs(g)) = (Cardinality(Pairs(f)) - f[x]) + g[x]
           /\ f[x] <= Cardinality(Pairs(f))
<1> DEFINE P == Pairs(f)
           Q == Pairs(g)
           A == 1 .. f[x]
           B == 1 .. g[x]
<1>1. /\ IsFiniteSet(A) /\ Cardinality(A) = f[x]
      /\ IsFiniteSet(B) /\ Cardinality(B) = g[x]
  BY UpToCard
<1>2. IsFiniteSet(P)
  BY PairsBound
<1>3. {x} \X A \subseteq P
  BY DEF Pairs
<1>4. \A b \in B : <<x, b>> \in P => b \in A
  BY DEF Pairs
<1>5. Q = (P \ ({x} \X A)) \cup ({x} \X B)
  BY DEF Pairs
<1>6. Replaced(P, Q, x, A, B)
  BY <1>3, <1>4, <1>5 DEF Replaced
<1>7. /\ Cardinality(Q) = (Cardinality(P) - Cardinality(A)) + Cardinality(B)
      /\ Cardinality(A) <= Cardinality(P)
  <2> HIDE DEF P, Q, A, B
  <2> QED
    BY <1>1, <1>2, <1>6, ReplaceRow
<1> QED
  BY <1>1, <1>7

=============================================================================
