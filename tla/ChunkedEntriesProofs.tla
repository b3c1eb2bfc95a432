------------------------- MODULE ChunkedEntriesProofs -------------------------
(***************************************************************************)
(* Proofs about the allocator of entry ids: whatever order ids are given   *)
(* back in and whichever allocations fail, the free list stays a list of   *)
(* exactly the ids that are not in use.                                    *)
(***************************************************************************)
EXTENDS ChunkedEntries, DataProofs

\* The ids of a pool that have been handed out at some time.
UsedIds(pool) == 0 .. pool.used - 1

\* s lists the ids of F without repetition.
Lists(s, n, F) ==
    /\ n \in Nat
    /\ s \in [1 .. n -> F]
    /\ \A x \in F : \E i \in 1 .. n : s[i] = x
    /\ \A i, j \in 1 .. n : s[i] = s[j] => i = j

\* The free list of the pool goes through s and ends.
Threaded(pool, s, n) ==
    /\ pool.head = IF n = 0 THEN None ELSE s[1]
    /\ \A i \in 1 .. n : pool.link[s[i]] = IF i = n THEN None ELSE s[i + 1]

FreeListOf(pool, F) == \E n, s : Lists(s, n, F) /\ Threaded(pool, s, n)

\* The entry_id fields of the entries handed out so far.
Links == UNION {[0 .. n - 1 -> Nat \cup {None}] : n \in Nat}

\* The records that are pools of max ids.
Pools(max) == [max : {max}, table : Nat, chunks : SUBSET Nat, used : Nat,
               count : Nat, head : Nat \cup {None}, link : Links]

\* A pool of max ids of which U are in use: Sound of ChunkedEntries, with the
\* order of the free list in place of the walk along it.
PoolInv(pool, U, max) ==
    /\ pool \in Pools(max)
    /\ pool.link \in [UsedIds(pool) -> Nat \cup {None}]
    /\ pool.used <= max
    /\ U \subseteq UsedIds(pool)
    /\ pool.count = Cardinality(U)
    /\ \A id \in UsedIds(pool) : Exists(pool, id)
    /\ FreeListOf(pool, UsedIds(pool) \ U)
    /\ \A id \in U : pool.link[id] = id

LEMMA LinkType ==
    ASSUME NEW n \in Nat, NEW l \in [0 .. n - 1 -> Nat \cup {None}]
    PROVE  l \in Links
  BY DEF Links

\* q is the pool with another free list and another counter.
Updated(pool, q, h, l, c) ==
    q = [pool EXCEPT !.head = h, !.link = l, !.count = c]

\* What such an update leaves and what it sets.
LEMMA PoolUpdate ==
    ASSUME NEW max, NEW pool \in Pools(max), NEW h \in Nat \cup {None},
           NEW l \in Links, NEW c \in Nat, NEW q, Updated(pool, q, h, l, c)
    PROVE  /\ q \in Pools(max)
           /\ q.used = pool.used /\ q.table = pool.table
           /\ q.chunks = pool.chunks
           /\ q.head = h /\ q.link = l /\ q.count = c
  BY DEF Pools, Updated

LEMMA UsedFinite ==
    ASSUME NEW n \in Nat
    PROVE  IsFiniteSet(0 .. n - 1) /\ Cardinality(0 .. n - 1) = n
  BY FS_Interval, 0 \in Int, n - 1 \in Int

\* A new pool has no id in use and none free.
LEMMA NewPoolInv ==
    ASSUME NEW max \in Nat
    PROVE  PoolInv(NewPool(max), {}, max)
<1> DEFINE p == NewPool(max)
<1>1. UsedIds(p) = {}
  BY DEF NewPool, UsedIds
<1>2. Lists(<<>>, 0, {}) /\ Threaded(p, <<>>, 0)
  BY DEF Lists, Threaded, NewPool
<1>3. FreeListOf(p, UsedIds(p) \ {})
  BY <1>1, <1>2 DEF FreeListOf
<1>4. p.link \in [UsedIds(p) -> Nat \cup {None}]
  BY <1>1 DEF NewPool
<1>5. p \in Pools(max)
  <2>1. p.link \in [0 .. 0 - 1 -> Nat \cup {None}]
    BY DEF NewPool
  <2>2. p.link \in Links
    BY <2>1, LinkType
  <2> QED
    BY <2>2 DEF Pools, NewPool
<1>6. p.used = 0 /\ p.count = 0
  BY DEF NewPool
<1> HIDE DEF p
<1>7. PoolInv(p, {}, max)
  BY <1>1, <1>3, <1>4, <1>5, <1>6, FS_EmptySet DEF PoolInv
<1> QED
  BY <1>7 DEF p

\* An id taken off the free list was free, and the rest stays threaded.
LEMMA ReuseInv ==
    ASSUME NEW pool, NEW U, NEW max, PoolInv(pool, U, max), pool.head # None
    PROVE  /\ pool.head \in UsedIds(pool) \ U
           /\ PoolInv(Reuse(pool), U \cup {pool.head}, max)
<1> DEFINE F == UsedIds(pool) \ U
           h == pool.head
           q == Reuse(pool)
<1>1. PICK n, s : Lists(s, n, F) /\ Threaded(pool, s, n)
  BY DEF PoolInv, FreeListOf
<1>2. n \in Nat \ {0} /\ h = s[1] /\ h \in F
  BY <1>1 DEF Lists, Threaded
<1>3. /\ [pool.link EXCEPT ![h] = h] \in [UsedIds(pool) -> Nat \cup {None}]
      /\ pool.link[h] \in Nat \cup {None}
  BY <1>2 DEF PoolInv, Pools, UsedIds
<1>4. /\ q \in Pools(max)
      /\ q.used = pool.used /\ q.table = pool.table /\ q.chunks = pool.chunks
      /\ q.head = pool.link[h] /\ q.link = [pool.link EXCEPT ![h] = h]
      /\ q.count = pool.count + 1
  <2> DEFINE l == [pool.link EXCEPT ![h] = h]
             g == pool.link[h]
             c == pool.count + 1
  <2>1. l \in Links
    BY <1>3, LinkType DEF PoolInv, Pools, UsedIds
  <2>2. c \in Nat /\ pool \in Pools(max)
    BY DEF PoolInv, Pools
  <2>3. g \in Nat \cup {None}
    BY <1>3
  <2>4. Updated(pool, q, g, l, c)
    BY DEF Reuse, Updated
  <2> HIDE DEF q, l, g, c
  <2>5. /\ q \in Pools(max)
        /\ q.used = pool.used /\ q.table = pool.table
        /\ q.chunks = pool.chunks
        /\ q.head = g /\ q.link = l /\ q.count = c
    BY <2>1, <2>2, <2>3, <2>4, PoolUpdate
  <2> QED
    BY <2>5 DEF l, g, c
<1>5. U \cup {h} \subseteq UsedIds(q) /\ UsedIds(q) \ (U \cup {h}) = F \ {h}
  BY <1>2, <1>4 DEF PoolInv, UsedIds
<1>6. q.count = Cardinality(U \cup {h})
  <2>1. IsFiniteSet(U) /\ pool.count = Cardinality(U)
    BY UsedFinite, FS_Subset DEF PoolInv, Pools, UsedIds
  <2>2. q.count = pool.count + 1 /\ h \notin U
    BY <1>2, <1>4
  <2> HIDE DEF h, q
  <2>3. Cardinality(U \cup {h}) = Cardinality(U) + 1
    BY <2>1, <2>2, FS_AddElement
  <2> QED
    BY <2>1, <2>2, <2>3
<1>7. \A id \in UsedIds(q) : Exists(q, id)
  BY <1>4 DEF PoolInv, UsedIds, Exists
<1>8. FreeListOf(q, F \ {h})
  <2> DEFINE r == [i \in 1 .. n - 1 |-> s[i + 1]]
  <2>1. \A i \in 1 .. n : s[i] \in F /\ (i # 1 => s[i] # h)
    BY <1>1, <1>2 DEF Lists
  <2>2. r \in [1 .. n - 1 -> F \ {h}]
    BY <1>2, <2>1
  <2>3. \A i, j \in 1 .. n - 1 : r[i] = r[j] => i = j
    BY <1>1, <1>2 DEF Lists
  <2>4. \A x \in F \ {h} : \E i \in 1 .. n - 1 : r[i] = x
    <3> TAKE x \in F \ {h}
    <3>1. PICK i \in 1 .. n : s[i] = x
      BY <1>1 DEF Lists
    <3>2. i - 1 \in 1 .. n - 1 /\ r[i - 1] = x
      BY <3>1, <1>2
    <3> QED
      BY <3>2
  <2>5. Lists(r, n - 1, F \ {h})
    BY <1>2, <2>2, <2>3, <2>4 DEF Lists
  <2>6. q.head = IF n - 1 = 0 THEN None ELSE r[1]
    BY <1>1, <1>2, <1>4 DEF Threaded
  <2>7. ASSUME NEW i \in 1 .. n - 1
        PROVE  q.link[r[i]] = IF i = n - 1 THEN None ELSE r[i + 1]
    <3>1. i + 1 \in 1 .. n /\ r[i] = s[i + 1] /\ r[i] # h /\ r[i] \in UsedIds(pool)
      BY <2>1, <1>2
    <3>2. q.link[r[i]] = pool.link[s[i + 1]]
      BY <3>1, <1>4 DEF PoolInv
    <3>3. pool.link[s[i + 1]] = IF i + 1 = n THEN None ELSE s[i + 2]
      BY <3>1, <1>1, <1>2 DEF Threaded
    <3> QED
      BY <3>2, <3>3, <1>2
  <2>8. Threaded(q, r, n - 1)
    BY <2>6, <2>7 DEF Threaded
  <2> QED
    BY <2>5, <2>8 DEF FreeListOf
<1>9. \A id \in U \cup {h} : q.link[id] = id
  <2>1. h \in UsedIds(pool) /\ \A id \in U : id # h /\ id \in UsedIds(pool)
    BY <1>2 DEF PoolInv
  <2>2. DOMAIN pool.link = UsedIds(pool) /\ \A id \in U : pool.link[id] = id
    BY DEF PoolInv
  <2> HIDE DEF q, h
  <2> QED
    BY <1>4, <2>1, <2>2
<1> QED
  BY <1>2, <1>3, <1>4, <1>5, <1>6, <1>7, <1>8, <1>9 DEF PoolInv, UsedIds

\* The table and the chunks may grow under a pool.
LEMMA PreparedInv ==
    ASSUME NEW pool, NEW U, NEW max, PoolInv(pool, U, max),
           NEW chunk \in Nat, NEW p \in Prepared(pool, chunk)
    PROVE  /\ PoolInv(p, U, max)
           /\ p.used = pool.used /\ p.count = pool.count
           /\ p.head = pool.head /\ p.link = pool.link
<1> DEFINE grown  == IF chunk < pool.table THEN pool
                     ELSE [pool EXCEPT !.table = TableFor(chunk)]
           filled == [grown EXCEPT !.chunks = @ \cup {chunk}]
<1>0. pool \in Pools(max)
  BY DEF PoolInv
<1>1. chunk < MaxChunks => TableFor(chunk) \in Nat /\ TableFor(chunk) > chunk
  <2> SUFFICES ASSUME chunk < MaxChunks
               PROVE  TableFor(chunk) \in Nat /\ TableFor(chunk) > chunk
    OBVIOUS
  <2> DEFINE lengths == {n \in 1 .. MaxChunks :
                 n > chunk /\ (n = MaxChunks \/ \E k \in 0 .. chunk : n = 2 ^ k)}
  <2>1. MaxChunks \in lengths /\ lengths \in SUBSET Nat
    BY ChunkAssumption
  <2>2. PICK n \in lengths : \A m \in lengths : n <= m
    <3> DEFINE R == OpToRel(<, Nat)
    <3>1. IsWellFoundedOn(R, Nat)
      BY NatLessThanWellFounded
    <3>2. \A m, n \in Nat : m < n => <<m, n>> \in R
      BY DEF OpToRel
    <3> HIDE DEF lengths, R
    <3>3. lengths # {} /\ lengths \subseteq Nat
      BY <2>1
    <3>4. PICK n \in lengths : \A m \in lengths : ~ (<<m, n>> \in R)
      BY <3>1, <3>3, WFMin
    <3>5. \A m \in lengths : ~ (m < n)
      BY <3>2, <3>3, <3>4, Zenon
    <3> QED
      BY <3>3, <3>5
  <2>3. TableFor(chunk) \in lengths
    BY <2>2 DEF TableFor
  <2> QED
    BY <2>1, <2>3
<1>2. CASE p = pool
  BY <1>2
<1>3. CASE chunk < MaxChunks /\ p \in {grown, filled}
  <2>1. /\ grown \in Pools(max)
        /\ grown.used = pool.used /\ grown.count = pool.count
        /\ grown.head = pool.head /\ grown.link = pool.link
        /\ grown.table >= pool.table /\ grown.chunks = pool.chunks
    <3>1. CASE chunk < pool.table
      BY <3>1, <1>0 DEF Pools
    <3>2. CASE ~(chunk < pool.table)
      BY <3>2, <1>0, <1>1, <1>3 DEF Pools
    <3> QED
      BY <3>1, <3>2
  <2> HIDE DEF grown
  <2>2. /\ filled \in Pools(max)
        /\ filled.used = grown.used /\ filled.count = grown.count
        /\ filled.head = grown.head /\ filled.link = grown.link
        /\ filled.table = grown.table /\ grown.chunks \subseteq filled.chunks
    BY <2>1 DEF Pools
  <2> HIDE DEF filled
  <2>3. /\ p \in Pools(max)
        /\ p.used = pool.used /\ p.count = pool.count
        /\ p.head = pool.head /\ p.link = pool.link
        /\ p.table >= pool.table /\ pool.chunks \subseteq p.chunks
    BY <2>1, <2>2, <1>3
  <2>4. UsedIds(p) = UsedIds(pool)
    BY <2>3 DEF UsedIds
  <2>5. \A id \in UsedIds(p) : Exists(p, id)
    <3> TAKE id \in UsedIds(p)
    <3>1. Exists(pool, id)
      BY <2>4 DEF PoolInv
    <3>2. ChunkOf(id) \in Int
      BY <2>3, ChunkAssumption DEF UsedIds, Pools, ChunkOf
    <3> QED
      BY <3>1, <3>2, <2>3, <1>0 DEF Exists, Pools
  <2>6. FreeListOf(p, UsedIds(p) \ U)
    BY <2>3, <2>4 DEF FreeListOf, Threaded, PoolInv
  <2> QED
    BY <2>3, <2>4, <2>5, <2>6 DEF PoolInv
<1> QED
  BY <1>2, <1>3, ChunkAssumption DEF Prepared

\* q is the pool with another number of ids handed out.
Extended(p, q, u, c, l) ==
    q = [p EXCEPT !.used = u, !.count = c, !.link = l]

\* What such a change leaves and what it sets.
LEMMA PoolExtend ==
    ASSUME NEW max, NEW p \in Pools(max), NEW u \in Nat, NEW c \in Nat,
           NEW l \in Links, NEW q, Extended(p, q, u, c, l)
    PROVE  /\ q \in Pools(max)
           /\ q.used = u /\ q.count = c /\ q.link = l
           /\ q.table = p.table /\ q.chunks = p.chunks /\ q.head = p.head
  BY DEF Pools, Extended

\* A pool in which every id handed out is in use, with one more.
LEMMA ExtendInv ==
    ASSUME NEW max \in Nat, NEW p, NEW U, PoolInv(p, U, max), U = UsedIds(p),
           p.head = None, p.used < max, Exists(p, p.used), NEW q, NEW l,
           l = [i \in 0 .. p.used |-> IF i = p.used THEN i ELSE p.link[i]],
           Extended(p, q, p.used + 1, p.count + 1, l)
    PROVE  PoolInv(q, U \cup {p.used}, max)
<1>0. p \in Pools(max) /\ p.used \in Nat /\ p.count \in Nat
  BY DEF PoolInv, Pools
<1>1. l \in [0 .. (p.used + 1) - 1 -> Nat \cup {None}]
  BY <1>0 DEF PoolInv, UsedIds, Pools
<1>2. l \in Links
  BY <1>0, <1>1, LinkType, p.used + 1 \in Nat
<1>3. p.used + 1 \in Nat /\ p.count + 1 \in Nat
  BY <1>0
<1>4. /\ q \in Pools(max)
      /\ q.used = p.used + 1 /\ q.count = p.count + 1 /\ q.link = l
      /\ q.table = p.table /\ q.chunks = p.chunks /\ q.head = None
  <2> DEFINE u == p.used + 1
             c == p.count + 1
  <2>1. u \in Nat /\ c \in Nat /\ Extended(p, q, u, c, l)
    BY <1>3
  <2> HIDE DEF u, c
  <2>2. /\ q \in Pools(max)
        /\ q.used = u /\ q.count = c /\ q.link = l
        /\ q.table = p.table /\ q.chunks = p.chunks /\ q.head = p.head
    BY <1>0, <1>2, <2>1, PoolExtend
  <2> QED
    BY <2>2 DEF u, c
<1>5. UsedIds(q) = U \cup {p.used} /\ p.used \notin U
  BY <1>0, <1>4 DEF UsedIds
<1>6. q.count = Cardinality(U \cup {p.used})
  <2>1. IsFiniteSet(U) /\ p.count = Cardinality(U)
    BY <1>0, UsedFinite DEF PoolInv, Pools, UsedIds
  <2> QED
    BY <1>4, <1>5, <2>1, FS_AddElement
<1>7. \A id \in UsedIds(q) : Exists(q, id)
  BY <1>4, <1>5 DEF PoolInv, Exists
<1>8. FreeListOf(q, {})
  <2>1. Lists(<<>>, 0, {}) /\ Threaded(q, <<>>, 0)
    BY <1>4 DEF Lists, Threaded
  <2> QED
    BY <2>1 DEF FreeListOf
<1>9. q.used <= max /\ q.link \in [UsedIds(q) -> Nat \cup {None}]
  <2>1. max \in Nat => p.used + 1 <= max
    BY <1>0
  <2> QED
    BY <2>1, <1>1, <1>4 DEF UsedIds
<1>10. UsedIds(q) \ (U \cup {p.used}) = {} /\ U \cup {p.used} \subseteq UsedIds(q)
  BY <1>5
<1>11. \A id \in U \cup {p.used} : q.link[id] = id
  <2>1. \A id \in U : id \in 0 .. p.used /\ id # p.used /\ p.link[id] = id
    BY <1>0 DEF PoolInv, UsedIds
  <2>2. p.used \in 0 .. p.used
    BY <1>0
  <2> QED
    BY <1>4, <2>1, <2>2
<1> QED
  BY <1>4, <1>6, <1>7, <1>8, <1>9, <1>10, <1>11 DEF PoolInv

\* An id that is handed out is one of the pool's and was not in use; a pool
\* that refuses is full or has no memory, and loses nothing.
LEMMA AllocInv ==
    ASSUME NEW pool, NEW U, NEW max \in Nat, PoolInv(pool, U, max),
           NEW x \in AllocResults(pool)
    PROVE  \/ x.id = None /\ PoolInv(x.pool, U, max)
           \/ /\ x.id # None
              /\ x.id \in (0 .. max - 1) \ U
              /\ PoolInv(x.pool, U \cup {x.id}, max)
<1>0. pool \in Pools(max) /\ pool.used <= max
  BY DEF PoolInv
<1>1. CASE Full(pool)
  BY <1>1 DEF AllocResults
<1>2. CASE ~Full(pool) /\ pool.head # None
  <2>1. x.id = pool.head /\ x.pool = Reuse(pool)
    BY <1>2 DEF AllocResults
  <2>2. /\ pool.head \in UsedIds(pool) \ U
        /\ PoolInv(Reuse(pool), U \cup {pool.head}, max)
    BY <1>2, ReuseInv
  <2>3. pool.head \in 0 .. max - 1
    BY <1>0, <2>2 DEF UsedIds, Pools
  <2> QED
    BY <1>2, <2>1, <2>2, <2>3
<1>3. CASE ~Full(pool) /\ pool.head = None
  <2>1. U = UsedIds(pool)
    <3>1. PICK n, s : Lists(s, n, UsedIds(pool) \ U) /\ Threaded(pool, s, n)
      BY DEF PoolInv, FreeListOf
    <3>2. n = 0
      <4> SUFFICES ASSUME n # 0 PROVE FALSE
        OBVIOUS
      <4>1. s[1] \in Nat
        BY <3>1, <1>0 DEF Lists, UsedIds, Pools
      <4> QED
        BY <3>1, <4>1, <1>3, NoneAssumption DEF Threaded
    <3>3. UsedIds(pool) \ U = {}
      BY <3>1, <3>2 DEF Lists
    <3> QED
      BY <3>3 DEF PoolInv
  <2>2. pool.used < max
    <3>1. pool.count = pool.used
      BY <2>1, <1>0, UsedFinite DEF PoolInv, UsedIds, Pools
    <3> QED
      BY <3>1, <1>0, <1>3 DEF Full, Pools
  <2>3. ChunkOf(pool.used) \in Nat
    BY <1>0, ChunkAssumption DEF ChunkOf, Pools
  <2>4. PICK p \in Prepared(pool, ChunkOf(pool.used)) :
           x = IF Exists(p, pool.used)
               THEN [id |-> pool.used,
                     pool |-> [p EXCEPT !.used = @ + 1, !.count = @ + 1,
                        !.link = [i \in 0 .. pool.used |->
                                     IF i = pool.used THEN i ELSE @[i]]]]
               ELSE [id |-> None, pool |-> p]
    BY <1>3 DEF AllocResults, Fresh, FreshId
  <2>5. /\ PoolInv(p, U, max)
        /\ p.used = pool.used /\ p.head = pool.head
    BY <2>3, PreparedInv
  <2>6. CASE ~Exists(p, pool.used)
    BY <2>4, <2>5, <2>6
  <2>7. CASE Exists(p, pool.used)
    <3> DEFINE q == x.pool
               l == [i \in 0 .. p.used |-> IF i = p.used THEN i ELSE p.link[i]]
    <3>1. x.id = p.used /\ Extended(p, q, p.used + 1, p.count + 1, l)
      BY <2>4, <2>5, <2>7 DEF Extended
    <3>2. U = UsedIds(p) /\ p.head = None
      BY <1>3, <2>1, <2>5 DEF UsedIds
    <3>3. PoolInv(q, U \cup {p.used}, max)
      <4> HIDE DEF q
      <4> QED
        BY <2>2, <2>5, <2>7, <3>1, <3>2, ExtendInv
    <3>4. p.used \in (0 .. max - 1) \ U /\ p.used # None
      BY <1>0, <2>1, <2>2, <2>5, NoneAssumption DEF UsedIds, Pools
    <3> QED
      BY <3>1, <3>3, <3>4 DEF q
  <2> QED
    BY <2>6, <2>7
<1> QED
  BY <1>1, <1>2, <1>3

\* A full pool has all its ids in use.
LEMMA FullPool ==
    ASSUME NEW pool, NEW U, NEW max \in Nat, PoolInv(pool, U, max), Full(pool)
    PROVE  U = 0 .. max - 1
<1> DEFINE S == 0 .. max - 1
<1>1. U \in SUBSET S /\ Cardinality(U) >= max
  BY DEF PoolInv, UsedIds, Pools, Full
<1>2. IsFiniteSet(S) /\ Cardinality(S) = max
  BY UsedFinite
<1> HIDE DEF S
<1>3. Cardinality(U) \in Nat /\ Cardinality(U) <= Cardinality(S)
  BY <1>1, <1>2, FS_Subset, FS_CardinalityType
<1>4. Cardinality(S) = Cardinality(U)
  BY <1>1, <1>2, <1>3
<1>5. S = U
  BY <1>1, <1>2, <1>4, FS_Subset
<1> QED
  BY <1>5 DEF S

\* An id given back becomes the head of the free list, and the list stays
\* threaded through the others.
LEMMA ReleaseInv ==
    ASSUME NEW pool, NEW U, NEW max, PoolInv(pool, U, max), NEW id \in U
    PROVE  PoolInv(Release(pool, id), U \ {id}, max)
<1> DEFINE F == UsedIds(pool) \ U
           q == Release(pool, id)
           l == [pool.link EXCEPT ![id] = pool.head]
           c == IF pool.count > 0 THEN pool.count - 1 ELSE pool.count
<1>0. /\ pool \in Pools(max) /\ id \in UsedIds(pool) /\ Exists(pool, id)
      /\ pool.count \in Nat /\ pool.used \in Nat
      /\ pool.head \in Nat \cup {None} /\ id \in Nat
  BY DEF PoolInv, Pools, UsedIds
<1>1. l \in [UsedIds(pool) -> Nat \cup {None}]
  BY <1>0 DEF PoolInv
<1>2. l \in Links
  BY <1>0, <1>1, LinkType DEF UsedIds
<1>3. c \in Nat
  BY <1>0
<1>4. Updated(pool, q, id, l, c)
  BY <1>0 DEF Release, Updated
<1>5. /\ q \in Pools(max)
      /\ q.used = pool.used /\ q.table = pool.table /\ q.chunks = pool.chunks
      /\ q.head = id /\ q.link = l /\ q.count = c
  <2> HIDE DEF q, l, c
  <2> QED
    BY <1>0, <1>2, <1>3, <1>4, PoolUpdate
<1> HIDE DEF q
<1>6. /\ U \ {id} \subseteq UsedIds(q)
      /\ UsedIds(q) \ (U \ {id}) = F \cup {id} /\ id \notin F
  BY <1>0, <1>5 DEF PoolInv, UsedIds
<1>7. q.count = Cardinality(U \ {id})
  <2>1. IsFiniteSet(U) /\ pool.count = Cardinality(U)
    BY UsedFinite, FS_Subset DEF PoolInv, Pools, UsedIds
  <2>2. Cardinality(U \ {id}) = Cardinality(U) - 1
    BY <2>1, FS_RemoveElement
  <2>3. Cardinality(U \ {id}) \in Nat
    BY <2>1, FS_RemoveElement, FS_CardinalityType
  <2> QED
    BY <1>0, <1>5, <2>1, <2>2, <2>3
<1>8. \A i \in UsedIds(q) : Exists(q, i)
  BY <1>5 DEF PoolInv, UsedIds, Exists
<1>9. FreeListOf(q, F \cup {id})
  <2>1. PICK n, s : Lists(s, n, F) /\ Threaded(pool, s, n)
    BY DEF PoolInv, FreeListOf
  <2> DEFINE r == [i \in 1 .. n + 1 |-> IF i = 1 THEN id ELSE s[i - 1]]
  <2>2. n \in Nat /\ \A i \in 1 .. n : s[i] \in F /\ s[i] # id
    BY <2>1, <1>6 DEF Lists
  <2>3. r \in [1 .. n + 1 -> F \cup {id}]
    BY <2>2
  <2>4. \A i, j \in 1 .. n + 1 : r[i] = r[j] => i = j
    <3> SUFFICES ASSUME NEW i \in 1 .. n + 1, NEW j \in 1 .. n + 1, r[i] = r[j]
                 PROVE  i = j
      OBVIOUS
    <3>1. CASE i = 1 \/ j = 1
      BY <2>2, <3>1
    <3>2. CASE i # 1 /\ j # 1
      <4>1. i - 1 \in 1 .. n /\ j - 1 \in 1 .. n /\ s[i - 1] = s[j - 1]
        BY <2>2, <3>2
      <4>2. i - 1 = j - 1
        BY <2>1, <4>1 DEF Lists
      <4> QED
        BY <2>2, <4>2
    <3> QED
      BY <3>1, <3>2
  <2>5. \A x \in F \cup {id} : \E i \in 1 .. n + 1 : r[i] = x
    <3> TAKE x \in F \cup {id}
    <3>1. CASE x = id
      BY <2>2, <3>1, 1 \in 1 .. n + 1, r[1] = id
    <3>2. CASE x \in F
      <4>1. PICK i \in 1 .. n : s[i] = x
        BY <2>1, <3>2 DEF Lists
      <4>2. i + 1 \in 1 .. n + 1 /\ r[i + 1] = x
        BY <4>1, <2>2
      <4> QED
        BY <4>2
    <3> QED
      BY <3>1, <3>2
  <2>6. Lists(r, n + 1, F \cup {id})
    BY <2>2, <2>3, <2>4, <2>5 DEF Lists
  <2>7. q.head = r[1] /\ n + 1 # 0
    BY <1>5, <2>2
  <2>8. ASSUME NEW i \in 1 .. n + 1
        PROVE  q.link[r[i]] = IF i = n + 1 THEN None ELSE r[i + 1]
    <3>1. CASE i = 1
      <4>1. q.link[id] = pool.head
        BY <1>0, <1>5 DEF PoolInv
      <4>2. n # 0 => r[2] = s[1]
        BY <2>2
      <4> QED
        BY <2>1, <2>2, <3>1, <4>1, <4>2 DEF Threaded
    <3>2. CASE i # 1
      <4>1. i - 1 \in 1 .. n /\ r[i] = s[i - 1]
        BY <2>2, <3>2
      <4>2. s[i - 1] \in UsedIds(pool) /\ s[i - 1] # id
        BY <2>2, <4>1
      <4>3. q.link[s[i - 1]] = pool.link[s[i - 1]]
        BY <4>2, <1>5 DEF PoolInv
      <4>4. pool.link[s[i - 1]] = IF i - 1 = n THEN None ELSE s[i - 1 + 1]
        BY <2>1, <4>1 DEF Threaded
      <4>5. i # n + 1 => r[i + 1] = s[i]
        BY <2>2, <3>2
      <4> QED
        BY <2>2, <4>1, <4>3, <4>4, <4>5
    <3> QED
      BY <3>1, <3>2
  <2>9. Threaded(q, r, n + 1)
    BY <2>7, <2>8 DEF Threaded
  <2> QED
    BY <2>6, <2>9 DEF FreeListOf
<1>10. q.used <= max /\ q.link \in [UsedIds(q) -> Nat \cup {None}]
  BY <1>1, <1>5 DEF PoolInv, UsedIds
<1>11. \A i \in U \ {id} : q.link[i] = i
  BY <1>5 DEF PoolInv
<1> HIDE DEF F
<1>12. PoolInv(q, U \ {id}, max)
  BY <1>5, <1>6, <1>7, <1>8, <1>9, <1>10, <1>11 DEF PoolInv
<1> QED
  BY <1>12 DEF q

-----------------------------------------------------------------------------
(* The walk along the free list.                                           *)

\* A list without repetition of some of n ids is no longer than n.
LEMMA ListLength ==
    ASSUME NEW m \in Nat, NEW F, F \subseteq 0 .. m - 1, NEW n, NEW s,
           Lists(s, n, F)
    PROVE  n \in Nat /\ n <= m
<1> DEFINE I == 1 .. n
           S == 0 .. m - 1
<1>1. n \in Nat /\ s \in [I -> F] /\ \A i, j \in I : s[i] = s[j] => i = j
  BY DEF Lists
<1>2. s \in [I -> S]
  BY <1>1
<1>3. IsFiniteSet(I) /\ Cardinality(I) = n
  BY <1>1, UpToCard
<1>4. IsFiniteSet(S) /\ Cardinality(S) = m
  BY UsedFinite
<1> HIDE DEF I, S
<1>5. ~(Cardinality(S) < Cardinality(I))
  BY <1>1, <1>2, <1>3, <1>4, FS_PigeonHole
<1> QED
  BY <1>1, <1>3, <1>4, <1>5

\* The walk goes through the threaded list and then stays at None.
LEMMA WalkAlong ==
    ASSUME NEW pool, pool.used \in Nat, NEW n \in Nat, NEW s, Threaded(pool, s, n),
           \A i \in 1 .. n : s[i] # None
    PROVE  FreeList(pool) = [k \in 0 .. pool.used |->
                                IF k < n THEN s[k + 1] ELSE None]
<1> DEFINE m == pool.used
           w == [k \in 0 .. m |-> IF k < n THEN s[k + 1] ELSE None]
           Body(f) == [k \in 0 .. m |->
                          IF k = 0 THEN pool.head
                          ELSE IF f[k - 1] = None THEN None
                          ELSE pool.link[f[k - 1]]]
           walk == CHOOSE f : f = Body(f)
<1>1. w = Body(w)
  <2>1. ASSUME NEW k \in 0 .. m
        PROVE  w[k] = IF k = 0 THEN pool.head
                      ELSE IF w[k - 1] = None THEN None ELSE pool.link[w[k - 1]]
    <3>1. CASE k = 0
      BY <3>1 DEF Threaded
    <3>2. CASE k # 0
      <4>1. k - 1 \in 0 .. m /\ k - 1 \in Nat /\ (k - 1) + 1 = k /\ k \in Nat
        BY <3>2
      <4>2. w[k - 1] = IF k - 1 < n THEN s[k] ELSE None
        BY <4>1
      <4>3. CASE k - 1 < n
        <5>1. k \in 1 .. n
          BY <4>1, <4>3, <3>2
        <5>2. w[k - 1] = s[k] /\ s[k] # None
          BY <4>2, <4>3, <5>1
        <5>3. pool.link[s[k]] = IF k = n THEN None ELSE s[k + 1]
          BY <5>1 DEF Threaded
        <5>4. w[k] = IF k = n THEN None ELSE s[k + 1]
          BY <5>1
        <5> QED
          BY <3>2, <5>2, <5>3, <5>4
      <4>4. CASE ~(k - 1 < n)
        BY <3>2, <4>1, <4>2, <4>4
      <4> QED
        BY <4>3, <4>4
    <3> QED
      BY <3>1, <3>2
  <2> QED
    BY <2>1
<1>2. walk = Body(walk)
  <2> HIDE DEF w, Body
  <2> QED
    BY <1>1
<1>3. FreeList(pool) = [k \in 0 .. m |-> walk[k]]
  BY DEF FreeList
<1> HIDE DEF walk
<1>4. ASSUME NEW k \in 0 .. m
      PROVE  walk[k] = IF k = 0 THEN pool.head
                       ELSE IF walk[k - 1] = None THEN None
                       ELSE pool.link[walk[k - 1]]
  BY <1>2
<1>5. ASSUME NEW k \in 0 .. m
      PROVE  w[k] = IF k = 0 THEN pool.head
                    ELSE IF w[k - 1] = None THEN None
                    ELSE pool.link[w[k - 1]]
  <2> HIDE DEF w
  <2> QED
    BY <1>1
<1>6. w = [k \in 0 .. m |-> w[k]]
  OBVIOUS
<1> HIDE DEF w
<1> DEFINE T == {k \in Nat : k <= m => walk[k] = w[k]}
<1>7. 0 \in T
  BY <1>4, <1>5
<1>8. ASSUME NEW k \in Nat, k \in T PROVE k + 1 \in T
  <2> SUFFICES ASSUME k + 1 <= m PROVE walk[k + 1] = w[k + 1]
    OBVIOUS
  <2>1. k + 1 \in 0 .. m /\ k + 1 # 0 /\ (k + 1) - 1 = k /\ walk[k] = w[k]
    BY <1>8
  <2> QED
    BY <1>4, <1>5, <2>1
<1>9. Nat \subseteq T
  <2> HIDE DEF T
  <2> QED
    BY <1>7, <1>8, AllNaturals
<1>10. \A k \in 0 .. m : walk[k] = w[k]
  BY <1>9
<1> QED
  BY <1>3, <1>6, <1>10 DEF w

\* So the invariant says what Sound says.
LEMMA SoundPool ==
    ASSUME NEW pool, NEW U, NEW max, PoolInv(pool, U, max)
    PROVE  Sound(pool, U)
<1> DEFINE m == pool.used
           F == UsedIds(pool) \ U
<1>1. m \in Nat
  BY DEF PoolInv, Pools
<1>2. PICK n, s : Lists(s, n, F) /\ Threaded(pool, s, n)
  BY DEF PoolInv, FreeListOf
<1>3. n \in Nat /\ n <= m
  <2>1. F \subseteq 0 .. m - 1
    BY DEF UsedIds
  <2> HIDE DEF F, m
  <2> QED
    BY <1>1, <1>2, <2>1, ListLength
<1>4. \A i \in 1 .. n : s[i] \in F /\ s[i] # None
  BY <1>1, <1>2, NoneAssumption DEF Lists, UsedIds
<1>5. FreeList(pool) = [k \in 0 .. m |-> IF k < n THEN s[k + 1] ELSE None]
  BY <1>1, <1>2, <1>3, <1>4, WalkAlong
<1>6. FreeList(pool)[m] = None
  BY <1>1, <1>3, <1>5
<1>7. FreeIds(pool) = F
  <2>1. ASSUME NEW k \in 0 .. m, FreeList(pool)[k] # None
        PROVE  FreeList(pool)[k] \in F
    BY <1>3, <1>4, <1>5, <2>1
  <2>2. ASSUME NEW x \in F
        PROVE  x # None /\ \E k \in 0 .. m : FreeList(pool)[k] = x
    <3>1. PICK i \in 1 .. n : s[i] = x
      BY <1>2 DEF Lists
    <3>2. i - 1 \in 0 .. m /\ i - 1 < n /\ (i - 1) + 1 = i
      BY <1>1, <1>3
    <3>3. FreeList(pool)[i - 1] = x
      BY <1>5, <3>1, <3>2
    <3> QED
      BY <1>4, <3>1, <3>2, <3>3
  <2> QED
    BY <2>1, <2>2 DEF FreeIds
<1> QED
  BY <1>6, <1>7 DEF Sound, PoolInv, UsedIds

=============================================================================
