--------------------------- MODULE ChunkedEntries ---------------------------
(***************************************************************************)
(* The allocator of entry ids of src/src/hwfq_chunked_entries.c: a table   *)
(* of chunks that grows on demand, and a free list that is threaded        *)
(* through the entry_id fields of the free entries.  A pool is a record:   *)
(*   max     max_entries                                                   *)
(*   table   num_chunks, the length of the chunk table                     *)
(*   chunks  the indices of the chunks that exist                          *)
(*   used    num_allocated, the ids that have ever been handed out         *)
(*   count   num_configured, the ids handed out and not given back         *)
(*   head    free_head                                                     *)
(*   link    the entry_id field of each of the entries 0 .. used - 1       *)
(* Used by HwfqConfig for the tenants and for the flows of each tenant.    *)
(***************************************************************************)
EXTENDS Naturals, FiniteSets

CONSTANTS
    ChunkSize,      \* HWFQ_CHUNK_SIZE
    MaxChunks,      \* HWFQ_MAX_CHUNKS
    None,           \* HWFQ_ENTRY_NONE
    MayFail         \* may the client's allocator return NULL?

ASSUME ChunkAssumption == ChunkSize \in Nat \ {0} /\ MaxChunks \in Nat \ {0}
ASSUME NoneAssumption == None \notin Nat /\ MayFail \in BOOLEAN

\* hwfq_chunked_entries_init.
NewPool(max) == [max |-> max, table |-> 0, chunks |-> {}, used |-> 0,
                 count |-> 0, head |-> None, link |-> [i \in {} |-> None]]

ChunkOf(id) == id \div ChunkSize

\* hwfq_chunked_get returns an entry.
Exists(pool, id) == ChunkOf(id) < pool.table /\ ChunkOf(id) \in pool.chunks

\* Mutant of Full: one entry too many.
Full_Late(pool) == pool.count > pool.max

Full(pool) == pool.count >= pool.max

\* The length the table grows to for a chunk: the least power of two that
\* holds it, at most MaxChunks.
TableFor(chunk) ==
    LET lengths == {n \in 1 .. MaxChunks :
                       n > chunk /\ (n = MaxChunks \/ \E k \in 0 .. chunk : n = 2 ^ k)}
    IN  CHOOSE n \in lengths : \A m \in lengths : n <= m

\* Mutant of Reuse: the head of the free list stays.
Reuse_Stuck(pool) == [pool EXCEPT !.count = @ + 1]

\* The head of the free list is taken off.
Reuse(pool) == [pool EXCEPT !.head = pool.link[pool.head],
                            !.link = [@ EXCEPT ![pool.head] = pool.head],
                            !.count = @ + 1]

\* Mutant of FreshId: the slot after the next.
FreshId_Skip(pool) == pool.used + 1

FreshId(pool) == pool.used

\* allocate_chunk: the pools it may leave, with the table, the chunk, both or
\* neither allocated; a table that has grown is kept when the chunk fails.
Prepared(pool, chunk) ==
    LET grown  == IF chunk < pool.table THEN pool
                  ELSE [pool EXCEPT !.table = TableFor(chunk)]
        filled == [grown EXCEPT !.chunks = @ \cup {chunk}]
    IN  IF chunk >= MaxChunks THEN {pool}
        ELSE {filled} \cup (IF MayFail THEN {pool, grown} ELSE {})

\* A slot that has never been used, when the free list is empty.
Fresh(pool) ==
    {IF Exists(p, FreshId(pool))
     THEN [id |-> FreshId(pool),
           pool |-> [p EXCEPT !.used = @ + 1, !.count = @ + 1,
                        !.link = [i \in 0 .. pool.used |->
                                     IF i = pool.used THEN i ELSE @[i]]]]
     ELSE [id |-> None, pool |-> p] :
         p \in Prepared(pool, ChunkOf(FreshId(pool)))}

\* hwfq_chunked_entries_alloc: the possible results, an id (None for an
\* error) and the pool afterwards.
AllocResults(pool) ==
    IF Full(pool) THEN {[id |-> None, pool |-> pool]}
    ELSE IF pool.head # None THEN {[id |-> pool.head, pool |-> Reuse(pool)]}
    ELSE Fresh(pool)

\* Mutant of Release: the rest of the free list is cut off.
Release_Cut(pool, id) ==
    [pool EXCEPT !.head = id, !.link[id] = None, !.count = @ - 1]

\* hwfq_chunked_entries_free.
Release(pool, id) ==
    IF ~Exists(pool, id) THEN pool
    ELSE [pool EXCEPT !.link = [@ EXCEPT ![id] = pool.head],
                      !.head = id,
                      !.count = IF @ > 0 THEN @ - 1 ELSE @]

\* The ids on the free list, walked from its head for at most used steps.
FreeList(pool) ==
    LET walk[n \in 0 .. pool.used] ==
            IF n = 0 THEN pool.head
            ELSE IF walk[n - 1] = None THEN None ELSE pool.link[walk[n - 1]]
    IN  [n \in 0 .. pool.used |-> walk[n]]

FreeIds(pool) == {FreeList(pool)[n] : n \in 0 .. pool.used} \ {None}

\* A sound pool: its free list ends, and holds exactly the ids that have been
\* handed out and are not among those in use; the counter counts the latter.
Sound(pool, inUse) ==
    /\ FreeList(pool)[pool.used] = None
    /\ FreeIds(pool) = (0 .. pool.used - 1) \ inUse
    /\ inUse \subseteq 0 .. pool.used - 1
    /\ pool.count = Cardinality(inUse)
    /\ \A id \in inUse : pool.link[id] = id

=============================================================================
