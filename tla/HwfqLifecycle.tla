--------------------------- MODULE HwfqLifecycle ---------------------------
(***************************************************************************)
(* HwfqScheduler implements SessionLifecycle: the place of a session is    *)
(* read off the queues, the in-flight list and the timed-out lists.        *)
(***************************************************************************)
EXTENDS HwfqScheduler

ReportedSessions == UNION {reports[c] : c \in Callers}

\* A session that is held and in no queue and no list has been dropped by a
\* put-back.
Where == [s \in Sessions |-> IF s \in ReportedSessions THEN "timedOut"
                             ELSE IF s \in InFlightSessions THEN "inFlight"
                             ELSE IF s \in QueuedSessions THEN "queued"
                             ELSE IF s \in held THEN "lost"
                             ELSE "client"]

Work(S) == Cardinality(UNION {{s} \X (1 .. Size[s]) : s \in S})

\* A put-back drops its session when an allocation fails, or when the flow of
\* the session is gone (which takes a tenant removed with work in flight).
Lifecycle == INSTANCE SessionLifecycle
                WITH Capacity <- TotalCapacity,
                     MayLose <- FALSE \in AllocResults \/ RemoveInFlight,
                     where <- Where, cleaned <- cleanups

\* Through every interleaving of enqueue, dequeue, put-back, complete, cancel,
\* timeout and removal a session takes only the steps of SessionLifecycle: it
\* is dispatched once and within the capacity, given back once and by one
\* party, reported only if it has a timeout, and its cleanup_fn is called only
\* for a session that never left its queue; it is lost only if an allocation
\* fails or tenants are removed with work in flight.
ImplementsLifecycle == Lifecycle!Spec

=============================================================================
