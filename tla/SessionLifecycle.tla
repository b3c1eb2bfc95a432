-------------------------- MODULE SessionLifecycle --------------------------
(***************************************************************************)
(* What the scheduler promises about each session, whatever tenants, flows *)
(* and threads there are: it is handed over, queued, dispatched within the *)
(* capacity, and given back, by hwfq_complete, by hwfq_cancel, by one      *)
(* report of its timeout, or by cleanup_fn if it never left the queue.     *)
(* Implemented by HwfqScheduler (module HwfqLifecycle).                    *)
(***************************************************************************)
EXTENDS Naturals

CONSTANTS
    Sessions, Timeout, Capacity,
    Work(_),    \* the units of work of a set of sessions
    MayLose     \* may a session stay queued out of every queue's sight?

VARIABLES
    where,      \* where each session is
    disposed,   \* the sessions given back without a completion
    cleaned     \* the sessions given back by their cleanup_fn

vars == <<where, disposed, cleaned>>

At(place) == {s \in Sessions : where[s] = place}

Moved(S, place) ==
    where' = [s \in Sessions |-> IF s \in S THEN place ELSE where[s]]

Init == /\ where = [s \in Sessions |-> "client"]
        /\ disposed = {}
        /\ cleaned = {}

Submit ==
    \E s \in At("client") : /\ Moved({s}, "queued")
                            /\ disposed' = disposed \ {s}
                            /\ cleaned' = cleaned \ {s}

Dispatch ==
    /\ \E s \in At("queued") :
          /\ Work(At("inFlight") \cup {s}) <= Capacity
          /\ Moved({s}, "inFlight")
    /\ UNCHANGED <<disposed, cleaned>>

Complete ==
    /\ \E s \in At("inFlight") : Moved({s}, "client")
    /\ UNCHANGED <<disposed, cleaned>>

Cancel ==
    /\ \E s \in At("inFlight") : /\ Moved({s}, "client")
                                 /\ disposed' = disposed \cup {s}
    /\ UNCHANGED cleaned

TimeOut ==
    /\ \E S \in SUBSET At("inFlight") : /\ \A s \in S : Timeout[s] > 0
                                        /\ Moved(S, "timedOut")
                                        /\ disposed' = disposed \cup S
    /\ UNCHANGED cleaned

Report ==
    /\ \E s \in At("timedOut") : Moved({s}, "client")
    /\ UNCHANGED <<disposed, cleaned>>

\* The sessions of a queue that is destroyed.
Discard ==
    \E S \in SUBSET At("queued") : /\ Moved(S, "client")
                                   /\ disposed' = disposed \cup S
                                   /\ cleaned' = cleaned \cup S

Lose ==
    /\ MayLose
    /\ \E s \in At("queued") : Moved({s}, "lost")
    /\ UNCHANGED <<disposed, cleaned>>

Next == Submit \/ Dispatch \/ Complete \/ Cancel \/ TimeOut \/ Report
           \/ Discard \/ Lose

Spec == Init /\ [][Next]_vars

=============================================================================
