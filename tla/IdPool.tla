------------------------------- MODULE IdPool -------------------------------
(***************************************************************************)
(* What an allocator of ids promises: an id that is handed out is free and *)
(* stays taken until it is given back; a request is refused only when no   *)
(* id is left.  Implemented by FlowTrie and, for the tenants' ids, by      *)
(* HwfqConfig.                                                             *)
(***************************************************************************)
CONSTANT AllIds

VARIABLES
    ids,        \* the ids the pool may hand out
    inUse,      \* the ids handed out and not given back
    answer      \* what the last request returned

vars == <<ids, inUse, answer>>

Init ==
    /\ ids \in SUBSET AllIds
    /\ inUse = {}
    /\ answer = "none"

\* A pool is opened on a set of ids, and closed.
Open ==
    /\ ids' \in SUBSET AllIds
    /\ inUse' = {}
    /\ answer' = "none"

Alloc ==
    /\ \E id \in ids \ inUse : inUse' = inUse \cup {id}
    /\ answer' = "ok"
    /\ UNCHANGED ids

Refuse ==
    /\ inUse = ids
    /\ answer' = "full"
    /\ UNCHANGED <<ids, inUse>>

\* A request refused for another reason than a lack of ids.
Decline ==
    /\ answer' = "none"
    /\ UNCHANGED <<ids, inUse>>

Free ==
    /\ \E id \in inUse : inUse' = inUse \ {id}
    /\ answer' = "none"
    /\ UNCHANGED ids

Next == Open \/ Alloc \/ Refuse \/ Decline \/ Free

Spec == Init /\ [][Next]_vars

=============================================================================
