-------------------------- MODULE HwfqSchedulerMC --------------------------
(* Small instances of HwfqScheduler for TLC.                               *)
EXTENDS HwfqLifecycle, TLC

CONSTANTS big  \* the one session of size BigSize; all others have size 1
CONSTANTS BigSize, BigTimeout, SmallTimeout

MCSize == [s \in Sessions |-> IF s = big THEN BigSize ELSE 1]

MCTimeout == [s \in Sessions |-> IF s = big THEN BigTimeout ELSE SmallTimeout]

Symmetry == Permutations(Tenants) \cup Permutations(Flows)
              \cup Permutations(Sessions \ {big}) \cup Permutations(Callers)

=============================================================================
