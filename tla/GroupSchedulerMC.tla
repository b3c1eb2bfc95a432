-------------------------- MODULE GroupSchedulerMC --------------------------
(* Small instances of GroupScheduler for TLC.                              *)
EXTENDS GroupScheduler, TLC

CONSTANTS RateAmounts, WeightAmounts

MCAllocations == [type : {"rate"}, amount : RateAmounts]
                   \cup [type : {"weight"}, amount : WeightAmounts]

Symmetry == Permutations(SessionIds) \cup Permutations(EntryIds)

=============================================================================
