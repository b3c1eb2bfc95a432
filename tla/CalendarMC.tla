----------------------------- MODULE CalendarMC -----------------------------
(* A small instance of Calendar for TLC.                                   *)
EXTENDS Calendar

CONSTANT RateAmounts

MCAllocations == [type : {"rate"}, amount : RateAmounts]

Symmetry == Permutations(SessionIds) \cup Permutations(EntryIds)

=============================================================================
