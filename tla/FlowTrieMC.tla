----------------------------- MODULE FlowTrieMC -----------------------------
(* A small instance of FlowTrie for TLC.                                   *)
EXTENDS FlowTrie

=============================================================================
