---------------------------- MODULE HwfqConfigMC ----------------------------
(* A small instance of HwfqConfig for TLC.                                 *)
EXTENDS HwfqConfig

=============================================================================
