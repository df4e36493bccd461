------------------------------ MODULE MCConsole ------------------------------
(* A run of two phases: one that recovers hives, one with a pool of two.     *)
EXTENDS Console

TwoWorkers == {11, 12}
=============================================================================
