--------------------------- MODULE MCMemoryGovernor ---------------------------
(***************************************************************************)
(* An instance of MemoryGovernor, and of the scheduler in it, for TLC.     *)
(***************************************************************************)
EXTENDS MemoryGovernor

CONSTANTS c1, c2, c3, i1

ThreeClients == {c1, c2, c3}
OneIngest == {i1}
=============================================================================
