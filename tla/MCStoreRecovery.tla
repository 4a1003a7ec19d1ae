--------------------------- MODULE MCStoreRecovery ---------------------------
(***************************************************************************)
(* Instances of StoreRecovery for TLC; its constants are numbers, Booleans *)
(* and model values of their own names.                                    *)
(***************************************************************************)
EXTENDS StoreRecovery
=============================================================================
