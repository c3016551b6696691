----------------------------- MODULE MCRecovery -----------------------------
(***************************************************************************)
(* Small instances of saving and recovery, with the constants of the        *)
(* coordinator's instances.                                                 *)
(***************************************************************************)
EXTENDS Recovery, MCCoordinator
=============================================================================
