------------------------ MODULE MCMessageConnection ------------------------
(***************************************************************************)
(* Instances of MessageConnection for TLC.                                 *)
(***************************************************************************)
EXTENDS MessageConnection
=============================================================================
