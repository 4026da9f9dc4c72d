---------------------------- MODULE MCReleaseLoad ----------------------------
(***************************************************************************)
(* Instances of ReleaseLoad for TLC: a file of one block and one of two.   *)
(***************************************************************************)
EXTENDS ReleaseLoad, TLC

CONSTANTS j1, j2, p1, p2, c1
MCBlocks == (p1 :> 1) @@ (p2 :> 2)
=============================================================================
