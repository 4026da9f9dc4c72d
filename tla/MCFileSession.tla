---------------------------- MODULE MCFileSession ----------------------------
(***************************************************************************)
(* Instances of FileSession for TLC: two files, one shorter than a block.  *)
(***************************************************************************)
EXTENDS FileSession, TLC

CONSTANTS p1, p2
MCPathOf == (1 :> p1) @@ (2 :> p2)
MCFull == (p1 :> 1) @@ (p2 :> 0)
=============================================================================
