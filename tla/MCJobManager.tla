---------------------------- MODULE MCJobManager ----------------------------
(***************************************************************************)
(* Instances of JobManager for TLC.                                        *)
(***************************************************************************)
EXTENDS JobManager

CONSTANTS j1, j2, j3

\* One job that is being started, one that runs, one that ends.
ThreeJobs == {j1, j2, j3}
=============================================================================
