-------------------------- MODULE MCGameLifecycle --------------------------
(***************************************************************************)
(* Instances of GameLifecycle for TLC.                                     *)
(***************************************************************************)
EXTENDS GameLifecycle

CONSTANTS j1, j2

\* Two launch jobs: enough for two games to want one port, for one game to be
\* launched while another ends, and for a timer and an admin to end one game.
TwoJobs == {j1, j2}
=============================================================================
