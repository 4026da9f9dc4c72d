---------------------------- MODULE MCGameScores ----------------------------
(***************************************************************************)
(* Instances of GameScores for TLC.                                        *)
(***************************************************************************)
EXTENDS GameScores, TLC

CONSTANTS p1, p2, c1, c2

\* Two players to rank, two connections whose requests overlap.
TwoPlayers == {p1, p2}
TwoConns   == {c1, c2}

\* Players and connections are treated alike.
Symmetry == Permutations(TwoPlayers) \union Permutations(TwoConns)

\* Bounds of the search: one player, or the count, has overlapping requests, and
\* one player's pass time is set after the ranking.
FewOverlaps == Cardinality(overlap) <= 1 /\ Cardinality(late) <= 1
=============================================================================
