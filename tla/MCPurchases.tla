---------------------------- MODULE MCPurchases ----------------------------
(***************************************************************************)
(* Instances of Purchases for TLC.                                         *)
(***************************************************************************)
EXTENDS Purchases

CONSTANTS a, b, t1, t2

\* Two purchases for one timer to retry, two threads that can hold one row.
TwoItems   == {a, b}
TwoThreads == {t1, t2}
=============================================================================
