------------------------------ MODULE MCMembers ------------------------------
(***************************************************************************)
(* Instances of Members for TLC.                                           *)
(***************************************************************************)
EXTENDS Members

CONSTANTS ann, a_n, bob

ThreeNames == {ann, a_n, bob}
\* As a pattern, a_n finds ann too.
Wildcard == [n \in ThreeNames |-> IF n = a_n THEN {ann, a_n} ELSE {n}]
=============================================================================
