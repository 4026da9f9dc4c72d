-------------------------------- MODULE Sale --------------------------------
(***************************************************************************)
(* What a purchase promises its buyer: it is charged or refused once, and  *)
(* goods are delivered once, exactly when it was charged.  Purchases is    *)
(* shown to implement this when the game center answers a transaction that *)
(* is sent again as it did before.                                         *)
(***************************************************************************)
CONSTANT Items

VARIABLE sale

Init == sale = [p \in Items |-> "none"]

Change(p, from, to) == sale[p] = from /\ sale' = [sale EXCEPT ![p] = to]

Order(p)   == Change(p, "none", "ordered")
Charge(p)  == Change(p, "ordered", "charged")
Refuse(p)  == Change(p, "ordered", "refused")
Deliver(p) == Change(p, "charged", "delivered")
Close(p)   == Change(p, "refused", "closed")

Next == \E p \in Items : Order(p) \/ Charge(p) \/ Refuse(p) \/ Deliver(p) \/ Close(p)

Spec == Init /\ [][Next]_sale
=============================================================================
