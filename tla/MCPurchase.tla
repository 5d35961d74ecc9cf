------------------------------ MODULE MCPurchase ------------------------------
(* Instances of Purchase for TLC. *)
EXTENDS Purchase, TLC

CONSTANTS h1, h2, h3, p1, p2, k1, k2, i1

(* Two units in p1, one in p2, of the same item. *)
SmallOrders == (p1 :> (i1 :> 2)) @@ (p2 :> (i1 :> 1))

SmallTotals == (p1 :> 1) @@ (p2 :> 1)

(* Nothing orders the handlers or the keys. *)
Alike == Permutations(Handlers) \cup Permutations(Keys)
=============================================================================
