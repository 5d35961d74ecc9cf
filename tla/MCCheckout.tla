----------------------------- MODULE MCCheckout -----------------------------
(* Instances of Checkout for TLC. *)
EXTENDS Checkout

CONSTANTS h1, h2, k1, k2, u1, s1, s2, r1, r2

TotalOf2 == [s \in Sales |-> 2]

(* Two checkouts of s1, or one of s2, take all there is.                   *)
OneUnitOrTwo == [s \in Sales |-> [k \in Rows |-> IF s = s1 THEN 1 ELSE 2]]

StockOf2 == [k \in Rows |-> 2]
=============================================================================
