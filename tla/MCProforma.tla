------------------------------ MODULE MCProforma ------------------------------
(* Instances of Proforma for TLC. *)
EXTENDS Proforma, TLC

CONSTANTS h1, h2, l1, l2

(* Nothing orders the handlers or the item ids. *)
Alike == Permutations(Handlers) \cup Permutations(Lines)
=============================================================================
