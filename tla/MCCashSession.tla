---------------------------- MODULE MCCashSession ----------------------------
(* Instances of CashSession for TLC. *)
EXTENDS CashSession, TLC

CONSTANTS h1, h2, c1, c2, a, b

(* Nothing orders the handlers, the session ids or the stores. *)
Alike == Permutations(Handlers) \cup Permutations(Sessions) \cup Permutations(Stores)

ReceiveOrPay == {2, -1}
=============================================================================
