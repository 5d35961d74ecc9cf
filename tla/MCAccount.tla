------------------------------ MODULE MCAccount ------------------------------
(* Small instances of Account. *)
EXTENDS Account, TLC

Alike == Permutations(Handlers)
=============================================================================
