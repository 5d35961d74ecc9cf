----------------------------- MODULE MCTerminal -----------------------------
(* Small instances of Terminal. *)
EXTENDS Terminal, TLC

CONSTANTS v1, v2

(* Nothing in Terminal orders variants. *)
Alike == Permutations(Variants)
=============================================================================
