--------------------------- MODULE MCInstallation ---------------------------
(* Instances of Installation and FirstAccounts for TLC. *)
EXTENDS FirstAccounts, TLC

CONSTANTS w1, w2, e1, e2, e3, x1, x2

(* Bound, of the instance: accounts are made while nothing disturbs.  What *)
(* Setup does before, it does in every way.                                *)
InBounds ==
  (roles # {} \/ operatorRole \/ \E p \in Processes : attempt[p] # NoAttempt)
    => /\ at \in {"passed", "crashed"} /\ taken = {}
       /\ launcher \in {"closed", "serving"} /\ prepared
       /\ legacyFile = NoFile /\ dbPasswordFile = w1 /\ portFile = 5433
=============================================================================
