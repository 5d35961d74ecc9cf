------------------------------ MODULE MCBackup ------------------------------
(* Small instances of Backup. *)
EXTENDS Backup

CONSTANTS o1, o2, o3, p1, p2

OneElsewhere == [o \in Operations |-> IF o = o3 THEN p2 ELSE p1]
=============================================================================
