-------------------------------- MODULE Sums --------------------------------
(***************************************************************************)
(* Finite sums of integers indexed by a finite set: the reduce((sum, x) => *)
(* sum + x, 0) the services apply to the rows of a query.  Recursion is a  *)
(* recursive function on the subsets of the index set, so that the lemmas  *)
(* of SumsProofs can be proved about it.                                   *)
(***************************************************************************)
EXTENDS Integers, FiniteSets

(* An element of a nonempty set, always the same one for the same set. *)
AnyOf(T) == CHOOSE x \in T : TRUE

(* f[x] summed over every x in the finite set S. *)
SumOver(f, S) ==
  LET sum[T \in SUBSET S] ==
        IF T = {} THEN 0 ELSE f[AnyOf(T)] + sum[T \ {AnyOf(T)}]
  IN  sum[S]
=============================================================================
