--------------------------- MODULE MCReturnRefund ---------------------------
(* Instances of ReturnRefund for TLC. *)
EXTENDS ReturnRefund, TLC

CONSTANTS s1, s2, p1, p2, p3, t1, t2, t3, k1, k2, k3, note

(* Two lines and two payments are of one sale, the others of another.      *)
LinesOfTwo == [l \in Lines |-> IF l = 3 THEN s2 ELSE s1]

TwoPayOne == [p \in Payments |-> IF p = p3 THEN s2 ELSE s1]

(* Requests name lines of one sale.                                        *)
OfOneSale ==
  {n \in [Lines -> 0 .. 3] :
     \E s \in Sales : \A l \in Lines : n[l] > 0 => SaleOf[l] = s /\ (s = s2 => n[l] = 1)}

(* Nothing orders idempotency keys.                                        *)
KeySymmetry == Permutations(Returns) \cup Permutations(Keys)

(* Bound, of the instance: it starts with one of two kinds of books.  In   *)
(* the first, lines of several units and odd cents are returned, and the   *)
(* payments are too small for any refund that is asked for; in the second, *)
(* lines of one unit, of both sales, are returned in two returns and       *)
(* refunded.                                                               *)
OddCents ==
  /\ net \in {f \in [Lines -> {0, 5, 7}] : f[3] = 5}
  /\ sold \in {f \in [Lines -> {1, 3}] : f[3] = 1}
  /\ tax \in {f \in [Sales -> {0, 1, 2}] : f[s2] = 0}
  /\ paid = [p \in Payments |-> 1]

WholeUnits ==
  /\ net = [l \in Lines |-> 4] /\ sold = [l \in Lines |-> 1]
  /\ tax = [s \in Sales |-> 0]
  /\ paid = [p \in Payments |-> IF p = p1 THEN 4 ELSE 8]

InBounds ==
  /\ OddCents => pending[s2] = NoReturn
  /\ WholeUnits => Cardinality({r \in Returns : return[r] # NoReturn}) <= 2

MCInit == (OddCents \/ WholeUnits) /\ BooksInit

MCSpec == MCInit /\ [][BooksNext]_booksVars
=============================================================================
