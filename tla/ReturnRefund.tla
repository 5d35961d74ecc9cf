---------------------------- MODULE ReturnRefund ----------------------------
(***************************************************************************)
(* The money of returns and refunds, in cents: how                         *)
(* src/src/services/return.service.ts turns returned units into an amount  *)
(* to give back, and how src/src/services/refund.service.ts pays that      *)
(* amount out of the sale's payments.  The sales are completed: their      *)
(* lines, tax and payments no longer change (SettledIsFinal in Sale, which *)
(* also models the goods that come back).                                  *)
(*                                                                         *)
(* A refund holds its return and payment rows FOR UPDATE from before its   *)
(* first read to its commit, so it is one step.  A return holds the sale   *)
(* row likewise; but two returns of two sales may carry one idempotency    *)
(* key, which only the unique index keeps apart, when they insert.         *)
(***************************************************************************)
EXTENDS Integers, FiniteSets, Sums

CONSTANTS
  Sales, Lines, Payments,
  Returns,         \* idempotency keys of returns; every return has its own
  Keys,            \* and those of refunds
  SaleOf,          \* the sale of each line
  PaymentOf,       \* the sale of each payment
  Nets,            \* totals a line may have, after discount
  Quantities,      \* units a line may have sold
  Taxes,           \* taxes a sale may have
  PaidAmounts,     \* amounts a payment may have
  Baskets,         \* units of each line that return requests carry
  RefundAmounts,   \* amounts refund requests carry
  References,      \* references refund requests carry
  NoReference,     \* the request has no reference
  NoReturn, NoRefund

Requests ==
  [return : Returns, payment : Payments, amount : RefundAmounts,
   reference : References \cup {NoReference}]

ReturnRequests == [sale : Sales, units : Baskets]

StoredReturns == [asked : ReturnRequests, total : Nat]

ASSUME ReturnAssumption ==
  /\ IsFiniteSet(Lines) /\ IsFiniteSet(Payments)
  /\ IsFiniteSet(Returns) /\ IsFiniteSet(Keys)
  /\ NoReturn \notin StoredReturns /\ NoRefund \notin Requests
  /\ Lines \subseteq Nat
  /\ SaleOf \in [Lines -> Sales] /\ PaymentOf \in [Payments -> Sales]
  /\ Nets \subseteq Nat /\ Taxes \subseteq Nat
  /\ Quantities \subseteq Nat \ {0} /\ Baskets \subseteq [Lines -> Nat]
  /\ PaidAmounts \subseteq Nat \ {0} /\ RefundAmounts \subseteq Nat \ {0}
  /\ NoReference \notin References

VARIABLES
  net, sold, tax, paid,   \* of the lines, of the sales, of the payments
  returned,        \* sale_items.returnedQuantity
  pending,         \* the return under way that holds the sale's row
  return,          \* the returns rows
  refunded,        \* payments.refundedAmount
  paidBack,        \* the refunds rows, summed by return and payment
  refund,          \* what each refund idempotency key was used for
  answer           \* what the last request was told

saleVars == <<net, sold, tax, paid>>
refundVars == <<refunded, paidBack, refund>>
booksVars == <<saleVars, returned, pending, return, refundVars, answer>>

(* roundMoney(x * n / d) for amounts of cents: halves go up. *)
Rounded(x, n, d) == (2 * x * n + d) \div (2 * d)

LinesOf(s) == {l \in Lines : SaleOf[l] = s}

NetOf(s) == SumOver(net, LinesOf(s))

(* The part of the sale's tax that falls on the first x cents of its lines. *)
TaxShare(s, x) == IF NetOf(s) > 0 THEN Rounded(tax[s], x, NetOf(s)) ELSE 0

UpTo(l) == SumOver(net, {m \in LinesOf(SaleOf[l]) : m <= l})

(* Slip: each line's tax is rounded on its own. *)
LineTaxAlone(l) == TaxShare(SaleOf[l], net[l])

(* Each line takes the tax between the cumulated shares, in id order. *)
LineTax(l) == TaxShare(SaleOf[l], UpTo(l)) - TaxShare(SaleOf[l], UpTo(l) - net[l])

(* What is given back for the first n units of a line. *)
GivenBack(l, n) == Rounded(net[l], n, sold[l]) + Rounded(LineTax(l), n, sold[l])

(* Slip: each return is rounded on its own. *)
ItemRefundAlone(l, n) == GivenBack(l, n)

ItemRefund(l, n) == GivenBack(l, returned[l] + n) - GivenBack(l, returned[l])

BooksInit ==
  /\ net \in [Lines -> Nets]
  /\ sold \in [Lines -> Quantities]
  /\ tax \in [Sales -> Taxes]
  /\ \A s \in Sales : NetOf(s) = 0 => tax[s] = 0
  /\ paid \in [Payments -> PaidAmounts]
  /\ returned = [l \in Lines |-> 0]
  /\ pending = [s \in Sales |-> NoReturn]
  /\ return = [r \in Returns |-> NoReturn]
  /\ refunded = [p \in Payments |-> 0]
  /\ paidBack = [r \in Returns |-> [p \in Payments |-> 0]]
  /\ refund = [k \in Keys |-> NoRefund]
  /\ answer = "none"

-----------------------------------------------------------------------------
(* n[l] units of each line of s come back.                                 *)
ReturnRequest(s, n) == [sale |-> s, units |-> n]

(* The sale row is locked, the key unknown, the units there.               *)
BeginReturn(r, s, n) ==
  /\ pending[s] = NoReturn
  /\ return[r] = NoReturn
  /\ \E l \in Lines : n[l] > 0
  /\ \A l \in Lines : n[l] > 0 => SaleOf[l] = s /\ n[l] <= sold[l] - returned[l]
  /\ pending' = [pending EXCEPT ![s] = [key |-> r, asked |-> ReturnRequest(s, n)]]
  /\ UNCHANGED <<saleVars, returned, return, refundVars, answer>>

EndReturn(s) == pending' = [pending EXCEPT ![s] = NoReturn]

StoreReturn(r, asked) ==
  /\ return' = [return EXCEPT ![r] =
                  [asked |-> asked,
                   total |-> SumOver([l \in Lines |-> ItemRefund(l, asked.units[l])],
                                     LinesOf(asked.sale))]]
  /\ returned' = [l \in Lines |-> returned[l] + asked.units[l]]
  /\ answer' = "created"
  /\ UNCHANGED <<saleVars, refundVars>>

(* Slip: the row of a key is written over. *)
CommitReturnOver(s) ==
  /\ pending[s] # NoReturn
  /\ StoreReturn(pending[s].key, pending[s].asked)
  /\ EndReturn(s)

CommitReturn(s) ==
  /\ pending[s] # NoReturn
  /\ return[pending[s].key] = NoReturn
  /\ StoreReturn(pending[s].key, pending[s].asked)
  /\ EndReturn(s)

(* The key was used: the return is given again if it is what is asked for, *)
(* by the same user for the same reason.                                   *)
AnswerReturn(r, asked) ==
  /\ return[r] # NoReturn
  /\ answer' \in IF return[r].asked = asked THEN {"replayed", "rejected"} ELSE {"rejected"}
  /\ UNCHANGED <<saleVars, returned, return, refundVars>>

(* The unique index turns the insert away, everything is rolled back.      *)
RecoverReturn(s) ==
  /\ pending[s] # NoReturn
  /\ AnswerReturn(pending[s].key, pending[s].asked)
  /\ EndReturn(s)

ReplayReturn(r, s, n) == AnswerReturn(r, ReturnRequest(s, n)) /\ UNCHANGED pending

(* A statement fails, or the process dies: nothing was done.               *)
AbortReturn(s) ==
  /\ pending[s] # NoReturn
  /\ EndReturn(s)
  /\ UNCHANGED <<saleVars, returned, return, refundVars, answer>>

(* Slip: what the payment has left is looked at, not what the return has. *)
RefundableOfPayment(r, p) == paid[p] - refunded[p]

(* Slip: the return's limit alone. *)
RefundableOfReturn(r, p) == return[r].total - SumOver(paidBack[r], Payments)

Refundable(r, p) ==
  LET ofPayment == paid[p] - refunded[p]
      ofReturn == return[r].total - SumOver(paidBack[r], Payments)
  IN  IF ofPayment < ofReturn THEN ofPayment ELSE ofReturn

Request(r, p, sum, reference) ==
  [return |-> r, payment |-> p, amount |-> sum, reference |-> reference]

(* Slip: the key is not stored with the refund. *)
PayBackKeyless(k, r, p, sum, reference) ==
  /\ return[r] # NoReturn
  /\ refund[k] = NoRefund
  /\ return[r].asked.sale = PaymentOf[p]
  /\ sum <= Refundable(r, p)
  /\ refunded' = [refunded EXCEPT ![p] = refunded[p] + sum]
  /\ paidBack' = [paidBack EXCEPT ![r][p] = paidBack[r][p] + sum]
  /\ answer' = "created"
  /\ UNCHANGED <<saleVars, returned, pending, return, refund>>

PayBack(k, r, p, sum, reference) ==
  /\ return[r] # NoReturn
  /\ refund[k] = NoRefund
  /\ return[r].asked.sale = PaymentOf[p]
  /\ sum <= Refundable(r, p)
  /\ refund' = [refund EXCEPT ![k] = Request(r, p, sum, reference)]
  /\ refunded' = [refunded EXCEPT ![p] = refunded[p] + sum]
  /\ paidBack' = [paidBack EXCEPT ![r][p] = paidBack[r][p] + sum]
  /\ answer' = "created"
  /\ UNCHANGED <<saleVars, returned, pending, return>>

(* The key was used.  A refund without reference is stored with a null     *)
(* one, and a request without reference carries undefined: they differ.    *)
Replay(k, r, p, sum, reference) ==
  /\ return[r] # NoReturn
  /\ refund[k] # NoRefund
  /\ answer' = IF refund[k] = Request(r, p, sum, reference) /\ reference # NoReference
               THEN "replayed" ELSE "rejected"
  /\ UNCHANGED <<saleVars, returned, pending, return, refundVars>>

BooksNext ==
  \/ \E r \in Returns, s \in Sales, n \in Baskets :
       BeginReturn(r, s, n) \/ ReplayReturn(r, s, n)
  \/ \E s \in Sales : CommitReturn(s) \/ RecoverReturn(s) \/ AbortReturn(s)
  \/ \E k \in Keys, r \in Returns, p \in Payments, sum \in RefundAmounts,
        reference \in References \cup {NoReference} :
       \/ PayBack(k, r, p, sum, reference)
       \/ Replay(k, r, p, sum, reference)

BooksSpec == BooksInit /\ [][BooksNext]_booksVars

-----------------------------------------------------------------------------
(* Amounts that leave the drawer are never negative, whatever is rounded. *)
BooksTypeOK ==
  /\ net \in [Lines -> Nets] /\ sold \in [Lines -> Quantities]
  /\ tax \in [Sales -> Taxes] /\ paid \in [Payments -> PaidAmounts]
  /\ returned \in [Lines -> Nat]
  /\ pending \in [Sales -> [key : Returns, asked : ReturnRequests] \cup {NoReturn}]
  /\ return \in [Returns -> StoredReturns \cup {NoReturn}]
  /\ refunded \in [Payments -> Nat]
  /\ paidBack \in [Returns -> [Payments -> Nat]]
  /\ refund \in [Keys -> Requests \cup {NoRefund}]

ReturnedMoney(s) ==
  SumOver([r \in Returns |-> IF return[r] # NoReturn /\ return[r].asked.sale = s
                             THEN return[r].total ELSE 0], Returns)

(* Returning a sale line by line, unit by unit, in any order gives back    *)
(* exactly what it cost, tax included ("ensures all line allocations add   *)
(* back to the exact recorded sale tax instead of losing cents"), and      *)
(* never more on the way there.                                            *)
ReturnedMoneyAddsUp ==
  \A s \in Sales :
    /\ ReturnedMoney(s) <= NetOf(s) + tax[s]
    /\ (\A l \in LinesOf(s) : returned[l] = sold[l])
         => ReturnedMoney(s) = NetOf(s) + tax[s]

(* What came back is what the returns there are say, one for each key:     *)
(* neither a retry of a return, nor its key on another sale's, returns     *)
(* goods that no row tells of.                                             *)
ReturnedOncePerKey ==
  \A l \in Lines :
    returned[l]
      = SumOver([r \in Returns |->
                  IF return[r] = NoReturn THEN 0 ELSE return[r].asked.units[l]], Returns)

(* The refunds of a return never exceed it, out of however many payments,  *)
(* nor those of a payment, for however many returns; and the amount stored *)
(* with the payment is the sum of its refunds rows.                        *)
RefundsWithinBoth ==
  /\ \A r \in Returns :
       SumOver(paidBack[r], Payments) <= IF return[r] = NoReturn THEN 0 ELSE return[r].total
  /\ \A p \in Payments :
       /\ refunded[p] <= paid[p]
       /\ refunded[p] = SumOver([r \in Returns |-> paidBack[r][p]], Returns)

(* Retries pay nothing twice: what was paid back is one refund per key.    *)
RefundedOncePerKey ==
  SumOver(refunded, Payments)
    = SumOver([k \in Keys |-> IF refund[k] = NoRefund THEN 0 ELSE refund[k].amount], Keys)
=============================================================================
