-------------------------------- MODULE Sale --------------------------------
(***************************************************************************)
(* The life of a sale: src/src/services/sale.service.ts, the checkout and  *)
(* payments routes of src/src/app/api/sales/[id]/ and the return service,  *)
(* over the stock of module Inventory.                                     *)
(*                                                                         *)
(* Each handler runs one database transaction that first takes the sale    *)
(* row FOR UPDATE and reads the sale again under that lock, so at this     *)
(* grain a handler is one step: two handlers of one sale are serialized,   *)
(* handlers of different sales meet at the stock rows.  Money is an amount *)
(* of cents.  The idempotency records of the routes are modelled in        *)
(* Checkout, the cash drawer in CashSession and the money of returns in    *)
(* ReturnRefund.                                                           *)
(***************************************************************************)
EXTENDS Inventory

CONSTANTS
  Sales, Lines, Customers,
  NoSale, NoCustomer, NoStore, NoVariant,
  Prices,            \* unit prices the catalogue may show
  Discounts,         \* line discounts that requests carry
  TaxRates,          \* tax configurations of the organization, in percent
  Amounts,           \* payment and credit amounts that requests carry
  RequestStatuses    \* what create and PATCH bodies put in the field status

ASSUME SaleAssumption ==
  /\ IsFiniteSet(Sales) /\ IsFiniteSet(Lines)
  /\ References = Sales \cup {Manual}
  /\ Manual \notin Sales /\ NoSale \notin Sales
  /\ NoCustomer \notin Customers
  /\ NoStore \notin Stores /\ NoVariant \notin Variants
  /\ Prices \subseteq Nat /\ Discounts \subseteq Nat
  /\ TaxRates \subseteq Nat
  /\ Amounts \subseteq Nat \ {0}
  /\ RequestStatuses \subseteq STRING /\ "ABSENT" \notin RequestStatuses

VARIABLES
  taxRate,    \* the organization's configured rate
  status,     \* of each sale; "ABSENT" before it is created
  store, customer, applyTax,
  saleRate,   \* the rate the persisted total was computed with
  total,      \* the persisted total
  paid,       \* sum of the payments the sale received (ReturnRefund pays back)
  credit,     \* amount of its authorized SaleCredit, 0 when there is none
  creditTo,   \* the customer of that credit
  line,       \* the sale_items rows
  declared    \* history: the sales that a request body called COMPLETED

saleVars == <<taxRate, status, store, customer, applyTax, saleRate, total,
              paid, credit, creditTo, line, declared>>
vars == <<inventoryVars, saleVars>>

Settled == {"COMPLETED", "CANCELLED"}

NoLine == [sale |-> NoSale, variant |-> NoVariant, quantity |-> 0,
           unitPrice |-> 0, totalPrice |-> 0, returned |-> 0]

LinesOf(s) == {l \in Lines : line[l].sale = s}

(* roundMoney of a percentage of an amount of cents: halves go up. *)
Tax(subtotal, rate) == (subtotal * rate + 50) \div 100

Subtotal(items, s) ==
  SumOver([l \in Lines |-> IF items[l].sale = s THEN items[l].totalPrice ELSE 0],
          Lines)

(* Slip: the new rate is applied but not stored with the sale. *)
RecalculateForgetsRate(s) ==
  LET rate == IF applyTax'[s] THEN taxRate ELSE 0
      subtotal == Subtotal(line', s)
  IN  /\ saleRate' = saleRate
      /\ total' = [total EXCEPT ![s] = subtotal + Tax(subtotal, rate)]

(* recalculateTotalsInTransaction, from the rows as they are being left. *)
Recalculate(s) ==
  LET rate == IF applyTax'[s] THEN taxRate ELSE 0
      subtotal == Subtotal(line', s)
  IN  /\ saleRate' = [saleRate EXCEPT ![s] = rate]
      /\ total' = [total EXCEPT ![s] = subtotal + Tax(subtotal, rate)]

Coverage(s) == paid[s] + credit[s]

(* n[l] summed over the lines of s that draw on each stock row. *)
PerRow(s, n) ==
  [k \in Rows |->
     SumOver([l \in Lines |->
                IF line[l].sale = s /\ <<store[s], line[l].variant>> = k
                THEN n[l] ELSE 0], Lines)]

Sold(s) == PerRow(s, [l \in Lines |-> line[l].quantity])

Outstanding(s) == PerRow(s, [l \in Lines |-> line[l].quantity - line[l].returned])

RowsExist(s) == \A l \in LinesOf(s) : <<store[s], line[l].variant>> \in Rows

Negated(n) == [k \in Rows |-> -n[k]]

Init ==
  /\ InventoryInit
  /\ taxRate \in TaxRates
  /\ status = [s \in Sales |-> "ABSENT"]
  /\ store = [s \in Sales |-> NoStore]
  /\ customer = [s \in Sales |-> NoCustomer]
  /\ applyTax = [s \in Sales |-> TRUE]
  /\ saleRate = [s \in Sales |-> 0]
  /\ total = [s \in Sales |-> 0]
  /\ paid = [s \in Sales |-> 0]
  /\ credit = [s \in Sales |-> 0]
  /\ creditTo = [s \in Sales |-> NoCustomer]
  /\ line = [l \in Lines |-> NoLine]
  /\ declared = {}

-----------------------------------------------------------------------------
(* The tax configuration is maintained outside the application (no route   *)
(* writes it); each handler that computes a price reads it anew, and sales *)
(* keep what they were computed with.                                      *)
SetTaxRate(rate) ==
  /\ rate # taxRate
  /\ taxRate' = rate
  /\ UNCHANGED <<inventoryVars, status, store, customer, applyTax, saleRate,
                 total, paid, credit, creditTo, line, declared>>

(* The body's status is stored as it comes: a sale may be COMPLETED by its *)
(* word alone, with nothing paid and nothing taken from the stock.         *)
Declare(s, requested) ==
  /\ status' = [status EXCEPT ![s] = requested]
  /\ declared' = IF requested = "COMPLETED" THEN declared \cup {s} ELSE declared

Create(s, st, c, withTax, requested) ==
  /\ status[s] = "ABSENT"
  /\ Declare(s, requested)
  /\ store' = [store EXCEPT ![s] = st]
  /\ customer' = [customer EXCEPT ![s] = c]
  /\ applyTax' = [applyTax EXCEPT ![s] = withTax]
  /\ saleRate' = [saleRate EXCEPT ![s] = IF withTax THEN taxRate ELSE 0]
  /\ UNCHANGED <<inventoryVars, taxRate, total, paid, credit, creditTo, line>>

(* Slip: a completed sale can be edited. *)
UpdateCompletedToo(s, st, c, withTax, requested) ==
  /\ status[s] \in {"PENDING", "COMPLETED"}
  /\ Declare(s, requested)
  /\ store' = [store EXCEPT ![s] = st]
  /\ customer' = [customer EXCEPT ![s] = c]
  /\ applyTax' = [applyTax EXCEPT ![s] = withTax]
  /\ line' = line
  /\ Recalculate(s)
  /\ UNCHANGED <<inventoryVars, taxRate, paid, credit, creditTo>>

(* PATCH: the parsed body always carries a status and an applyTax, because *)
(* the schema's defaults survive partial(); store and customer may be      *)
(* left as they are.                                                       *)
Update(s, st, c, withTax, requested) ==
  /\ status[s] = "PENDING"
  /\ Declare(s, requested)
  /\ store' = [store EXCEPT ![s] = st]
  /\ customer' = [customer EXCEPT ![s] = c]
  /\ applyTax' = [applyTax EXCEPT ![s] = withTax]
  /\ line' = line
  /\ Recalculate(s)
  /\ UNCHANGED <<inventoryVars, taxRate, paid, credit, creditTo>>

(* What the three item handlers share: a PENDING sale, one row, new totals. *)
ChangeLine(s, l, item) ==
  /\ status[s] = "PENDING"
  /\ line' = [line EXCEPT ![l] = item]
  /\ applyTax' = applyTax
  /\ Recalculate(s)
  /\ UNCHANGED <<inventoryVars, taxRate, status, store, customer, paid, credit,
                 creditTo, declared>>

AddItem(s, l, v, n, price, discount) ==
  /\ line[l] = NoLine
  /\ discount <= price * n
  /\ ChangeLine(s, l, [sale |-> s, variant |-> v, quantity |-> n,
                       unitPrice |-> price, totalPrice |-> price * n - discount,
                       returned |-> 0])

(* A request without a discount resets it: its default is 0. *)
UpdateItem(l, n, price, discount) ==
  /\ line[l] # NoLine
  /\ discount <= price * n
  /\ ChangeLine(line[l].sale, l,
                [line[l] EXCEPT !.quantity = n, !.unitPrice = price,
                                !.totalPrice = price * n - discount])

RemoveItem(l) ==
  /\ line[l] # NoLine
  /\ ChangeLine(line[l].sale, l, NoLine)

AuthorizeCredit(s, c, amount) ==
  /\ status[s] = "PENDING"
  /\ customer[s] # NoCustomer
  /\ credit[s] = 0
  /\ c = customer[s]
  /\ amount <= total[s] - paid[s]
  /\ credit' = [credit EXCEPT ![s] = amount]
  /\ creditTo' = [creditTo EXCEPT ![s] = c]
  /\ UNCHANGED <<inventoryVars, taxRate, status, store, customer, applyTax,
                 saleRate, total, paid, line, declared>>

(* Slip: a cancelled sale takes payments. *)
AddPaymentToCancelled(s, amount) ==
  /\ status[s] \notin {"COMPLETED", "ABSENT"}
  /\ amount <= total[s] - paid[s] - credit[s]
  /\ paid' = [paid EXCEPT ![s] = paid[s] + amount]
  /\ UNCHANGED <<inventoryVars, taxRate, status, store, customer, applyTax,
                 saleRate, total, credit, creditTo, line,
                 declared>>

AddPayment(s, amount) ==
  /\ status[s] \notin Settled \cup {"ABSENT"}
  /\ amount <= total[s] - paid[s] - credit[s]
  /\ paid' = [paid EXCEPT ![s] = paid[s] + amount]
  /\ UNCHANGED <<inventoryVars, taxRate, status, store, customer, applyTax,
                 saleRate, total, credit, creditTo, line,
                 declared>>

-----------------------------------------------------------------------------
(* Slip: the reserved units are sold too. *)
DeductReservedToo(s) ==
  /\ RowsExist(s)
  /\ \A k \in Rows : Sold(s)[k] <= quantity[k]
  /\ Move(s, Negated(Sold(s)))

(* Lock each line's stock row, check what is available, deduct and record. *)
DeductStock(s) ==
  /\ RowsExist(s)
  /\ \A k \in Rows : Sold(s)[k] > 0 => Sold(s)[k] <= Available(k)
  /\ Move(s, Negated(Sold(s)))

(* Slip: no look at the coverage. *)
CompleteUncovered(s) ==
  /\ status[s] = "PENDING"
  /\ DeductStock(s)
  /\ status' = [status EXCEPT ![s] = "COMPLETED"]
  /\ UNCHANGED <<taxRate, store, customer, applyTax, saleRate, total, paid,
                 credit, creditTo, line, declared>>

Complete(s) ==
  /\ status[s] = "PENDING"
  /\ Coverage(s) >= total[s]
  /\ DeductStock(s)
  /\ status' = [status EXCEPT ![s] = "COMPLETED"]
  /\ UNCHANGED <<taxRate, store, customer, applyTax, saleRate, total, paid,
                 credit, creditTo, line, declared>>

(* One payment of the full total, whatever was paid or credited before. *)
Checkout(s, amount) ==
  /\ status[s] \notin Settled \cup {"ABSENT"}
  /\ LinesOf(s) # {}
  /\ amount = total[s] /\ amount > 0
  /\ DeductStock(s)
  /\ paid' = [paid EXCEPT ![s] = paid[s] + amount]
  /\ status' = [status EXCEPT ![s] = "COMPLETED"]
  /\ UNCHANGED <<taxRate, store, customer, applyTax, saleRate, total, credit,
                 creditTo, line, declared>>

(* Every sold unit goes back, also one that was returned already. *)
Cancel(s) ==
  /\ \/ /\ status[s] = "PENDING"
        /\ UNCHANGED inventoryVars
     \/ /\ status[s] = "COMPLETED"
        /\ RowsExist(s)
        /\ Move(s, Sold(s))
  /\ status' = [status EXCEPT ![s] = "CANCELLED"]
  /\ UNCHANGED <<taxRate, store, customer, applyTax, saleRate, total, paid,
                 credit, creditTo, line, declared>>

(* n[l] units of each line come back; the request names at least one line. *)
Return(s, n) ==
  /\ status[s] = "COMPLETED"
  /\ \E l \in Lines : n[l] > 0
  /\ \A l \in Lines : n[l] > 0 =>
       /\ line[l].sale = s
       /\ n[l] <= line[l].quantity - line[l].returned
       /\ <<store[s], line[l].variant>> \in Rows
  /\ Move(s, PerRow(s, n))
  /\ line' = [l \in Lines |-> [line[l] EXCEPT !.returned = line[l].returned + n[l]]]
  /\ UNCHANGED <<taxRate, status, store, customer, applyTax, saleRate, total,
                 paid, credit, creditTo, declared>>

Edit ==
  \/ \E s \in Sales, st \in Stores, c \in Customers \cup {NoCustomer},
        withTax \in BOOLEAN, requested \in RequestStatuses :
       Create(s, st, c, withTax, requested)
  \/ \E s \in Sales, withTax \in BOOLEAN, requested \in RequestStatuses :
       \E st \in Stores, c \in Customers \cup {customer[s]} :
         Update(s, st, c, withTax, requested)
  \/ \E s \in Sales, l \in Lines, v \in Variants, n \in Units,
        price \in Prices, discount \in Discounts :
       AddItem(s, l, v, n, price, discount)
  \/ \E l \in Lines : \E n \in Units \cup {line[l].quantity},
        price \in Prices \cup {line[l].unitPrice}, discount \in Discounts :
       UpdateItem(l, n, price, discount)
  \/ \E l \in Lines : RemoveItem(l)
  \/ \E rate \in TaxRates : SetTaxRate(rate)

Settle ==
  \/ \E s \in Sales, c \in Customers, amount \in Amounts : AuthorizeCredit(s, c, amount)
  \/ \E s \in Sales, amount \in Amounts : AddPayment(s, amount)
  \/ \E s \in Sales : Complete(s)
  \/ \E s \in Sales : \E amount \in {total[s]} : Checkout(s, amount)
  \/ \E s \in Sales : Cancel(s)
  \/ \E s \in Sales, n \in [Lines -> Units \cup {0}] : Return(s, n)

Next ==
  \/ Edit
  \/ Settle
  \/ InventoryNext /\ UNCHANGED saleVars

Spec == Init /\ [][Next]_vars

-----------------------------------------------------------------------------
LineType == [sale : Sales \cup {NoSale}, variant : Variants \cup {NoVariant},
             quantity : Nat, unitPrice : Nat, totalPrice : Nat, returned : Nat]

SaleTypeOK ==
  /\ taxRate \in TaxRates
  /\ status \in [Sales -> {"ABSENT", "COMPLETED", "CANCELLED"} \cup RequestStatuses]
  /\ store \in [Sales -> Stores \cup {NoStore}]
  /\ customer \in [Sales -> Customers \cup {NoCustomer}]
  /\ applyTax \in [Sales -> BOOLEAN]
  /\ saleRate \in [Sales -> TaxRates \cup {0}]
  /\ total \in [Sales -> Nat]
  /\ paid \in [Sales -> Nat]
  /\ credit \in [Sales -> Nat]
  /\ creditTo \in [Sales -> Customers \cup {NoCustomer}]
  /\ line \in [Lines -> LineType]
  /\ declared \subseteq Sales

TypeOK == InventoryTypeOK /\ SaleTypeOK

(* A sale that complete() or the checkout route completed is covered: the  *)
(* payments received and the credit authorized reach its total, whatever   *)
(* edits, payments, credit and tax changes came before in whatever order.  *)
(* A create or PATCH body may call a sale COMPLETED as well                *)
(* (validation.ts:228, sale.service.ts:165), and no handler looks at the   *)
(* coverage then: see PendingUntilCovered.                                 *)
CompletedIsCovered ==
  \A s \in Sales \ declared : status[s] = "COMPLETED" => Coverage(s) >= total[s]

(* The persisted total is what the sale's lines cost at the tax rate       *)
(* persisted with it: no handler changes a line, or the tax flag, without  *)
(* recalculating, and no later change of the rate separates the two.       *)
TotalMatchesLines ==
  \A s \in Sales :
    total[s] = Subtotal(line, s) + Tax(Subtotal(line, s), saleRate[s])

(* The movements a sale wrote are, in every state of every sale: nothing   *)
(* before it is settled; then the units it sold going out, once, and the   *)
(* units returned coming in, each once and to the stock row they were sold *)
(* from; and all that it sold coming in at its cancellation.  Two          *)
(* departures are accounted for, not assumed away: a sale that a body      *)
(* called COMPLETED took nothing out (PendingUntilCovered), though returns *)
(* and cancel() put goods in for it, and units that were returned come in  *)
(* again at a cancellation (CancelRestoresOnce).                           *)
MovementsFollowSale ==
  \A s \in Sales, k \in Rows :
    LET sold == Sold(s)[k]
        taken == IF s \in declared THEN 0 ELSE sold
        returned == sold - Outstanding(s)[k]
    IN  /\ status[s] \notin Settled => ledger[s][k] = 0
        /\ status[s] = "COMPLETED" => ledger[s][k] = returned - taken
        /\ status[s] = "CANCELLED" => ledger[s][k] = returned - taken + sold

(* Never more units come back than were sold, over any number of returns,  *)
(* and units only come back from a sale that was completed.                *)
ReturnedWithinSold ==
  \A l \in Lines :
    /\ line[l].returned <= line[l].quantity
    /\ line[l].returned > 0 => line[l].sale \in Sales /\ status[line[l].sale] \in Settled

(* What a step may do to a sale once it is settled: COMPLETED may become   *)
(* CANCELLED and count returned units, nothing else; its price, payments,  *)
(* credit and lines are history.                                           *)
SettledStep ==
  \A s \in Sales : status[s] \in Settled =>
    /\ status'[s] \in {status[s], "CANCELLED"}
    /\ total'[s] = total[s] /\ saleRate'[s] = saleRate[s]
    /\ paid'[s] = paid[s] /\ credit'[s] = credit[s]
    /\ store'[s] = store[s] /\ customer'[s] = customer[s]
    /\ \A l \in Lines : line[l].sale = s \/ line'[l].sale = s =>
         [line'[l] EXCEPT !.returned = 0] = [line[l] EXCEPT !.returned = 0]

SettledIsFinal == [][SettledStep]_vars

-----------------------------------------------------------------------------
(* Statements of the repository that the code does not keep.               *)

(* sale.service.ts:461: cancelling restores the sold quantities.  A        *)
(* cancelled sale has taken nothing out of the stock and put nothing in.   *)
CancelRestoresOnce ==
  \A s \in Sales, k \in Rows : status[s] = "CANCELLED" => ledger[s][k] = 0

(* sale-credit.postgres.test.ts:213: a sale stays pending when its         *)
(* financial coverage is insufficient.  No completed sale is uncovered.    *)
PendingUntilCovered ==
  \A s \in Sales : status[s] = "COMPLETED" => Coverage(s) >= total[s]
=============================================================================
