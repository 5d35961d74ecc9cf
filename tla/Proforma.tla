------------------------------ MODULE Proforma ------------------------------
(***************************************************************************)
(* The life of one proforma: src/src/services/proforma.service.ts and its  *)
(* repository.  Proformas share nothing but the tax configuration.         *)
(*                                                                         *)
(* create and convert run in a transaction; every other handler checks the *)
(* status in one statement and then writes in others, each committed by    *)
(* itself, so that requests interleave between any two of them and a crash *)
(* leaves what was written so far.                                         *)
(***************************************************************************)
EXTENDS Sums

CONSTANTS
  Handlers,         \* requests served at the same time
  Lines,            \* ids of proforma_items; an id is used once
  Nets,             \* net prices of a line: quantity * unit price - discount
  TaxRates,         \* in percent
  RequestStatuses   \* what the body of a creation may hold as status

Statuses == {"DRAFT", "SENT", "ACCEPTED", "CANCELLED", "CONVERTED"}

ASSUME ProformaAssumption ==
  /\ IsFiniteSet(Lines)
  /\ Nets \subseteq Nat
  /\ TaxRates \subseteq Nat
  /\ RequestStatuses \subseteq Statuses

Item == [line : Lines, net : Nets]

VARIABLES
  rate,       \* the tax configuration of the organization
  status,     \* "NONE" until the proforma is created
  applyTax,
  taxRate,    \* column: the rate the total was computed with
  total,
  items,      \* the proforma_items rows
  unused,     \* line ids not given out yet
  sales,      \* the sales converted from it
  at,         \* where each handler is
  job,        \* the request it serves
  seen,       \* the items it read
  taxed,      \* the applyTax it read, and ...
  due,        \* ... the total it computed, ...
  dueRate,    \* ... with this rate
  overlapped  \* history: two requests were served at the same time

rowVars == <<status, applyTax, taxRate, total, items, unused, sales>>
localVars == <<seen, taxed, due, dueRate>>
vars == <<rate, rowVars, at, job, localVars, overlapped>>

(* roundMoney of a percentage of an amount of cents: halves go up. *)
Tax(subtotal, percent) == (subtotal * percent + 50) \div 100

NetPrice(rows) == SumOver([i \in rows |-> i.net], rows)

Price(rows, withTax, percent) ==
  NetPrice(rows) + (IF withTax THEN Tax(NetPrice(rows), percent) ELSE 0)

Job ==
  [kind : {"update"}, to : BOOLEAN] \cup [kind : {"addItem"}, net : Nets]
  \cup [kind : {"updateItem"}, line : Lines, net : Nets]
  \cup [kind : {"removeItem"}, line : Lines]
  \cup [kind : {"validate", "accept", "cancel", "convert"}]

NoJob == [kind |-> "none"]

EditIn(statuses) ==
  [update |-> statuses, addItem |-> statuses, updateItem |-> statuses,
   removeItem |-> statuses, validate |-> {"DRAFT"}, accept |-> {"SENT"},
   convert |-> {"ACCEPTED"}, cancel |-> {"DRAFT", "SENT", "ACCEPTED"}]

(* Slip: the items of a converted proforma can be changed. *)
AdmittedAfterSale == EditIn({"DRAFT", "CONVERTED"})

(* The statuses in which a request of each kind passes its check. *)
Admitted == EditIn({"DRAFT"})

(* The statement that follows the check. *)
FirstWrite ==
  [update |-> "write", addItem |-> "write", updateItem |-> "write",
   removeItem |-> "write", validate |-> "count", accept |-> "sum",
   convert |-> "load", cancel |-> "status"]

Init ==
  /\ rate \in TaxRates
  /\ status = "NONE"
  /\ applyTax = TRUE
  /\ taxRate = 0
  /\ total = 0
  /\ items = {}
  /\ unused = Lines
  /\ sales = {}
  /\ at = [h \in Handlers |-> "idle"]
  /\ job = [h \in Handlers |-> NoJob]
  /\ seen = [h \in Handlers |-> {}]
  /\ taxed = [h \in Handlers |-> FALSE]
  /\ due = [h \in Handlers |-> 0]
  /\ dueRate = [h \in Handlers |-> 0]
  /\ overlapped = FALSE

-----------------------------------------------------------------------------
Goto(h, place) == at' = [at EXCEPT ![h] = place]

(* The handler answers; what it read is forgotten. *)
Leave(h) ==
  /\ Goto(h, "idle")
  /\ job' = [job EXCEPT ![h] = NoJob]
  /\ seen' = [seen EXCEPT ![h] = {}]
  /\ taxed' = [taxed EXCEPT ![h] = FALSE]
  /\ due' = [due EXCEPT ![h] = 0]
  /\ dueRate' = [dueRate EXCEPT ![h] = 0]
  /\ UNCHANGED overlapped

(* The tax configuration is maintained outside the application. *)
SetTaxRate(percent) ==
  /\ percent # rate
  /\ rate' = percent
  /\ UNCHANGED <<rowVars, at, job, localVars, overlapped>>

(* One transaction; the column rounds the total, and keeps the rate even   *)
(* where no tax is applied.                                                *)
Create(requested, withTax, rows) ==
  /\ status = "NONE"
  /\ \A i, j \in rows : i.line = j.line => i = j
  /\ status' = requested
  /\ applyTax' = withTax
  /\ taxRate' = rate
  /\ items' = rows
  /\ unused' = unused \ {i.line : i \in rows}
  /\ total' = Price(rows, withTax, rate)
  /\ UNCHANGED <<rate, sales, at, job, localVars, overlapped>>

(* The checks: the item of an item request exists, the status admits it.   *)
(* convert keeps the applyTax it read with the status.                     *)
Begin(h, j) ==
  /\ at[h] = "idle"
  /\ status # "NONE"
  /\ j.kind \in {"updateItem", "removeItem"} => \E i \in items : i.line = j.line
  /\ status \in Admitted[j.kind]
  /\ Goto(h, FirstWrite[j.kind])
  /\ job' = [job EXCEPT ![h] = j]
  /\ taxed' = [taxed EXCEPT ![h] = j.kind = "convert" /\ applyTax]
  /\ overlapped' = (overlapped \/ \E g \in Handlers \ {h} : at[g] # "idle")
  /\ UNCHANGED <<rate, rowVars, seen, due, dueRate>>

(* update() leaves the totals as they are. *)
Update(h) ==
  /\ at[h] = "write"
  /\ job[h].kind = "update"
  /\ applyTax' = job[h].to
  /\ Leave(h)
  /\ UNCHANGED <<rate, status, taxRate, total, items, unused, sales>>

AddItem(h, l) ==
  /\ at[h] = "write"
  /\ job[h].kind = "addItem"
  /\ l \in unused
  /\ items' = items \cup {[line |-> l, net |-> job[h].net]}
  /\ unused' = unused \ {l}
  /\ Goto(h, "sum")
  /\ UNCHANGED <<rate, status, applyTax, taxRate, total, sales, job, localVars,
                 overlapped>>

(* updateMany and deleteMany match nothing if the item is gone by now. *)
UpdateItem(h) ==
  /\ at[h] = "write"
  /\ job[h].kind = "updateItem"
  /\ items' = {IF i.line = job[h].line THEN [i EXCEPT !.net = job[h].net] ELSE i :
                 i \in items}
  /\ Goto(h, "sum")
  /\ UNCHANGED <<rate, status, applyTax, taxRate, total, unused, sales, job,
                 localVars, overlapped>>

RemoveItem(h) ==
  /\ at[h] = "write"
  /\ job[h].kind = "removeItem"
  /\ items' = {i \in items : i.line # job[h].line}
  /\ Goto(h, "sum")
  /\ UNCHANGED <<rate, status, applyTax, taxRate, total, unused, sales, job,
                 localVars, overlapped>>

(* validate() refuses an empty proforma. *)
CountItems(h) ==
  /\ at[h] = "count"
  /\ IF items = {} THEN Leave(h)
     ELSE /\ Goto(h, "sum")
          /\ UNCHANGED <<job, localVars, overlapped>>
  /\ UNCHANGED <<rate, rowVars>>

(* recalculateTotals() lists the items, ... *)
SumItems(h) ==
  /\ at[h] = "sum"
  /\ seen' = [seen EXCEPT ![h] = items]
  /\ Goto(h, "rate")
  /\ UNCHANGED <<rate, rowVars, job, taxed, due, dueRate, overlapped>>

(* ... reads applyTax with the tax configuration, ... *)
ReadRate(h) ==
  LET percent == IF applyTax THEN rate ELSE 0
  IN  /\ at[h] = "rate"
      /\ taxed' = [taxed EXCEPT ![h] = applyTax]
      /\ dueRate' = [dueRate EXCEPT ![h] = percent]
      /\ due' = [due EXCEPT ![h] = Price(seen[h], applyTax, percent)]
      /\ Goto(h, "totals")
      /\ UNCHANGED <<rate, rowVars, job, seen, overlapped>>

(* Slip: the totals are written from what the row holds, not recomputed. *)
WriteTotalsUnchanged(h) ==
  /\ at[h] = "totals"
  /\ IF job[h].kind \in {"validate", "accept"}
     THEN /\ Goto(h, "status")
          /\ UNCHANGED <<job, localVars, overlapped>>
     ELSE Leave(h)
  /\ UNCHANGED <<rate, rowVars>>

(* ... and writes them, over whatever another request wrote since. *)
WriteTotals(h) ==
  /\ at[h] = "totals"
  /\ total' = due[h]
  /\ taxRate' = dueRate[h]
  /\ IF job[h].kind \in {"validate", "accept"}
     THEN /\ Goto(h, "status")
          /\ UNCHANGED <<job, localVars, overlapped>>
     ELSE Leave(h)
  /\ UNCHANGED <<rate, status, applyTax, items, unused, sales>>

NewStatus == [validate |-> "SENT", accept |-> "ACCEPTED", cancel |-> "CANCELLED"]

(* Whatever the status is by now. *)
UpdateStatus(h) ==
  /\ at[h] = "status"
  /\ status' = NewStatus[job[h].kind]
  /\ Leave(h)
  /\ UNCHANGED <<rate, applyTax, taxRate, total, items, unused, sales>>

(* convert() loads the items, which Prisma reads after the proforma row, *)
LoadItems(h) ==
  /\ at[h] = "load"
  /\ seen' = [seen EXCEPT ![h] = items]
  /\ Goto(h, "look")
  /\ UNCHANGED <<rate, rowVars, job, taxed, due, dueRate, overlapped>>

(* looks for a sale, refuses an empty proforma, computes the total anew,   *)
LookForSale(h) ==
  /\ at[h] = "look"
  /\ IF sales # {} \/ seen[h] = {} THEN Leave(h)
     ELSE /\ dueRate' = [dueRate EXCEPT ![h] = IF taxed[h] THEN rate ELSE 0]
          /\ due' = [due EXCEPT ![h] = Price(seen[h], taxed[h], dueRate'[h])]
          /\ Goto(h, "sell")
          /\ UNCHANGED <<job, seen, taxed, overlapped>>
  /\ UNCHANGED <<rate, rowVars>>

NewSale(h, sum) ==
  [items |-> seen[h], applyTax |-> taxed[h], taxRate |-> dueRate[h], total |-> sum]

(* Slip: convertedFromProformaId is not unique. *)
SellAgain(h) ==
  /\ at[h] = "sell"
  /\ sales' = sales \cup {NewSale(h, due[h])}
  /\ status' = "CONVERTED"
  /\ Leave(h)
  /\ UNCHANGED <<rate, applyTax, taxRate, total, items, unused>>

(* Slip: the sale takes over the proforma's own total. *)
SellAtOldTotal(h) ==
  /\ at[h] = "sell"
  /\ sales = {}
  /\ sales' = {NewSale(h, total)}
  /\ status' = "CONVERTED"
  /\ Leave(h)
  /\ UNCHANGED <<rate, applyTax, taxRate, total, items, unused>>

(* and commits the sale with its items and the status, unless the unique   *)
(* index on convertedFromProformaId holds a sale by now.                   *)
Sell(h) ==
  /\ at[h] = "sell"
  /\ sales = {}
  /\ sales' = {NewSale(h, due[h])}
  /\ status' = "CONVERTED"
  /\ Leave(h)
  /\ UNCHANGED <<rate, applyTax, taxRate, total, items, unused>>

(* The server dies or a statement fails: what was written stays, except in *)
(* convert(), which rolls back and wrote nothing yet.                      *)
Crash(h) ==
  /\ at[h] # "idle"
  /\ Leave(h)
  /\ UNCHANGED <<rate, rowVars>>

Next ==
  \/ \E percent \in TaxRates : SetTaxRate(percent)
  \/ \E requested \in RequestStatuses, withTax \in BOOLEAN, rows \in SUBSET Item :
       Create(requested, withTax, rows)
  \/ \E h \in Handlers :
       \/ \E j \in Job : Begin(h, j)
       \/ Update(h) \/ UpdateItem(h) \/ RemoveItem(h) \/ \E l \in Lines : AddItem(h, l)
       \/ CountItems(h) \/ SumItems(h) \/ ReadRate(h) \/ WriteTotals(h)
       \/ UpdateStatus(h)
       \/ LoadItems(h) \/ LookForSale(h) \/ Sell(h)
       \/ Crash(h)

Spec == Init /\ [][Next]_vars

-----------------------------------------------------------------------------
Sale == [items : SUBSET Item, applyTax : BOOLEAN, taxRate : Nat, total : Nat]

TypeOK ==
  /\ rate \in TaxRates
  /\ status \in Statuses \cup {"NONE"}
  /\ applyTax \in BOOLEAN
  /\ taxRate \in Nat
  /\ total \in Nat
  /\ items \subseteq Item
  /\ unused \subseteq Lines
  /\ \A i, j \in items : i.line = j.line => i = j
  /\ \A i \in items : i.line \notin unused
  /\ sales \subseteq Sale
  /\ at \in [Handlers -> {"idle", "write", "count", "sum", "rate", "totals",
                          "status", "load", "look", "sell"}]
  /\ job \in [Handlers -> Job \cup {NoJob}]
  /\ seen \in [Handlers -> SUBSET Item]
  /\ taxed \in [Handlers -> BOOLEAN]
  /\ due \in [Handlers -> Nat]
  /\ dueRate \in [Handlers -> Nat]
  /\ overlapped \in BOOLEAN

(* A proforma becomes one sale, however many conversions passed the status *)
(* check and found no sale.                                                *)
ConvertedOnce == Cardinality(sales) <= 1

(* The sale's total is that of the very items it was given, whatever other *)
(* requests did to the proforma's items, tax and totals in the meantime.   *)
SalePricedByItsItems ==
  \A s \in sales : s.total = Price(s.items, s.applyTax, s.taxRate)

(* As long as requests come one after the other, the total of a proforma   *)
(* that left DRAFT is that of its items at the stored rate, however often  *)
(* an edit was cut off between the item and the totals.                    *)
AgreedTotalIsTheItems ==
  ~overlapped /\ status \in {"SENT", "ACCEPTED"} =>
    total = Price(items, applyTax, taxRate)

(* ... and what is sold is what was accepted. *)
SoldAsAgreed ==
  ~overlapped => \A s \in sales : s.items = items /\ s.applyTax = applyTax
=============================================================================
