--------------------------- MODULE ProformaProofs ---------------------------
(***************************************************************************)
(* Theorems about every behaviour of Proforma: any number of requests,     *)
(* lines, prices and rates.                                                *)
(*                                                                         *)
(* A conversion is right whatever runs beside it: it sells what it read.   *)
(* The proforma itself is right as long as requests come one after the     *)
(* other: the one that is served finds the status it was admitted in, the  *)
(* items it read and the total it wrote.                                   *)
(***************************************************************************)
EXTENDS Proforma, SumsProofs

EditKinds == {"update", "addItem", "updateItem", "removeItem"}

Kinds == EditKinds \cup {"validate", "accept", "cancel", "convert"}

(* Where a request of each kind can be. *)
Turns ==
  \A h \in Handlers :
    /\ at[h] # "idle" => job[h] \in Job
    /\ at[h] = "write" => job[h].kind \in EditKinds
    /\ at[h] = "count" => job[h].kind = "validate"
    /\ at[h] \in {"sum", "rate", "totals"} =>
         job[h].kind \in (EditKinds \ {"update"}) \cup {"validate", "accept"}
    /\ at[h] = "status" => job[h].kind \in {"validate", "accept", "cancel"}
    /\ at[h] \in {"load", "look", "sell"} => job[h].kind = "convert"
    /\ status = "NONE" => at[h] = "idle"

(* What is read is read whole. *)
Read ==
  /\ IsFiniteSet(items)
  /\ \A h \in Handlers : IsFiniteSet(seen[h])

(* A conversion is about to sell what it read, at the price of that. *)
Priced ==
  \A h \in Handlers : at[h] = "sell" => due[h] = Price(seen[h], taxed[h], dueRate[h])

OneSale == \E s : sales \subseteq {s}

(* A request that is alone with the proforma. *)
Alone(h) ==
  /\ status \in Admitted[job[h].kind]
  /\ at[h] \in {"rate", "totals", "look", "sell"} => seen[h] = items
  /\ at[h] = "totals" => due[h] = Price(items, applyTax, dueRate[h])
  /\ at[h] = "status" /\ job[h].kind \in {"validate", "accept"} =>
       total = Price(items, applyTax, taxRate)
  /\ at[h] \in {"load", "look", "sell"} => taxed[h] = applyTax

OneByOne ==
  ~overlapped =>
    /\ \A g, h \in Handlers : at[g] # "idle" /\ at[h] # "idle" => g = h
    /\ \A h \in Handlers : at[h] # "idle" => Alone(h)
    /\ sales # {} => status = "CONVERTED"

Inv ==
  /\ TypeOK /\ Turns /\ Read /\ Priced /\ OneSale /\ OneByOne
  /\ SalePricedByItsItems /\ AgreedTotalIsTheItems /\ SoldAsAgreed

-----------------------------------------------------------------------------
(* Prices. *)
LEMMA TaxType ==
  ASSUME NEW n \in Nat, NEW percent \in Nat
  PROVE  Tax(n, percent) \in Nat
<1>1. n * percent \in Nat
  OBVIOUS
<1> DEFINE m == n * percent
<1> HIDE DEF m
<1>2. (m + 50) \div 100 \in Nat
  BY <1>1 DEF m
<1> QED BY <1>2 DEF Tax, m

LEMMA PriceType ==
  ASSUME NEW rows \in SUBSET Item, IsFiniteSet(rows), NEW withTax, NEW percent \in Nat
  PROVE  Price(rows, withTax, percent) \in Nat
<1> DEFINE f == [i \in rows |-> i.net]
<1>1. \A i \in rows : f[i] \in Nat
  BY ProformaAssumption DEF Item
<1> HIDE DEF f
<1>2. SumOver(f, rows) \in Nat
  BY <1>1, SumOverNat
<1>3. NetPrice(rows) \in Nat
  BY <1>2 DEF NetPrice, f
<1>4. Tax(NetPrice(rows), percent) \in Nat
  BY <1>3, TaxType
<1> QED BY <1>3, <1>4 DEF Price

LEMMA RatesType == TaxRates \subseteq Nat /\ Nets \subseteq Nat /\ RequestStatuses \subseteq Statuses
BY ProformaAssumption

(* Items with ids of their own are as few as the ids. *)
LEMMA FewItems ==
  ASSUME NEW rows \in SUBSET Item, \A i, j \in rows : i.line = j.line => i = j
  PROVE  IsFiniteSet(rows)
<1> DEFINE id == [i \in rows |-> i.line]
<1>1. id \in Injection(rows, Lines)
  BY DEF Injection, IsInjective, Item
<1> QED BY <1>1, FS_Injection, ProformaAssumption

-----------------------------------------------------------------------------
Locals == {"idle", "write", "count", "sum", "rate", "totals", "status", "load", "look", "sell"}

(* A step of h leaves the others where they are. *)
Others(h) ==
  \A g \in Handlers \ {h} :
    /\ at'[g] = at[g] /\ job'[g] = job[g] /\ seen'[g] = seen[g]
    /\ taxed'[g] = taxed[g] /\ due'[g] = due[g] /\ dueRate'[g] = dueRate[g]

(* What is so of a request that is alone, and of what it works on. *)
Orderly(h) ==
  /\ at[h] # "idle" => Alone(h)
  /\ sales # {} => status = "CONVERTED"
  /\ status \in {"SENT", "ACCEPTED"} => total = Price(items, applyTax, taxRate)
  /\ \A s \in sales : s.items = items /\ s.applyTax = applyTax

LEMMA WorkInv ==
  ASSUME Inv, NEW h \in Handlers, at[h] # "idle", Others(h), TypeOK',
         overlapped' = overlapped, IsFiniteSet(items'), IsFiniteSet(seen'[h]),
         status' # "NONE",
         at'[h] # "idle" => job'[h] \in Job,
         at'[h] = "write" => job'[h].kind \in EditKinds,
         at'[h] = "count" => job'[h].kind = "validate",
         at'[h] \in {"sum", "rate", "totals"} =>
           job'[h].kind \in (EditKinds \ {"update"}) \cup {"validate", "accept"},
         at'[h] = "status" => job'[h].kind \in {"validate", "accept", "cancel"},
         at'[h] \in {"load", "look", "sell"} => job'[h].kind = "convert",
         at'[h] = "sell" => due'[h] = Price(seen'[h], taxed'[h], dueRate'[h]),
         OneSale', SalePricedByItsItems',
         ~overlapped /\ Orderly(h) => Orderly(h)'
  PROVE  Inv'
<1>1. Turns'
  BY DEF Inv, Turns, Others
<1>2. Read' /\ Priced'
  BY DEF Inv, Read, Priced, Others
<1>3. ASSUME ~overlapped
      PROVE  Orderly(h)' /\ \A g \in Handlers \ {h} : at'[g] = "idle"
  BY <1>3 DEF Inv, Orderly, OneByOne, AgreedTotalIsTheItems, SoldAsAgreed, Others
<1>4. OneByOne'
  BY <1>3 DEF OneByOne, Orderly
<1>5. AgreedTotalIsTheItems' /\ SoldAsAgreed'
  BY <1>3 DEF Orderly, AgreedTotalIsTheItems, SoldAsAgreed
<1> QED BY <1>1, <1>2, <1>4, <1>5 DEF Inv

(* A request that leaves, and one that goes on. *)
LEMMA LeaveFacts ==
  ASSUME TypeOK, NEW h \in Handlers, Leave(h)
  PROVE  /\ at'[h] = "idle" /\ seen'[h] = {} /\ overlapped' = overlapped
         /\ Others(h)
         /\ at' \in [Handlers -> Locals] /\ job' \in [Handlers -> Job \cup {NoJob}]
         /\ seen' \in [Handlers -> SUBSET Item] /\ taxed' \in [Handlers -> BOOLEAN]
         /\ due' \in [Handlers -> Nat] /\ dueRate' \in [Handlers -> Nat]
BY DEF Leave, Goto, TypeOK, Others, Locals

LEMMA GotoFacts ==
  ASSUME TypeOK, NEW h \in Handlers, NEW place \in Locals, Goto(h, place)
  PROVE  /\ at'[h] = place /\ \A g \in Handlers \ {h} : at'[g] = at[g]
         /\ at' \in [Handlers -> Locals]
BY DEF Goto, TypeOK, Locals

LEMMA NotNone == Inv => \A h \in Handlers : at[h] # "idle" => status # "NONE" /\ job[h] \in Job
BY DEF Inv, Turns

-----------------------------------------------------------------------------
LEMMA CrashInv ==
  ASSUME Inv, NEW h \in Handlers, Crash(h)
  PROVE  Inv'
<1>1. Leave(h) /\ UNCHANGED <<rate, rowVars>> /\ at[h] # "idle" /\ TypeOK /\ status # "NONE"
  BY NotNone DEF Crash, Inv
<1>2. UNCHANGED <<status, applyTax, taxRate, total, items, unused, sales>>
  BY <1>1 DEF rowVars
<1>3. TypeOK'
  BY <1>1, <1>2, LeaveFacts DEF TypeOK, Locals
<1>4. OneSale' /\ SalePricedByItsItems' /\ IsFiniteSet(items')
  BY <1>2 DEF Inv, OneSale, SalePricedByItsItems, Read
<1>5. Orderly(h) => Orderly(h)'
  BY <1>1, <1>2, LeaveFacts DEF Orderly
<1> QED BY <1>1, <1>2, <1>3, <1>4, <1>5, LeaveFacts, FS_EmptySet, WorkInv

LEMMA UpdateInv ==
  ASSUME Inv, NEW h \in Handlers, Update(h)
  PROVE  Inv'
<1>1. /\ Leave(h) /\ at[h] # "idle" /\ TypeOK /\ status # "NONE"
      /\ UNCHANGED <<rate, status, taxRate, total, items, unused, sales>>
      /\ applyTax' = job[h].to /\ job[h].kind = "update" /\ job[h] \in Job
  BY NotNone DEF Update, Inv
<1>2. TypeOK'
  <2>1. job[h].to \in BOOLEAN
    BY <1>1 DEF Job
  <2> QED BY <1>1, <2>1, LeaveFacts DEF TypeOK, Locals
<1>3. OneSale' /\ SalePricedByItsItems' /\ IsFiniteSet(items')
  BY <1>1 DEF Inv, OneSale, SalePricedByItsItems, Read
<1>4. Orderly(h) => Orderly(h)'
  <2>1. Orderly(h) => status = "DRAFT"
    BY <1>1 DEF Orderly, Alone, Admitted, EditIn
  <2> QED BY <1>1, <2>1, LeaveFacts DEF Orderly
<1> QED BY <1>1, <1>2, <1>3, <1>4, LeaveFacts, FS_EmptySet, WorkInv

(* The three edits of the items; each is followed by the totals. *)
Edit(h, rows, ids) ==
  /\ at[h] = "write" /\ job[h].kind \in EditKinds \ {"update"}
  /\ items' = rows /\ unused' = ids
  /\ Goto(h, "sum")
  /\ UNCHANGED <<rate, status, applyTax, taxRate, total, sales, job, localVars, overlapped>>

LEMMA EditInv ==
  ASSUME Inv, NEW h \in Handlers, NEW rows \in SUBSET Item, NEW ids \in SUBSET Lines,
         Edit(h, rows, ids),
         \A i, j \in rows : i.line = j.line => i = j,
         \A i \in rows : i.line \notin ids
  PROVE  Inv'
<1>1. /\ at[h] = "write" /\ TypeOK /\ status # "NONE" /\ job[h] \in Job
      /\ UNCHANGED <<rate, status, applyTax, taxRate, total, sales, job, seen, taxed, due,
                     dueRate, overlapped>>
      /\ items' = rows /\ unused' = ids /\ job[h].kind \in EditKinds \ {"update"}
      /\ at'[h] = "sum" /\ at' \in [Handlers -> Locals]
      /\ \A g \in Handlers \ {h} : at'[g] = at[g]
  BY NotNone, GotoFacts DEF Edit, Inv, localVars, Locals
<1>2. TypeOK'
  BY <1>1 DEF TypeOK, Locals
<1>3. OneSale' /\ SalePricedByItsItems' /\ IsFiniteSet(items')
  BY <1>1, FewItems DEF Inv, OneSale, SalePricedByItsItems
<1>4. Orderly(h) => Orderly(h)'
  <2>1. Admitted[job[h].kind] = {"DRAFT"}
    BY <1>1 DEF Admitted, EditIn, EditKinds
  <2> QED BY <1>1, <2>1 DEF Orderly, Alone
<1>5. Others(h) /\ IsFiniteSet(seen'[h])
  BY <1>1 DEF Others, Inv, Read
<1> QED BY <1>1, <1>2, <1>3, <1>4, <1>5, WorkInv

LEMMA ItemsInv ==
  ASSUME Inv, NEW h \in Handlers,
         \/ \E l \in Lines : AddItem(h, l)
         \/ UpdateItem(h) \/ RemoveItem(h)
  PROVE  Inv'
<1>1. TypeOK /\ job[h] \in Job
  BY NotNone DEF Inv, AddItem, UpdateItem, RemoveItem
<1>2. /\ items \in SUBSET Item /\ unused \in SUBSET Lines
      /\ \A i, j \in items : i.line = j.line => i = j
      /\ \A i \in items : i.line \notin unused
  BY <1>1 DEF TypeOK
<1>3. ASSUME NEW l \in Lines, AddItem(h, l) PROVE Inv'
  <2> DEFINE new == [line |-> l, net |-> job[h].net]
             rows == items \cup {new}
             ids == unused \ {l}
  <2>1. new \in Item /\ new.line = l /\ l \in unused
    BY <1>1, <1>3 DEF AddItem, Job, Item
  <2>2. Edit(h, rows, ids)
    BY <1>3 DEF AddItem, Edit, EditKinds
  <2> HIDE DEF new
  <2>3. /\ rows \in SUBSET Item /\ ids \in SUBSET Lines
        /\ \A i, j \in rows : i.line = j.line => i = j
        /\ \A i \in rows : i.line \notin ids
    BY <1>2, <2>1
  <2> QED BY <2>2, <2>3, EditInv
<1>4. CASE UpdateItem(h)
  <2> DEFINE net == job[h].net
             new(i) == IF i.line = job[h].line THEN [i EXCEPT !.net = net] ELSE i
             rows == {new(i) : i \in items}
  <2>1. net \in Nets /\ job[h].kind = "updateItem"
    BY <1>1, <1>4 DEF UpdateItem, Job
  <2>2. \A i \in items : new(i) \in Item /\ new(i).line = i.line
    BY <1>2, <2>1 DEF Item
  <2>3. Edit(h, rows, unused)
    BY <1>4 DEF UpdateItem, Edit, EditKinds
  <2> HIDE DEF new
  <2>4. /\ rows \in SUBSET Item
        /\ \A i, j \in rows : i.line = j.line => i = j
        /\ \A i \in rows : i.line \notin unused
    BY <1>2, <2>2
  <2> QED BY <1>2, <2>3, <2>4, EditInv
<1>5. CASE RemoveItem(h)
  <2> DEFINE rows == {i \in items : i.line # job[h].line}
  <2>1. Edit(h, rows, unused)
    BY <1>5 DEF RemoveItem, Edit, EditKinds
  <2> QED BY <1>2, <2>1, EditInv
<1> QED BY <1>3, <1>4, <1>5

-----------------------------------------------------------------------------
(* The steps that only read. *)
LEMMA CountItemsInv ==
  ASSUME Inv, NEW h \in Handlers, CountItems(h)
  PROVE  Inv'
<1>1. /\ at[h] = "count" /\ TypeOK /\ status # "NONE" /\ job[h] \in Job
      /\ job[h].kind = "validate"
      /\ UNCHANGED <<rate, status, applyTax, taxRate, total, items, unused, sales>>
  BY NotNone DEF CountItems, Inv, Turns, rowVars
<1>2. CASE Leave(h)
  <2>1. Crash(h)
    BY <1>1, <1>2 DEF Crash, rowVars
  <2> QED BY <2>1, CrashInv
<1>3. CASE Goto(h, "sum") /\ UNCHANGED <<job, localVars, overlapped>>
  <2>1. /\ at'[h] = "sum" /\ at' \in [Handlers -> Locals]
        /\ \A g \in Handlers \ {h} : at'[g] = at[g]
        /\ UNCHANGED <<job, seen, taxed, due, dueRate, overlapped>>
    BY <1>1, <1>3, GotoFacts DEF Locals, localVars
  <2>2. TypeOK'
    BY <1>1, <2>1 DEF TypeOK, Locals
  <2>3. OneSale' /\ SalePricedByItsItems' /\ IsFiniteSet(items') /\ IsFiniteSet(seen'[h])
    BY <1>1, <2>1 DEF Inv, OneSale, SalePricedByItsItems, Read
  <2>4. Orderly(h) => Orderly(h)'
    BY <1>1, <2>1 DEF Orderly, Alone
  <2> QED BY <1>1, <2>1, <2>2, <2>3, <2>4, WorkInv DEF Others
<1> QED BY <1>2, <1>3 DEF CountItems

LEMMA ReadItemsInv ==
  ASSUME Inv, NEW h \in Handlers, SumItems(h) \/ LoadItems(h)
  PROVE  Inv'
<1> DEFINE place == IF at[h] = "sum" THEN "rate" ELSE "look"
<1>1. /\ at[h] \in {"sum", "load"} /\ TypeOK /\ status # "NONE" /\ job[h] \in Job
      /\ UNCHANGED <<rate, status, applyTax, taxRate, total, items, unused, sales, job,
                     taxed, due, dueRate, overlapped>>
      /\ Goto(h, place) /\ seen' = [seen EXCEPT ![h] = items]
  BY NotNone DEF SumItems, LoadItems, Inv, rowVars
<1>2. /\ at'[h] = place /\ at' \in [Handlers -> Locals] /\ seen'[h] = items
      /\ \A g \in Handlers \ {h} : at'[g] = at[g] /\ seen'[g] = seen[g]
  BY <1>1, GotoFacts DEF Locals, TypeOK
<1>3. TypeOK'
  BY <1>1, <1>2 DEF TypeOK, Locals
<1>4. OneSale' /\ SalePricedByItsItems' /\ IsFiniteSet(items') /\ IsFiniteSet(seen'[h])
  BY <1>1, <1>2 DEF Inv, OneSale, SalePricedByItsItems, Read
<1>5. /\ at[h] = "sum" =>
           job[h].kind \in (EditKinds \ {"update"}) \cup {"validate", "accept"}
      /\ at[h] = "load" => job[h].kind = "convert"
  BY DEF Inv, Turns
<1>6. Orderly(h) => Orderly(h)'
  BY <1>1, <1>2 DEF Orderly, Alone
<1> QED BY <1>1, <1>2, <1>3, <1>4, <1>5, <1>6, WorkInv DEF Others

LEMMA ReadRateInv ==
  ASSUME Inv, NEW h \in Handlers, ReadRate(h)
  PROVE  Inv'
<1> DEFINE percent == IF applyTax THEN rate ELSE 0
           price == Price(seen[h], applyTax, percent)
<1>1. /\ at[h] = "rate" /\ TypeOK /\ status # "NONE" /\ job[h] \in Job
      /\ UNCHANGED <<rate, status, applyTax, taxRate, total, items, unused, sales, job,
                     seen, overlapped>>
      /\ taxed' = [taxed EXCEPT ![h] = applyTax]
      /\ dueRate' = [dueRate EXCEPT ![h] = percent]
      /\ due' = [due EXCEPT ![h] = price]
      /\ Goto(h, "totals")
  BY NotNone DEF ReadRate, Inv, rowVars
<1>2. percent \in Nat /\ price \in Nat
  <2>1. percent \in Nat
    BY <1>1, RatesType DEF TypeOK
  <2>2. seen[h] \in SUBSET Item /\ IsFiniteSet(seen[h])
    BY <1>1 DEF TypeOK, Inv, Read
  <2> HIDE DEF percent
  <2> QED BY <2>1, <2>2, PriceType
<1>3. /\ at'[h] = "totals" /\ at' \in [Handlers -> Locals]
      /\ due'[h] = price /\ dueRate'[h] = percent
      /\ \A g \in Handlers \ {h} :
           /\ at'[g] = at[g] /\ due'[g] = due[g]
           /\ dueRate'[g] = dueRate[g] /\ taxed'[g] = taxed[g]
  <2> HIDE DEF price, percent
  <2> QED BY <1>1, GotoFacts DEF Locals, TypeOK
<1> HIDE DEF percent
<1>4. TypeOK'
  <2> HIDE DEF price
  <2> QED BY <1>1, <1>2, <1>3 DEF TypeOK, Locals
<1>5. OneSale' /\ SalePricedByItsItems' /\ IsFiniteSet(items') /\ IsFiniteSet(seen'[h])
  BY <1>1 DEF Inv, OneSale, SalePricedByItsItems, Read
<1>6. job[h].kind \in (EditKinds \ {"update"}) \cup {"validate", "accept"}
  BY <1>1 DEF Inv, Turns
<1>7. Orderly(h) => Orderly(h)'
  BY <1>1, <1>3 DEF Orderly, Alone
<1> QED BY <1>1, <1>3, <1>4, <1>5, <1>6, <1>7, WorkInv DEF Others

-----------------------------------------------------------------------------
LEMMA WriteTotalsInv ==
  ASSUME Inv, NEW h \in Handlers, WriteTotals(h)
  PROVE  Inv'
<1> DEFINE k == job[h].kind
<1>1. /\ at[h] = "totals" /\ TypeOK /\ status # "NONE" /\ job[h] \in Job
      /\ UNCHANGED <<rate, status, applyTax, items, unused, sales>>
      /\ total' = due[h] /\ taxRate' = dueRate[h]
  BY NotNone DEF WriteTotals, Inv
<1>2. k \in (EditKinds \ {"update"}) \cup {"validate", "accept"}
  BY <1>1 DEF Inv, Turns
<1>3. OneSale' /\ SalePricedByItsItems' /\ IsFiniteSet(items')
  BY <1>1 DEF Inv, OneSale, SalePricedByItsItems, Read
<1>4. total' \in Nat /\ taxRate' \in Nat
  BY <1>1 DEF TypeOK
<1>5. CASE k \in {"validate", "accept"}
  <2>1. /\ at'[h] = "status" /\ at' \in [Handlers -> Locals]
        /\ \A g \in Handlers \ {h} : at'[g] = at[g]
        /\ UNCHANGED <<job, seen, taxed, due, dueRate, overlapped>>
    BY <1>1, <1>5, GotoFacts DEF WriteTotals, Locals, localVars
  <2>2. TypeOK'
    BY <1>1, <1>4, <2>1 DEF TypeOK, Locals
  <2>3. Orderly(h) => Orderly(h)'
    <3>1. Admitted[k] \subseteq {"DRAFT", "SENT"}
      BY <1>5 DEF Admitted, EditIn
    <3> QED BY <1>1, <2>1, <3>1 DEF Orderly, Alone
  <2>4. Others(h) /\ IsFiniteSet(seen'[h])
    BY <2>1 DEF Others, Inv, Read
  <2> QED BY <1>1, <1>3, <1>5, <2>1, <2>2, <2>3, <2>4, WorkInv
<1>6. CASE k \notin {"validate", "accept"}
  <2>1. Leave(h)
    BY <1>6 DEF WriteTotals
  <2>2. TypeOK'
    BY <1>1, <1>4, <2>1, LeaveFacts DEF TypeOK, Locals
  <2>3. Orderly(h) => Orderly(h)'
    <3>1. Admitted[k] = {"DRAFT"}
      BY <1>2, <1>6 DEF Admitted, EditIn, EditKinds
    <3> QED BY <1>1, <2>1, <3>1, LeaveFacts DEF Orderly, Alone
  <2> QED BY <1>1, <1>3, <2>1, <2>2, <2>3, LeaveFacts, FS_EmptySet, WorkInv
<1> QED BY <1>5, <1>6

LEMMA UpdateStatusInv ==
  ASSUME Inv, NEW h \in Handlers, UpdateStatus(h)
  PROVE  Inv'
<1> DEFINE k == job[h].kind
<1>1. /\ at[h] = "status" /\ TypeOK /\ status # "NONE" /\ job[h] \in Job
      /\ UNCHANGED <<rate, applyTax, taxRate, total, items, unused, sales>>
      /\ status' = NewStatus[k] /\ Leave(h)
  BY NotNone DEF UpdateStatus, Inv
<1>2. k \in {"validate", "accept", "cancel"}
  BY <1>1 DEF Inv, Turns
<1>3. OneSale' /\ SalePricedByItsItems' /\ IsFiniteSet(items')
  BY <1>1 DEF Inv, OneSale, SalePricedByItsItems, Read
<1>4. /\ NewStatus[k] \in Statuses \ {"NONE"}
      /\ NewStatus[k] \in {"SENT", "ACCEPTED"} => k \in {"validate", "accept"}
      /\ "CONVERTED" \notin Admitted[k]
  BY <1>2 DEF NewStatus, Statuses, Admitted, EditIn
<1>5. TypeOK'
  BY <1>1, <1>4, LeaveFacts DEF TypeOK, Locals
<1>6. Orderly(h) => Orderly(h)'
  BY <1>1, <1>4, LeaveFacts DEF Orderly, Alone
<1> QED BY <1>1, <1>3, <1>4, <1>5, <1>6, LeaveFacts, FS_EmptySet, WorkInv

LEMMA LookForSaleInv ==
  ASSUME Inv, NEW h \in Handlers, LookForSale(h)
  PROVE  Inv'
<1> DEFINE percent == IF taxed[h] THEN rate ELSE 0
           price == Price(seen[h], taxed[h], percent)
<1>1. /\ at[h] = "look" /\ TypeOK /\ status # "NONE" /\ job[h] \in Job
      /\ job[h].kind = "convert"
      /\ UNCHANGED <<rate, status, applyTax, taxRate, total, items, unused, sales>>
  BY NotNone DEF LookForSale, Inv, Turns, rowVars
<1>2. CASE Leave(h)
  <2>1. Crash(h)
    BY <1>1, <1>2 DEF Crash, rowVars
  <2> QED BY <2>1, CrashInv
<1>3. CASE ~Leave(h)
  <2>1. /\ dueRate' = [dueRate EXCEPT ![h] = percent]
        /\ due' = [due EXCEPT ![h] = Price(seen[h], taxed[h], dueRate'[h])]
        /\ Goto(h, "sell") /\ UNCHANGED <<job, seen, taxed, overlapped>>
    BY <1>3 DEF LookForSale
  <2>2. dueRate'[h] = percent
    BY <1>1, <2>1 DEF TypeOK
  <2>3. percent \in Nat /\ price \in Nat
    <3>1. percent \in Nat
      BY <1>1, RatesType DEF TypeOK
    <3>2. seen[h] \in SUBSET Item /\ IsFiniteSet(seen[h])
      BY <1>1 DEF TypeOK, Inv, Read
    <3> HIDE DEF percent
    <3> QED BY <3>1, <3>2, PriceType
  <2>4. due' = [due EXCEPT ![h] = price]
    BY <2>1, <2>2
  <2> HIDE DEF price, percent
  <2>5. /\ at'[h] = "sell" /\ at' \in [Handlers -> Locals] /\ due'[h] = price
        /\ \A g \in Handlers \ {h} :
             at'[g] = at[g] /\ due'[g] = due[g] /\ dueRate'[g] = dueRate[g]
    BY <1>1, <2>1, <2>4, GotoFacts DEF Locals, TypeOK
  <2>6. TypeOK'
    BY <1>1, <2>1, <2>3, <2>4, <2>5 DEF TypeOK, Locals
  <2>7. OneSale' /\ SalePricedByItsItems' /\ IsFiniteSet(items') /\ IsFiniteSet(seen'[h])
    BY <1>1, <2>1 DEF Inv, OneSale, SalePricedByItsItems, Read
  <2>8. due'[h] = Price(seen'[h], taxed'[h], dueRate'[h])
    BY <2>1, <2>2, <2>5 DEF price
  <2>9. Orderly(h) => Orderly(h)'
    BY <1>1, <2>1, <2>5 DEF Orderly, Alone
  <2> QED BY <1>1, <2>1, <2>5, <2>6, <2>7, <2>8, <2>9, WorkInv DEF Others
<1> QED BY <1>2, <1>3

(* The sale is what the conversion read, and the only one. *)
LEMMA SellInv ==
  ASSUME Inv, NEW h \in Handlers, Sell(h)
  PROVE  Inv'
<1> DEFINE new == NewSale(h, due[h])
<1>1. /\ at[h] = "sell" /\ TypeOK /\ sales' = {new} /\ status' = "CONVERTED" /\ Leave(h)
      /\ UNCHANGED <<rate, applyTax, taxRate, total, items, unused>>
  BY DEF Sell, Inv
<1>2. /\ new.items = seen[h] /\ new.applyTax = taxed[h] /\ new.taxRate = dueRate[h]
      /\ new.total = due[h] /\ new \in Sale
  BY <1>1 DEF NewSale, Sale, TypeOK
<1>3. due[h] = Price(seen[h], taxed[h], dueRate[h])
  BY <1>1 DEF Inv, Priced
<1> HIDE DEF new
<1>4. TypeOK'
  BY <1>1, <1>2, LeaveFacts DEF TypeOK, Locals, Statuses
<1>5. OneSale' /\ SalePricedByItsItems' /\ IsFiniteSet(items')
  BY <1>1, <1>2, <1>3 DEF Inv, OneSale, SalePricedByItsItems, Read
<1>6. Orderly(h) => Orderly(h)'
  BY <1>1, <1>2, LeaveFacts DEF Orderly, Alone
<1> QED BY <1>1, <1>4, <1>5, <1>6, LeaveFacts, FS_EmptySet, WorkInv

-----------------------------------------------------------------------------
LEMMA ProformaInit == Init => Inv
<1> SUFFICES ASSUME Init PROVE Inv
  OBVIOUS
<1>1. TypeOK
  BY ProformaAssumption DEF Init, TypeOK, Statuses
<1>2. Turns /\ Read /\ Priced /\ OneSale /\ OneByOne
  BY FS_EmptySet DEF Init, Turns, Read, Priced, OneSale, OneByOne
<1>3. SalePricedByItsItems /\ AgreedTotalIsTheItems /\ SoldAsAgreed
  BY DEF Init, SalePricedByItsItems, AgreedTotalIsTheItems, SoldAsAgreed
<1> QED BY <1>1, <1>2, <1>3 DEF Inv

(* Before there is a proforma nobody works on it. *)
LEMMA CreateInv ==
  ASSUME Inv, NEW requested \in RequestStatuses, NEW withTax \in BOOLEAN,
         NEW rows \in SUBSET Item, Create(requested, withTax, rows)
  PROVE  Inv'
<1> DEFINE price == Price(rows, withTax, rate)
<1>1. /\ status = "NONE" /\ TypeOK /\ status' = requested /\ applyTax' = withTax
      /\ taxRate' = rate /\ items' = rows /\ total' = price
      /\ unused' = unused \ {i.line : i \in rows}
      /\ \A i, j \in rows : i.line = j.line => i = j
      /\ UNCHANGED <<rate, sales, at, job, seen, taxed, due, dueRate, overlapped>>
  BY DEF Create, Inv, localVars
<1>2. IsFiniteSet(rows)
  BY <1>1, FewItems
<1>3. price \in Nat /\ rate \in Nat /\ requested \in Statuses
  BY <1>1, <1>2, PriceType, RatesType DEF TypeOK
<1> HIDE DEF price
<1>4. \A h \in Handlers : at[h] = "idle"
  BY <1>1 DEF Inv, Turns
<1>5. TypeOK'
  BY <1>1, <1>3 DEF TypeOK
<1>6. Turns' /\ Read' /\ Priced' /\ OneSale'
  BY <1>1, <1>2, <1>4 DEF Inv, Turns, Read, Priced, OneSale
<1>7. SalePricedByItsItems'
  BY <1>1 DEF Inv, SalePricedByItsItems
<1>8. ~overlapped => sales = {}
  BY <1>1 DEF Inv, OneByOne
<1>9. OneByOne' /\ SoldAsAgreed'
  BY <1>1, <1>4, <1>8 DEF OneByOne, SoldAsAgreed
<1>10. AgreedTotalIsTheItems'
  BY <1>1 DEF AgreedTotalIsTheItems, price
<1> QED BY <1>5, <1>6, <1>7, <1>9, <1>10 DEF Inv

LEMMA SetTaxRateInv ==
  ASSUME Inv, NEW percent \in TaxRates, SetTaxRate(percent)
  PROVE  Inv'
<1>1. /\ rate' = percent
      /\ UNCHANGED <<status, applyTax, taxRate, total, items, unused, sales, at, job, seen,
                     taxed, due, dueRate, overlapped>>
  BY DEF SetTaxRate, rowVars, localVars
<1>2. TypeOK'
  BY <1>1 DEF Inv, TypeOK
<1>3. Turns' /\ Read' /\ Priced' /\ OneSale' /\ OneByOne'
  BY <1>1 DEF Inv, Turns, Read, Priced, OneSale, OneByOne, Alone
<1>4. SalePricedByItsItems' /\ AgreedTotalIsTheItems' /\ SoldAsAgreed'
  BY <1>1 DEF Inv, SalePricedByItsItems, AgreedTotalIsTheItems, SoldAsAgreed
<1> QED BY <1>2, <1>3, <1>4 DEF Inv

(* A request that is admitted: alone, or it overlaps with another. *)
LEMMA BeginInv ==
  ASSUME Inv, NEW h \in Handlers, NEW j \in Job, Begin(h, j)
  PROVE  Inv'
<1> DEFINE place == FirstWrite[j.kind]
           tax == j.kind = "convert" /\ applyTax
<1>1. /\ at[h] = "idle" /\ TypeOK /\ status # "NONE" /\ status \in Admitted[j.kind]
      /\ Goto(h, place)
      /\ job' = [job EXCEPT ![h] = j] /\ taxed' = [taxed EXCEPT ![h] = tax]
      /\ overlapped' = (overlapped \/ \E g \in Handlers \ {h} : at[g] # "idle")
      /\ UNCHANGED <<rate, status, applyTax, taxRate, total, items, unused, sales, seen, due,
                     dueRate>>
  BY DEF Begin, Inv, rowVars
<1>2. j.kind \in Kinds
  BY DEF Job, Kinds, EditKinds
<1>3. /\ place \in {"write", "count", "sum", "load", "status"}
      /\ place = "write" => j.kind \in EditKinds
      /\ place = "count" => j.kind = "validate"
      /\ place = "sum" => j.kind = "accept"
      /\ place = "status" => j.kind = "cancel"
      /\ place = "load" => j.kind = "convert"
  BY <1>2 DEF FirstWrite, Kinds, EditKinds
<1> HIDE DEF place
<1>4. /\ at'[h] = place /\ at' \in [Handlers -> Locals] /\ job'[h] = j /\ taxed'[h] = tax
      /\ \A g \in Handlers \ {h} :
           at'[g] = at[g] /\ job'[g] = job[g] /\ taxed'[g] = taxed[g]
  BY <1>1, <1>3, GotoFacts DEF Locals, TypeOK
<1>5. TypeOK'
  <2>1. tax \in BOOLEAN
    BY <1>1 DEF TypeOK
  <2> HIDE DEF tax
  <2> QED BY <1>1, <1>4, <2>1 DEF TypeOK, Locals
<1>6. Turns'
  BY <1>1, <1>3, <1>4 DEF Inv, Turns
<1>7. Read' /\ Priced' /\ OneSale'
  BY <1>1, <1>3, <1>4 DEF Inv, Read, Priced, OneSale
<1>8. SalePricedByItsItems' /\ AgreedTotalIsTheItems' /\ SoldAsAgreed'
  BY <1>1 DEF Inv, SalePricedByItsItems, AgreedTotalIsTheItems, SoldAsAgreed
<1>9. OneByOne'
  <2> SUFFICES ASSUME ~overlapped'
               PROVE  /\ \A g \in Handlers \ {h} : at'[g] = "idle"
                      /\ Alone(h)'
                      /\ sales' # {} => status' = "CONVERTED"
    BY DEF OneByOne
  <2>1. ~overlapped /\ \A g \in Handlers \ {h} : at[g] = "idle"
    BY <1>1
  <2>2. Alone(h)'
    <3>1. at'[h] = "load" => taxed'[h] = applyTax'
      <4>1. CASE j.kind = "convert"
        <5>1. tax = applyTax
          BY <1>1, <4>1 DEF TypeOK
        <5> QED BY <1>1, <1>4, <5>1
      <4>2. CASE j.kind # "convert"
        BY <1>3, <1>4, <4>2
      <4> QED BY <4>1, <4>2
    <3> HIDE DEF tax
    <3> QED BY <1>1, <1>3, <1>4, <3>1 DEF Alone
  <2> QED BY <1>1, <1>4, <2>1, <2>2 DEF Inv, OneByOne
<1> QED BY <1>5, <1>6, <1>7, <1>8, <1>9 DEF Inv

LEMMA InvStep == Inv /\ [Next]_vars => Inv'
<1> SUFFICES ASSUME Inv, [Next]_vars PROVE Inv'
  OBVIOUS
<1>1. CASE \E percent \in TaxRates : SetTaxRate(percent)
  BY <1>1, SetTaxRateInv
<1>2. CASE \E requested \in RequestStatuses, withTax \in BOOLEAN, rows \in SUBSET Item :
             Create(requested, withTax, rows)
  BY <1>2, CreateInv
<1>3. ASSUME NEW h \in Handlers, NEW j \in Job, Begin(h, j) PROVE Inv'
  BY <1>3, BeginInv
<1>4. ASSUME NEW h \in Handlers,
             \/ Update(h) \/ UpdateItem(h) \/ RemoveItem(h) \/ \E l \in Lines : AddItem(h, l)
             \/ CountItems(h) \/ SumItems(h) \/ ReadRate(h) \/ WriteTotals(h)
             \/ UpdateStatus(h)
             \/ LoadItems(h) \/ LookForSale(h) \/ Sell(h)
             \/ Crash(h)
      PROVE  Inv'
  BY <1>4, UpdateInv, ItemsInv, CountItemsInv, ReadItemsInv, ReadRateInv, WriteTotalsInv,
     UpdateStatusInv, LookForSaleInv, SellInv, CrashInv
<1>5. CASE UNCHANGED vars
  <2>1. UNCHANGED <<rate, status, applyTax, taxRate, total, items, unused, sales, at, job,
                    seen, taxed, due, dueRate, overlapped>>
    BY <1>5 DEF vars, rowVars, localVars
  <2>2. TypeOK'
    BY <2>1 DEF Inv, TypeOK
  <2>3. Turns' /\ Read' /\ Priced' /\ OneSale' /\ OneByOne'
    BY <2>1 DEF Inv, Turns, Read, Priced, OneSale, OneByOne, Alone
  <2>4. SalePricedByItsItems' /\ AgreedTotalIsTheItems' /\ SoldAsAgreed'
    BY <2>1 DEF Inv, SalePricedByItsItems, AgreedTotalIsTheItems, SoldAsAgreed
  <2> QED BY <2>2, <2>3, <2>4 DEF Inv
<1> QED BY <1>1, <1>2, <1>3, <1>4, <1>5 DEF Next

LEMMA Invariance == Spec => []Inv
BY ProformaInit, InvStep, PTL DEF Spec

(* A proforma becomes one sale, however many conversions passed the status *)
(* check and found no sale: the unique index lets one of them commit       *)
(* (convert of proforma.service.ts).                                       *)
THEOREM OneSaleOfEach == Spec => []ConvertedOnce
<1>1. Inv => ConvertedOnce
  <2> SUFFICES ASSUME Inv PROVE Cardinality(sales) <= 1
    BY DEF ConvertedOnce
  <2>1. PICK s : sales \subseteq {s}
    BY DEF Inv, OneSale
  <2>2. IsFiniteSet({s}) /\ Cardinality({s}) = 1
    BY FS_Singleton
  <2>3. Cardinality(sales) <= Cardinality({s})
    BY <2>1, <2>2, FS_Subset
  <2> QED BY <2>2, <2>3
<1> QED BY <1>1, Invariance, PTL

(* The sale's total is the price of the items it was given, at the rate it *)
(* was given, whatever other requests did to the proforma meanwhile.       *)
THEOREM SalesArePriced == Spec => []SalePricedByItsItems
<1>1. Inv => SalePricedByItsItems
  BY DEF Inv
<1> QED BY <1>1, Invariance, PTL

(* Of requests that come one after the other: the total of a proforma that *)
(* was sent or accepted is the price of its items, wherever an edit was    *)
(* cut off before it wrote the totals (recalculateTotals).                 *)
THEOREM AgreedTotalsAreThePrice == Spec => []AgreedTotalIsTheItems
<1>1. Inv => AgreedTotalIsTheItems
  BY DEF Inv
<1> QED BY <1>1, Invariance, PTL

(* ... and a conversion sells the items that were accepted, taxed as they  *)
(* were.                                                                   *)
THEOREM SalesAreAsAgreed == Spec => []SoldAsAgreed
<1>1. Inv => SoldAsAgreed
  BY DEF Inv
<1> QED BY <1>1, Invariance, PTL
=============================================================================
