------------------------------ MODULE Purchase ------------------------------
(***************************************************************************)
(* The purchases of one supplier for one store, their receipts and their   *)
(* payments: src/src/services/purchase.service.ts,                         *)
(* src/src/services/supplier-payment.service.ts and                        *)
(* src/src/app/api/supplier-payments/route.ts, statement by statement.     *)
(*                                                                         *)
(* order and cancel are one conditional UPDATE each.  A receipt locks the  *)
(* purchase row FOR UPDATE, then the stock rows one by one.  A payment     *)
(* looks its key up, inserts the key's record, checks the purchase, locks  *)
(* it FOR UPDATE and only then sums what was paid.  The record names the   *)
(* purchase by a foreign key, which share-locks the purchase row to the    *)
(* end of the transaction: a share lock keeps FOR UPDATE waiting, but not  *)
(* an UPDATE of the status.                                                *)
(***************************************************************************)
EXTENDS Sums

CONSTANTS
  Handlers,     \* requests to receive or to pay, one handler each
  Purchases, Keys,
  Items,        \* the variants bought; each has one stock row in the store
  Ordered,      \* units of each item of each purchase
  Total,        \* the total of each purchase
  Amounts,      \* amounts of payments
  Units,        \* units of an item in one receipt
  NoPurchase,   \* the payment is not tied to a purchase
  NoRecord, NoRequest

Nothing == [i \in Items |-> 0]

(* purchaseReceiveSchema: at least one item, and at least one unit of it.  *)
Receipt ==
  [kind : {"receive"}, purchase : Purchases,
   units : [Items -> Units \cup {0}] \ {Nothing}]

Payload == [purchase : Purchases \cup {NoPurchase}, amount : Amounts]

Payment == [kind : {"pay"}, key : Keys, payload : Payload]

ASSUME PurchaseAssumption ==
  /\ IsFiniteSet(Handlers) /\ IsFiniteSet(Purchases) /\ IsFiniteSet(Items)
  /\ IsFiniteSet(Keys)
  /\ Ordered \in [Purchases -> [Items -> Nat]]
  /\ Total \in [Purchases -> Nat]
  /\ Amounts \subseteq Nat \ {0}
  /\ Units \subseteq Nat \ {0}
  /\ NoPurchase \notin Purchases
  /\ NoRecord \notin Payload
  /\ NoRequest \notin Receipt \cup Payment \cup [key : Keys, payload : Payload]

VARIABLES
  status,     \* of each purchase; "NONE" before it is created
  got,        \* purchase_items.receivedQuantity
  quantity,   \* of the stock rows
  taken,      \* units other handlers took out of them
  record,     \* committed supplier_payment_idempotency rows
  payments,   \* supplier_payments rows, and the handler that wrote each
  at, request, answered,
  mine,       \* the purchase rows a handler holds FOR UPDATE
  base,       \* the received quantities it read under that lock
  level,      \* the stock quantities it read under the locks of their rows
  rows,       \* those stock rows
  owed,       \* the supplier's payable total it read
  disturbed   \* history: while a payment that is not tied to a purchase was
              \* between its lock and its commit, a purchase was ordered, or
              \* one that is cancelled by now was paid

committed == <<status, got, quantity, taken, record, payments>>
local == <<mine, base, level, rows, owed>>
vars == <<committed, at, request, answered, local, disturbed>>

PayableStatuses == {"ORDERED", "PARTIALLY_RECEIVED", "RECEIVED"}

Payable == {p \in Purchases : status[p] \in PayableStatuses}

Pays(h) == request[h] # NoRequest /\ request[h].kind = "pay"

PaidOf(p) ==
  SumOver([pay \in payments |-> IF pay.purchase = p THEN pay.amount ELSE 0], payments)

PaidInAll == SumOver([pay \in payments |-> pay.amount], payments)

InPayment == {"check", "lock", "owed", "paid", "pay"}

HoldsKey(h) == Pays(h) /\ at[h] \in InPayment

(* The foreign key of the record h inserted. *)
SharesPurchase(h, p) == HoldsKey(h) /\ request[h].payload.purchase = p

Locked(p) == \E g \in Handlers : p \in mine[g]

(* Slip: no foreign key, and no lock. *)
KeptFromNothing(h, g, S) == FALSE

(* g keeps h from locking the purchases S FOR UPDATE. *)
KeptFrom(h, g, S) == g # h /\ \E p \in S : p \in mine[g] \/ SharesPurchase(g, p)

(* What a handler at "lock" is about to lock. *)
Sought(h) ==
  IF Pays(h) /\ request[h].payload.purchase = NoPurchase THEN Payable
  ELSE {IF Pays(h) THEN request[h].payload.purchase ELSE request[h].purchase}

StillNeeded(h) == {i \in Items : request[h].units[i] > 0} \ rows[h]

WaitsFor(h, g) ==
  /\ h # g
  /\ \/ /\ at[h] = "insert"
        /\ \/ HoldsKey(g) /\ request[g].key = request[h].key
           \/ request[h].payload.purchase \in mine[g]
     \/ at[h] = "lock" /\ KeptFrom(h, g, Sought(h))
     \/ at[h] = "stock" /\ StillNeeded(h) # {} /\ StillNeeded(h) \subseteq rows[g]

Blocked(h) == \E g \in Handlers : WaitsFor(h, g)

(* h is on a cycle of waiters: some set of handlers is strongly connected. *)
Deadlocked(h) ==
  \E D \in SUBSET Handlers :
    /\ h \in D /\ D # {h}
    /\ \A S \in (SUBSET D) \ {{}, D} : \E g \in S, f \in D \ S : WaitsFor(g, f)

Init ==
  /\ status = [p \in Purchases |-> "NONE"]
  /\ got = [p \in Purchases |-> Nothing]
  /\ quantity = Nothing
  /\ taken = Nothing
  /\ record = [k \in Keys |-> NoRecord]
  /\ payments = {}
  /\ at = [h \in Handlers |-> "idle"]
  /\ request = [h \in Handlers |-> NoRequest]
  /\ answered = [h \in Handlers |-> "nothing"]
  /\ mine = [h \in Handlers |-> {}]
  /\ base = [h \in Handlers |-> Nothing]
  /\ level = [h \in Handlers |-> Nothing]
  /\ rows = [h \in Handlers |-> {}]
  /\ owed = [h \in Handlers |-> 0]
  /\ disturbed = FALSE

-----------------------------------------------------------------------------
(* The three handlers that are one statement or one insert. *)
SetStatus(p, from, to) ==
  /\ status[p] \in from
  /\ ~Locked(p)
  /\ status' = [status EXCEPT ![p] = to]
  /\ UNCHANGED <<got, quantity, taken, record, payments, at, request, answered, local>>

Create(p) == SetStatus(p, {"NONE"}, "DRAFT") /\ UNCHANGED disturbed

(* A payment that is not tied to a purchase, between the statement that    *)
(* locks the purchases payable then, and its commit.                       *)
PaysInAll(h) ==
  Pays(h) /\ request[h].payload.purchase = NoPurchase /\ at[h] \in {"lock", "owed", "paid", "pay"}

Order(p) ==
  /\ SetStatus(p, {"DRAFT"}, "ORDERED")
  /\ disturbed' = (disturbed \/ \E h \in Handlers : PaysInAll(h))

(* Slip: a purchase that was received in part can be cancelled. *)
CancelReceived(p) ==
  SetStatus(p, {"DRAFT", "ORDERED", "PARTIALLY_RECEIVED"}, "CANCELLED") /\ UNCHANGED disturbed

Cancel(p) == SetStatus(p, {"DRAFT", "ORDERED"}, "CANCELLED") /\ UNCHANGED disturbed

(* Other handlers take goods out of the stock (Inventory, Sale). *)
Withdraw(i) ==
  /\ quantity[i] > 0
  /\ \A h \in Handlers : i \notin rows[h]
  /\ quantity' = [quantity EXCEPT ![i] = quantity[i] - 1]
  /\ taken' = [taken EXCEPT ![i] = taken[i] + 1]
  /\ UNCHANGED <<status, got, record, payments, at, request, answered, local, disturbed>>

-----------------------------------------------------------------------------
Goto(h, place) ==
  /\ at' = [at EXCEPT ![h] = place]
  /\ UNCHANGED <<request, answered, disturbed>>

(* The transaction ends and its locks are released. *)
Release(h) ==
  /\ mine' = [mine EXCEPT ![h] = {}]
  /\ base' = [base EXCEPT ![h] = Nothing]
  /\ level' = [level EXCEPT ![h] = Nothing]
  /\ rows' = [rows EXCEPT ![h] = {}]
  /\ owed' = [owed EXCEPT ![h] = 0]

(* The handler is over; its transaction, if one is open, rolled back. *)
Reply(h, a) ==
  /\ at' = [at EXCEPT ![h] = "done"]
  /\ answered' = [answered EXCEPT ![h] = a]
  /\ Release(h)
  /\ UNCHANGED <<committed, request, disturbed>>

Receive(h, r) ==
  /\ at[h] = "idle"
  /\ LET p == IF r.kind = "pay" THEN r.payload.purchase ELSE r.purchase
     IN  p \in Purchases => status[p] # "NONE"
  /\ at' = [at EXCEPT ![h] = IF r.kind = "pay" THEN "lookup" ELSE "lock"]
  /\ request' = [request EXCEPT ![h] = r]
  /\ UNCHANGED <<committed, answered, local, disturbed>>

-----------------------------------------------------------------------------
(* Slip: the purchase is read without FOR UPDATE. *)
LockReceiptUnlocked(h) ==
  LET p == request[h].purchase
  IN  /\ at[h] = "lock" /\ ~Pays(h)
      /\ IF /\ status[p] \in {"ORDERED", "PARTIALLY_RECEIVED"}
            /\ \A i \in Items : request[h].units[i] <= Ordered[p][i] - got[p][i]
         THEN /\ base' = [base EXCEPT ![h] = got[p]]
              /\ Goto(h, "stock")
              /\ UNCHANGED <<committed, mine, level, rows, owed>>
         ELSE Reply(h, "refused")

(* receive(): lock the purchase, read it again, refuse what is not         *)
(* ordered or more than remains.                                           *)
LockReceipt(h) ==
  LET p == request[h].purchase
  IN  /\ at[h] = "lock" /\ ~Pays(h)
      /\ ~Blocked(h)
      /\ IF /\ status[p] \in {"ORDERED", "PARTIALLY_RECEIVED"}
            /\ \A i \in Items : request[h].units[i] <= Ordered[p][i] - got[p][i]
         THEN /\ mine' = [mine EXCEPT ![h] = {p}]
              /\ base' = [base EXCEPT ![h] = got[p]]
              /\ Goto(h, "stock")
              /\ UNCHANGED <<committed, level, rows, owed>>
         ELSE Reply(h, "refused")

(* The items in the order of the request: make the stock row if there is   *)
(* none (a receipt that loses that race is aborted), lock and read it.     *)
LockStock(h, i) ==
  /\ at[h] = "stock"
  /\ i \in StillNeeded(h)
  /\ \A g \in Handlers : i \notin rows[g]
  /\ rows' = [rows EXCEPT ![h] = rows[h] \cup {i}]
  /\ level' = [level EXCEPT ![h][i] = quantity[i]]
  /\ UNCHANGED <<committed, at, request, answered, mine, base, owed, disturbed>>

(* Quantities, movements, received quantities and status are committed     *)
(* together.                                                               *)
CommitReceipt(h) ==
  LET p == request[h].purchase
      now == [i \in Items |-> base[h][i] + request[h].units[i]]
  IN  /\ at[h] = "stock"
      /\ StillNeeded(h) = {}
      /\ got' = [got EXCEPT ![p] = now]
      /\ quantity' = [i \in Items |-> IF i \in rows[h] THEN level[h][i] + request[h].units[i]
                                      ELSE quantity[i]]
      /\ status' = [status EXCEPT ![p] =
                      IF now = Ordered[p] THEN "RECEIVED" ELSE "PARTIALLY_RECEIVED"]
      /\ Release(h)
      /\ Goto(h, "answer")
      /\ UNCHANGED <<taken, record, payments>>

-----------------------------------------------------------------------------
RecordOf(h) == record[request[h].key]

(* Before the transaction: what was the key used for? *)
Lookup(h) ==
  /\ at[h] = "lookup"
  /\ \/ /\ RecordOf(h) = NoRecord
        /\ Goto(h, "insert")
        /\ UNCHANGED <<committed, local>>
     \/ RecordOf(h) = request[h].payload /\ Reply(h, "cached")
     \/ RecordOf(h) \notin {NoRecord, request[h].payload} /\ Reply(h, "conflict")

(* Slip: no unique index on the key. *)
InsertAgain(h) ==
  /\ at[h] = "insert"
  /\ ~Blocked(h)
  /\ Goto(h, IF request[h].payload.purchase = NoPurchase THEN "lock" ELSE "check")
  /\ UNCHANGED <<committed, local>>

(* The first statement of the transaction, and the last if the key was     *)
(* used since.                                                             *)
Insert(h) ==
  /\ at[h] = "insert"
  /\ ~Blocked(h)
  /\ Goto(h, IF RecordOf(h) # NoRecord THEN "recover"
             ELSE IF request[h].payload.purchase = NoPurchase THEN "lock" ELSE "check")
  /\ UNCHANGED <<committed, local>>

(* After the unique violation: the winner's answer, if it is to this        *)
(* request.                                                                 *)
Recover(h) ==
  /\ at[h] = "recover"
  /\ Reply(h, IF RecordOf(h) = request[h].payload THEN "cached" ELSE "failed")

(* The purchase's status is read before its row is locked. *)
CheckPurchase(h) ==
  /\ at[h] = "check"
  /\ IF request[h].payload.purchase \in Payable
     THEN Goto(h, "lock") /\ UNCHANGED <<committed, local>>
     ELSE Reply(h, "refused")

(* Slip: no lock; the sum of the payments is read at once. *)
LockPurchaseNever(h) ==
  /\ at[h] = "lock" /\ Pays(h)
  /\ IF request[h].payload.purchase = NoPurchase
     THEN Goto(h, "owed") /\ UNCHANGED <<committed, local>>
     ELSE /\ Goto(h, "pay")
          /\ owed' = [owed EXCEPT ![h] =
                        Total[request[h].payload.purchase] - PaidOf(request[h].payload.purchase)]
          /\ UNCHANGED <<committed, mine, base, level, rows>>

(* FOR UPDATE on the purchase, or on every payable purchase there is.      *)
(* What is outstanding of a purchase is read next and cannot change then.  *)
LockPurchase(h) ==
  /\ at[h] = "lock" /\ Pays(h)
  /\ ~Blocked(h)
  /\ mine' = [mine EXCEPT ![h] = Sought(h)]
  /\ IF request[h].payload.purchase = NoPurchase
     THEN Goto(h, "owed") /\ UNCHANGED owed
     ELSE /\ Goto(h, "pay")
          /\ owed' = [owed EXCEPT ![h] =
                        Total[request[h].payload.purchase] - PaidOf(request[h].payload.purchase)]
  /\ UNCHANGED <<committed, base, level, rows>>

(* A second query reads the totals of the purchases payable by now, ...    *)
ReadOwed(h) ==
  /\ at[h] = "owed"
  /\ owed' = [owed EXCEPT ![h] = SumOver(Total, Payable)]
  /\ Goto(h, "paid")
  /\ UNCHANGED <<committed, mine, base, level, rows>>

(* ... and a third what the supplier was paid, for whatever purchase.      *)
ReadPaid(h) ==
  /\ at[h] = "paid"
  /\ owed' = [owed EXCEPT ![h] = owed[h] - PaidInAll]
  /\ Goto(h, "pay")
  /\ UNCHANGED <<committed, mine, base, level, rows>>

TooMuch(h) ==
  /\ at[h] = "pay"
  /\ request[h].payload.amount > owed[h]
  /\ Reply(h, "refused")

(* The payment, its cash movement and the completed record. *)
CommitPayment(h) ==
  LET asked == request[h].payload
  IN  /\ at[h] = "pay"
      /\ asked.amount <= owed[h]
      /\ payments' = payments \cup
           {[by |-> h, purchase |-> asked.purchase, amount |-> asked.amount]}
      /\ record' = [record EXCEPT ![request[h].key] = asked]
      /\ disturbed' = \/ disturbed
                       \/ /\ asked.purchase \in Purchases \ Payable
                          /\ \E g \in Handlers : PaysInAll(g)
      /\ Release(h)
      /\ at' = [at EXCEPT ![h] = "answer"]
      /\ UNCHANGED <<status, got, quantity, taken, request, answered>>

(* A CASH payment without an open session, an inactive store or supplier. *)
Refuse(h) ==
  /\ Pays(h)
  /\ at[h] = IF request[h].payload.purchase = NoPurchase THEN "lock" ELSE "check"
  /\ Reply(h, "refused")

Created(h) == at[h] = "answer" /\ Reply(h, "created")

(* The database aborts one transaction of a cycle; the route answers 500. *)
DeadlockAbort(h) == Blocked(h) /\ Deadlocked(h) /\ Reply(h, "failed")

(* The server or the connection dies. *)
Crash(h) == at[h] \notin {"idle", "done"} /\ Reply(h, "lost")

Step(h) ==
  \/ LockReceipt(h) \/ (\E i \in Items : LockStock(h, i)) \/ CommitReceipt(h)
  \/ Lookup(h) \/ Insert(h) \/ Recover(h) \/ CheckPurchase(h) \/ LockPurchase(h)
  \/ ReadOwed(h) \/ ReadPaid(h) \/ TooMuch(h) \/ CommitPayment(h) \/ Refuse(h)
  \/ Created(h) \/ DeadlockAbort(h)

Finished == (\A h \in Handlers : at[h] = "done") /\ UNCHANGED vars

Next ==
  \/ \E p \in Purchases : Create(p) \/ Order(p) \/ Cancel(p)
  \/ \E i \in Items : Withdraw(i)
  \/ \E h \in Handlers, r \in Receipt \cup Payment : Receive(h, r)
  \/ \E h \in Handlers : Step(h) \/ Crash(h)
  \/ Finished

Spec == Init /\ [][Next]_vars

-----------------------------------------------------------------------------
Statuses == {"NONE", "DRAFT", "CANCELLED"} \cup PayableStatuses

Places == {"idle", "lookup", "insert", "recover", "check", "lock", "owed", "paid", "pay",
           "stock", "answer", "done"}

TypeOK ==
  /\ status \in [Purchases -> Statuses]
  /\ got \in [Purchases -> [Items -> Nat]]
  /\ quantity \in [Items -> Nat]
  /\ taken \in [Items -> Nat]
  /\ record \in [Keys -> Payload \cup {NoRecord}]
  /\ payments \subseteq
       [by : Handlers, purchase : Purchases \cup {NoPurchase}, amount : Amounts]
  /\ at \in [Handlers -> Places]
  /\ request \in [Handlers -> Receipt \cup Payment \cup {NoRequest}]
  /\ answered \in [Handlers -> {"nothing", "created", "cached", "conflict", "refused",
                                "failed", "lost"}]
  /\ mine \in [Handlers -> SUBSET Purchases]
  /\ base \in [Handlers -> [Items -> Nat]]
  /\ level \in [Handlers -> [Items -> Nat]]
  /\ rows \in [Handlers -> SUBSET Items]
  /\ owed \in [Handlers -> Int]
  /\ disturbed \in BOOLEAN

(* However receipts, their repetitions and cancellations meet, never more  *)
(* than was ordered is received, and the status says what was: a purchase  *)
(* goods came in for is neither cancelled nor a draft.                     *)
ReceiptsTellStatus ==
  \A p \in Purchases :
    /\ \A i \in Items : got[p][i] <= Ordered[p][i]
    /\ status[p] = "RECEIVED" => got[p] = Ordered[p]
    /\ status[p] = "PARTIALLY_RECEIVED" => got[p] # Ordered[p]
    /\ status[p] \notin {"PARTIALLY_RECEIVED", "RECEIVED"} => got[p] = Nothing

(* Every unit received of any purchase is in the stock row it shares with  *)
(* the other purchases, or was taken out: no receipt overwrites another.   *)
ReceiptsAreInStock ==
  \A i \in Items :
    quantity[i] + taken[i] = SumOver([p \in Purchases |-> got[p][i]], Purchases)

(* Concurrent payments of a purchase never pay more than its total between *)
(* them (supplier-payment.service.ts:67).                                  *)
PaidWithinTotal == \A p \in Purchases : PaidOf(p) <= Total[p]

(* A payment that names no purchase never takes the sum of the supplier's  *)
(* payments beyond its payable purchases, whatever else is paid, received  *)
(* or cancelled meanwhile: as long as no purchase is ordered, and none     *)
(* that was cancelled is paid, in between.                                 *)
UnallocatedWithinOwed ==
  [][~disturbed' /\ (\E pay \in payments' \ payments : pay.purchase = NoPurchase)
       => PaidInAll' <= SumOver(Total, Payable')]_vars

(* The payments route keeps the promise of its keys, for a client that     *)
(* repeats its request while the first one runs, or after it was lost.     *)
Promise ==
  INSTANCE OncePerKey WITH
    Payloads <- Payload,
    request <- [h \in Handlers |->
                  IF Pays(h) THEN [key |-> request[h].key, payload |-> request[h].payload]
                  ELSE NoRequest],
    answered <- [h \in Handlers |-> IF Pays(h) THEN answered[h] ELSE "nothing"],
    effects <- {pay.by : pay \in payments}

KeepsPromise == Promise!Spec
=============================================================================
