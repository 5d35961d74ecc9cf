------------------------------ MODULE Checkout ------------------------------
(***************************************************************************)
(* POST /api/sales/[id]/checkout and POST /api/sales/[id]/payments at the  *)
(* grain of their database statements: each handler looks its idempotency  *)
(* key up, then runs a transaction that inserts the key's record, locks    *)
(* the sale row, locks and deducts the stock rows one at a time, and       *)
(* commits.  Handlers run concurrently, crash, and lose their answers; the *)
(* clients retry with the same key.                                        *)
(*                                                                         *)
(* PostgreSQL (READ COMMITTED) is modelled by what the routes rely on: a   *)
(* row locked FOR UPDATE or written stays with its transaction until the   *)
(* end, a statement that meets it waits and then sees what was committed,  *)
(* a duplicate key waits for the first inserter and fails if that commits, *)
(* a transaction that fails leaves nothing behind, and one transaction of  *)
(* every cycle of waits is aborted.  Which locks a handler holds follows   *)
(* from where it is (HoldsKey, HoldsSale, HoldsRow).                       *)
(***************************************************************************)
EXTENDS Integers, FiniteSets, Sums

CONSTANTS
  Handlers, Keys, Users, Sales, Rows, Total, Need, InitialQuantity, Amounts,
  NoRecord,
  NoRow,              \* no stock row left to lock
  MayWithdraw         \* stock rows that other handlers take goods out of

ASSUME CheckoutAssumption ==
  /\ IsFiniteSet(Keys) /\ IsFiniteSet(Rows)
  /\ Total \in [Sales -> Nat]
  /\ Need \in [Sales -> [Rows -> Nat]]
  /\ InitialQuantity \in [Rows -> Nat]
  /\ Amounts \subseteq Nat \ {0}
  /\ NoRow \notin Rows
  /\ MayWithdraw \subseteq Rows

Kinds == {"checkout", "payment"}

Request == [kind : Kinds, key : Keys, sale : Sales, user : Users, amount : Amounts]

Record == [sale : Sales, user : Users, amount : Amounts]

ASSUME NoRecordAssumption == NoRecord \notin Record

VARIABLES
  pc,        \* where each handler is
  request,   \* the requests received, by handler
  answered,  \* the response; "lost" when the client never gets one
  wanted,    \* the stock row a handler is about to lock
  took,      \* the stock rows it has locked and deducted, not yet committed
  record,    \* committed idempotency records, by kind and key
  status, paid, quantity    \* committed state of the sales and of the stock

handlerVars == <<pc, request, answered, wanted, took>>
committed == <<record, status, paid, quantity>>
vars == <<handlerVars, committed>>

Received == DOMAIN request

InTransaction == {"sale", "rows", "pay"}

SameKey(h, g) == request[h].kind = request[g].kind /\ request[h].key = request[g].key

SameSale(h, g) == request[h].sale = request[g].sale

(* Slip: the record is written outside the transaction and outlives it. *)
KeepsKey(h) == pc[h] \in InTransaction \cup {"answer", "done"}

HoldsKey(h) == pc[h] \in InTransaction

(* Slip: the payments route reads the sale without FOR UPDATE. *)
HoldsSaleAtCheckout(h) == pc[h] = "rows"

HoldsSale(h) == pc[h] \in {"rows", "pay"}

(* Slip: the stock rows are read without FOR UPDATE. *)
HoldsNoRow(h, k) == FALSE

HoldsRow(h, k) == k \in took[h]

(* h waits for a lock that g holds. *)
WaitsFor(h, g) ==
  /\ h # g /\ h \in Received /\ g \in Received
  /\ \/ pc[h] = "insert" /\ SameKey(h, g) /\ HoldsKey(g)
     \/ pc[h] = "sale" /\ SameSale(h, g) /\ HoldsSale(g)
     \/ pc[h] = "rows" /\ wanted[h] # NoRow /\ HoldsRow(g, wanted[h])

Blocked(h) == \E g \in Handlers : WaitsFor(h, g)

(* h is on a cycle of waiters: some set of handlers is strongly connected. *)
Deadlocked(h) ==
  \E D \in SUBSET Handlers :
    /\ h \in D /\ D # {h}
    /\ \A S \in (SUBSET D) \ {{}, D} : \E g \in S, f \in D \ S : WaitsFor(g, f)

Remembered(r) == [sale |-> r.sale, user |-> r.user, amount |-> r.amount]

RecordOf(h) == record[request[h].kind][request[h].key]

Needed(s) == {k \in Rows : Need[s][k] > 0}

Init ==
  /\ pc = [h \in Handlers |-> "idle"]
  /\ request = << >>
  /\ answered = [h \in Handlers |-> "nothing"]
  /\ wanted = [h \in Handlers |-> NoRow]
  /\ took = [h \in Handlers |-> {}]
  /\ record = [kind \in Kinds |-> [key \in Keys |-> NoRecord]]
  /\ status = [s \in Sales |-> "PENDING"]
  /\ paid = [s \in Sales |-> 0]
  /\ quantity = InitialQuantity

-----------------------------------------------------------------------------
Goto(h, place) ==
  /\ pc' = [pc EXCEPT ![h] = place]
  /\ UNCHANGED <<request, answered, wanted, took, committed>>

(* The handler is over, and its transaction, if one is open, rolled back. *)
Reply(h, a) ==
  /\ pc' = [pc EXCEPT ![h] = "done"]
  /\ answered' = [answered EXCEPT ![h] = a]
  /\ wanted' = [wanted EXCEPT ![h] = NoRow]
  /\ took' = [took EXCEPT ![h] = {}]
  /\ UNCHANGED <<request, committed>>

Receive(h, r) ==
  /\ pc[h] = "idle"
  /\ pc' = [pc EXCEPT ![h] = "lookup"]
  /\ request' = [g \in Received \cup {h} |-> IF g = h THEN r ELSE request[g]]
  /\ UNCHANGED <<answered, wanted, took, committed>>

(* Before the transaction: answer at once what the key was used for. *)
Lookup(h) ==
  /\ pc[h] = "lookup"
  /\ \/ RecordOf(h) = NoRecord /\ Goto(h, "insert")
     \/ RecordOf(h) = Remembered(request[h]) /\ Reply(h, "cached")
     \/ RecordOf(h) \notin {NoRecord, Remembered(request[h])} /\ Reply(h, "conflict")

(* Slip: no unique index on the key. *)
InsertAgain(h) ==
  /\ pc[h] = "insert"
  /\ ~Blocked(h)
  /\ Goto(h, "sale")

(* The transaction's first statement.  A handler whose key was committed   *)
(* since the lookup violates the unique index: it rolls back and goes to   *)
(* look the record up again.                                               *)
Insert(h) ==
  /\ pc[h] = "insert"
  /\ ~Blocked(h)
  /\ Goto(h, IF RecordOf(h) = NoRecord THEN "sale" ELSE "recover")

(* Slip: any record of the key is taken for this request's. *)
RecoverAnyRecord(h) ==
  /\ pc[h] = "recover"
  /\ Reply(h, IF RecordOf(h) # NoRecord THEN "cached" ELSE "failed")

(* After the unique violation: the winner's answer, if it is this request's. *)
Recover(h) ==
  /\ pc[h] = "recover"
  /\ Reply(h, IF RecordOf(h) = Remembered(request[h]) THEN "cached" ELSE "failed")

(* Slip: only a cancelled sale is turned away. *)
SellableAgain(r) ==
  /\ status[r.sale] # "CANCELLED"
  /\ Needed(r.sale) # {}
  /\ r.amount = Total[r.sale]

Sellable(r) ==
  /\ status[r.sale] = "PENDING"
  /\ Needed(r.sale) # {}
  /\ r.amount = Total[r.sale]

Payable(r) ==
  /\ status[r.sale] = "PENDING"
  /\ r.amount <= Total[r.sale] - paid[r.sale]

(* Lock the sale row, read the sale again and check what was asked. *)
LockSale(h) ==
  LET r == request[h]
  IN  /\ pc[h] = "sale"
      /\ ~Blocked(h)
      /\ \/ /\ r.kind = "checkout" /\ Sellable(r)
            /\ pc' = [pc EXCEPT ![h] = "rows"]
            /\ \E k \in Needed(r.sale) : wanted' = [wanted EXCEPT ![h] = k]
            /\ UNCHANGED <<request, answered, took, committed>>
         \/ r.kind = "payment" /\ Payable(r) /\ Goto(h, "pay")
         \/ r.kind = "checkout" /\ ~Sellable(r) /\ Reply(h, "refused")
         \/ r.kind = "payment" /\ ~Payable(r) /\ Reply(h, "refused")

InStock(s, k) == Need[s][k] <= quantity[k]

(* One round of the loop over the sale's items, which the database returns *)
(* in any order: lock the row, check the goods, deduct.                    *)
LockRow(h) ==
  LET k == wanted[h]
      s == request[h].sale
      rest == Needed(s) \ (took[h] \cup {k})
  IN  /\ pc[h] = "rows"
      /\ k # NoRow
      /\ ~Blocked(h)
      /\ \/ /\ InStock(s, k)
            /\ took' = [took EXCEPT ![h] = took[h] \cup {k}]
            /\ IF rest = {} THEN wanted' = [wanted EXCEPT ![h] = NoRow]
                            ELSE \E j \in rest : wanted' = [wanted EXCEPT ![h] = j]
            /\ UNCHANGED <<pc, request, answered, committed>>
         \/ ~InStock(s, k) /\ Reply(h, "refused")

ReadyToCommit(h) ==
  \/ pc[h] = "rows" /\ wanted[h] = NoRow
  \/ pc[h] = "pay"

(* The request is a CASH one and its store has no open cash session. *)
NoCashSession(h) ==
  /\ ReadyToCommit(h)
  /\ Reply(h, "refused")

(* Payment, sale status and the completed record are committed together. *)
Commit(h) ==
  LET r == request[h]
  IN  /\ ReadyToCommit(h)
      /\ record' = [record EXCEPT ![r.kind][r.key] = Remembered(r)]
      /\ paid' = [paid EXCEPT ![r.sale] = paid[r.sale] + r.amount]
      /\ status' = IF r.kind = "checkout" THEN [status EXCEPT ![r.sale] = "COMPLETED"]
                                          ELSE status
      /\ quantity' = [k \in Rows |-> IF k \in took[h] THEN quantity[k] - Need[r.sale][k]
                                                      ELSE quantity[k]]
      /\ pc' = [pc EXCEPT ![h] = "answer"]
      /\ took' = [took EXCEPT ![h] = {}]
      /\ UNCHANGED <<request, answered, wanted>>

Created(h) ==
  /\ pc[h] = "answer"
  /\ Reply(h, "created")

(* The database aborts one transaction of a cycle; the route answers 500. *)
DeadlockAbort(h) ==
  /\ Deadlocked(h)
  /\ Reply(h, "failed")

(* The server or the connection dies: before the commit nothing happened,  *)
(* after it everything did, and the client cannot tell.                    *)
Crash(h) ==
  /\ pc[h] \notin {"idle", "done"}
  /\ Reply(h, "lost")

(* Other handlers, at the grain of module Sale: they need the same locks.  *)
CancelElsewhere(s) ==
  /\ status[s] = "PENDING"
  /\ \A g \in Received : request[g].sale = s => ~HoldsSale(g)
  /\ status' = [status EXCEPT ![s] = "CANCELLED"]
  /\ UNCHANGED <<handlerVars, record, paid, quantity>>

WithdrawElsewhere(k) ==
  /\ quantity[k] > 0
  /\ \A g \in Handlers : ~HoldsRow(g, k)
  /\ quantity' = [quantity EXCEPT ![k] = quantity[k] - 1]
  /\ UNCHANGED <<handlerVars, record, status, paid>>

Step(h) ==
  Lookup(h) \/ Insert(h) \/ Recover(h) \/ LockSale(h) \/ LockRow(h) \/ NoCashSession(h)
    \/ Commit(h) \/ Created(h) \/ DeadlockAbort(h)

Finished == (\A h \in Handlers : pc[h] = "done") /\ UNCHANGED vars

Next ==
  \/ \E h \in Handlers, r \in Request : Receive(h, r)
  \/ \E h \in Handlers : Step(h) \/ Crash(h)
  \/ \E s \in Sales : CancelElsewhere(s)
  \/ \E k \in MayWithdraw : WithdrawElsewhere(k)
  \/ Finished

Spec == Init /\ [][Next]_vars

(* A handler that can go on does: node runs it, the database hands a       *)
(* released lock to a waiter and breaks a cycle after deadlock_timeout.    *)
(* A client is never obliged to send a request.                            *)
FairSpec == Spec /\ \A h \in Handlers : WF_vars(Step(h))

-----------------------------------------------------------------------------
Places == {"idle", "lookup", "insert", "recover", "sale", "rows", "pay", "answer", "done"}

TypeOK ==
  /\ pc \in [Handlers -> Places]
  /\ Received = {h \in Handlers : pc[h] # "idle"}
  /\ \A h \in Received : request[h] \in Request
  /\ answered \in [Handlers -> {"nothing", "created", "cached", "conflict", "refused",
                                "failed", "lost"}]
  /\ wanted \in [Handlers -> Rows \cup {NoRow}]
  /\ took \in [Handlers -> SUBSET Rows]
  /\ record \in [Kinds -> [Keys -> Record \cup {NoRecord}]]
  /\ status \in [Sales -> {"PENDING", "COMPLETED", "CANCELLED"}]
  /\ paid \in [Sales -> Nat]
  /\ quantity \in [Rows -> Nat]

AmountFor(kind, s) ==
  SumOver([key \in Keys |->
             IF record[kind][key] # NoRecord /\ record[kind][key].sale = s
             THEN record[kind][key].amount ELSE 0], Keys)

(* Retries, duplicates and crashes never pay twice: what a sale received   *)
(* is what the idempotency records of its keys say, one payment each.      *)
PaidOncePerKey ==
  \A s \in Sales : paid[s] = AmountFor("checkout", s) + AmountFor("payment", s)

(* However many keys clients use for it, a sale is checked out once: of    *)
(* these two routes, only a checkout that took effect completes a sale,    *)
(* and it does so once. complete() and a status in a request body are      *)
(* other ways to COMPLETED, not in this module.                            *)
OneCheckoutPerSale ==
  \A s \in Sales :
    Cardinality({key \in Keys : /\ record["checkout"][key] # NoRecord
                                /\ record["checkout"][key].sale = s})
      = IF status[s] = "COMPLETED" THEN 1 ELSE 0

(* Concurrent requests of the payments route never take more than the      *)
(* total between them ("so payment and credit authorization cannot         *)
(* calculate coverage concurrently from the same balance"). A checkout     *)
(* takes the whole total besides what they took, and is not counted here.  *)
PaymentsWithinTotal == \A s \in Sales : AmountFor("payment", s) <= Total[s]

(* A client told "created" or "cached" reads of a committed effect of its  *)
(* own request, and one key creates once.                                  *)
SuccessIsTrue ==
  \A h \in Received :
    /\ answered[h] \in {"created", "cached"} => RecordOf(h) = Remembered(request[h])
    /\ answered[h] = "created" =>
         \A g \in Received \ {h} : answered[g] = "created" => ~SameKey(h, g)

(* Every handler comes to an end: no lock is waited for for ever, not even *)
(* by two checkouts that deduct the same goods in opposite orders.         *)
EveryHandlerEnds == \A h \in Handlers : pc[h] = "lookup" ~> pc[h] = "done"

(* The routes implement the promise of ExactlyOnce: under the locks, what  *)
(* a handler checked is still so when it commits.                          *)
Promise == INSTANCE ExactlyOnce

KeepsPromise == Promise!Spec
=============================================================================
