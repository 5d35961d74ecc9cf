--------------------------- MODULE CheckoutProofs ---------------------------
(***************************************************************************)
(* The routes keep the promise of ExactlyOnce, and what they take adds up, *)
(* for any number of handlers, keys, sales and stock rows; and the page at *)
(* the till that calls them sells the cart once, for any number of goods,  *)
(* sales, attempts, baskets and lost answers.                              *)
(*                                                                         *)
(* The routes: a handler past its insert is alone with its key, one past   *)
(* the lock of the sale is alone with the sale, one that took a stock row  *)
(* is alone with the row.  So what it checked still holds when it commits, *)
(* and the commit is the one step in which the request takes effect.       *)
(*                                                                         *)
(* The page: every claim to a basket is on the one sale the page will go   *)
(* back to with it, so two sales claim one only if the second was asked    *)
(* for before the first had arrived (Once).  The rows of an attempt bear   *)
(* its number and every other row an older one, so until a late one lands  *)
(* the sale holds what the attempt posted and what it has yet to delete;   *)
(* the server takes a payment of the total the page read, and as rows are  *)
(* of at least one unit the same total is the same rows (Course).          *)
(***************************************************************************)
EXTENDS Checkout, Terminal, SumsProofs

(* Alone with its key, which nobody has used. *)
KeyHeld ==
  \A h \in Handlers : pc[h] \in InTransaction =>
    /\ RecordOf(h) = NoRecord
    /\ \A g \in Handlers : g # h /\ pc[g] \in InTransaction => ~SameKey(h, g)

(* Alone with its sale, which is as it was checked. *)
SaleHeld ==
  \A h \in Handlers :
    /\ pc[h] = "rows" => request[h].kind = "checkout" /\ Sellable(request[h])
    /\ pc[h] = "pay" => request[h].kind = "payment" /\ Payable(request[h])
    /\ \A g \in Handlers : g # h /\ HoldsSale(h) /\ HoldsSale(g) => ~SameSale(h, g)

(* Alone with the stock rows it took, which still have what it needs. *)
RowsHeld ==
  \A h \in Handlers :
    /\ took[h] # {} => pc[h] = "rows"
    /\ \A k \in took[h] : InStock(request[h].sale, k)
    /\ \A g \in Handlers : g # h => took[g] \cap took[h] = {}
    /\ pc[h] = "rows" /\ wanted[h] = NoRow => Needed(request[h].sale) \subseteq took[h]

(* Its effect is the one its key stands for. *)
Winner(h) == pc[h] = "answer" \/ answered[h] = "created"

Told ==
  \A h \in Handlers :
    /\ pc[h] # "done" => answered[h] = "nothing"
    /\ Winner(h) \/ answered[h] = "cached" =>
         h \in Received /\ RecordOf(h) = Remembered(request[h])
    /\ \A g \in Handlers : g # h /\ Winner(h) /\ Winner(g) => ~SameKey(h, g)

Inv == TypeOK /\ KeyHeld /\ SaleHeld /\ RowsHeld /\ Told

-----------------------------------------------------------------------------
LEMMA RememberedIsRecord ==
  \A r \in Request : Remembered(r) \in Record /\ Remembered(r) # NoRecord
BY NoRecordAssumption DEF Request, Record, Remembered

LEMMA InvInit == Init => Inv
<1> SUFFICES ASSUME Init PROVE Inv
  OBVIOUS
<1>1. Received = {} /\ \A h \in Handlers : pc[h] = "idle" /\ took[h] = {}
  BY DEF Init, Received
<1>2. TypeOK
  BY <1>1, CheckoutAssumption DEF Init, TypeOK, Places
<1> QED
  BY <1>1, <1>2 DEF Init, Inv, KeyHeld, SaleHeld, RowsHeld, Told, Winner, InTransaction, HoldsSale

(* A handler that ends gives up what it holds. *)
LEMMA ReplyKeepsInv ==
  ASSUME Inv, NEW h \in Received,
         NEW a \in {"created", "cached", "conflict", "refused", "failed", "lost"},
         a \in {"created", "cached"} => RecordOf(h) = Remembered(request[h]),
         a = "created" => pc[h] = "answer",
         Reply(h, a)
  PROVE  Inv'
<1> USE DEF Reply, committed, Received, Inv
<1>0. h \in Handlers /\ TypeOK
  BY DEF TypeOK
<1>1. TypeOK'
  BY <1>0 DEF TypeOK, Places, RecordOf
<1>2. \A g \in Handlers : g # h =>
        /\ pc'[g] = pc[g] /\ answered'[g] = answered[g]
        /\ wanted'[g] = wanted[g] /\ took'[g] = took[g]
  BY <1>0 DEF TypeOK
<1>3. pc'[h] = "done" /\ answered'[h] = a /\ took'[h] = {}
  BY <1>0 DEF TypeOK
<1>4. KeyHeld'
  BY <1>2, <1>3 DEF KeyHeld, RecordOf, SameKey, InTransaction
<1>5. SaleHeld'
  BY <1>2, <1>3 DEF SaleHeld, Sellable, Payable, HoldsSale, SameSale
<1>6. RowsHeld'
  BY <1>2, <1>3 DEF RowsHeld, InStock
<1>7. Told'
  BY <1>2, <1>3 DEF Told, Winner, RecordOf, SameKey
<1> QED
  BY <1>1, <1>4, <1>5, <1>6, <1>7

(* The steps by which a handler comes to hold something. *)
LEMMA ReceiveKeepsInv ==
  ASSUME Inv, NEW h \in Handlers, NEW r \in Request, Receive(h, r)
  PROVE  Inv'
<1> USE DEF Receive, committed, Received, Inv
<1>0. TypeOK /\ pc[h] = "idle" /\ h \notin DOMAIN request
  BY DEF TypeOK
<1>1. \A g \in Handlers : g # h =>
        /\ pc'[g] = pc[g] /\ g \in DOMAIN request' <=> g \in DOMAIN request
        /\ g \in DOMAIN request => request'[g] = request[g]
  BY <1>0 DEF TypeOK
<1>2. pc'[h] = "lookup" /\ h \in DOMAIN request' /\ request'[h] = r
  BY <1>0 DEF TypeOK
<1>3. TypeOK'
  BY <1>0, <1>1, <1>2 DEF TypeOK, Places
<1>4. \A g \in Handlers : pc[g] # "idle" => g \in DOMAIN request
  BY <1>0 DEF TypeOK
<1>5. KeyHeld'
  BY <1>1, <1>2, <1>4 DEF KeyHeld, RecordOf, SameKey, InTransaction
<1>6. SaleHeld'
  BY <1>1, <1>2, <1>4 DEF SaleHeld, Sellable, Payable, HoldsSale, SameSale
<1>7. RowsHeld'
  BY <1>0, <1>1, <1>2, <1>4 DEF RowsHeld, InStock
<1>8. Told'
  BY <1>0, <1>1, <1>2, <1>4 DEF Told, Winner, RecordOf, SameKey
<1> QED
  BY <1>3, <1>5, <1>6, <1>7, <1>8

LEMMA InsertKeepsInv ==
  ASSUME Inv, NEW h \in Received, Insert(h)
  PROVE  Inv'
<1> USE DEF Insert, Goto, committed, Received, Inv
<1>0. h \in Handlers /\ TypeOK /\ pc[h] = "insert"
  BY DEF TypeOK
<1>1. \A g \in Handlers : g # h => pc'[g] = pc[g]
  BY <1>0 DEF TypeOK
<1>2. pc'[h] = IF RecordOf(h) = NoRecord THEN "sale" ELSE "recover"
  BY <1>0 DEF TypeOK
<1>3. TypeOK'
  BY <1>0, <1>2 DEF TypeOK, Places
<1>4. \A g \in Handlers : g # h /\ pc[g] \in InTransaction => ~SameKey(h, g) /\ ~SameKey(g, h)
  BY <1>0 DEF Blocked, WaitsFor, HoldsKey, SameKey, TypeOK, InTransaction
<1>5. KeyHeld'
  BY <1>1, <1>2, <1>4 DEF KeyHeld, RecordOf, SameKey, InTransaction
<1>6. SaleHeld'
  BY <1>1, <1>2 DEF SaleHeld, Sellable, Payable, HoldsSale, SameSale
<1>7. RowsHeld'
  BY <1>0, <1>1, <1>2 DEF RowsHeld, InStock
<1>8. Told'
  BY <1>0, <1>1, <1>2 DEF Told, Winner, RecordOf, SameKey
<1> QED
  BY <1>3, <1>5, <1>6, <1>7, <1>8

LEMMA LockSaleKeepsInv ==
  ASSUME Inv, NEW h \in Received, LockSale(h)
  PROVE  Inv'
<1> USE DEF Received, Inv
<1>0. h \in Handlers /\ TypeOK /\ pc[h] = "sale" /\ request[h] \in Request
  BY DEF TypeOK, LockSale
<1>1. CASE Reply(h, "refused")
  BY <1>1, ReplyKeepsInv
<1>2. \A g \in Handlers : g # h /\ HoldsSale(g) => ~SameSale(h, g) /\ ~SameSale(g, h)
  BY <1>0 DEF LockSale, Blocked, WaitsFor, SameSale, TypeOK, HoldsSale
<1>3. ASSUME NEW place \in {"rows", "pay"}, pc' = [pc EXCEPT ![h] = place],
             place = "rows" => request[h].kind = "checkout" /\ Sellable(request[h]),
             place = "pay" => request[h].kind = "payment" /\ Payable(request[h]),
             place = "rows" => \E k \in Needed(request[h].sale) : wanted' = [wanted EXCEPT ![h] = k],
             place = "pay" => wanted' = wanted,
             UNCHANGED <<request, answered, took, committed>>
      PROVE  Inv'
  <2> USE <1>3 DEF committed
  <2>1. \A g \in Handlers : g # h => pc'[g] = pc[g] /\ wanted'[g] = wanted[g]
    BY <1>0 DEF TypeOK
  <2>2. pc'[h] = place /\ (place = "rows" => wanted'[h] \in Rows)
    BY <1>0 DEF TypeOK, Needed
  <2>3. TypeOK'
    BY <1>0, <2>2 DEF TypeOK, Places, Needed
  <2>4. KeyHeld'
    BY <1>0, <2>1, <2>2 DEF KeyHeld, RecordOf, SameKey, InTransaction
  <2>5. SaleHeld'
    BY <1>0, <1>2, <2>1, <2>2 DEF SaleHeld, Sellable, Payable, HoldsSale, SameSale
  <2>6. RowsHeld'
    BY <1>0, <2>1, <2>2, CheckoutAssumption DEF RowsHeld, InStock
  <2>7. Told'
    BY <1>0, <2>1, <2>2 DEF Told, Winner, RecordOf, SameKey
  <2> QED BY <2>3, <2>4, <2>5, <2>6, <2>7
<1> QED
  BY <1>1, <1>3 DEF LockSale, Goto

LEMMA LockRowKeepsInv ==
  ASSUME Inv, NEW h \in Received, LockRow(h)
  PROVE  Inv'
<1> USE DEF Received, Inv
<1>0. h \in Handlers /\ TypeOK /\ pc[h] = "rows" /\ request[h] \in Request
  BY DEF TypeOK, LockRow
<1> DEFINE k == wanted[h]
           s == request[h].sale
           rest == Needed(s) \ (took[h] \cup {k})
<1>1. k \in Rows /\ \A g \in Handlers : g # h => k \notin took[g]
  <2>1. k \in Rows /\ ~Blocked(h)
    BY <1>0 DEF LockRow, TypeOK
  <2>2. \A g \in Handlers : k \in took[g] => g \in DOMAIN request
    BY <1>0 DEF TypeOK, RowsHeld
  <2> QED BY <1>0, <2>1, <2>2 DEF LockRow, Blocked, WaitsFor, HoldsRow
<1>2. CASE Reply(h, "refused")
  BY <1>2, ReplyKeepsInv
<1>3. CASE /\ InStock(s, k)
           /\ took' = [took EXCEPT ![h] = took[h] \cup {k}]
           /\ IF rest = {} THEN wanted' = [wanted EXCEPT ![h] = NoRow]
                           ELSE \E j \in rest : wanted' = [wanted EXCEPT ![h] = j]
           /\ UNCHANGED <<pc, request, answered, committed>>
  <2> USE <1>3 DEF committed
  <2>1. \A g \in Handlers : g # h => wanted'[g] = wanted[g] /\ took'[g] = took[g]
    BY <1>0 DEF TypeOK
  <2>2. took'[h] = took[h] \cup {k}
    BY <1>0 DEF TypeOK
  <2>3. TypeOK'
    BY <1>0, <1>1 DEF TypeOK, Needed
  <2>4. wanted'[h] = NoRow => Needed(s) \subseteq took'[h]
    <3>1. CASE rest = {}
      BY <2>2, <3>1
    <3>2. CASE rest # {}
      BY <1>0, <3>2, CheckoutAssumption DEF TypeOK, Needed
    <3> QED BY <3>1, <3>2
  <2>5. KeyHeld' /\ SaleHeld' /\ Told'
    BY DEF KeyHeld, SaleHeld, Told, RecordOf, SameKey, Sellable, Payable, HoldsSale, SameSale, Winner
  <2>6. RowsHeld'
    BY <1>0, <1>1, <2>1, <2>2, <2>4 DEF RowsHeld, InStock
  <2> QED BY <2>3, <2>5, <2>6
<1> QED
  BY <1>2, <1>3 DEF LockRow

LEMMA CommitKeepsInv ==
  ASSUME Inv, NEW h \in Received, Commit(h)
  PROVE  Inv'
<1> USE DEF Received, Inv
<1> DEFINE r == request[h]
<1>0. h \in Handlers /\ TypeOK /\ r \in Request /\ pc[h] \in {"rows", "pay"}
  BY DEF TypeOK, Commit, ReadyToCommit
<1>1. /\ \A g \in Handlers : g # h => pc'[g] = pc[g] /\ took'[g] = took[g]
      /\ pc'[h] = "answer" /\ took'[h] = {}
      /\ UNCHANGED <<request, answered, wanted>>
  BY <1>0 DEF Commit, TypeOK
<1>2. /\ record[r.kind][r.key] = NoRecord
      /\ \A kind \in Kinds, key \in Keys :
           record'[kind][key] = IF kind = r.kind /\ key = r.key THEN Remembered(r)
                                ELSE record[kind][key]
  BY <1>0 DEF Commit, TypeOK, KeyHeld, RecordOf, Request, Kinds, InTransaction
<1>3. \A g \in Handlers : g # h /\ HoldsSale(g) => request[g].sale # r.sale
  BY <1>0 DEF SaleHeld, HoldsSale, SameSale
<1>4. \A s \in Sales : s # r.sale => status'[s] = status[s] /\ paid'[s] = paid[s]
  BY <1>0 DEF Commit, TypeOK, Request
<1>5. \A k \in Rows : quantity'[k] = IF k \in took[h] THEN quantity[k] - Need[r.sale][k] ELSE quantity[k]
  BY DEF Commit
<1>6. TypeOK'
  <2>1. record' \in [Kinds -> [Keys -> Record \cup {NoRecord}]]
    BY <1>0, RememberedIsRecord DEF Commit, TypeOK, Request, Kinds
  <2>2. paid' \in [Sales -> Nat]
    <3>1. r.sale \in Sales /\ r.amount \in Nat
      BY <1>0, CheckoutAssumption DEF Request
    <3>2. paid \in [Sales -> Nat] /\ paid' = [paid EXCEPT ![r.sale] = paid[r.sale] + r.amount]
      BY <1>0 DEF Commit, TypeOK
    <3> QED BY <3>1, <3>2
  <2>3. quantity' \in [Rows -> Nat]
    <3>1. \A k \in Rows : k \in took[h] => Need[r.sale][k] <= quantity[k]
      BY <1>0 DEF RowsHeld, InStock
    <3>2. \A k \in Rows : Need[r.sale][k] \in Nat /\ quantity[k] \in Nat
      BY <1>0, CheckoutAssumption DEF TypeOK, Request
    <3>3. \A k \in Rows : quantity'[k] \in Nat
      BY <3>1, <3>2, <1>5
    <3> QED BY <3>3 DEF Commit
  <2>4. status' \in [Sales -> {"PENDING", "COMPLETED", "CANCELLED"}]
    BY <1>0 DEF Commit, TypeOK
  <2>5. pc' \in [Handlers -> Places] /\ took' \in [Handlers -> SUBSET Rows]
    BY <1>0, <1>1 DEF Commit, TypeOK, Places
  <2>6. DOMAIN request' = {g \in Handlers : pc'[g] # "idle"}
    <3>1. \A g \in Handlers : pc'[g] # "idle" <=> pc[g] # "idle"
      BY <1>0, <1>1
    <3> QED BY <1>0, <1>1, <3>1 DEF TypeOK
  <2>7. /\ answered' \in [Handlers -> {"nothing", "created", "cached", "conflict",
                                       "refused", "failed", "lost"}]
        /\ wanted' \in [Handlers -> Rows \cup {NoRow}]
        /\ \A g \in DOMAIN request' : request'[g] \in Request
    BY <1>0, <1>1 DEF TypeOK
  <2> QED BY <2>1, <2>2, <2>3, <2>4, <2>5, <2>6, <2>7 DEF TypeOK
<1>7. \A g \in Handlers : pc[g] # "idle" => request[g] \in Request /\ g \in DOMAIN request
  BY <1>0 DEF TypeOK
<1>8. KeyHeld'
  BY <1>0, <1>1, <1>2, <1>7 DEF KeyHeld, RecordOf, SameKey, InTransaction, Request
<1>9. SaleHeld'
  BY <1>1, <1>3, <1>4, <1>7 DEF SaleHeld, Sellable, Payable, HoldsSale, SameSale, Request
<1>10. RowsHeld'
  <2>1. \A g \in Handlers : g # h => \A k \in took[g] : quantity'[k] = quantity[k]
    BY <1>0, <1>5 DEF RowsHeld, TypeOK
  <2> QED BY <1>0, <1>1, <2>1 DEF RowsHeld, InStock
<1>11. Told'
  <2>1. \A g \in Handlers : Winner(g) \/ answered[g] = "cached" =>
          g \in DOMAIN request /\ RecordOf(g) = Remembered(request[g]) /\ ~SameKey(g, h)
    BY <1>0, <1>2, <1>7, RememberedIsRecord DEF Told, TypeOK, RecordOf, SameKey
  <2>2. answered[h] = "nothing"
    BY <1>0 DEF Told
  <2>3. \A g \in Handlers : Winner(g)' <=> g = h \/ Winner(g)
    BY <1>0, <1>1, <2>2 DEF Winner
  <2>4. RecordOf(h)' = Remembered(request[h])
    BY <1>0, <1>1, <1>2 DEF RecordOf, Request
  <2>5. \A g \in Handlers : Winner(g) \/ answered[g] = "cached" => RecordOf(g)' = RecordOf(g)
    BY <1>0, <1>1, <1>2, <2>1 DEF RecordOf, Request, TypeOK, SameKey
  <2> QED BY <1>0, <1>1, <2>1, <2>2, <2>3, <2>4, <2>5 DEF Told, SameKey
<1> QED
  BY <1>6, <1>8, <1>9, <1>10, <1>11

(* Cancellations and withdrawals wait for the same locks. *)
LEMMA ElsewhereKeepsInv ==
  ASSUME Inv,
         (\E s \in Sales : CancelElsewhere(s)) \/ (\E k \in MayWithdraw : WithdrawElsewhere(k))
  PROVE  Inv'
<1> USE DEF Inv, Received, handlerVars
<1>0. TypeOK /\ \A g \in Handlers : pc[g] # "idle" => g \in DOMAIN request
  BY DEF TypeOK
<1>1. ASSUME NEW s \in Sales, CancelElsewhere(s) PROVE Inv'
  <2> USE <1>1 DEF CancelElsewhere
  <2>1. TypeOK' /\ KeyHeld' /\ RowsHeld' /\ Told'
    BY <1>0 DEF TypeOK, KeyHeld, RecordOf, SameKey, RowsHeld, InStock, Told, Winner
  <2>2. SaleHeld'
    BY <1>0 DEF TypeOK, SaleHeld, Sellable, Payable, HoldsSale, SameSale
  <2> QED BY <2>1, <2>2
<1>2. ASSUME NEW k \in MayWithdraw, WithdrawElsewhere(k) PROVE Inv'
  <2> USE <1>2, CheckoutAssumption DEF WithdrawElsewhere
  <2>1. TypeOK' /\ KeyHeld' /\ SaleHeld' /\ Told'
    BY <1>0 DEF TypeOK, KeyHeld, RecordOf, SameKey, SaleHeld, Sellable, Payable,
                HoldsSale, SameSale, Told, Winner
  <2>2. RowsHeld'
    BY <1>0 DEF TypeOK, RowsHeld, InStock, HoldsRow
  <2> QED BY <2>1, <2>2
<1> QED
  BY <1>1, <1>2

(* A handler on a cycle waits, so its request was received. *)
LEMMA DeadlockedWaits ==
  ASSUME NEW h \in Handlers, Deadlocked(h)
  PROVE  \E g \in Handlers : WaitsFor(h, g)
<1>1. PICK D \in SUBSET Handlers :
        /\ h \in D /\ D # {h}
        /\ \A S \in (SUBSET D) \ {{}, D} : \E g \in S, f \in D \ S : WaitsFor(g, f)
  BY DEF Deadlocked
<1>2. {h} \in (SUBSET D) \ {{}, D}
  BY <1>1
<1>3. \E g \in {h}, f \in D \ {h} : WaitsFor(g, f)
  BY <1>1, <1>2
<1> QED
  BY <1>3

(* The ways a handler can end, and what it knows when it does. *)
LEMMA Replies ==
  ASSUME Inv, NEW h \in Handlers,
         \/ Lookup(h) /\ ~(RecordOf(h) = NoRecord)
         \/ Recover(h) \/ NoCashSession(h) \/ Created(h) \/ DeadlockAbort(h) \/ Crash(h)
  PROVE  \E a \in {"created", "cached", "conflict", "refused", "failed", "lost"} :
           /\ h \in Received /\ pc[h] # "done" /\ Reply(h, a)
           /\ a \in {"created", "cached"} => RecordOf(h) = Remembered(request[h])
           /\ a = "created" => pc[h] = "answer"
           /\ a = "conflict" => RecordOf(h) \notin {NoRecord, Remembered(request[h])}
<1>0. pc[h] # "idle" => h \in Received
  BY DEF Inv, TypeOK
<1>1. CASE Lookup(h) /\ ~(RecordOf(h) = NoRecord)
  BY <1>0, <1>1 DEF Lookup, Goto
<1>2. CASE Recover(h)
  BY <1>0, <1>2 DEF Recover
<1>3. CASE NoCashSession(h)
  BY <1>0, <1>3 DEF NoCashSession, ReadyToCommit
<1>4. CASE Created(h)
  BY <1>0, <1>4 DEF Created, Inv, Told, Winner
<1>5. CASE DeadlockAbort(h)
  BY <1>5, DeadlockedWaits DEF DeadlockAbort, WaitsFor
<1>6. CASE Crash(h)
  BY <1>0, <1>6 DEF Crash
<1> QED
  BY <1>1, <1>2, <1>3, <1>4, <1>5, <1>6

LEMMA LookupKeepsInv ==
  ASSUME Inv, NEW h \in Handlers, Lookup(h), RecordOf(h) = NoRecord
  PROVE  Inv'
<1> USE DEF Lookup, Inv, Received
<1>0. TypeOK /\ h \in Received /\ pc[h] = "lookup" /\ RecordOf(h) # Remembered(request[h])
  BY RememberedIsRecord DEF TypeOK
<1>1. Goto(h, "insert")
  BY <1>0
<1>2. TypeOK' /\ UNCHANGED <<request, answered, wanted, took, committed>>
  BY <1>0, <1>1 DEF TypeOK, Places, Goto, committed
<1>3. \A g \in Handlers : pc'[g] = IF g = h THEN "insert" ELSE pc[g]
  BY <1>0, <1>1 DEF TypeOK, Goto
<1>4. KeyHeld'
  BY <1>2, <1>3 DEF KeyHeld, RecordOf, SameKey, InTransaction, committed
<1>5. SaleHeld'
  BY <1>2, <1>3 DEF SaleHeld, Sellable, Payable, HoldsSale, SameSale, committed
<1>6. RowsHeld'
  BY <1>0, <1>2, <1>3 DEF RowsHeld, InStock, committed
<1>7. Told'
  BY <1>0, <1>2, <1>3 DEF Told, Winner, RecordOf, SameKey, committed
<1> QED
  BY <1>2, <1>4, <1>5, <1>6, <1>7

LEMMA StepKeepsInv ==
  ASSUME Inv, NEW h \in Handlers, Step(h) \/ Crash(h)
  PROVE  Inv'
<1>0. pc[h] # "idle" => h \in Received
  BY DEF Inv, TypeOK
<1>1. CASE Lookup(h) /\ RecordOf(h) = NoRecord
  BY <1>1, LookupKeepsInv
<1>2. CASE Insert(h)
  BY <1>0, <1>2, InsertKeepsInv DEF Insert
<1>3. CASE LockSale(h)
  BY <1>0, <1>3, LockSaleKeepsInv DEF LockSale
<1>4. CASE LockRow(h)
  BY <1>0, <1>4, LockRowKeepsInv DEF LockRow
<1>5. CASE Commit(h)
  BY <1>0, <1>5, CommitKeepsInv DEF Commit, ReadyToCommit
<1>6. CASE \/ Lookup(h) /\ ~(RecordOf(h) = NoRecord)
           \/ Recover(h) \/ NoCashSession(h) \/ Created(h) \/ DeadlockAbort(h) \/ Crash(h)
  BY <1>6, Replies, ReplyKeepsInv
<1> QED
  BY <1>1, <1>2, <1>3, <1>4, <1>5, <1>6 DEF Step

LEMMA InvStep ==
  ASSUME Inv, [Next]_vars
  PROVE  Inv'
<1>1. CASE UNCHANGED vars
  BY <1>1 DEF vars, handlerVars, committed, Inv, TypeOK, Received, KeyHeld, SaleHeld,
              RowsHeld, Told, Winner, RecordOf, SameKey, SameSale, HoldsSale, Sellable,
              Payable, InStock
<1> QED
  BY <1>1, ReceiveKeepsInv, StepKeepsInv, ElsewhereKeepsInv DEF Next, Finished

-----------------------------------------------------------------------------
(* SuccessIsTrue holds in every state: a client that is told of success    *)
(* was served, and one client only is told that its request created it     *)
(* (checkout/route.ts, payments/route.ts).                                 *)
THEOREM SuccessIsAlwaysTrue == Spec => []SuccessIsTrue
<1>1. Inv => SuccessIsTrue
  BY DEF Inv, Told, Winner, SuccessIsTrue, TypeOK, Received
<1> QED
  BY InvInit, InvStep, <1>1, PTL DEF Spec

(* Every step of the routes is a step of the promise, or none of it. *)
LEMMA ReplyAnswers ==
  ASSUME Inv, NEW h \in Received, pc[h] # "done",
         NEW a \in {"created", "cached", "conflict", "refused", "failed", "lost"},
         a \in {"created", "cached"} => RecordOf(h) = Remembered(request[h]),
         a = "conflict" => RecordOf(h) \notin {NoRecord, Remembered(request[h])},
         Reply(h, a)
  PROVE  Promise!Next
<1>1. h \in Handlers /\ answered[h] = "nothing"
  BY DEF Inv, TypeOK, Told, Received
<1>2. Promise!Answer(h, a)
  BY <1>1 DEF Reply, committed, Promise!Answer, Promise!Remembered, RecordOf, Remembered
<1> QED
  BY <1>2 DEF Promise!Next, Promise!Answers, Promise!Received, Received

(* What the handler checked under its locks is still so: the commit takes  *)
(* effect as if the request had been served at once.                       *)
LEMMA CommitPerforms ==
  ASSUME Inv, NEW h \in Received, Commit(h)
  PROVE  Promise!Next
<1> DEFINE r == request[h]
<1>0. h \in Handlers /\ TypeOK /\ r \in Request /\ pc[h] \in {"rows", "pay"}
  BY DEF Inv, TypeOK, Commit, ReadyToCommit, Received
<1>1. record[r.kind][r.key] = NoRecord
  BY <1>0 DEF Inv, KeyHeld, RecordOf, InTransaction
<1>2. /\ record' = [record EXCEPT ![r.kind][r.key] = Promise!Remembered(r)]
      /\ paid' = [paid EXCEPT ![r.sale] = paid[r.sale] + r.amount]
      /\ UNCHANGED <<request, answered>>
  BY DEF Commit, Remembered, Promise!Remembered
<1>3. CASE pc[h] = "rows"
  <2>1. /\ r.kind = "checkout" /\ status[r.sale] = "PENDING" /\ r.amount = Total[r.sale]
        /\ status' = [status EXCEPT ![r.sale] = "COMPLETED"]
    BY <1>0, <1>3 DEF Inv, SaleHeld, Sellable, Commit
  <2>2. \A k \in Rows : k \notin took[h] => Need[r.sale][k] = 0
    BY <1>0, <1>3, CheckoutAssumption
    DEF Inv, RowsHeld, Commit, ReadyToCommit, Needed, Request
  <2>3. \A k \in Rows : Need[r.sale][k] \in Nat /\ quantity[k] \in Nat
    BY <1>0, CheckoutAssumption DEF TypeOK, Request
  <2>4. \A k \in Rows : Need[r.sale][k] <= quantity[k]
    BY <1>0, <2>2, <2>3 DEF Inv, RowsHeld, InStock
  <2>5. quantity' = [k \in Rows |-> quantity[k] - Need[r.sale][k]]
    BY <2>2, <2>3 DEF Commit
  <2>6. Promise!Perform(h)
    BY <1>1, <1>2, <2>1, <2>4, <2>5 DEF Promise!Perform
  <2> QED BY <2>6 DEF Promise!Next, Promise!Received, Received
<1>4. CASE pc[h] = "pay"
  <2>1. /\ r.kind = "payment" /\ status[r.sale] = "PENDING"
        /\ r.amount <= Total[r.sale] - paid[r.sale] /\ status' = status
    BY <1>0, <1>4 DEF Inv, SaleHeld, Payable, Commit
  <2>2. took[h] = {}
    BY <1>0, <1>4 DEF Inv, RowsHeld
  <2>3. quantity' = quantity
    BY <1>0, <2>2 DEF Commit, TypeOK
  <2>4. Promise!Perform(h)
    BY <1>1, <1>2, <2>1, <2>3 DEF Promise!Perform
  <2> QED BY <2>4 DEF Promise!Next, Promise!Received, Received
<1> QED
  BY <1>0, <1>3, <1>4

LEMMA NextKeepsPromise ==
  ASSUME Inv, [Next]_vars
  PROVE  [Promise!Next]_Promise!promised
<1>0. \A h \in Handlers : pc[h] # "idle" <=> h \in Received
  BY DEF Inv, TypeOK
<1>1. ASSUME NEW h \in Handlers, NEW r \in Request, Receive(h, r)
      PROVE  Promise!Next
  BY <1>0, <1>1 DEF Receive, committed, Promise!Next, Promise!Receive, Promise!Received,
     Received, Request, Kinds, Promise!Request, Promise!Kinds
<1>2. ASSUME NEW h \in Handlers, \/ Lookup(h) /\ RecordOf(h) = NoRecord
                                 \/ Insert(h)
      PROVE  UNCHANGED Promise!promised
  <2>1. RecordOf(h) = NoRecord /\ Lookup(h) => Goto(h, "insert")
    <3>1. pc[h] = "lookup" => RecordOf(h) # NoRecord \/ RecordOf(h) # Remembered(request[h])
      BY <1>0, RememberedIsRecord DEF Inv, TypeOK
    <3> QED BY <3>1 DEF Lookup
  <2> QED BY <1>2, <2>1 DEF Insert, Goto, committed, Promise!promised
<1>3. ASSUME NEW h \in Handlers,
             \/ Lookup(h) /\ ~(RecordOf(h) = NoRecord)
             \/ Recover(h) \/ NoCashSession(h) \/ Created(h) \/ DeadlockAbort(h) \/ Crash(h)
      PROVE  Promise!Next
  BY <1>3, Replies, ReplyAnswers
<1>4. ASSUME NEW h \in Handlers, LockSale(h) \/ LockRow(h)
      PROVE  [Promise!Next]_Promise!promised
  <2>1. h \in Received /\ pc[h] # "done"
    BY <1>0, <1>4 DEF LockSale, LockRow
  <2>2. Reply(h, "refused") => Promise!Next
    BY <2>1, ReplyAnswers
  <2> QED BY <1>4, <2>2 DEF LockSale, LockRow, Goto, committed, Promise!promised
<1>5. ASSUME NEW h \in Handlers, Commit(h)
      PROVE  Promise!Next
  BY <1>0, <1>5, CommitPerforms DEF Commit, ReadyToCommit
<1>6. ASSUME NEW s \in Sales, CancelElsewhere(s)
      PROVE  Promise!Next
  BY <1>6 DEF CancelElsewhere, handlerVars, Promise!Next, Promise!Elsewhere
<1>7. ASSUME NEW k \in MayWithdraw, WithdrawElsewhere(k)
      PROVE  Promise!Next
  BY <1>7, CheckoutAssumption
  DEF WithdrawElsewhere, handlerVars, Promise!Next, Promise!Elsewhere
<1>8. CASE UNCHANGED vars
  BY <1>8 DEF vars, handlerVars, committed, Promise!promised
<1> QED
  BY <1>1, <1>2, <1>3, <1>4, <1>5, <1>6, <1>7, <1>8 DEF Next, Step, Finished

(* The routes implement ExactlyOnce (KeepsPromise), its initial state and  *)
(* each of its steps, whatever handlers do to each other, crash or lose.   *)
THEOREM RoutesKeepPromise == Spec => KeepsPromise
<1>1. Init => Promise!Init
  BY DEF Init, Promise!Init, Kinds, Promise!Kinds
<1> QED
  BY InvInit, InvStep, NextKeepsPromise, <1>1, PTL DEF Spec, KeepsPromise, Promise!Spec

-----------------------------------------------------------------------------
(* What the records add up to. *)
Amount(kind, s) ==
  [key \in Keys |-> IF record[kind][key] # NoRecord /\ record[kind][key].sale = s
                    THEN record[kind][key].amount ELSE 0]

LEMMA RecordedAmount ==
  ASSUME NEW x \in Record \cup {NoRecord}, x # NoRecord
  PROVE  x.amount \in Nat
<1>1. x \in Record
  OBVIOUS
<1> QED
  BY <1>1, CheckoutAssumption DEF Record

LEMMA AmountIsNat ==
  ASSUME TypeOK, NEW kind \in Kinds, NEW s \in Sales
  PROVE  AmountFor(kind, s) = SumOver(Amount(kind, s), Keys) /\ AmountFor(kind, s) \in Nat
<1>1. \A key \in Keys : Amount(kind, s)[key] \in Nat
  <2>1. \A key \in Keys : record[kind][key] \in Record \cup {NoRecord}
    BY DEF TypeOK
  <2> QED BY <2>1, RecordedAmount DEF Amount
<1> QED
  BY <1>1, SumOverNat, CheckoutAssumption DEF AmountFor, Amount

LEMMA AmountGrows ==
  ASSUME Inv, Inv', NEW h \in Received, Commit(h), NEW kind \in Kinds, NEW s \in Sales
  PROVE  AmountFor(kind, s)' =
           AmountFor(kind, s) + IF kind = request[h].kind /\ s = request[h].sale
                                THEN request[h].amount ELSE 0
<1> DEFINE r == request[h]
<1>0. TypeOK /\ TypeOK' /\ r \in Request /\ r.amount \in Nat /\ h \in Handlers
  BY CheckoutAssumption DEF Inv, TypeOK, Received, Request
<1>1. record[r.kind][r.key] = NoRecord
  BY <1>0 DEF Inv, KeyHeld, RecordOf, InTransaction, Commit, ReadyToCommit
<1>2. record' = [record EXCEPT ![r.kind][r.key] = Remembered(r)] /\ Remembered(r) # NoRecord
  BY <1>0, RememberedIsRecord DEF Commit
<1>3. \A key \in Keys : Amount(kind, s)[key] \in Nat /\ Amount(kind, s)'[key] \in Nat
  <2>1. \A key \in Keys : /\ record[kind][key] \in Record \cup {NoRecord}
                          /\ record'[kind][key] \in Record \cup {NoRecord}
    BY <1>0 DEF TypeOK, Record, Kinds, Places
  <2> QED BY <2>1, RecordedAmount DEF Amount
<1>4. /\ AmountFor(kind, s) = SumOver(Amount(kind, s), Keys)
      /\ AmountFor(kind, s)' = SumOver(Amount(kind, s)', Keys)
      /\ AmountFor(kind, s) \in Nat
  BY <1>0, AmountIsNat DEF AmountFor, Amount
<1>5. \A key \in Keys : kind # r.kind \/ key # r.key =>
        Amount(kind, s)'[key] = Amount(kind, s)[key]
  BY <1>0, <1>2 DEF Amount, TypeOK, Request, Kinds
<1>6. CASE kind = r.kind /\ s = r.sale
  <2>1. r.key \in Keys /\ Amount(kind, s)[r.key] = 0 /\ Amount(kind, s)'[r.key] = r.amount
    BY <1>0, <1>1, <1>2, <1>6 DEF Amount, TypeOK, Request, Remembered
  <2>2. SumOver(Amount(kind, s)', Keys)
          = SumOver(Amount(kind, s), Keys) + (Amount(kind, s)'[r.key] - Amount(kind, s)[r.key])
    <3> HIDE DEF r
    <3> QED BY <1>3, <1>5, <2>1, SumOverChange, CheckoutAssumption
  <2> QED BY <1>0, <1>4, <1>6, <2>1, <2>2
<1>7. CASE ~(kind = r.kind /\ s = r.sale)
  <2>1. kind = r.kind => Amount(kind, s)[r.key] = 0 /\ Amount(kind, s)'[r.key] = 0
    BY <1>0, <1>1, <1>2, <1>7 DEF Amount, TypeOK, Request, Remembered
  <2>2. \A key \in Keys : Amount(kind, s)'[key] = Amount(kind, s)[key]
    BY <1>5, <2>1
  <2>3. SumOver(Amount(kind, s)', Keys) = SumOver(Amount(kind, s), Keys)
    BY <2>2, SumOverEqual, CheckoutAssumption
  <2> QED BY <1>4, <1>7, <2>3
<1> QED
  BY <1>6, <1>7

MoneyInv == PaidOncePerKey /\ PaymentsWithinTotal

LEMMA MoneyInit == Init => MoneyInv
<1> SUFFICES ASSUME Init PROVE MoneyInv
  OBVIOUS
<1>1. \A kind \in Kinds, s \in Sales : AmountFor(kind, s) = 0
  <2> TAKE kind \in Kinds, s \in Sales
  <2>1. TypeOK /\ \A key \in Keys : Amount(kind, s)[key] = 0
    BY InvInit DEF Init, Inv, Amount
  <2> QED BY <2>1, AmountIsNat, SumOverZero, CheckoutAssumption
<1>2. \A s \in Sales : paid[s] = 0 /\ Total[s] \in Nat
  BY CheckoutAssumption DEF Init
<1> QED
  BY <1>1, <1>2 DEF MoneyInv, PaidOncePerKey, PaymentsWithinTotal, Kinds

LEMMA CommitKeepsMoney ==
  ASSUME Inv, Inv', MoneyInv, NEW h \in Received, Commit(h)
  PROVE  MoneyInv'
<1> DEFINE r == request[h]
<1>0. /\ TypeOK /\ r \in Request /\ r.sale \in Sales /\ r.amount \in Nat
      /\ r.kind \in {"checkout", "payment"} /\ h \in Handlers
  BY CheckoutAssumption DEF Inv, TypeOK, Received, Request, Kinds
<1>1. \A s \in Sales : /\ paid'[s] = IF s = r.sale THEN paid[s] + r.amount ELSE paid[s]
                       /\ paid[s] \in Nat /\ Total[s] \in Nat
  BY <1>0, CheckoutAssumption DEF Commit, TypeOK
<1>2. ASSUME NEW s \in Sales
      PROVE  /\ AmountFor("checkout", s) \in Nat /\ AmountFor("payment", s) \in Nat
             /\ AmountFor("checkout", s)' = AmountFor("checkout", s)
                  + IF "checkout" = r.kind /\ s = r.sale THEN r.amount ELSE 0
             /\ AmountFor("payment", s)' = AmountFor("payment", s)
                  + IF "payment" = r.kind /\ s = r.sale THEN r.amount ELSE 0
  BY <1>0, AmountIsNat, AmountGrows DEF Kinds
<1>3. r.kind = "payment" => r.amount <= Total[r.sale] - paid[r.sale]
  BY <1>0 DEF Inv, SaleHeld, Payable, Commit, ReadyToCommit
<1>4. ASSUME NEW s \in Sales
      PROVE  /\ paid'[s] = AmountFor("checkout", s)' + AmountFor("payment", s)'
             /\ AmountFor("payment", s)' <= Total[s]
  <2>1. /\ paid[s] = AmountFor("checkout", s) + AmountFor("payment", s)
        /\ AmountFor("payment", s) <= Total[s]
    BY DEF MoneyInv, PaidOncePerKey, PaymentsWithinTotal
  <2> HIDE DEF r
  <2>2. CASE s = r.sale
    BY <1>0, <1>1, <1>2, <1>3, <2>1, <2>2
  <2>3. CASE s # r.sale
    BY <1>0, <1>1, <1>2, <2>1, <2>3
  <2> QED BY <2>2, <2>3
<1> QED
  BY <1>4 DEF MoneyInv, PaidOncePerKey, PaymentsWithinTotal

(* Nothing but a commit writes a record or a payment. *)
LEMMA OnlyCommitWrites ==
  ASSUME [Next]_vars, \A h \in Handlers : ~Commit(h)
  PROVE  UNCHANGED <<record, paid>>
BY DEF Next, Step, Finished, Receive, Lookup, Insert, Recover, LockSale, LockRow,
       NoCashSession, Created, DeadlockAbort, Crash, CancelElsewhere, WithdrawElsewhere,
       Goto, Reply, vars, committed, handlerVars

LEMMA MoneyStep ==
  ASSUME Inv, Inv', MoneyInv, [Next]_vars
  PROVE  MoneyInv'
<1>1. CASE \E h \in Handlers : Commit(h)
  <2>1. \A h \in Handlers : Commit(h) => h \in Received
    BY DEF Inv, TypeOK, Commit, ReadyToCommit
  <2> QED BY <1>1, <2>1, CommitKeepsMoney
<1>2. CASE \A h \in Handlers : ~Commit(h)
  <2>1. UNCHANGED <<record, paid>>
    BY <1>2, OnlyCommitWrites
  <2> QED BY <2>1 DEF MoneyInv, PaidOncePerKey, PaymentsWithinTotal, AmountFor
<1> QED
  BY <1>1, <1>2

(* PaidOncePerKey holds in every state: what a sale received is one        *)
(* payment for each key, however often clients repeat a request.           *)
THEOREM KeysPayOnce == Spec => []PaidOncePerKey
<1>1. Inv /\ MoneyInv /\ [Next]_vars => (Inv /\ MoneyInv)'
  BY InvStep, MoneyStep
<1>2. Inv /\ MoneyInv => PaidOncePerKey
  BY DEF MoneyInv
<1> QED
  BY InvInit, MoneyInit, <1>1, <1>2, PTL DEF Spec

(* PaymentsWithinTotal holds in every state: what the requests of the      *)
(* payments route took of a sale, in whatever order they ran, is never     *)
(* more than its total. What a checkout takes is not part of the sum.      *)
THEOREM PaymentsStayWithinTotal == Spec => []PaymentsWithinTotal
<1>1. Inv /\ MoneyInv /\ [Next]_vars => (Inv /\ MoneyInv)'
  BY InvStep, MoneyStep
<1>2. Inv /\ MoneyInv => PaymentsWithinTotal
  BY DEF MoneyInv
<1> QED
  BY InvInit, MoneyInit, <1>1, <1>2, PTL DEF Spec

-----------------------------------------------------------------------------
(* Which keys checked a sale out. *)
CheckedOutBy(s) ==
  {key \in Keys : /\ record["checkout"][key] # NoRecord
                  /\ record["checkout"][key].sale = s}

(* OneCheckoutPerSale without counting. *)
OneInv ==
  \A s \in Sales :
    /\ status[s] = "COMPLETED" => \E key \in Keys : CheckedOutBy(s) = {key}
    /\ status[s] # "COMPLETED" => CheckedOutBy(s) = {}

LEMMA OneInvCounts == OneInv => OneCheckoutPerSale
<1> SUFFICES ASSUME OneInv, NEW s \in Sales
             PROVE  Cardinality(CheckedOutBy(s)) = IF status[s] = "COMPLETED" THEN 1 ELSE 0
  BY DEF OneCheckoutPerSale, CheckedOutBy
<1>1. /\ status[s] = "COMPLETED" => \E key \in Keys : CheckedOutBy(s) = {key}
      /\ status[s] # "COMPLETED" => CheckedOutBy(s) = {}
  BY DEF OneInv
<1> HIDE DEF CheckedOutBy
<1> QED
  BY <1>1, FS_Singleton, FS_EmptySet

LEMMA CommitChecksOutOnce ==
  ASSUME Inv, OneInv, NEW h \in Received, Commit(h)
  PROVE  OneInv'
<1> DEFINE r == request[h]
<1>0. /\ TypeOK /\ r \in Request /\ r.kind \in Kinds /\ r.key \in Keys /\ r.sale \in Sales
      /\ h \in Handlers
  BY DEF Inv, TypeOK, Request, Received
<1>1. record' = [record EXCEPT ![r.kind][r.key] = Remembered(r)]
  BY DEF Commit
<1>2. Remembered(r) # NoRecord /\ Remembered(r).sale = r.sale
  BY <1>0, RememberedIsRecord DEF Remembered
<1> SUFFICES ASSUME NEW s \in Sales
             PROVE  /\ status'[s] = "COMPLETED" => \E key \in Keys : CheckedOutBy(s)' = {key}
                    /\ status'[s] # "COMPLETED" => CheckedOutBy(s)' = {}
  BY DEF OneInv
<1>3. CASE r.kind = "checkout" /\ s = r.sale
  <2>1. status[s] = "PENDING"
    BY <1>0, <1>3 DEF Inv, SaleHeld, Sellable, Commit, ReadyToCommit
  <2>2. CheckedOutBy(s) = {}
    BY <2>1 DEF OneInv
  <2>3. \A key \in Keys : key \in CheckedOutBy(s)' <=> key = r.key
    <3> TAKE key \in Keys
    <3>1. CASE key = r.key
      BY <1>0, <1>1, <1>2, <1>3, <3>1 DEF TypeOK, CheckedOutBy
    <3>2. CASE key # r.key
      <4>1. record'["checkout"][key] = record["checkout"][key]
        BY <1>0, <1>1, <1>3, <3>2 DEF TypeOK
      <4> QED BY <2>2, <3>2, <4>1 DEF CheckedOutBy
    <3> QED BY <3>1, <3>2
  <2>4. CheckedOutBy(s)' = {r.key}
    BY <1>0, <2>3 DEF CheckedOutBy
  <2>5. status'[s] = "COMPLETED"
    BY <1>0, <1>3 DEF TypeOK, Commit
  <2> QED BY <1>0, <2>4, <2>5
<1>4. CASE ~(r.kind = "checkout" /\ s = r.sale)
  <2>1. status'[s] = status[s]
    BY <1>0, <1>4 DEF TypeOK, Commit
  <2>2. \A key \in Keys : key \in CheckedOutBy(s)' <=> key \in CheckedOutBy(s)
    <3> TAKE key \in Keys
    <3>1. CASE r.kind = "checkout" /\ key = r.key
      <4>1. record["checkout"][key] = NoRecord
        BY <1>0, <3>1 DEF Inv, KeyHeld, RecordOf, InTransaction, Commit, ReadyToCommit
      <4>2. record'["checkout"][key] = Remembered(r)
        BY <1>0, <1>1, <3>1 DEF TypeOK
      <4> QED BY <1>2, <1>4, <3>1, <4>1, <4>2 DEF CheckedOutBy
    <3>2. CASE ~(r.kind = "checkout" /\ key = r.key)
      <4>1. record'["checkout"][key] = record["checkout"][key]
        BY <1>0, <1>1, <3>2 DEF TypeOK, Kinds
      <4> QED BY <4>1 DEF CheckedOutBy
    <3> QED BY <3>1, <3>2
  <2>3. CheckedOutBy(s)' = CheckedOutBy(s)
    BY <2>2 DEF CheckedOutBy
  <2> QED BY <2>1, <2>3 DEF OneInv
<1> QED
  BY <1>3, <1>4

(* OneCheckoutPerSale holds in every state of the two routes: one checkout *)
(* for each sale they completed, and none for the others, whatever keys    *)
(* are used.                                                               *)
THEOREM SalesAreCheckedOutOnce == Spec => []OneCheckoutPerSale
<1>1. Init => OneInv
  BY DEF Init, OneInv, CheckedOutBy, Kinds
<1>2. ASSUME Inv, OneInv, [Next]_vars
      PROVE  OneInv'
  <2>1. CASE \E h \in Handlers : Commit(h)
    <3>1. \A h \in Handlers : Commit(h) => h \in Received
      BY <1>2 DEF Inv, TypeOK, Commit, ReadyToCommit
    <3> QED BY <1>2, <2>1, <3>1, CommitChecksOutOnce
  <2>2. CASE \A h \in Handlers : ~Commit(h)
    <3>1. UNCHANGED record
      BY <1>2, <2>2, OnlyCommitWrites
    <3>2. \A s \in Sales : status'[s] = "COMPLETED" <=> status[s] = "COMPLETED"
      <4>1. CASE \E s \in Sales : CancelElsewhere(s)
        BY <1>2, <4>1 DEF CancelElsewhere, Inv, TypeOK
      <4>2. CASE ~\E s \in Sales : CancelElsewhere(s)
        BY <1>2, <2>2, <4>2
        DEF Next, Step, Finished, Receive, Lookup, Insert, Recover, LockSale, LockRow,
            NoCashSession, Created, DeadlockAbort, Crash, WithdrawElsewhere, Goto, Reply,
            vars, committed, handlerVars
      <4> QED BY <4>1, <4>2
    <3> QED BY <1>2, <3>1, <3>2 DEF OneInv, CheckedOutBy
  <2> QED BY <2>1, <2>2
<1>3. Inv /\ OneInv /\ [Next]_vars => (Inv /\ OneInv)'
  BY InvStep, <1>2
<1> QED
  BY InvInit, OneInvCounts, <1>1, <1>3, PTL DEF Spec

-----------------------------------------------------------------------------
(* The page at the till.                                                   *)
Busy == attempt.at # "idle"

SaleRows == [try : Nat, variant : Variants, units : Nat \ {0}]

Attempts ==
  [at : {"idle", "items", "sync", "pay", "paid"}, try : Nat, sale : SaleIds \cup {NoSale},
   basket : Nat, goods : Carts, old : SUBSET SaleRows, left : SUBSET Variants,
   total : Int, mixed : BOOLEAN]

Calls ==
  [kind : {"delete", "post", "pay"}, sale : SaleIds, row : SUBSET SaleRows, amount : Int,
   basket : Nat, try : Nat]

PageTypes ==
  /\ cart \in Carts
  /\ sale \in SaleIds \cup {NoSale} /\ shown \in SaleIds \cup {NoSale}
  /\ creating \subseteq SaleIds /\ overlapped \subseteq SaleIds
  /\ stored \in [sale : SaleIds \cup {NoSale}, cart : Carts, basket : Nat]
  /\ stored # Nothing => stored.sale \in SaleIds /\ stored.basket # 0
  /\ saleStatus \in [SaleIds -> {"NONE", "PENDING", "COMPLETED"}]
  /\ rows \in [SaleIds -> SUBSET SaleRows] /\ \A s \in SaleIds : IsFiniteSet(rows[s])
  /\ bought \in [SaleIds -> Nat]
  /\ late \subseteq Calls /\ \A q \in late : IsFiniteSet(q.row)
  /\ basket \in Nat \ {0}
  /\ attempt \in Attempts
  /\ Busy => /\ attempt.sale \in SaleIds /\ attempt.basket # 0
             /\ \A v \in attempt.left : attempt.goods[v] > 0

(* What a request is about is either refused or done.                      *)
LEMMA UnitsType ==
  ASSUME NEW R \in SUBSET SaleRows, IsFiniteSet(R)
  PROVE  UnitsIn(R) \in Nat
<1> DEFINE f == [r \in R |-> r.units]
<1>1. \A r \in R : f[r] \in Nat
  BY DEF SaleRows
<1> HIDE DEF f
<1>2. SumOver(f, R) \in Nat
  BY <1>1, SumOverNat
<1> QED BY <1>2 DEF f, UnitsIn

LEMMA EmptyCart == Empty \in Carts /\ 0 .. MaxUnits \subseteq Nat /\ NoSale \notin SaleIds
BY TerminalAssumption DEF Empty, Carts, NoSale, SaleIds

LEMMA IdleTypes ==
  ASSUME NEW n \in Nat
  PROVE  Idle(n) \in Attempts /\ Idle(n).at = "idle" /\ Idle(n).try = n
BY EmptyCart DEF Idle, Attempts

(* A request or an answer that the attempt does not survive.               *)
LEMMA StopTypes ==
  ASSUME PageTypes, Stop
  PROVE  attempt' \in Attempts /\ attempt'.at = "idle" /\ attempt'.try = attempt.try
<1>1. attempt.try \in Nat /\ attempt' = Idle(attempt.try)
  BY DEF PageTypes, Attempts, Stop
<1> QED BY <1>1, IdleTypes

LEMMA PerformTypes ==
  ASSUME PageTypes, NEW q \in Calls, IsFiniteSet(q.row), Perform(q)
  PROVE  /\ rows' \in [SaleIds -> SUBSET SaleRows] /\ \A s \in SaleIds : IsFiniteSet(rows'[s])
         /\ bought' \in [SaleIds -> Nat]
         /\ saleStatus' \in [SaleIds -> {"NONE", "PENDING", "COMPLETED"}]
<1> USE DEF PageTypes, Perform
<1>1. q.sale \in SaleIds /\ q.basket \in Nat /\ q.row \subseteq SaleRows
  BY DEF Calls
<1>2. \A s \in SaleIds : rows'[s] \in {rows[s], rows[s] \ q.row, rows[s] \cup q.row}
  BY <1>1
<1>3. \A s \in SaleIds : IsFiniteSet(rows'[s])
  BY <1>2, FS_Subset, FS_Union
<1>4. rows' \in [SaleIds -> SUBSET SaleRows]
  BY <1>1
<1>5. bought' \in [SaleIds -> Nat] /\ saleStatus' \in [SaleIds -> {"NONE", "PENDING", "COMPLETED"}]
  BY <1>1
<1> QED BY <1>3, <1>4, <1>5

(* What a request given up may become.                                     *)
LEMMA SendTypes ==
  ASSUME PageTypes, Busy, NEW q \in Calls, IsFiniteSet(q.row), NEW next \in Attempts,
         next.at # "idle", next.sale = attempt.sale, next.basket = attempt.basket,
         next.goods = attempt.goods, next.left \subseteq attempt.left,
         Send(q, next), UNCHANGED <<page, basket, overlapped>>
  PROVE  PageTypes'
<1> USE DEF PageTypes, page, server
<1>1. CASE Perform(q) /\ attempt' = next /\ late' = late
  BY <1>1, PerformTypes DEF Busy
<1>2. CASE Stop /\ UNCHANGED server /\ (late' = late \/ late' = late \cup {q})
  <2>1. attempt' \in Attempts /\ attempt'.at = "idle"
    BY <1>2, StopTypes
  <2> QED BY <1>2, <2>1 DEF Busy
<1> QED BY <1>1, <1>2 DEF Send

LEMMA PageTypesInit == PageInit => PageTypes
<1> SUFFICES ASSUME PageInit PROVE PageTypes
  OBVIOUS
<1>1. attempt \in Attempts /\ attempt.at = "idle"
  BY EmptyCart DEF PageInit, Idle, Attempts
<1>2. stored \in [sale : SaleIds \cup {NoSale}, cart : Carts, basket : Nat]
  BY EmptyCart DEF PageInit, Nothing
<1> QED BY <1>1, <1>2, EmptyCart, FS_EmptySet DEF PageInit, PageTypes, Busy

LEMMA PageTypesStep ==
  ASSUME PageTypes, [PageNext]_pageVars
  PROVE  PageTypes'
<1> USE DEF page, server
<1>0. PageTypes /\ TerminalAssumption
  BY TerminalAssumption
<1>1. ASSUME NEW v \in Variants, AddToCart(v) PROVE PageTypes'
  <2>1. cart' \in Carts
    BY <1>0, <1>1, EmptyCart DEF AddToCart, Put, Carts, PageTypes, TerminalAssumption
  <2>2. CASE CreateSale
    BY <1>0, <1>1, <2>1, <2>2 DEF AddToCart, Put, CreateSale, Unused, PageTypes, Busy
  <2>3. CASE UNCHANGED <<saleStatus, creating, overlapped>>
    BY <1>0, <1>1, <2>1, <2>3 DEF AddToCart, Put, PageTypes, Busy
  <2> QED BY <1>1, <2>2, <2>3 DEF AddToCart
<1>2. ASSUME NEW s \in creating, SaleCreated(s) PROVE PageTypes'
  BY <1>0, <1>2 DEF SaleCreated, PageTypes, Busy
<1>3. ASSUME NEW v \in Variants, NEW n \in 0 .. MaxUnits, UpdateQuantity(v, n) PROVE PageTypes'
  <2>1. cart' \in Carts
    BY <1>0, <1>3 DEF UpdateQuantity, Carts, PageTypes
  <2> QED BY <1>0, <1>3, <2>1 DEF UpdateQuantity, PageTypes, Busy
<1>4. CASE ClearCart
  BY <1>0, <1>4, EmptyCart DEF ClearCart, NextBasket, PageTypes, Busy
<1>5. CASE NewSale
  BY <1>0, <1>5 DEF NewSale, PageTypes, Busy
<1>6. CASE Leave
  BY <1>0, <1>6, EmptyCart DEF Leave, NextBasket, PageTypes, Busy
<1>7. CASE Return
  <2>1. stored' \in [sale : SaleIds \cup {NoSale}, cart : Carts, basket : Nat]
    BY <1>7, EmptyCart DEF Return, Nothing
  <2>2. stored \in [sale : SaleIds \cup {NoSale}, cart : Carts, basket : Nat]
    BY <1>0 DEF PageTypes
  <2>3. cart' \in Carts /\ sale' \in SaleIds \cup {NoSale} /\ basket' \in Nat \ {0}
    BY <1>0, <1>7, <2>2 DEF Return, PageTypes
  <2> QED BY <1>0, <1>7, <2>1, <2>3 DEF Return, PageTypes, Busy
<1>8. CASE Confirm
  <2>1. /\ attempt' \in Attempts /\ attempt'.sale = sale /\ attempt'.basket = basket
        /\ attempt'.goods = cart /\ attempt'.left = InHand
    <3>1. attempt.try + 1 \in Nat /\ cart \in Carts /\ sale \in SaleIds \cup {NoSale}
          /\ basket \in Nat /\ InHand \subseteq Variants
      BY <1>0 DEF PageTypes, Attempts, InHand
    <3>2. Idle(attempt.try + 1) \in Attempts
      BY <3>1, IdleTypes
    <3> QED BY <1>8, <3>1, <3>2 DEF Confirm, Attempts
  <2> QED BY <1>0, <1>8, <2>1 DEF Confirm, PageTypes, Busy, InHand
<1>9. CASE ReadItems
  <2>1. CASE Stop
    BY <1>0, <1>9, <2>1, StopTypes DEF ReadItems, PageTypes, Busy
  <2>2. CASE attempt' = [attempt EXCEPT !.at = "sync", !.old = rows[attempt.sale]]
    <3>1. rows[attempt.sale] \subseteq SaleRows /\ attempt \in Attempts /\ Busy
      BY <1>0, <1>9 DEF ReadItems, PageTypes, Busy
    <3>2. /\ attempt' \in Attempts /\ attempt'.sale = attempt.sale
          /\ attempt'.basket = attempt.basket /\ attempt'.goods = attempt.goods
          /\ attempt'.left = attempt.left
      BY <2>2, <3>1 DEF Attempts
    <3> QED BY <1>0, <1>9, <3>1, <3>2 DEF ReadItems, PageTypes, Busy
  <2> QED BY <1>9, <2>1, <2>2 DEF ReadItems
<1>10. ASSUME NEW r \in attempt.old, DeleteItem(r) PROVE PageTypes'
  <2> DEFINE q == [Requests("delete", attempt.sale) EXCEPT !.row = {r}]
             next == [attempt EXCEPT !.old = @ \ {r}]
  <2>1. Busy /\ r \in SaleRows /\ attempt \in Attempts /\ attempt.sale \in SaleIds
    BY <1>0, <1>10 DEF PageTypes, Busy, DeleteItem, Attempts
  <2>2. q \in Calls /\ q.row = {r}
    BY <2>1 DEF Requests, Calls, Attempts
  <2>3. /\ next \in Attempts /\ next.at = attempt.at /\ next.sale = attempt.sale
        /\ next.basket = attempt.basket /\ next.goods = attempt.goods /\ next.left = attempt.left
    BY <2>1 DEF Attempts
  <2>4. Send(q, next) /\ UNCHANGED <<page, basket, overlapped>>
    BY <1>10 DEF DeleteItem
  <2> HIDE DEF q, next
  <2>5. IsFiniteSet(q.row) /\ next.at # "idle" /\ next.left \subseteq attempt.left
    BY <2>1, <2>2, <2>3, FS_Singleton DEF Busy
  <2> QED BY <1>0, <2>1, <2>2, <2>3, <2>4, <2>5, SendTypes
<1>11. ASSUME NEW v \in attempt.left, PostItem(v) PROVE PageTypes'
  <2> DEFINE r == [try |-> attempt.try, variant |-> v, units |-> attempt.goods[v]]
             q == [Requests("post", attempt.sale) EXCEPT !.row = {r}]
             next == [attempt EXCEPT !.left = @ \ {v}]
  <2>1. Busy /\ attempt \in Attempts /\ attempt.sale \in SaleIds /\ v \in Variants
    BY <1>0, <1>11 DEF PageTypes, Busy, PostItem, Attempts
  <2>2. r \in SaleRows
    BY <1>0, <2>1, EmptyCart DEF PageTypes, SaleRows, Attempts, Carts
  <2>3. q \in Calls /\ q.row = {r}
    <3> HIDE DEF r
    <3> QED BY <2>1, <2>2 DEF Requests, Calls, Attempts
  <2>4. /\ next \in Attempts /\ next.at = attempt.at /\ next.sale = attempt.sale
        /\ next.basket = attempt.basket /\ next.goods = attempt.goods
        /\ next.left \subseteq attempt.left
    BY <2>1 DEF Attempts
  <2>5. Send(q, next) /\ UNCHANGED <<page, basket, overlapped>>
    BY <1>11 DEF PostItem
  <2> HIDE DEF q, next
  <2>6. IsFiniteSet(q.row) /\ next.at # "idle"
    BY <2>1, <2>3, <2>4, FS_Singleton DEF Busy
  <2> QED BY <1>0, <2>1, <2>3, <2>4, <2>5, <2>6, SendTypes
<1>12. CASE ReadTotal
  <2>1. CASE Stop
    BY <1>0, <1>12, <2>1, StopTypes DEF ReadTotal, PageTypes, Busy
  <2>2. CASE attempt' = [attempt EXCEPT !.at = "pay", !.total = TotalOf(attempt.sale)]
    <3>1. attempt \in Attempts /\ Busy /\ attempt.sale \in SaleIds
      BY <1>0, <1>12 DEF ReadTotal, PageTypes, Busy
    <3>2. TotalOf(attempt.sale) \in Int
      BY <1>0, <3>1, UnitsType DEF PageTypes, TotalOf
    <3>3. /\ attempt' \in Attempts /\ attempt'.sale = attempt.sale
          /\ attempt'.basket = attempt.basket /\ attempt'.goods = attempt.goods
          /\ attempt'.left = attempt.left
      BY <2>2, <3>1, <3>2 DEF Attempts
    <3> QED BY <1>0, <1>12, <3>1, <3>3 DEF ReadTotal, PageTypes, Busy
  <2> QED BY <1>12, <2>1, <2>2 DEF ReadTotal
<1>13. CASE Pay
  <2> DEFINE next == [attempt EXCEPT !.at = "paid"]
  <2>1. Busy /\ attempt \in Attempts /\ attempt.sale \in SaleIds
    BY <1>0, <1>13 DEF PageTypes, Busy, Pay, Attempts
  <2>2. Payment \in Calls /\ Payment.row = {}
    BY <2>1 DEF Payment, Requests, Calls, Attempts
  <2>3. /\ next \in Attempts /\ next.at = "paid" /\ next.sale = attempt.sale
        /\ next.basket = attempt.basket /\ next.goods = attempt.goods /\ next.left = attempt.left
    BY <2>1 DEF Attempts
  <2>4. Send(Payment, next) /\ UNCHANGED <<page, basket, overlapped>>
    BY <1>13 DEF Pay
  <2> HIDE DEF next
  <2> QED BY <1>0, <2>1, <2>2, <2>3, <2>4, FS_EmptySet, SendTypes DEF Busy
<1>14. CASE CashClosed
  <2>1. attempt' \in Attempts /\ attempt'.at = "idle"
    BY <1>0, <1>14, StopTypes DEF CashClosed
  <2>2. /\ stored' \in [sale : SaleIds \cup {NoSale}, cart : Carts, basket : Nat]
        /\ stored' # Nothing => stored'.sale \in SaleIds /\ stored'.basket # 0
    BY <1>0, <1>14 DEF CashClosed, Attempts, PageTypes, Busy
  <2> QED BY <1>0, <1>14, <2>1, <2>2, EmptyCart DEF CashClosed, NextBasket, PageTypes, Busy
<1>15. CASE Completed
  <2>1. attempt' \in Attempts /\ attempt'.at = "idle" /\ attempt.sale \in SaleIds
    BY <1>0, <1>15 DEF Completed, Attempts, PageTypes, Busy
  <2>2. stored' \in [sale : SaleIds \cup {NoSale}, cart : Carts, basket : Nat]
    BY <1>15, EmptyCart DEF Completed, Nothing
  <2> QED BY <1>0, <1>15, <2>1, <2>2, EmptyCart DEF Completed, NextBasket, PageTypes, Busy
<1>16. ASSUME NEW q \in late, Land(q) PROVE PageTypes'
  <2>1. q \in Calls /\ IsFiniteSet(q.row)
    BY <1>0 DEF PageTypes
  <2>2. /\ rows' \in [SaleIds -> SUBSET SaleRows] /\ \A s \in SaleIds : IsFiniteSet(rows'[s])
        /\ bought' \in [SaleIds -> Nat]
        /\ saleStatus' \in [SaleIds -> {"NONE", "PENDING", "COMPLETED"}]
    <3>1. CASE Perform(q)
      BY <1>0, <2>1, <3>1, PerformTypes
    <3>2. CASE UNCHANGED server
      BY <1>0, <3>2 DEF PageTypes
    <3> QED BY <1>16, <3>1, <3>2 DEF Land
  <2>3. /\ attempt' \in Attempts /\ attempt'.at = attempt.at /\ attempt'.sale = attempt.sale
        /\ attempt'.basket = attempt.basket /\ attempt'.goods = attempt.goods
        /\ attempt'.left = attempt.left
    <3>1. PICK b \in BOOLEAN : attempt' = [attempt EXCEPT !.mixed = b]
      BY <1>0, <1>16 DEF Land, PageTypes, Attempts
    <3> QED BY <1>0, <3>1 DEF PageTypes, Attempts
  <2> QED BY <1>0, <1>16, <2>2, <2>3 DEF Land, PageTypes, Busy
<1>17. CASE UNCHANGED pageVars
  BY <1>0, <1>17 DEF pageVars, PageTypes, Busy
<1> QED
  BY <1>1, <1>2, <1>3, <1>4, <1>5, <1>6, <1>7, <1>8, <1>9, <1>10, <1>11, <1>12, <1>13,
     <1>14, <1>15, <1>16, <1>17 DEF PageNext, Proceed

-----------------------------------------------------------------------------
(* One payment for a basket.  Together: if not the same, then asked for    *)
(* before the other had arrived.                                           *)
Together(s, t) == s # t => {s, t} \subseteq overlapped

Shape ==
  /\ away \/ shown # NoSale => ~Busy
  /\ stored # Nothing => away
  /\ away => creating = {}
  /\ \A s, t \in creating : Together(s, t)
  /\ sale # NoSale => \A s \in creating : {s, sale} \subseteq overlapped

(* Sale s was paid for basket b, or may still be.                          *)
Claimed(s, b) ==
  \/ bought[s] = b
  \/ \E q \in late : q.kind = "pay" /\ q.sale = s /\ q.basket = b
  \/ Busy /\ attempt.sale = s /\ attempt.basket = b

(* The page goes back to the basket that it stored, and to no other: no    *)
(* later one was confirmed by then.                                        *)
Once ==
  \A s \in SaleIds, b \in Nat \ {0} : Claimed(s, b) =>
    /\ \A t \in SaleIds : Claimed(t, b) => Together(s, t)
    /\ b <= basket
    /\ Busy => b <= attempt.basket
    /\ b = basket => sale # NoSale /\ Together(s, sale)
    /\ stored # Nothing => /\ b <= stored.basket
                           /\ b = stored.basket => Together(s, stored.sale)

PayInv == PageTypes /\ Shape /\ Once

LEMMA ShapeStep ==
  ASSUME PageTypes, Shape, PageTypes', [PageNext]_pageVars
  PROVE  Shape'
<1> USE DEF Shape, Together, page, server, Busy
<1>1. ASSUME NEW v \in Variants, AddToCart(v) PROVE Shape'
  BY <1>1 DEF AddToCart, Put, OnPage, CreateSale
<1>2. ASSUME NEW s \in creating, SaleCreated(s) PROVE Shape'
  BY <1>2 DEF SaleCreated
<1>3. ASSUME NEW v \in Variants, NEW n \in 0 .. MaxUnits, UpdateQuantity(v, n) PROVE Shape'
  BY <1>3 DEF UpdateQuantity
<1>4. CASE ClearCart \/ NewSale \/ Leave
  BY <1>4 DEF ClearCart, NewSale, Leave
<1>5. CASE Return
  BY <1>5 DEF Return
<1>6. CASE Confirm
  BY <1>6 DEF Confirm, OnPage
<1>7. ASSUME Busy, UNCHANGED <<page, overlapped>> PROVE Shape'
  BY <1>7
<1>8. CASE ReadItems \/ ReadTotal \/ Pay
  BY <1>7, <1>8 DEF ReadItems, ReadTotal, Pay
<1>9. ASSUME NEW r \in attempt.old, DeleteItem(r) PROVE Shape'
  BY <1>7, <1>9 DEF DeleteItem
<1>10. ASSUME NEW v \in attempt.left, PostItem(v) PROVE Shape'
  BY <1>7, <1>10 DEF PostItem
<1>11. CASE CashClosed
  <2>1. attempt'.at = "idle"
    BY <1>11, StopTypes DEF CashClosed
  <2> QED BY <1>11, <2>1 DEF CashClosed
<1>12. CASE Completed
  <2>1. attempt'.at = "idle"
    BY <1>12 DEF Completed, PageTypes, Attempts
  <2> QED BY <1>12, <2>1 DEF Completed
<1>13. ASSUME NEW q \in late, Land(q) PROVE Shape'
  <2>1. attempt'.at = attempt.at
    BY <1>13 DEF Land, PageTypes, Attempts
  <2> QED BY <1>13, <2>1 DEF Land
<1>14. CASE UNCHANGED pageVars
  BY <1>14 DEF pageVars
<1> QED
  BY <1>1, <1>2, <1>3, <1>4, <1>5, <1>6, <1>8, <1>9, <1>10, <1>11, <1>12, <1>13, <1>14
  DEF PageNext, Proceed

(* Steps that add no claim, leave the stored cart alone or clear it, and   *)
(* leave the basket or end it.                                             *)
LEMMA NoNewClaim ==
  ASSUME PayInv, PageTypes', Shape', overlapped \subseteq overlapped',
         \A s \in SaleIds : bought'[s] = bought[s] \/ Claimed(s, bought'[s]),
         \A q \in late' : q \in late \/ (q.kind = "pay" => Claimed(q.sale, q.basket)),
         Busy' => Busy /\ attempt'.sale = attempt.sale /\ attempt'.basket = attempt.basket,
         stored' = stored \/ stored' = Nothing,
         (basket' = basket /\ sale' = sale) \/ basket' = NextBasket
  PROVE  PayInv'
<1>1. \A s \in SaleIds, b \in Nat \ {0} : Claimed(s, b)' => Claimed(s, b)
  BY DEF Claimed
<1>2. SUFFICES ASSUME NEW s \in SaleIds, NEW b \in Nat \ {0}, Claimed(s, b)'
               PROVE  /\ \A t \in SaleIds : Claimed(t, b)' => Together(s, t)'
                      /\ b <= basket'
                      /\ Busy' => b <= attempt'.basket
                      /\ b = basket' => sale' # NoSale /\ Together(s, sale)'
                      /\ stored' # Nothing => /\ b <= stored'.basket
                                              /\ b = stored'.basket => Together(s, stored.sale)'
  BY DEF PayInv, Once
<1>3. /\ Claimed(s, b) /\ basket \in Nat
      /\ \A t \in SaleIds : Claimed(t, b) => Together(s, t)
      /\ b <= basket /\ (Busy => b <= attempt.basket)
      /\ b = basket => sale # NoSale /\ Together(s, sale)
      /\ stored # Nothing => /\ b <= stored.basket
                             /\ b = stored.basket => Together(s, stored.sale)
  BY <1>1, <1>2 DEF PayInv, Once, PageTypes
<1>4. \A t \in SaleIds : Claimed(t, b)' => Together(s, t)'
  BY <1>1, <1>3 DEF Together
<1>5. b <= basket' /\ (b = basket' => sale' # NoSale /\ Together(s, sale)')
  <2>1. CASE basket' = basket /\ sale' = sale
    BY <1>3, <2>1 DEF Together
  <2>2. CASE basket' = NextBasket
    BY <1>3, <2>2 DEF NextBasket
  <2> QED BY <2>1, <2>2
<1>6. stored' # Nothing => /\ b <= stored'.basket
                           /\ b = stored'.basket => Together(s, stored.sale)'
  BY <1>3 DEF Together
<1> QED BY <1>3, <1>4, <1>5, <1>6

LEMMA RequestClaims ==
  ASSUME PayInv, PageTypes', Shape', Busy, NEW q \in Calls,
         q.kind = "pay" => Claimed(q.sale, q.basket), NEW next \in Attempts,
         next.sale = attempt.sale, next.basket = attempt.basket,
         Send(q, next), UNCHANGED <<page, basket, overlapped>>
  PROVE  PayInv'
<1> USE DEF PayInv, page, server
<1>1. CASE Perform(q) /\ attempt' = next /\ late' = late
  <2>1. \A s \in SaleIds : bought'[s] = bought[s] \/ Claimed(s, bought'[s])
    BY <1>1 DEF Perform, PageTypes, Calls
  <2> QED BY <1>1, <2>1, NoNewClaim
<1>2. CASE Stop /\ UNCHANGED server /\ (late' = late \/ late' = late \cup {q})
  <2>1. ~Busy'
    BY <1>2, StopTypes DEF Busy
  <2> QED BY <1>2, <2>1, NoNewClaim
<1> QED BY <1>1, <1>2 DEF Send

LEMMA PayStep ==
  ASSUME PayInv, [PageNext]_pageVars
  PROVE  PayInv'
<1> USE DEF page, server
<1>0. PayInv /\ PageTypes /\ Shape /\ Once /\ PageTypes' /\ Shape' /\ attempt \in Attempts
  BY PageTypesStep, ShapeStep DEF PayInv, PageTypes
<1>1. ASSUME NEW v \in Variants, AddToCart(v) PROVE PayInv'
  BY <1>0, <1>1, NoNewClaim DEF AddToCart, Put, CreateSale, Busy
<1>2. ASSUME NEW s \in creating, SaleCreated(s) PROVE PayInv'
  <2>1. \A t \in SaleIds, b \in Nat \ {0} : Claimed(t, b)' <=> Claimed(t, b)
    BY <1>2 DEF SaleCreated, Claimed, Busy
  <2>2. ASSUME NEW t \in SaleIds, Claimed(t, basket) PROVE Together(t, s)
    <3>1. sale # NoSale /\ Together(t, sale) /\ {s, sale} \subseteq overlapped
      BY <1>0, <2>2 DEF Once, Shape, PageTypes
    <3> QED BY <3>1 DEF Together
  <2>3. s # NoSale
    BY <1>0, EmptyCart DEF PageTypes
  <2>4. Once'
    <3> SUFFICES ASSUME NEW t \in SaleIds, NEW b \in Nat \ {0}, Claimed(t, b)'
                 PROVE  /\ \A u \in SaleIds : Claimed(u, b)' => Together(t, u)'
                        /\ b <= basket'
                        /\ Busy' => b <= attempt'.basket
                        /\ b = basket' => sale' # NoSale /\ Together(t, sale)'
                        /\ stored' # Nothing => /\ b <= stored'.basket
                                                /\ b = stored'.basket => Together(t, stored.sale)'
      BY DEF Once
    <3>1. /\ \A u \in SaleIds : Claimed(u, b) => Together(t, u)
          /\ b <= basket /\ (Busy => b <= attempt.basket)
          /\ stored # Nothing => /\ b <= stored.basket
                                 /\ b = stored.basket => Together(t, stored.sale)
          /\ Claimed(t, b)
      BY <1>0, <2>1 DEF Once
    <3> QED BY <1>2, <2>1, <2>2, <2>3, <3>1 DEF SaleCreated, Together, Busy
  <2> QED BY <1>0, <2>4 DEF PayInv
<1>3. ASSUME NEW v \in Variants, NEW n \in 0 .. MaxUnits, UpdateQuantity(v, n) PROVE PayInv'
  BY <1>0, <1>3, NoNewClaim DEF UpdateQuantity, Busy
<1>4. CASE ClearCart
  BY <1>0, <1>4, NoNewClaim DEF ClearCart, Busy
<1>5. CASE NewSale
  BY <1>0, <1>5, NoNewClaim DEF NewSale, Busy
<1>6. CASE Leave
  BY <1>0, <1>6, NoNewClaim DEF Leave, Busy
<1>7. CASE Return
  <2>1. CASE stored = Nothing
    BY <1>0, <1>7, <2>1, NoNewClaim DEF Return, Busy
  <2>2. CASE stored # Nothing
    <3>1. \A t \in SaleIds, b \in Nat \ {0} : Claimed(t, b)' <=> Claimed(t, b)
      BY <1>7 DEF Return, Claimed, Busy
    <3>2. sale' = stored.sale /\ basket' = stored.basket /\ sale' # NoSale /\ stored' = Nothing
      BY <1>0, <1>7, <2>2, EmptyCart DEF Return, PageTypes
    <3>3. ~Busy'
      BY <1>0, <1>7, <2>2 DEF Shape, Return, Busy
    <3>4. overlapped' = overlapped
      BY <1>7 DEF Return
    <3>5. Once'
      BY <1>0, <2>2, <3>1, <3>2, <3>3, <3>4 DEF Once, Together
    <3> QED BY <1>0, <3>5 DEF PayInv
  <2> QED BY <2>1, <2>2
<1>8. CASE Confirm
  <2>1. /\ attempt'.sale = sale /\ attempt'.basket = basket /\ Busy' /\ ~Busy
        /\ sale \in SaleIds /\ stored = Nothing /\ basket \in Nat \ {0}
    <3>1. attempt.try + 1 \in Nat /\ cart \in Carts /\ sale \in SaleIds \cup {NoSale}
          /\ basket \in Nat \ {0} /\ InHand \subseteq Variants
      BY <1>0 DEF PageTypes, Attempts, InHand
    <3>2. Idle(attempt.try + 1) \in Attempts
      BY <3>1, IdleTypes
    <3>3. attempt'.sale = sale /\ attempt'.basket = basket /\ attempt'.at = "items"
      BY <1>8, <3>2 DEF Confirm, Attempts
    <3> QED BY <1>0, <1>8, <3>1, <3>3 DEF Confirm, OnPage, Shape, Busy
  <2>2. UNCHANGED <<sale, basket, stored, overlapped, bought, late>>
    BY <1>8 DEF Confirm
  <2>3. \A t \in SaleIds, b \in Nat \ {0} :
          Claimed(t, b)' <=> Claimed(t, b) \/ (t = sale /\ b = basket)
    BY <2>1, <2>2 DEF Claimed
  <2>4. \A t \in SaleIds : Claimed(t, basket) => Together(t, sale) /\ Together(sale, t)
    BY <1>0, <2>1 DEF Once, Together
  <2>5. Once'
    <3> SUFFICES ASSUME NEW t \in SaleIds, NEW b \in Nat \ {0}, Claimed(t, b)'
                 PROVE  /\ \A u \in SaleIds : Claimed(u, b)' => Together(t, u)
                        /\ b <= basket
                        /\ b = basket => sale # NoSale /\ Together(t, sale)
      BY <2>1, <2>2 DEF Once, Together
    <3>1. CASE t = sale /\ b = basket
      <4>1. sale # NoSale /\ Together(t, sale) /\ b <= basket
        BY <2>1, <3>1, EmptyCart DEF Together
      <4>2. \A u \in SaleIds : Claimed(u, b)' => Together(t, u)
        BY <2>3, <2>4, <3>1 DEF Together
      <4> QED BY <4>1, <4>2
    <3>2. CASE Claimed(t, b)
      <4>1. /\ \A u \in SaleIds : Claimed(u, b) => Together(t, u)
            /\ b <= basket /\ (b = basket => sale # NoSale /\ Together(t, sale))
        BY <1>0, <3>2 DEF Once
      <4> QED BY <2>3, <4>1
    <3> QED BY <2>3, <3>1, <3>2
  <2> QED BY <1>0, <2>5 DEF PayInv
<1>9. CASE ReadItems
  <2>1. \/ attempt'.at = "idle"
        \/ Busy /\ attempt'.sale = attempt.sale /\ attempt'.basket = attempt.basket
    BY <1>0, <1>9, StopTypes DEF ReadItems, Busy, Attempts
  <2> QED BY <1>0, <1>9, <2>1, NoNewClaim DEF ReadItems, Busy
<1>10. ASSUME NEW r \in attempt.old, DeleteItem(r) PROVE PayInv'
  <2> DEFINE q == [Requests("delete", attempt.sale) EXCEPT !.row = {r}]
             next == [attempt EXCEPT !.old = @ \ {r}]
  <2>1. Busy /\ attempt.sale \in SaleIds /\ r \in SaleRows
    BY <1>0, <1>10 DEF DeleteItem, Busy, PageTypes, Attempts
  <2>2. q \in Calls /\ q.kind = "delete"
    BY <1>0, <2>1 DEF Requests, Calls, Attempts
  <2>3. next \in Attempts /\ next.sale = attempt.sale /\ next.basket = attempt.basket
    BY <1>0 DEF Attempts
  <2>4. Send(q, next) /\ UNCHANGED <<page, basket, overlapped>>
    BY <1>10 DEF DeleteItem
  <2> HIDE DEF q, next
  <2> QED BY <1>0, <2>1, <2>2, <2>3, <2>4, RequestClaims
<1>11. ASSUME NEW v \in attempt.left, PostItem(v) PROVE PayInv'
  <2> DEFINE r == [try |-> attempt.try, variant |-> v, units |-> attempt.goods[v]]
             q == [Requests("post", attempt.sale) EXCEPT !.row = {r}]
             next == [attempt EXCEPT !.left = @ \ {v}]
  <2>1. Busy /\ attempt.sale \in SaleIds
    BY <1>0, <1>11 DEF PageTypes, Busy, PostItem, Attempts
  <2>2. r \in SaleRows
    BY <1>0, <2>1, EmptyCart DEF PageTypes, SaleRows, Attempts, Carts
  <2>3. q \in Calls /\ q.kind = "post"
    <3> HIDE DEF r
    <3> QED BY <1>0, <2>1, <2>2 DEF Requests, Calls, Attempts
  <2>4. next \in Attempts /\ next.sale = attempt.sale /\ next.basket = attempt.basket
    BY <1>0 DEF Attempts
  <2>5. Send(q, next) /\ UNCHANGED <<page, basket, overlapped>>
    BY <1>11 DEF PostItem
  <2> HIDE DEF q, next
  <2> QED BY <1>0, <2>1, <2>3, <2>4, <2>5, RequestClaims
<1>12. CASE ReadTotal
  <2>1. \/ attempt'.at = "idle"
        \/ Busy /\ attempt'.sale = attempt.sale /\ attempt'.basket = attempt.basket
    BY <1>0, <1>12, StopTypes DEF ReadTotal, Busy, Attempts
  <2> QED BY <1>0, <1>12, <2>1, NoNewClaim DEF ReadTotal, Busy
<1>13. CASE Pay
  <2> DEFINE next == [attempt EXCEPT !.at = "paid"]
  <2>1. Busy /\ attempt.sale \in SaleIds
    BY <1>0, <1>13 DEF Pay, Busy, PageTypes
  <2>2. Payment \in Calls /\ Claimed(Payment.sale, Payment.basket)
    BY <1>0, <2>1 DEF Payment, Requests, Calls, Attempts, Claimed
  <2>3. next \in Attempts /\ next.sale = attempt.sale /\ next.basket = attempt.basket
    BY <1>0 DEF Attempts
  <2>4. Send(Payment, next) /\ UNCHANGED <<page, basket, overlapped>>
    BY <1>13 DEF Pay
  <2> HIDE DEF next
  <2> QED BY <1>0, <2>1, <2>2, <2>3, <2>4, RequestClaims
<1>14. CASE CashClosed
  <2>1. Busy /\ ~Busy' /\ UNCHANGED <<bought, late, overlapped>> /\ attempt.sale \in SaleIds
        /\ attempt.basket \in Nat \ {0}
    BY <1>0, <1>14, StopTypes DEF CashClosed, Busy, PageTypes, Attempts
  <2>2. CASE UNCHANGED <<page, basket>>
    BY <1>0, <2>1, <2>2, NoNewClaim
  <2>3. CASE /\ stored' = [sale |-> attempt.sale, cart |-> attempt.goods, basket |-> attempt.basket]
             /\ sale' = NoSale /\ basket' = NextBasket
    <3>1. \A t \in SaleIds, b \in Nat \ {0} : Claimed(t, b)' => Claimed(t, b)
      BY <2>1 DEF Claimed
    <3>2. Claimed(attempt.sale, attempt.basket)
      BY <2>1 DEF Claimed
    <3>3. stored'.sale = attempt.sale /\ stored'.basket = attempt.basket
      BY <2>3
    <3> SUFFICES ASSUME NEW t \in SaleIds, NEW b \in Nat \ {0}, Claimed(t, b)'
                 PROVE  /\ \A u \in SaleIds : Claimed(u, b)' => Together(t, u)
                        /\ b <= basket' /\ b # basket'
                        /\ b <= attempt.basket
                        /\ b = attempt.basket => Together(t, attempt.sale)
      BY <1>0, <2>1, <3>3 DEF PayInv, Once, Together
    <3>4. /\ \A u \in SaleIds : Claimed(u, b) => Together(t, u)
          /\ b <= basket /\ b <= attempt.basket /\ (b = basket => sale # NoSale)
          /\ basket \in Nat
      BY <1>0, <2>1, <3>1 DEF Once, PageTypes
    <3>5. b <= basket' /\ b # basket'
      BY <2>3, <3>4 DEF NextBasket
    <3> QED BY <2>1, <3>1, <3>2, <3>4, <3>5
  <2> QED BY <1>14, <2>2, <2>3 DEF CashClosed
<1>15. CASE Completed
  <2>1. ~Busy'
    BY <1>0, <1>15 DEF Completed, Busy, Attempts
  <2> QED BY <1>0, <1>15, <2>1, NoNewClaim DEF Completed
<1>16. ASSUME NEW q \in late, Land(q) PROVE PayInv'
  <2>1. attempt'.at = attempt.at /\ attempt'.sale = attempt.sale /\ attempt'.basket = attempt.basket
    BY <1>0, <1>16 DEF Land, Attempts
  <2>2. \A s \in SaleIds : bought'[s] = bought[s] \/ Claimed(s, bought'[s])
    BY <1>0, <1>16 DEF Land, Perform, Claimed, PageTypes, Calls
  <2> QED BY <1>0, <1>16, <2>1, <2>2, NoNewClaim DEF Land, Busy
<1>17. CASE UNCHANGED pageVars
  BY <1>0, <1>17, NoNewClaim DEF pageVars, Busy
<1> QED
  BY <1>1, <1>2, <1>3, <1>4, <1>5, <1>6, <1>7, <1>8, <1>9, <1>10, <1>11, <1>12, <1>13,
     <1>14, <1>15, <1>16, <1>17 DEF PageNext, Proceed

(* BasketPaidOnce: two sales were paid for the same basket only if one was *)
(* asked for before the other had arrived, whatever answers are lost and   *)
(* whenever the requests they belong to take effect (page.tsx:179, 201,    *)
(* 496-556).                                                               *)
THEOREM BasketsArePaidOnce == PageSpec => []BasketPaidOnce
<1>1. PageInit => PayInv
  <2> SUFFICES ASSUME PageInit PROVE PayInv
    OBVIOUS
  <2>1. PageTypes /\ ~Busy
    BY PageTypesInit DEF PageInit, Idle, Busy
  <2>2. Shape
    BY <2>1 DEF PageInit, Shape
  <2>3. \A s \in SaleIds, b \in Nat \ {0} : ~Claimed(s, b)
    BY <2>1 DEF PageInit, Claimed
  <2> QED BY <2>1, <2>2, <2>3 DEF PayInv, Once
<1>2. PayInv /\ [PageNext]_pageVars => PayInv'
  BY PayStep
<1>3. PayInv => BasketPaidOnce
  <2> SUFFICES ASSUME PayInv, NEW s \in SaleIds, NEW t \in SaleIds,
                      s # t, bought[s] # 0, bought[s] = bought[t]
               PROVE  {s, t} \subseteq overlapped
    BY DEF BasketPaidOnce
  <2>1. bought[s] \in Nat \ {0} /\ Claimed(s, bought[s]) /\ Claimed(t, bought[s])
    BY DEF PayInv, PageTypes, Claimed
  <2> QED BY <2>1 DEF PayInv, Once, Together
<1> QED BY <1>1, <1>2, <1>3, PTL DEF PageSpec

-----------------------------------------------------------------------------
(* What is sold.  Rows that add up to no more than some of them are those. *)
LEMMA SameUnitsSameRows ==
  ASSUME NEW R \in SUBSET SaleRows, IsFiniteSet(R), NEW P \in SUBSET R, UnitsIn(P) = UnitsIn(R)
  PROVE  P = R
<1> DEFINE E == R \ P
           f == [r \in R |-> r.units]
           g == [r \in P |-> r.units]
<1>1. IsFiniteSet(P) /\ IsFiniteSet(E) /\ P \cap E = {} /\ R = P \cup E
  BY FS_Subset
<1>2. /\ \A r \in R : f[r] \in Nat /\ f[r] > 0
      /\ \A r \in P : f[r] = g[r]
  BY DEF SaleRows
<1>3. UnitsIn(R) = SumOver(f, R) /\ UnitsIn(P) = SumOver(g, P)
  BY DEF UnitsIn
<1> HIDE DEF f, g
<1>4. SumOver(g, P) = SumOver(f, P)
  BY <1>1, <1>2, SumOverEqual
<1>5. SumOver(f, R) = SumOver(f, P) + SumOver(f, E)
  BY <1>1, <1>2, SumOverSplit
<1>6. SumOver(f, P) \in Nat
  BY <1>1, <1>2, SumOverNat
<1>7. ASSUME NEW x \in E PROVE SumOver(f, E) > 0
  <2> DEFINE Q == E \ {x}
  <2>1. IsFiniteSet(Q) /\ x \notin Q /\ E = Q \cup {x}
    BY <1>1, <1>7, FS_Subset
  <2>2. SumOver(f, E) = SumOver(f, Q) + f[x]
    <3>1. f[x] \in Int /\ \A r \in Q : f[r] \in Int
      BY <1>2
    <3> HIDE DEF E, Q
    <3> QED BY <2>1, <3>1, SumOverInsert
  <2>3. SumOver(f, Q) \in Nat
    <3>1. \A r \in Q : f[r] \in Nat
      BY <1>2
    <3> HIDE DEF E, Q
    <3> QED BY <2>1, <3>1, SumOverNat
  <2> QED BY <1>2, <2>2, <2>3
<1>8. SumOver(f, E) = 0 \/ E = {}
  <2>1. SumOver(f, E) \in Nat
    BY <1>1, <1>2, SumOverNat
  <2> QED BY <1>3, <1>4, <1>5, <1>6, <2>1
<1>9. E = {}
  BY <1>7, <1>8
<1> QED BY <1>9

LEMMA UnitsOfOne ==
  /\ UnitsIn({}) = 0
  /\ \A r \in SaleRows : UnitsIn({r}) = r.units
<1>1. UnitsIn({}) = 0
  BY FS_EmptySet, SumOverZero DEF UnitsIn
<1>2. ASSUME NEW r \in SaleRows PROVE UnitsIn({r}) = r.units
  <2> DEFINE f == [x \in {r} |-> x.units]
             u == r.units
  <2>1. u \in Int /\ r \in {r} /\ IsFiniteSet({r}) /\ \A x \in {r} : f[x] = IF x = r THEN u ELSE 0
    BY FS_Singleton DEF SaleRows
  <2> HIDE DEF f, u
  <2>2. SumOver(f, {r}) = u
    BY <2>1, SumOverSingle
  <2> QED BY <2>2 DEF f, u, UnitsIn
<1> QED BY <1>1, <1>2

(* The rows of the attempt that are posted by now.                         *)
Posted ==
  {[try |-> attempt.try, variant |-> v, units |-> attempt.goods[v]] :
     v \in {v \in Variants : attempt.goods[v] > 0} \ attempt.left}

(* Whatever is not of this attempt is of an earlier one.                   *)
Tries ==
  /\ \A s \in SaleIds : \A r \in rows[s] :
       /\ r.try <= attempt.try
       /\ Busy => r.try < attempt.try \/ (s = attempt.sale /\ r \in Posted)
  /\ \A q \in late : \A r \in q.row :
       /\ r.try <= attempt.try
       /\ Busy => r.try < attempt.try
  /\ Busy => \A r \in attempt.old : r.try < attempt.try

Course ==
  /\ attempt.at = "items" => attempt.left = {v \in Variants : attempt.goods[v] > 0}
  /\ attempt.at = "sync" =>
       /\ Posted \subseteq rows[attempt.sale]
       /\ attempt.mixed = TRUE \/ rows[attempt.sale] \subseteq attempt.old \cup Posted
  /\ attempt.at = "pay" =>
       /\ attempt.left = {} /\ Posted \subseteq rows[attempt.sale]
       /\ attempt.mixed = TRUE \/ attempt.total = UnitsIn(Posted)
  /\ attempt.at = "paid" =>
       /\ saleStatus[attempt.sale] = "COMPLETED"
       /\ attempt.mixed = TRUE \/ Sold(attempt.sale) = attempt.goods

SoldInv == PageTypes /\ Shape /\ Tries /\ Course /\ SoldIsTheCart

(* Once everything is posted, its rows are the cart.                       *)
LEMMA PostedIsTheCart ==
  ASSUME PageTypes, Busy, attempt.left = {}, rows[attempt.sale] = Posted
  PROVE  Sold(attempt.sale) = attempt.goods
<1>1. /\ attempt.goods \in [Variants -> Nat] /\ attempt.sale \in SaleIds
      /\ rows[attempt.sale] \subseteq SaleRows
  BY EmptyCart DEF PageTypes, Attempts, Carts
<1>2. ASSUME NEW v \in Variants
      PROVE  UnitsIn({r \in rows[attempt.sale] : r.variant = v}) = attempt.goods[v]
  <2> DEFINE R == {r \in rows[attempt.sale] : r.variant = v}
             x == [try |-> attempt.try, variant |-> v, units |-> attempt.goods[v]]
  <2>1. CASE attempt.goods[v] > 0
    <3>1. R = {x} /\ x \in SaleRows /\ x.units = attempt.goods[v]
      BY <1>1, <2>1 DEF Posted
    <3> QED BY <3>1, UnitsOfOne
  <2>2. CASE ~(attempt.goods[v] > 0)
    <3>1. R = {}
      BY <2>2 DEF Posted
    <3>2. attempt.goods[v] = 0
      BY <1>1, <2>2
    <3> QED BY <3>1, <3>2, UnitsOfOne
  <2> QED BY <2>1, <2>2
<1> QED BY <1>1, <1>2 DEF Sold

(* An attempt that is given up.                                            *)
LEMMA StopSold ==
  ASSUME SoldInv, PageTypes', Shape', Busy, Stop, rows' = rows, shown' \in {shown, NoSale},
         NEW R, \A r \in R : r.try <= attempt.try,
         \A q \in late' : q \in late \/ q.row = R
  PROVE  SoldInv'
<1>1. attempt'.at = "idle" /\ attempt'.try = attempt.try /\ shown' = NoSale
  BY StopTypes DEF SoldInv, Shape
<1>2. Tries'
  BY <1>1 DEF SoldInv, Tries, Busy
<1>3. Course' /\ SoldIsTheCart'
  BY <1>1 DEF Course, SoldIsTheCart
<1> QED BY <1>2, <1>3 DEF SoldInv

(* Steps of the page that leave the attempt alone.                         *)
LEMMA SameSold ==
  ASSUME SoldInv, PageTypes', Shape', UNCHANGED <<attempt, rows, late>>,
         shown' \in {shown, NoSale},
         \A s \in SaleIds : saleStatus[s] = "COMPLETED" => saleStatus'[s] = "COMPLETED"
  PROVE  SoldInv'
<1> USE DEF SoldInv
<1>1. Tries'
  BY DEF Tries, Busy, Posted
<1>2. attempt.at = "paid" => attempt.sale \in SaleIds
  BY DEF PageTypes, Busy
<1>3. Course'
  BY <1>2 DEF Course, Posted, Sold
<1>4. SoldIsTheCart'
  BY DEF SoldIsTheCart, Sold, PageTypes
<1> QED BY <1>1, <1>3, <1>4

(* An earlier request that takes effect.                                   *)
LEMMA LandSold ==
  ASSUME SoldInv, PageTypes', Shape', NEW q \in late, Land(q)
  PROVE  SoldInv'
<1>1. /\ q \in Calls /\ attempt \in Attempts /\ late' \subseteq late /\ shown' = shown
      /\ \A s \in SaleIds : rows[s] \subseteq SaleRows
  BY DEF SoldInv, PageTypes, Land, page
<1>2. /\ attempt'.at = attempt.at /\ attempt'.try = attempt.try /\ attempt'.sale = attempt.sale
      /\ attempt'.goods = attempt.goods /\ attempt'.old = attempt.old
      /\ attempt'.left = attempt.left /\ attempt'.total = attempt.total
  BY <1>1 DEF Land, Attempts
<1>3. attempt.mixed = TRUE => attempt'.mixed = TRUE
  BY <1>1 DEF Land, Attempts
<1>4. Posted' = Posted /\ (Busy' <=> Busy)
  BY <1>2 DEF Posted, Busy
<1>5. CASE UNCHANGED <<rows, saleStatus>>
  <2>1. Tries'
    BY <1>1, <1>2, <1>4, <1>5 DEF SoldInv, Tries
  <2>2. Course'
    BY <1>2, <1>3, <1>4, <1>5 DEF SoldInv, Course, Sold
  <2>3. SoldIsTheCart'
    BY <1>1, <1>2, <1>3, <1>5 DEF SoldInv, SoldIsTheCart, Sold
  <2> QED BY <2>1, <2>2, <2>3 DEF SoldInv
<1>6. CASE Accepted(q) /\ Perform(q)
  <2>1. /\ \A r \in q.row : r.try <= attempt.try /\ (Busy => r.try < attempt.try)
        /\ q.sale \in SaleIds /\ saleStatus[q.sale] = "PENDING"
    BY <1>1, <1>6 DEF SoldInv, Tries, Accepted, Calls
  <2>2. /\ \A s \in SaleIds : s # q.sale => rows'[s] = rows[s]
        /\ rows'[q.sale] = CASE q.kind = "delete" -> rows[q.sale] \ q.row
                             [] q.kind = "post" -> rows[q.sale] \cup q.row
                             [] OTHER -> rows[q.sale]
    BY <1>6, <2>1 DEF Perform, SoldInv, PageTypes
  <2>3. \A s \in SaleIds : /\ rows[s] \ q.row \subseteq rows'[s]
                           /\ rows'[s] \subseteq rows[s] \cup q.row
                           /\ q.kind # "post" => rows'[s] \subseteq rows[s]
    BY <2>2
  <2>4. /\ \A s \in SaleIds :
             saleStatus[s] = "COMPLETED" => saleStatus'[s] = "COMPLETED" /\ s # q.sale
    BY <1>6, <2>1 DEF Perform, SoldInv, PageTypes
  <2>5. Tries'
    BY <1>1, <1>2, <1>4, <2>1, <2>3 DEF SoldInv, Tries
  <2>6. Busy => /\ attempt.sale \in SaleIds
                /\ Posted \subseteq rows[attempt.sale] => Posted \subseteq rows'[attempt.sale]
    <3> SUFFICES ASSUME Busy, Posted \subseteq rows[attempt.sale], NEW r \in Posted
                 PROVE  r \notin q.row
      BY <2>3 DEF SoldInv, PageTypes
    <3>1. r.try = attempt.try /\ attempt.try \in Nat
      BY <1>1 DEF Posted, Attempts
    <3> QED BY <2>1, <3>1
  <2>7. attempt.at = "sync" /\ q.kind = "post" /\ q.sale = attempt.sale => attempt'.mixed = TRUE
    BY <1>1, <1>6 DEF Land, Attempts
  <2>8. Course'
    <3>1. attempt.at = "sync" =>
            attempt'.mixed = TRUE \/ rows'[attempt.sale] \subseteq attempt.old \cup Posted
      BY <1>3, <2>2, <2>3, <2>6, <2>7 DEF SoldInv, Course, Busy
    <3>2. attempt.at = "paid" => Sold(attempt.sale)' = Sold(attempt.sale)
      BY <1>2, <2>2, <2>4, <2>6 DEF SoldInv, Course, Busy, Sold
    <3> QED BY <1>2, <1>3, <1>4, <2>4, <2>6, <3>1, <3>2 DEF SoldInv, Course, Busy
  <2>9. SoldIsTheCart'
    <3> SUFFICES ASSUME shown # NoSale
                 PROVE  /\ saleStatus'[shown] = "COMPLETED"
                        /\ attempt'.mixed \/ Sold(shown)' = attempt'.goods
      BY <1>1 DEF SoldIsTheCart
    <3>1. shown \in SaleIds /\ saleStatus[shown] = "COMPLETED"
      BY DEF SoldInv, SoldIsTheCart, PageTypes
    <3>2. attempt.mixed \/ Sold(shown) = attempt.goods
      BY DEF SoldInv, SoldIsTheCart
    <3>3. rows'[shown] = rows[shown] /\ saleStatus'[shown] = "COMPLETED"
      BY <2>2, <2>4, <3>1
    <3>4. Sold(shown)' = Sold(shown)
      BY <3>3, <1>1 DEF Sold
    <3> QED BY <1>1, <1>2, <1>3, <3>2, <3>3, <3>4 DEF Attempts
  <2> QED BY <2>5, <2>8, <2>9 DEF SoldInv
<1> QED BY <1>5, <1>6 DEF Land, server

LEMMA SoldStep ==
  ASSUME SoldInv, [PageNext]_pageVars
  PROVE  SoldInv'
<1> USE DEF page, server
<1>0. /\ PageTypes /\ Shape /\ PageTypes' /\ Shape' /\ attempt \in Attempts
      /\ \A s \in SaleIds : rows[s] \subseteq SaleRows
      /\ Busy => attempt.sale \in SaleIds
  BY PageTypesStep, ShapeStep DEF SoldInv, PageTypes
<1>1. ASSUME NEW v \in Variants, AddToCart(v) PROVE SoldInv'
  BY <1>0, <1>1, SameSold DEF AddToCart, Put, CreateSale, Unused, PageTypes
<1>2. ASSUME NEW s \in creating, SaleCreated(s) PROVE SoldInv'
  BY <1>0, <1>2, SameSold DEF SaleCreated
<1>3. ASSUME NEW v \in Variants, NEW n \in 0 .. MaxUnits, UpdateQuantity(v, n) PROVE SoldInv'
  BY <1>0, <1>3, SameSold DEF UpdateQuantity
<1>4. CASE ClearCart \/ NewSale \/ Leave \/ Return \/ UNCHANGED pageVars
  BY <1>0, <1>4, SameSold DEF ClearCart, NewSale, Leave, Return, pageVars
<1>5. CASE Confirm
  <2>1. attempt.try + 1 \in Nat /\ cart \in Carts /\ sale \in SaleIds \cup {NoSale}
        /\ basket \in Nat \ {0} /\ InHand \subseteq Variants
    BY <1>0 DEF PageTypes, Attempts, InHand
  <2>2. Idle(attempt.try + 1) \in Attempts /\ Idle(attempt.try + 1).try = attempt.try + 1
        /\ Idle(attempt.try + 1).old = {}
    BY <2>1, IdleTypes DEF Idle
  <2>3. /\ attempt'.at = "items" /\ attempt'.try = attempt.try + 1 /\ attempt'.old = {}
        /\ attempt'.left = InHand /\ attempt'.goods = cart
    BY <1>5, <2>2 DEF Confirm, Attempts
  <2>4. ~Busy /\ shown' = NoSale /\ UNCHANGED <<rows, late>>
    BY <1>5 DEF Confirm, Busy, OnPage
  <2>5. Tries'
    <3>1. /\ \A s \in SaleIds : \A r \in rows[s] : r.try \in Nat /\ r.try <= attempt.try
          /\ \A q \in late : \A r \in q.row : r.try \in Nat /\ r.try <= attempt.try
          /\ attempt.try \in Nat
      BY <1>0 DEF SoldInv, Tries, PageTypes, Calls, SaleRows, Attempts
    <3> QED BY <2>3, <2>4, <3>1 DEF Tries
  <2>6. Course' /\ SoldIsTheCart'
    BY <2>3, <2>4 DEF Course, SoldIsTheCart, InHand
  <2> QED BY <1>0, <2>5, <2>6 DEF SoldInv
<1>6. ASSUME Busy, Stop, rows' = rows, late' = late, shown' \in {shown, NoSale}
      PROVE  SoldInv'
  <2>1. /\ \A r \in {} : r.try <= attempt.try
        /\ \A q \in late' : q \in late \/ q.row = {}
    BY <1>6
  <2> QED BY <1>0, <1>6, <2>1, StopSold
<1>7. CASE ReadItems
  <2>1. CASE Stop
    BY <1>6, <1>7, <2>1 DEF ReadItems, Busy
  <2>2. CASE attempt' = [attempt EXCEPT !.at = "sync", !.old = rows[attempt.sale]]
    <3>1. /\ Busy /\ attempt.at = "items" /\ UNCHANGED <<rows, late, shown, saleStatus>>
          /\ attempt'.at = "sync" /\ attempt'.old = rows[attempt.sale]
          /\ attempt'.try = attempt.try /\ attempt'.sale = attempt.sale
          /\ attempt'.left = attempt.left /\ attempt'.goods = attempt.goods
      BY <1>0, <1>7, <2>2 DEF ReadItems, Busy, Attempts
    <3>2. Posted = {} /\ Posted' = {}
      BY <3>1 DEF SoldInv, Course, Posted
    <3>3. Tries'
      BY <1>0, <3>1, <3>2 DEF SoldInv, Tries
    <3>4. Course'
      BY <3>1, <3>2 DEF Course
    <3>5. SoldIsTheCart'
      BY <1>0, <3>1 DEF Shape, SoldIsTheCart
    <3> QED BY <1>0, <3>3, <3>4, <3>5 DEF SoldInv
  <2> QED BY <1>7, <2>1, <2>2 DEF ReadItems
<1>8. ASSUME NEW r \in attempt.old, DeleteItem(r) PROVE SoldInv'
  <2> DEFINE q == [Requests("delete", attempt.sale) EXCEPT !.row = {r}]
             next == [attempt EXCEPT !.old = @ \ {r}]
  <2>1. /\ Busy /\ attempt.at = "sync" /\ attempt.sale \in SaleIds /\ shown' = shown
        /\ r.try < attempt.try /\ attempt.try \in Nat /\ r \in SaleRows
    BY <1>0, <1>8 DEF DeleteItem, Busy, SoldInv, Tries, Attempts
  <2>2. q.kind = "delete" /\ q.row = {r} /\ q.sale = attempt.sale
    BY DEF Requests
  <2>3. /\ next.at = "sync" /\ next.try = attempt.try /\ next.sale = attempt.sale
        /\ next.old = attempt.old \ {r} /\ next.left = attempt.left
        /\ next.goods = attempt.goods /\ next.mixed = attempt.mixed
    BY <1>0, <2>1 DEF Attempts
  <2>4. Send(q, next)
    BY <1>8 DEF DeleteItem
  <2> HIDE DEF q, next
  <2>5. CASE Perform(q) /\ attempt' = next /\ late' = late
    <3>1. /\ rows'[attempt.sale] = rows[attempt.sale] \ {r}
          /\ \A s \in SaleIds : rows'[s] \subseteq rows[s]
      BY <1>0, <2>1, <2>2, <2>5 DEF Perform, PageTypes
    <3>2. Posted' = Posted /\ r \notin Posted /\ Busy'
      BY <2>1, <2>3, <2>5 DEF Posted, Busy
    <3>3. Tries'
      BY <2>1, <2>3, <2>5, <3>1, <3>2 DEF SoldInv, Tries
    <3>4. Course'
      BY <2>1, <2>3, <2>5, <3>1, <3>2 DEF SoldInv, Course
    <3>5. SoldIsTheCart'
      BY <1>0, <2>1 DEF Shape, SoldIsTheCart
    <3> QED BY <1>0, <3>3, <3>4, <3>5 DEF SoldInv
  <2>6. CASE Stop /\ UNCHANGED server /\ (late' = late \/ late' = late \cup {q})
    <3>1. /\ \A x \in q.row : x.try <= attempt.try
          /\ \A x \in late' : x \in late \/ x.row = q.row
      BY <2>1, <2>2, <2>6 DEF SaleRows
    <3> QED BY <1>0, <2>1, <2>6, <3>1, StopSold
  <2> QED BY <2>4, <2>5, <2>6 DEF Send
<1>9. ASSUME NEW v \in attempt.left, PostItem(v) PROVE SoldInv'
  <2> DEFINE r == [try |-> attempt.try, variant |-> v, units |-> attempt.goods[v]]
             q == [Requests("post", attempt.sale) EXCEPT !.row = {r}]
             next == [attempt EXCEPT !.left = @ \ {v}]
  <2>1. /\ Busy /\ attempt.at = "sync" /\ attempt.sale \in SaleIds /\ shown' = shown
        /\ attempt.try \in Nat /\ v \in Variants /\ attempt.goods[v] > 0 /\ attempt.old = {}
    BY <1>0, <1>9 DEF PostItem, Busy, PageTypes, Attempts
  <2>2. q.kind = "post" /\ q.row = {r} /\ q.sale = attempt.sale /\ r.try = attempt.try
    <3> HIDE DEF r
    <3>1. q.kind = "post" /\ q.row = {r} /\ q.sale = attempt.sale
      BY DEF Requests
    <3> QED BY <3>1 DEF r
  <2>3. /\ next.at = "sync" /\ next.try = attempt.try /\ next.sale = attempt.sale
        /\ next.old = attempt.old /\ next.left = attempt.left \ {v}
        /\ next.goods = attempt.goods /\ next.mixed = attempt.mixed
    BY <1>0, <2>1 DEF Attempts
  <2>4. Send(q, next)
    BY <1>9 DEF PostItem
  <2> HIDE DEF q, next
  <2>5. CASE Perform(q) /\ attempt' = next /\ late' = late
    <3>1. /\ rows'[attempt.sale] = rows[attempt.sale] \cup {r}
          /\ \A s \in SaleIds : s # attempt.sale => rows'[s] = rows[s]
      BY <1>0, <2>1, <2>2, <2>5 DEF Perform, PageTypes
    <3>2. Posted' = Posted \cup {r} /\ Busy'
      BY <2>1, <2>3, <2>5 DEF Posted, Busy
    <3> HIDE DEF r
    <3>3. Tries'
      BY <2>1, <2>2, <2>3, <2>5, <3>1, <3>2 DEF SoldInv, Tries
    <3>4. Course'
      BY <2>1, <2>3, <2>5, <3>1, <3>2 DEF SoldInv, Course
    <3>5. SoldIsTheCart'
      BY <1>0, <2>1 DEF Shape, SoldIsTheCart
    <3> QED BY <1>0, <3>3, <3>4, <3>5 DEF SoldInv
  <2>6. CASE Stop /\ UNCHANGED server /\ (late' = late \/ late' = late \cup {q})
    <3> HIDE DEF r
    <3>1. /\ \A x \in q.row : x.try <= attempt.try
          /\ \A x \in late' : x \in late \/ x.row = q.row
      BY <2>1, <2>2, <2>6
    <3> QED BY <1>0, <2>1, <2>6, <3>1, StopSold
  <2> QED BY <2>4, <2>5, <2>6 DEF Send
<1>10. CASE ReadTotal
  <2>1. CASE Stop
    BY <1>6, <1>10, <2>1 DEF ReadTotal, Busy
  <2>2. CASE attempt' = [attempt EXCEPT !.at = "pay", !.total = TotalOf(attempt.sale)]
    <3>1. /\ Busy /\ attempt.at = "sync" /\ UNCHANGED <<rows, late, shown, saleStatus>>
          /\ attempt.old = {} /\ attempt.left = {}
          /\ attempt'.at = "pay" /\ attempt'.total = UnitsIn(rows[attempt.sale])
          /\ attempt'.try = attempt.try /\ attempt'.sale = attempt.sale
          /\ attempt'.left = attempt.left /\ attempt'.goods = attempt.goods
          /\ attempt'.mixed = attempt.mixed /\ attempt'.old = attempt.old
      BY <1>0, <1>10, <2>2 DEF ReadTotal, Busy, Attempts, TotalOf
    <3>2. Posted' = Posted /\ Busy'
      BY <3>1 DEF Posted, Busy
    <3>3. Tries'
      BY <3>1, <3>2 DEF SoldInv, Tries
    <3>4. attempt.mixed = TRUE \/ rows[attempt.sale] = Posted
      BY <3>1 DEF SoldInv, Course
    <3>5. Course'
      BY <3>1, <3>2, <3>4 DEF SoldInv, Course, UnitsIn
    <3>6. SoldIsTheCart'
      BY <1>0, <3>1 DEF Shape, SoldIsTheCart
    <3> QED BY <1>0, <3>3, <3>5, <3>6 DEF SoldInv
  <2> QED BY <1>10, <2>1, <2>2 DEF ReadTotal
<1>11. CASE Pay
  <2> DEFINE next == [attempt EXCEPT !.at = "paid"]
  <2>1. Busy /\ attempt.at = "pay" /\ attempt.sale \in SaleIds /\ shown' = shown
    BY <1>0, <1>11 DEF Pay, Busy
  <2>2. /\ Payment.kind = "pay" /\ Payment.row = {} /\ Payment.sale = attempt.sale
        /\ Payment.amount = attempt.total
    BY DEF Payment, Requests
  <2>3. /\ next.at = "paid" /\ next.try = attempt.try /\ next.sale = attempt.sale
        /\ next.old = attempt.old /\ next.left = attempt.left
        /\ next.goods = attempt.goods /\ next.mixed = attempt.mixed
    BY <1>0 DEF Attempts
  <2>4. Send(Payment, next)
    BY <1>11 DEF Pay
  <2> HIDE DEF next
  <2>5. CASE Accepted(Payment) /\ Perform(Payment) /\ attempt' = next /\ late' = late
    <3>1. /\ \A s \in SaleIds : rows'[s] = rows[s]
          /\ saleStatus'[attempt.sale] = "COMPLETED"
          /\ attempt.total = UnitsIn(rows[attempt.sale])
      BY <1>0, <2>1, <2>2, <2>5 DEF Perform, PageTypes, Accepted, TotalOf
    <3>2. Posted' = Posted /\ Busy'
      BY <2>3, <2>5 DEF Posted, Busy
    <3>3. Tries'
      <4>1. late' = late /\ attempt'.try = attempt.try /\ attempt'.sale = attempt.sale
            /\ attempt'.old = attempt.old
        BY <2>3, <2>5
      <4> QED BY <2>1, <3>1, <3>2, <4>1 DEF SoldInv, Tries
    <3>4. attempt.mixed = TRUE \/ Sold(attempt.sale) = attempt.goods
      <4>1. CASE UnitsIn(Posted) = UnitsIn(rows[attempt.sale])
        <5>1. Posted \in SUBSET rows[attempt.sale] /\ attempt.left = {}
          BY <2>1 DEF SoldInv, Course
        <5>2. rows[attempt.sale] \in SUBSET SaleRows /\ IsFiniteSet(rows[attempt.sale])
          BY <1>0, <2>1 DEF PageTypes
        <5>3. Posted = rows[attempt.sale]
          BY <4>1, <5>1, <5>2, SameUnitsSameRows
        <5> QED BY <1>0, <2>1, <5>1, <5>3, PostedIsTheCart
      <4> QED BY <2>1, <3>1, <4>1 DEF SoldInv, Course
    <3>5. Sold(attempt.sale)' = Sold(attempt.sale)
      BY <2>1, <2>3, <2>5, <3>1 DEF Sold
    <3>6. Course'
      BY <2>3, <2>5, <3>1, <3>4, <3>5 DEF Course
    <3>7. SoldIsTheCart'
      BY <1>0, <2>1 DEF Shape, SoldIsTheCart
    <3> QED BY <1>0, <3>3, <3>6, <3>7 DEF SoldInv
  <2>6. CASE Stop /\ UNCHANGED server /\ (late' = late \/ late' = late \cup {Payment})
    <3>1. /\ \A x \in {} : x.try <= attempt.try
          /\ \A x \in late' : x \in late \/ x.row = {}
      BY <2>2, <2>6
    <3> QED BY <1>0, <2>1, <2>6, <3>1, StopSold
  <2> QED BY <2>4, <2>5, <2>6 DEF Send
<1>12. CASE CashClosed
  BY <1>6, <1>12 DEF CashClosed, Busy
<1>13. CASE Completed
  <2>1. /\ Busy /\ attempt.at = "paid" /\ attempt.sale \in SaleIds /\ shown' = attempt.sale
        /\ UNCHANGED <<rows, late, saleStatus>>
        /\ attempt'.at = "idle" /\ attempt'.try = attempt.try
        /\ attempt'.goods = attempt.goods /\ attempt'.mixed = attempt.mixed
    BY <1>0, <1>13 DEF Completed, Busy, Attempts
  <2>2. Tries'
    BY <2>1 DEF SoldInv, Tries, Busy
  <2>3. Course'
    BY <2>1 DEF Course
  <2>4. SoldIsTheCart'
    BY <2>1 DEF SoldInv, Course, SoldIsTheCart, Sold
  <2> QED BY <1>0, <2>2, <2>3, <2>4 DEF SoldInv
<1>14. ASSUME NEW q \in late, Land(q) PROVE SoldInv'
  BY <1>0, <1>14, LandSold
<1> QED
  BY <1>1, <1>2, <1>3, <1>4, <1>5, <1>7, <1>8, <1>9, <1>10, <1>11, <1>12, <1>13, <1>14
  DEF PageNext, Proceed

(* SoldIsTheCart: the rows of the sale the page shows as completed are the *)
(* cart as it was confirmed, whatever earlier attempts left in the sale,   *)
(* unless a row of one of those landed while this one was posting its own  *)
(* (page.tsx:407-470, 545-552).                                            *)
THEOREM SoldIsTheConfirmedCart == PageSpec => []SoldIsTheCart
<1>1. PageInit => SoldInv
  <2> SUFFICES ASSUME PageInit PROVE SoldInv
    OBVIOUS
  <2>1. PageTypes /\ ~Busy /\ attempt.at = "idle"
    BY PageTypesInit DEF PageInit, Idle, Busy
  <2>2. Shape
    BY <2>1 DEF PageInit, Shape
  <2>3. Tries
    BY <2>1 DEF PageInit, Tries
  <2>4. Course /\ SoldIsTheCart
    BY <2>1 DEF PageInit, Course, SoldIsTheCart
  <2> QED BY <2>1, <2>2, <2>3, <2>4 DEF SoldInv
<1>2. SoldInv /\ [PageNext]_pageVars => SoldInv'
  BY SoldStep
<1>3. SoldInv => SoldIsTheCart
  BY DEF SoldInv
<1> QED BY <1>1, <1>2, <1>3, PTL DEF PageSpec
=============================================================================
