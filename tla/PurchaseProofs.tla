--------------------------- MODULE PurchaseProofs ---------------------------
(***************************************************************************)
(* Theorems about every behaviour of Purchase: any number of handlers,     *)
(* purchases, items and keys, any orders, totals and amounts.              *)
(*                                                                         *)
(* The properties rest on what a handler knows under its locks: a purchase *)
(* row it holds FOR UPDATE is held by nobody else and shared by no other   *)
(* record, so what it read of that purchase is still so when it commits.   *)
(* A payment that names no purchase holds every purchase that is payable,  *)
(* until one is ordered: as long as that does not happen, nobody can pay   *)
(* any of them, and what it read is owed is still owed.                    *)
(***************************************************************************)
EXTENDS Purchase, SumsProofs

Asked(h) == request[h].payload.purchase

(* Where a handler can be, for what it was asked. *)
Turns ==
  \A h \in Handlers :
    /\ request[h] = NoRequest <=> at[h] = "idle"
    /\ answered[h] = "nothing" <=> at[h] # "done"
    /\ at[h] \in {"lookup", "insert", "recover", "check", "owed", "paid", "pay"} => Pays(h)
    /\ at[h] = "stock" => ~Pays(h)
    /\ at[h] = "check" => Asked(h) # NoPurchase
    /\ at[h] \in {"owed", "paid"} => Asked(h) = NoPurchase

Locks ==
  /\ \A h, g \in Handlers : h # g =>
       /\ mine[h] \cap mine[g] = {}
       /\ rows[h] \cap rows[g] = {}
       /\ \A p \in mine[h] : ~SharesPurchase(g, p)
  /\ \A h \in Handlers :
       /\ at[h] \notin {"stock", "owed", "paid", "pay"} => mine[h] = {}
       /\ at[h] # "stock" => rows[h] = {}

(* What a receipt read under its locks is still so. *)
Receiving ==
  \A h \in Handlers : at[h] = "stock" =>
    LET p == request[h].purchase
    IN  /\ mine[h] = {p}
        /\ base[h] = got[p]
        /\ status[p] \in {"ORDERED", "PARTIALLY_RECEIVED"}
        /\ \A i \in Items : request[h].units[i] <= Ordered[p][i] - got[p][i]
        /\ \A i \in rows[h] : request[h].units[i] > 0 /\ level[h][i] = quantity[i]

KeysHeld ==
  /\ \A h \in Handlers : HoldsKey(h) => RecordOf(h) = NoRecord
  /\ \A h, g \in Handlers :
       h # g /\ HoldsKey(h) /\ HoldsKey(g) => request[h].key # request[g].key

(* A handler writes one payment, and is over with it. *)
Written ==
  /\ \A pay \in payments : Pays(pay.by) /\ at[pay.by] \in {"answer", "done"}
  /\ \A h \in Handlers : Pays(h) /\ at[h] = "answer" => \E pay \in payments : pay.by = h

(* What a payment of one purchase read under its lock is still so. *)
Owing ==
  \A h \in Handlers : at[h] = "pay" /\ Asked(h) # NoPurchase =>
    /\ mine[h] = {Asked(h)}
    /\ owed[h] = Total[Asked(h)] - PaidOf(Asked(h))

(* And what one of the whole account read, as long as nothing disturbed it. *)
OwingInAll ==
  \A h \in Handlers :
    ~disturbed /\ Pays(h) /\ Asked(h) = NoPurchase /\ at[h] \in {"owed", "paid", "pay"} =>
      /\ mine[h] = Payable
      /\ at[h] = "paid" => owed[h] = SumOver(Total, Payable)
      /\ at[h] = "pay" => owed[h] = SumOver(Total, Payable) - PaidInAll

Inv ==
  /\ TypeOK /\ IsFiniteSet(payments)
  /\ Turns /\ Locks /\ Receiving /\ KeysHeld /\ Written /\ Owing /\ OwingInAll
  /\ ReceiptsTellStatus /\ ReceiptsAreInStock /\ PaidWithinTotal

-----------------------------------------------------------------------------
(* Sums of payments and of totals. *)
LEMMA TotalsType ==
  ASSUME TypeOK
  PROVE  SumOver(Total, Payable) \in Nat
<1>1. IsFiniteSet(Payable)
  BY PurchaseAssumption, FS_Subset DEF Payable
<1>2. \A p \in Payable : Total[p] \in Nat
  BY PurchaseAssumption DEF Payable
<1> QED BY <1>1, <1>2, SumOverNat

LEMMA PaymentsType ==
  ASSUME TypeOK, IsFiniteSet(payments)
  PROVE  PaidInAll \in Nat /\ \A p : PaidOf(p) \in Nat
<1> DEFINE of(p) == [pay \in payments |-> IF pay.purchase = p THEN pay.amount ELSE 0]
           all == [pay \in payments |-> pay.amount]
<1>1. \A pay \in payments : pay.amount \in Nat
  BY PurchaseAssumption DEF TypeOK
<1>2. (\A pay \in payments : all[pay] \in Nat) /\ \A p : \A pay \in payments : of(p)[pay] \in Nat
  BY <1>1
<1>3. PaidInAll \in Nat
  <2> HIDE DEF all
  <2> QED BY <1>2, SumOverNat DEF PaidInAll, all
<1>4. ASSUME NEW p PROVE PaidOf(p) \in Nat
  <2>1. SumOver(of(p), payments) \in Nat
    <3> HIDE DEF of
    <3> QED BY <1>2, SumOverNat
  <2> QED BY <2>1 DEF PaidOf
<1> QED BY <1>3, <1>4

LEMMA PaymentAdded ==
  ASSUME TypeOK, IsFiniteSet(payments), NEW new, new \notin payments, new.amount \in Nat,
         payments' = payments \cup {new}
  PROVE  /\ IsFiniteSet(payments')
         /\ PaidInAll' = PaidInAll + new.amount
         /\ \A p : PaidOf(p)' = PaidOf(p) + IF new.purchase = p THEN new.amount ELSE 0
<1>1. \A pay \in payments : pay.amount \in Int
  BY PurchaseAssumption DEF TypeOK
<1>2. IsFiniteSet(payments')
  BY FS_AddElement
<1>3. PaidInAll' = PaidInAll + new.amount
  <2> DEFINE f == [pay \in payments |-> pay.amount]
             g == [pay \in payments' |-> pay.amount]
  <2>1. /\ \A pay \in payments : f[pay] \in Int /\ g[pay] = f[pay]
        /\ g[new] = new.amount /\ g[new] \in Int
    BY <1>1
  <2> HIDE DEF f, g
  <2>2. SumOver(g, payments') = SumOver(f, payments) + g[new]
    BY <2>1, SumOverInsert
  <2> QED BY <2>1, <2>2 DEF PaidInAll, f, g
<1>4. ASSUME NEW p
      PROVE  PaidOf(p)' = PaidOf(p) + IF new.purchase = p THEN new.amount ELSE 0
  <2> DEFINE f == [pay \in payments |-> IF pay.purchase = p THEN pay.amount ELSE 0]
             g == [pay \in payments' |->
                     IF pay.purchase = p THEN pay.amount ELSE 0]
  <2>1. /\ \A pay \in payments : f[pay] \in Int /\ g[pay] = f[pay]
        /\ g[new] = IF new.purchase = p THEN new.amount ELSE 0
        /\ g[new] \in Int
    BY <1>1
  <2> HIDE DEF f, g
  <2>2. SumOver(g, payments') = SumOver(f, payments) + g[new]
    BY <2>1, SumOverInsert
  <2> QED BY <2>1, <2>2 DEF PaidOf, f, g
<1> QED BY <1>2, <1>3, <1>4

-----------------------------------------------------------------------------
LEMMA PurchaseInit == Init => Inv
<1> SUFFICES ASSUME Init PROVE Inv
  OBVIOUS
<1> USE PurchaseAssumption
<1>1. TypeOK
  <2>1. Nothing \in [Items -> Nat]
    BY DEF Nothing
  <2>2. /\ status \in [Purchases -> Statuses] /\ got \in [Purchases -> [Items -> Nat]]
        /\ quantity \in [Items -> Nat] /\ taken \in [Items -> Nat]
        /\ record \in [Keys -> Payload \cup {NoRecord}]
        /\ base \in [Handlers -> [Items -> Nat]] /\ level \in [Handlers -> [Items -> Nat]]
    BY <2>1 DEF Init, Statuses
  <2>3. /\ at \in [Handlers -> Places]
        /\ request \in [Handlers -> Receipt \cup Payment \cup {NoRequest}]
        /\ answered \in [Handlers -> {"nothing", "created", "cached", "conflict", "refused",
                                      "failed", "lost"}]
        /\ owed \in [Handlers -> Int]
    BY DEF Init, Places
  <2>4. mine \in [Handlers -> SUBSET Purchases] /\ rows \in [Handlers -> SUBSET Items]
    BY DEF Init
  <2> QED BY <2>2, <2>3, <2>4 DEF Init, TypeOK
<1>2. IsFiniteSet(payments)
  BY FS_EmptySet DEF Init
<1>3. Turns /\ Locks /\ Receiving /\ KeysHeld /\ Written /\ Owing /\ OwingInAll
  BY DEF Init, Turns, Locks, Receiving, KeysHeld, Written, Owing, OwingInAll, HoldsKey,
         SharesPurchase, Pays
<1>4. ReceiptsTellStatus
  BY DEF Init, ReceiptsTellStatus, Nothing
<1>5. ReceiptsAreInStock
  <2> SUFFICES ASSUME NEW i \in Items
               PROVE  SumOver([p \in Purchases |-> got[p][i]], Purchases) = 0
    BY DEF Init, ReceiptsAreInStock, Nothing
  <2> DEFINE f == [p \in Purchases |-> got[p][i]]
  <2>1. \A p \in Purchases : f[p] = 0
    BY DEF Init, Nothing
  <2> HIDE DEF f
  <2> QED BY <2>1, SumOverZero DEF f
<1>6. PaidWithinTotal
  <2> SUFFICES ASSUME NEW p \in Purchases PROVE PaidOf(p) <= Total[p]
    BY DEF PaidWithinTotal
  <2> DEFINE f == [pay \in payments |-> IF pay.purchase = p THEN pay.amount ELSE 0]
  <2>1. \A pay \in payments : f[pay] = 0
    BY DEF Init
  <2>2. SumOver(f, payments) = 0
    <3> HIDE DEF f
    <3> QED BY <1>2, <2>1, SumOverZero
  <2> QED BY <2>2 DEF PaidOf
<1> QED BY <1>1, <1>2, <1>3, <1>4, <1>5, <1>6 DEF Inv

-----------------------------------------------------------------------------
(* What depends on the committed state only. *)
Books == ReceiptsTellStatus /\ ReceiptsAreInStock /\ PaidWithinTotal

LEMMA SamePayments ==
  ASSUME payments' = payments
  PROVE  PaidInAll' = PaidInAll /\ \A p : PaidOf(p)' = PaidOf(p)
BY DEF PaidInAll, PaidOf

LEMMA SameBooks ==
  ASSUME Books, UNCHANGED committed
  PROVE  Books'
BY SamePayments DEF Books, ReceiptsTellStatus, ReceiptsAreInStock, PaidWithinTotal, committed

(* The end of a handler: its locks and what it knew are gone. *)
LEMMA ReplyInv ==
  ASSUME Inv, NEW h \in Handlers, at[h] \notin {"idle", "done"},
         NEW a \in {"created", "cached", "conflict", "refused", "failed", "lost"},
         Reply(h, a)
  PROVE  Inv'
<1> USE DEF Inv
<1>1. /\ UNCHANGED <<committed, request, disturbed>>
      /\ \A g \in Handlers : at'[g] = IF g = h THEN "done" ELSE at[g]
      /\ \A g \in Handlers : answered'[g] = IF g = h THEN a ELSE answered[g]
      /\ \A g \in Handlers : mine'[g] = IF g = h THEN {} ELSE mine[g]
      /\ \A g \in Handlers : rows'[g] = IF g = h THEN {} ELSE rows[g]
      /\ \A g \in Handlers : g # h =>
           base'[g] = base[g] /\ level'[g] = level[g] /\ owed'[g] = owed[g]
  BY DEF Reply, Release, TypeOK
<1>2. TypeOK'
  <2>1. Nothing \in [Items -> Nat]
    BY DEF Nothing
  <2> QED BY <2>1 DEF Reply, Release, TypeOK, committed, Places
<1>3. Turns'
  BY <1>1 DEF Turns, Pays, Asked
<1>4. Locks'
  BY <1>1 DEF Locks, SharesPurchase, HoldsKey, InPayment, Pays
<1>5. Receiving'
  BY <1>1 DEF Receiving, committed
<1>6. KeysHeld'
  BY <1>1 DEF KeysHeld, HoldsKey, InPayment, Pays, RecordOf, committed
<1>7. Written'
  BY <1>1 DEF Written, Pays, committed, TypeOK
<1>8. Owing' /\ OwingInAll'
  <2>1. UNCHANGED <<PaidInAll, Payable, SumOver(Total, Payable)>> /\ \A p : PaidOf(p)' = PaidOf(p)
    BY <1>1, SamePayments DEF committed, Payable
  <2> QED BY <1>1, <2>1 DEF Owing, OwingInAll, Asked, Pays
<1>9. IsFiniteSet(payments')
  BY <1>1 DEF committed
<1>10. Books'
  BY <1>1, SameBooks DEF Books
<1> QED BY <1>2, <1>3, <1>4, <1>5, <1>6, <1>7, <1>8, <1>9, <1>10 DEF Books

-----------------------------------------------------------------------------
(* The statements of one row: nobody holds the row FOR UPDATE.             *)
LEMMA SetStatusInv ==
  ASSUME Inv, NEW p \in Purchases,
         \/ Create(p) \/ Order(p) \/ Cancel(p)
  PROVE  Inv'
<1> USE DEF Inv
<1>1. PICK to \in Statuses \ {"PARTIALLY_RECEIVED", "RECEIVED"} :
        /\ status[p] \in {"NONE", "DRAFT", "ORDERED"}
        /\ ~Locked(p)
        /\ status' = [status EXCEPT ![p] = to]
        /\ UNCHANGED <<got, quantity, taken, record, payments, at, request, answered, local>>
        /\ disturbed => disturbed'
        /\ disturbed' \in BOOLEAN
        /\ (p \in Payable)' => p \in Payable \/ disturbed' \/ \A g \in Handlers : ~PaysInAll(g)
  BY DEF Create, Order, Cancel, SetStatus, Statuses, PayableStatuses, Payable, TypeOK
<1>2. \A q \in Purchases : status'[q] = IF q = p THEN to ELSE status[q]
  BY <1>1 DEF TypeOK
<1>3. TypeOK'
  BY <1>1 DEF TypeOK, local
<1>4. Turns' /\ KeysHeld' /\ Written' /\ IsFiniteSet(payments')
  BY <1>1 DEF Turns, KeysHeld, Written, Pays, Asked, HoldsKey, InPayment, RecordOf
<1>5. Locks'
  BY <1>1 DEF Locks, SharesPurchase, HoldsKey, InPayment, Pays, local
<1>6. Receiving'
  BY <1>1, <1>2 DEF Receiving, Locked, local
<1>7. Owing'
  BY <1>1, SamePayments DEF Owing, Asked, local
<1>8. OwingInAll'
  <2> SUFFICES ASSUME NEW h \in Handlers, ~disturbed', Pays(h), Asked(h) = NoPurchase,
                      at[h] \in {"owed", "paid", "pay"}
               PROVE  Payable' = Payable
    <3>1. UNCHANGED <<at, request, mine, owed, PaidInAll>> /\ (disturbed => disturbed')
      BY <1>1, SamePayments DEF local
    <3> QED BY <3>1 DEF OwingInAll, Pays, Asked
  <2>1. mine[h] = Payable
    BY <1>1 DEF OwingInAll
  <2>2. p \notin Payable
    BY <1>1, <2>1 DEF Locked
  <2>3. (p \notin Payable)'
    BY <1>1, <2>2 DEF PaysInAll, Asked
  <2> QED BY <1>2, <2>2, <2>3 DEF Payable
<1>9. ReceiptsTellStatus'
  BY <1>1, <1>2 DEF ReceiptsTellStatus
<1>10. ReceiptsAreInStock' /\ PaidWithinTotal'
  BY <1>1, SamePayments DEF ReceiptsAreInStock, PaidWithinTotal
<1> QED BY <1>3, <1>4, <1>5, <1>6, <1>7, <1>8, <1>9, <1>10

LEMMA WithdrawInv ==
  ASSUME Inv, NEW i \in Items, Withdraw(i)
  PROVE  Inv'
<1> USE DEF Inv
<1>1. /\ UNCHANGED <<status, got, record, payments, at, request, answered, local, disturbed>>
      /\ \A h \in Handlers : i \notin rows[h]
      /\ \A j \in Items : j # i => quantity'[j] = quantity[j] /\ taken'[j] = taken[j]
      /\ quantity'[i] + taken'[i] = quantity[i] + taken[i]
      /\ \A j \in Items : quantity[j] \in Nat /\ taken[j] \in Nat
  <2>1. quantity \in [Items -> Nat] /\ taken \in [Items -> Nat]
    BY DEF TypeOK
  <2>2. /\ quantity[i] \in Nat /\ taken[i] \in Nat
        /\ quantity' = [quantity EXCEPT ![i] = quantity[i] - 1]
        /\ taken' = [taken EXCEPT ![i] = taken[i] + 1]
    BY <2>1 DEF Withdraw
  <2>3. quantity'[i] = quantity[i] - 1 /\ taken'[i] = taken[i] + 1
    BY <2>1, <2>2
  <2> QED BY <2>1, <2>2, <2>3 DEF Withdraw
<1>2. TypeOK'
  BY DEF Withdraw, TypeOK, local
<1>3. Turns' /\ KeysHeld' /\ Written' /\ IsFiniteSet(payments')
  BY <1>1 DEF Turns, KeysHeld, Written, Pays, Asked, HoldsKey, InPayment, RecordOf
<1>4. Locks'
  BY <1>1 DEF Locks, SharesPurchase, HoldsKey, InPayment, Pays, local
<1>5. Receiving'
  BY <1>1 DEF Receiving, local, TypeOK
<1>6. Owing' /\ OwingInAll'
  <2>1. PaidInAll' = PaidInAll /\ Payable' = Payable /\ \A p : PaidOf(p)' = PaidOf(p)
    BY <1>1, SamePayments DEF Payable
  <2> QED BY <1>1, <2>1 DEF Owing, OwingInAll, Asked, Pays, local
<1>7. ReceiptsTellStatus' /\ PaidWithinTotal'
  BY <1>1, SamePayments DEF ReceiptsTellStatus, PaidWithinTotal
<1>8. ReceiptsAreInStock'
  BY <1>1 DEF ReceiptsAreInStock
<1> QED BY <1>2, <1>3, <1>4, <1>5, <1>6, <1>7, <1>8

(* A request comes in: its handler holds nothing yet. *)
LEMMA ReceiveInv ==
  ASSUME Inv, NEW h \in Handlers, NEW r \in Receipt \cup Payment, Receive(h, r)
  PROVE  Inv'
<1> USE DEF Inv
<1> DEFINE place == IF r.kind = "pay" THEN "lookup" ELSE "lock"
<1>1. /\ UNCHANGED <<committed, answered, local, disturbed>> /\ at[h] = "idle"
      /\ \A g \in Handlers : at'[g] = IF g = h THEN place ELSE at[g]
      /\ \A g \in Handlers : request'[g] = IF g = h THEN r ELSE request[g]
      /\ r # NoRequest /\ r.kind \in {"pay", "receive"}
  BY PurchaseAssumption DEF Receive, TypeOK, Receipt, Payment
<1>2. TypeOK'
  BY DEF Receive, TypeOK, Places, committed, local
<1>3. Turns'
  BY <1>1 DEF Turns, Pays, Asked
<1>4. Locks'
  BY <1>1 DEF Locks, SharesPurchase, HoldsKey, InPayment, Pays, local
<1>5. Receiving'
  BY <1>1 DEF Receiving, committed, local
<1>6. KeysHeld'
  BY <1>1 DEF KeysHeld, HoldsKey, InPayment, Pays, RecordOf, committed
<1>7. Written'
  BY <1>1 DEF Written, Pays, committed, TypeOK
<1>8. Owing' /\ OwingInAll'
  <2>1. UNCHANGED <<PaidInAll, Payable, SumOver(Total, Payable)>> /\ \A p : PaidOf(p)' = PaidOf(p)
    BY <1>1, SamePayments DEF committed, Payable
  <2> QED BY <1>1, <2>1 DEF Owing, OwingInAll, Asked, Pays, local
<1>9. IsFiniteSet(payments') /\ Books'
  BY <1>1, SameBooks DEF Books, committed
<1> QED BY <1>2, <1>3, <1>4, <1>5, <1>6, <1>7, <1>8, <1>9 DEF Books

-----------------------------------------------------------------------------
(* The steps of a handler that commit nothing: every other handler knows   *)
(* what it knew, and the locks of this one exclude it.                     *)
Aside(h) ==
  /\ UNCHANGED <<committed, request, answered, disturbed>>
  /\ at[h] \notin {"idle", "answer", "done"} /\ at'[h] \notin {"idle", "answer", "done"}
  /\ \A g \in Handlers \ {h} :
       /\ at'[g] = at[g] /\ mine'[g] = mine[g] /\ rows'[g] = rows[g]
       /\ base'[g] = base[g] /\ level'[g] = level[g] /\ owed'[g] = owed[g]
       /\ mine'[h] \cap mine[g] = {}
       /\ rows'[h] \cap rows[g] = {}
       /\ \A p \in mine'[h] : ~SharesPurchase(g, p)

LEMMA AsideInv ==
  ASSUME Inv, NEW h \in Handlers, Aside(h), TypeOK',
         at'[h] \in {"lookup", "insert", "recover", "check", "owed", "paid", "pay"} => Pays(h),
         at'[h] = "stock" => ~Pays(h),
         at'[h] = "check" => Asked(h) # NoPurchase,
         at'[h] \in {"owed", "paid"} => Asked(h) = NoPurchase,
         at'[h] \notin {"stock", "owed", "paid", "pay"} => mine'[h] = {},
         at'[h] # "stock" => rows'[h] = {},
         HoldsKey(h)' =>
           \/ HoldsKey(h)
           \/ /\ RecordOf(h) = NoRecord
              /\ \A g \in Handlers \ {h} : HoldsKey(g) => request[g].key # request[h].key
              /\ \A g \in Handlers \ {h} : Asked(h) \notin mine[g],
         at'[h] = "stock" =>
           /\ mine'[h] = {request[h].purchase}
           /\ base'[h] = got[request[h].purchase]
           /\ status[request[h].purchase] \in {"ORDERED", "PARTIALLY_RECEIVED"}
           /\ \A i \in Items : request[h].units[i] <=
                                 Ordered[request[h].purchase][i] - got[request[h].purchase][i]
           /\ \A i \in rows'[h] : request[h].units[i] > 0 /\ level'[h][i] = quantity[i],
         at'[h] = "pay" /\ Asked(h) # NoPurchase =>
           mine'[h] = {Asked(h)} /\ owed'[h] = Total[Asked(h)] - PaidOf(Asked(h)),
         ~disturbed /\ Pays(h) /\ Asked(h) = NoPurchase /\ at'[h] \in {"owed", "paid", "pay"} =>
           /\ mine'[h] = Payable
           /\ at'[h] = "paid" => owed'[h] = SumOver(Total, Payable)
           /\ at'[h] = "pay" => owed'[h] = SumOver(Total, Payable) - PaidInAll
  PROVE  Inv'
<1> USE DEF Inv
<1>1. UNCHANGED <<status, got, quantity, taken, record, payments, request, answered, disturbed>>
  BY DEF Aside, committed
<1>2. Turns'
  BY <1>1 DEF Aside, Turns, Pays, Asked
<1>3. Locks'
  <2>1. \A g \in Handlers \ {h} : \A p \in mine[g] : ~SharesPurchase(h, p)'
    BY <1>1 DEF Locks, SharesPurchase, HoldsKey, Pays, Asked
  <2>2. \A g \in Handlers \ {h} : \A p : SharesPurchase(g, p)' <=> SharesPurchase(g, p)
    BY <1>1 DEF Aside, SharesPurchase, HoldsKey, Pays
  <2> HIDE DEF Inv
  <2>3. Locks
    BY DEF Inv
  <2> QED BY <2>1, <2>2, <2>3 DEF Aside, Locks
<1>4. Receiving'
  BY <1>1 DEF Aside, Receiving
<1>5. KeysHeld'
  BY <1>1 DEF Aside, KeysHeld, HoldsKey, Pays, RecordOf
<1>6. Written'
  <2>1. \A pay \in payments : pay.by \in Handlers /\ pay.by # h
    BY DEF Aside, Written, TypeOK
  <2>2. Written
    OBVIOUS
  <2> HIDE DEF Inv
  <2> QED BY <1>1, <2>1, <2>2 DEF Aside, Written, Pays
<1>7. Owing' /\ OwingInAll'
  <2>1. PaidInAll' = PaidInAll /\ Payable' = Payable /\ \A p : PaidOf(p)' = PaidOf(p)
    BY <1>1, SamePayments DEF Payable
  <2> QED BY <1>1, <2>1 DEF Aside, Owing, OwingInAll, Asked, Pays
<1>8. IsFiniteSet(payments') /\ Books'
  BY <1>1, SameBooks DEF Books, committed
<1> QED BY <1>2, <1>3, <1>4, <1>5, <1>6, <1>7, <1>8 DEF Books

LEMMA LockReceiptInv ==
  ASSUME Inv, NEW h \in Handlers, LockReceipt(h), at'[h] # "done"
  PROVE  Inv'
<1> USE DEF Inv
<1> DEFINE p == request[h].purchase
<1>1. /\ UNCHANGED <<committed, request, answered, disturbed, rows, level, owed>>
      /\ at[h] = "lock" /\ ~Pays(h) /\ ~Blocked(h)
      /\ status[p] \in {"ORDERED", "PARTIALLY_RECEIVED"}
      /\ \A i \in Items : request[h].units[i] <= Ordered[p][i] - got[p][i]
      /\ at' = [at EXCEPT ![h] = "stock"]
      /\ mine' = [mine EXCEPT ![h] = {p}]
      /\ base' = [base EXCEPT ![h] = got[p]]
  BY DEF LockReceipt, Goto, Reply, TypeOK
<1>2. p \in Purchases /\ request[h] \in Receipt
  <2>1. request[h] # NoRequest /\ request[h] \in Receipt \cup Payment
    BY <1>1 DEF TypeOK, Turns
  <2> QED BY <1>1, <2>1 DEF Receipt, Payment, Pays
<1>3. at'[h] = "stock" /\ mine'[h] = {p} /\ base'[h] = got[p] /\ rows[h] = {}
  BY <1>1 DEF TypeOK, Locks
<1>4. \A g \in Handlers \ {h} : p \notin mine[g] /\ ~SharesPurchase(g, p)
  BY <1>1, <1>2 DEF Blocked, WaitsFor, KeptFrom, Sought
<1>5. Aside(h)
  BY <1>1, <1>3, <1>4 DEF Aside, TypeOK
<1>6. TypeOK'
  BY <1>1, <1>2 DEF TypeOK, committed, Places
<1>7. ~HoldsKey(h)'
  BY <1>1 DEF HoldsKey, Pays
<1> QED BY <1>1, <1>3, <1>5, <1>6, <1>7, AsideInv

LEMMA LockStockInv ==
  ASSUME Inv, NEW h \in Handlers, NEW i \in Items, LockStock(h, i)
  PROVE  Inv'
<1> USE DEF Inv
<1>1. /\ UNCHANGED <<committed, at, request, answered, mine, base, owed, disturbed>>
      /\ at[h] = "stock" /\ request[h].units[i] > 0
      /\ \A g \in Handlers : i \notin rows[g]
      /\ rows' = [rows EXCEPT ![h] = rows[h] \cup {i}]
      /\ level' = [level EXCEPT ![h][i] = quantity[i]]
  BY DEF LockStock, StillNeeded
<1>2. /\ rows'[h] = rows[h] \cup {i}
      /\ level'[h][i] = quantity[i] /\ \A j \in Items \ {i} : level'[h][j] = level[h][j]
      /\ \A g \in Handlers \ {h} : rows'[g] = rows[g] /\ level'[g] = level[g]
  BY <1>1 DEF TypeOK
<1>3. Aside(h)
  <2>1. at[h] \notin {"idle", "answer", "done"}
    BY <1>1
  <2> HIDE DEF Inv
  <2>2. Locks
    BY DEF Inv
  <2> QED BY <1>1, <1>2, <2>1, <2>2 DEF Aside, Locks
<1>4. TypeOK'
  BY <1>1 DEF TypeOK, committed
<1>5. ~Pays(h)
  BY <1>1 DEF Turns
<1>6. LET q == request[h].purchase
      IN  /\ mine[h] = {q} /\ base[h] = got[q]
          /\ status[q] \in {"ORDERED", "PARTIALLY_RECEIVED"}
          /\ \A j \in Items : request[h].units[j] <= Ordered[q][j] - got[q][j]
          /\ \A j \in rows[h] : request[h].units[j] > 0 /\ level[h][j] = quantity[j]
  BY <1>1 DEF Receiving
<1>7. \A j \in rows'[h] : request[h].units[j] > 0 /\ level'[h][j] = quantity[j]
  BY <1>1, <1>2, <1>6 DEF TypeOK
<1>8. ~HoldsKey(h)'
  BY <1>1, <1>5 DEF HoldsKey, Pays
<1> QED BY <1>1, <1>3, <1>4, <1>5, <1>6, <1>7, <1>8, AsideInv

(* A step that only goes on, with the locks it has. *)
LEMMA GotoInv ==
  ASSUME Inv, NEW h \in Handlers, NEW place \in {"insert", "recover", "check", "lock"},
         at[h] \in {"lookup", "insert", "check"},
         Goto(h, place), UNCHANGED <<committed, local>>,
         place = "check" => Asked(h) # NoPurchase,
         place \in {"check", "lock"} =>
           \/ at[h] = "check"
           \/ at[h] = "insert" /\ ~Blocked(h) /\ RecordOf(h) = NoRecord
  PROVE  Inv'
<1> USE DEF Inv
<1>1. /\ UNCHANGED <<committed, request, answered, disturbed, mine, rows, base, level, owed>>
      /\ at' = [at EXCEPT ![h] = place]
  BY DEF Goto, local
<1>2. at'[h] = place /\ Pays(h) /\ mine[h] = {} /\ rows[h] = {}
  BY <1>1 DEF TypeOK, Turns, Locks
<1>3. Aside(h)
  <2>1. \A g \in Handlers \ {h} : at'[g] = at[g]
    BY <1>1 DEF TypeOK
  <2> QED BY <1>1, <1>2, <2>1 DEF Aside
<1>4. TypeOK'
  BY <1>1 DEF TypeOK, committed, Places
<1>5. HoldsKey(h)' =>
        \/ HoldsKey(h)
        \/ /\ RecordOf(h) = NoRecord
           /\ \A g \in Handlers \ {h} : HoldsKey(g) => request[g].key # request[h].key
           /\ \A g \in Handlers \ {h} : Asked(h) \notin mine[g]
  BY <1>1, <1>2 DEF HoldsKey, InPayment, Pays, Blocked, WaitsFor, Asked
<1> QED BY <1>1, <1>2, <1>3, <1>4, <1>5, AsideInv

(* Whoever pays holds its key, and locks what no other handler holds.      *)
LEMMA LockPurchaseInv ==
  ASSUME Inv, NEW h \in Handlers, LockPurchase(h)
  PROVE  Inv'
<1> USE DEF Inv
<1> DEFINE place == IF Asked(h) = NoPurchase THEN "owed" ELSE "pay"
<1>1. /\ UNCHANGED <<committed, request, answered, disturbed, rows, base, level>>
      /\ at[h] = "lock" /\ Pays(h) /\ ~Blocked(h)
      /\ at' = [at EXCEPT ![h] = place]
      /\ mine' = [mine EXCEPT ![h] = Sought(h)]
      /\ Asked(h) # NoPurchase =>
           owed' = [owed EXCEPT ![h] = Total[Asked(h)] - PaidOf(Asked(h))]
      /\ Asked(h) = NoPurchase => owed' = owed
  BY DEF LockPurchase, Goto, Asked
<1>2. Asked(h) \in Purchases \cup {NoPurchase}
  BY <1>1 DEF TypeOK, Pays, Asked, Receipt, Payment, Payload
<1>3. Sought(h) = (IF Asked(h) = NoPurchase THEN Payable ELSE {Asked(h)})
  BY <1>1 DEF Sought, Asked
<1>4. /\ at'[h] = place /\ mine'[h] = Sought(h) /\ rows[h] = {}
      /\ \A g \in Handlers \ {h} : at'[g] = at[g] /\ mine'[g] = mine[g] /\ owed'[g] = owed[g]
      /\ Asked(h) # NoPurchase => owed'[h] = Total[Asked(h)] - PaidOf(Asked(h))
  BY <1>1 DEF TypeOK, Locks
<1>5. \A g \in Handlers \ {h} : \A p \in Sought(h) : p \notin mine[g] /\ ~SharesPurchase(g, p)
  BY <1>1 DEF Blocked, WaitsFor, KeptFrom
<1>6. Aside(h)
  BY <1>1, <1>4, <1>5 DEF Aside
<1>7. TypeOK'
  <2>1. Sought(h) \subseteq Purchases
    BY <1>2, <1>3 DEF Payable
  <2>2. mine' \in [Handlers -> SUBSET Purchases] /\ at' \in [Handlers -> Places]
    BY <1>1, <2>1 DEF TypeOK, Places
  <2>3. owed' \in [Handlers -> Int]
    <3>1. Asked(h) # NoPurchase => Total[Asked(h)] - PaidOf(Asked(h)) \in Int
      BY <1>2, PaymentsType, PurchaseAssumption
    <3> QED BY <1>1, <3>1 DEF TypeOK
  <2> QED BY <1>1, <2>2, <2>3 DEF TypeOK, committed
<1>8. HoldsKey(h)
  BY <1>1 DEF HoldsKey, InPayment
<1> QED BY <1>1, <1>3, <1>4, <1>6, <1>7, <1>8, AsideInv

LEMMA ReadInv ==
  ASSUME Inv, NEW h \in Handlers, ReadOwed(h) \/ ReadPaid(h)
  PROVE  Inv'
<1> USE DEF Inv
<1> DEFINE place == IF at[h] = "owed" THEN "paid" ELSE "pay"
           known == IF at[h] = "owed" THEN SumOver(Total, Payable) ELSE owed[h] - PaidInAll
<1>1. /\ UNCHANGED <<committed, request, answered, disturbed, mine, rows, base, level>>
      /\ at[h] \in {"owed", "paid"}
      /\ at' = [at EXCEPT ![h] = place]
      /\ owed' = [owed EXCEPT ![h] = known]
  BY DEF ReadOwed, ReadPaid, Goto
<1>2. Pays(h) /\ Asked(h) = NoPurchase /\ rows[h] = {}
  BY <1>1 DEF Turns, Locks
<1>3. known \in Int
  BY TotalsType, PaymentsType DEF TypeOK
<1>4. /\ at'[h] = place /\ owed'[h] = known
      /\ \A g \in Handlers \ {h} : at'[g] = at[g] /\ owed'[g] = owed[g]
  BY <1>1 DEF TypeOK
<1>5. Aside(h)
  <2>1. Locks
    OBVIOUS
  <2> HIDE DEF Inv
  <2> QED BY <1>1, <1>4, <2>1 DEF Aside, Locks
<1>6. TypeOK'
  BY <1>1, <1>3 DEF TypeOK, committed, Places
<1>7. HoldsKey(h)
  BY <1>1, <1>2 DEF HoldsKey, InPayment
<1>8. ~disturbed =>
        /\ mine[h] = Payable
        /\ at[h] = "paid" => owed[h] = SumOver(Total, Payable)
  BY <1>1, <1>2 DEF OwingInAll
<1> QED BY <1>1, <1>2, <1>4, <1>5, <1>6, <1>7, <1>8, AsideInv

-----------------------------------------------------------------------------
LEMMA RequestType ==
  ASSUME TypeOK, NEW h \in Handlers, request[h] # NoRequest
  PROVE  /\ ~Pays(h) => /\ request[h].purchase \in Purchases
                        /\ request[h].units \in [Items -> Nat]
         /\ Pays(h) => /\ request[h].key \in Keys /\ request[h].payload \in Payload
                       /\ Asked(h) \in Purchases \cup {NoPurchase}
                       /\ request[h].payload.amount \in Amounts
<1>1. request[h] \in Receipt \/ request[h] \in Payment
  BY DEF TypeOK
<1>2. Units \cup {0} \subseteq Nat
  BY PurchaseAssumption
<1>3. CASE request[h] \in Receipt
  <2>1. /\ request[h].kind = "receive" /\ request[h].purchase \in Purchases
        /\ request[h].units \in [Items -> Units \cup {0}]
    BY <1>3 DEF Receipt
  <2>2. request[h].units \in [Items -> Nat]
    BY <1>2, <2>1
  <2> QED BY <2>1, <2>2 DEF Pays
<1>4. CASE request[h] \in Payment
  <2>1. request[h].kind = "pay" /\ request[h].key \in Keys /\ request[h].payload \in Payload
    BY <1>4 DEF Payment
  <2> QED BY <2>1 DEF Pays, Payload, Asked
<1> QED BY <1>1, <1>3, <1>4

(* A receipt commits what it read under its locks and what came in: the    *)
(* sum of both is what the database would say now.                         *)
LEMMA CommitReceiptInv ==
  ASSUME Inv, NEW h \in Handlers, CommitReceipt(h)
  PROVE  Inv'
<1> USE DEF Inv
<1> DEFINE p == request[h].purchase
           units == request[h].units
           now == [i \in Items |-> base[h][i] + units[i]]
<1>1. /\ UNCHANGED <<taken, record, payments, request, answered, disturbed>>
      /\ at[h] = "stock" /\ StillNeeded(h) = {}
      /\ got' = [got EXCEPT ![p] = now]
      /\ quantity' = [i \in Items |-> IF i \in rows[h] THEN level[h][i] + units[i]
                                      ELSE quantity[i]]
      /\ status' = [status EXCEPT ![p] =
                      IF now = Ordered[p] THEN "RECEIVED" ELSE "PARTIALLY_RECEIVED"]
      /\ at' = [at EXCEPT ![h] = "answer"]
      /\ Release(h)
  BY DEF CommitReceipt, Goto
<1>2. ~Pays(h) /\ p \in Purchases /\ units \in [Items -> Nat]
  <2>1. request[h] # NoRequest /\ ~Pays(h)
    BY <1>1 DEF Turns
  <2> QED BY <2>1, RequestType
<1>3. /\ mine[h] = {p} /\ base[h] = got[p]
      /\ status[p] \in {"ORDERED", "PARTIALLY_RECEIVED"}
      /\ \A i \in Items : units[i] <= Ordered[p][i] - got[p][i]
      /\ \A i \in rows[h] : units[i] > 0 /\ level[h][i] = quantity[i]
  BY <1>1 DEF Receiving
<1>4. /\ \A q \in Purchases : got[q] \in [Items -> Nat] /\ Ordered[q] \in [Items -> Nat]
      /\ quantity \in [Items -> Nat] /\ rows[h] \subseteq Items
  BY PurchaseAssumption DEF TypeOK
<1>5. now \in [Items -> Nat] /\ \A i \in Items : now[i] = got[p][i] + units[i]
  BY <1>2, <1>3, <1>4
<1>6. \A i \in Items : quantity'[i] = quantity[i] + units[i]
  <2> SUFFICES ASSUME NEW i \in Items, i \notin rows[h] PROVE units[i] = 0
    BY <1>1, <1>2, <1>3, <1>4
  <2>1. ~(units[i] > 0)
    BY <1>1 DEF StillNeeded
  <2> QED BY <1>2, <2>1
<1>7. /\ \A q \in Purchases : got'[q] = IF q = p THEN now ELSE got[q]
      /\ \A q \in Purchases \ {p} : status'[q] = status[q]
      /\ status'[p] = IF now = Ordered[p] THEN "RECEIVED" ELSE "PARTIALLY_RECEIVED"
      /\ \A g \in Handlers : at'[g] = IF g = h THEN "answer" ELSE at[g]
      /\ \A g \in Handlers : mine'[g] = IF g = h THEN {} ELSE mine[g]
      /\ \A g \in Handlers : rows'[g] = IF g = h THEN {} ELSE rows[g]
      /\ \A g \in Handlers \ {h} :
           base'[g] = base[g] /\ level'[g] = level[g] /\ owed'[g] = owed[g]
  <2> HIDE DEF now
  <2> QED BY <1>1, <1>2 DEF Release, TypeOK
<1>8. Payable' = Payable
  BY <1>2, <1>3, <1>7 DEF Payable, PayableStatuses
<1> HIDE DEF now
<1>9. TypeOK'
  <2>1. quantity' \in [Items -> Nat]
    BY <1>1, <1>2, <1>4, <1>6
  <2>2. got' \in [Purchases -> [Items -> Nat]] /\ status' \in [Purchases -> Statuses]
    BY <1>1, <1>2, <1>5 DEF TypeOK, Statuses, PayableStatuses
  <2>3. Nothing \in [Items -> Nat]
    BY DEF Nothing
  <2>4. /\ mine' \in [Handlers -> SUBSET Purchases] /\ rows' \in [Handlers -> SUBSET Items]
        /\ base' \in [Handlers -> [Items -> Nat]] /\ level' \in [Handlers -> [Items -> Nat]]
        /\ owed' \in [Handlers -> Int] /\ at' \in [Handlers -> Places]
    BY <1>1, <2>3 DEF TypeOK, Release, Places
  <2> QED BY <1>1, <2>1, <2>2, <2>4 DEF TypeOK
<1>10. Turns'
  BY <1>1, <1>7 DEF Turns, Pays, Asked
<1>11. Locks'
  BY <1>1, <1>7 DEF Locks, SharesPurchase, HoldsKey, InPayment, Pays
<1>12. Receiving'
  <2> SUFFICES ASSUME NEW g \in Handlers \ {h}, at[g] = "stock"
               PROVE  LET q == request[g].purchase
                      IN  /\ mine[g] = {q} /\ base[g] = got'[q]
                          /\ status'[q] \in {"ORDERED", "PARTIALLY_RECEIVED"}
                          /\ \A i \in Items :
                               request[g].units[i] <= Ordered[q][i] - got'[q][i]
                          /\ \A i \in rows[g] :
                               request[g].units[i] > 0 /\ level[g][i] = quantity'[i]
    BY <1>1, <1>7 DEF Receiving
  <2> DEFINE q == request[g].purchase
  <2>1. mine[g] = {q} /\ q # p /\ q \in Purchases /\ rows[g] \cap rows[h] = {}
    <3>1. mine[g] = {q}
      BY DEF Receiving
    <3>2. mine[g] \cap mine[h] = {} /\ rows[g] \cap rows[h] = {}
      BY DEF Locks
    <3>3. mine[g] \subseteq Purchases
      BY DEF TypeOK
    <3> QED BY <1>3, <3>1, <3>2, <3>3
  <2>2. got'[q] = got[q] /\ status'[q] = status[q]
    BY <1>7, <2>1
  <2>3. \A i \in rows[g] : quantity'[i] = quantity[i]
    BY <1>1, <2>1 DEF TypeOK
  <2> QED BY <2>1, <2>2, <2>3 DEF Receiving
<1>13. KeysHeld'
  BY <1>1, <1>7 DEF KeysHeld, HoldsKey, InPayment, Pays, RecordOf
<1>14. Written'
  BY <1>1, <1>2, <1>7 DEF Written, Pays, TypeOK
<1>15. Owing' /\ OwingInAll'
  <2>1. PaidInAll' = PaidInAll /\ \A q : PaidOf(q)' = PaidOf(q)
    BY <1>1, SamePayments
  <2> QED BY <1>1, <1>7, <1>8, <2>1 DEF Owing, OwingInAll, Asked, Pays
<1>16. ReceiptsTellStatus'
  <2>1. \A i \in Items : now[i] <= Ordered[p][i]
    BY <1>2, <1>3, <1>4, <1>5
  <2> QED BY <1>7, <2>1 DEF ReceiptsTellStatus
<1>17. ReceiptsAreInStock'
  <2> SUFFICES ASSUME NEW i \in Items
               PROVE  quantity'[i] + taken[i] =
                        SumOver([q \in Purchases |-> got'[q][i]], Purchases)
    BY <1>1 DEF ReceiptsAreInStock
  <2> DEFINE f == [q \in Purchases |-> got[q][i]]
             g == [q \in Purchases |-> got'[q][i]]
  <2>1. \A q \in Purchases : f[q] \in Int /\ g[q] \in Int
    BY <1>4, <1>5, <1>7
  <2>2. (\A q \in Purchases : q # p => g[q] = f[q]) /\ g[p] - f[p] = units[i]
    <3>1. \A q \in Purchases : q # p => got'[q] = got[q]
      BY <1>7
    <3>2. got'[p][i] = got[p][i] + units[i] /\ got[p][i] \in Nat /\ units[i] \in Nat
      BY <1>2, <1>4, <1>5, <1>7
    <3>3. f[p] = got[p][i] /\ g[p] = got'[p][i]
      BY <1>2
    <3>4. g[p] - f[p] = units[i]
      BY <3>2, <3>3
    <3> QED BY <3>1, <3>4
  <2>3. quantity[i] + taken[i] = SumOver(f, Purchases)
    BY DEF ReceiptsAreInStock
  <2>4. IsFiniteSet(Purchases)
    BY PurchaseAssumption
  <2> HIDE DEF f, g
  <2>5. SumOver(g, Purchases) = SumOver(f, Purchases) + (g[p] - f[p])
    BY <1>2, <2>1, <2>2, <2>4, SumOverChange
  <2>6. quantity[i] \in Nat /\ taken[i] \in Nat /\ units[i] \in Nat
    BY <1>2 DEF TypeOK
  <2>7. quantity'[i] = quantity[i] + units[i]
    BY <1>6
  <2>8. quantity'[i] + taken[i] = SumOver(g, Purchases)
    BY <2>2, <2>3, <2>5, <2>6, <2>7
  <2> QED BY <2>8 DEF g
<1>18. PaidWithinTotal' /\ IsFiniteSet(payments')
  BY <1>1, SamePayments DEF PaidWithinTotal
<1> QED BY <1>9, <1>10, <1>11, <1>12, <1>13, <1>14, <1>15, <1>16, <1>17, <1>18

-----------------------------------------------------------------------------
(* What a payment that commits knows: it is its handler's only one, and    *)
(* what it read is owed is owed still.                                     *)
LEMMA CommitPaymentFacts ==
  ASSUME Inv, NEW h \in Handlers, CommitPayment(h)
  PROVE  /\ at[h] = "pay" /\ Pays(h) /\ RecordOf(h) = NoRecord
         /\ request[h].key \in Keys /\ request[h].payload \in Payload
         /\ Asked(h) \in Purchases \cup {NoPurchase}
         /\ request[h].payload.amount \in Amounts /\ request[h].payload.amount \in Nat \ {0}
         /\ request[h].payload.amount <= owed[h] /\ owed[h] \in Int
         /\ \A pay \in payments : pay.by # h
         /\ IsFiniteSet(payments')
         /\ PaidInAll' = PaidInAll + request[h].payload.amount
         /\ \A p : PaidOf(p)' = PaidOf(p) +
                     IF Asked(h) = p THEN request[h].payload.amount ELSE 0
         /\ Payable' = Payable
<1> USE DEF Inv
<1> DEFINE asked == request[h].payload
           new == [by |-> h, purchase |-> asked.purchase, amount |-> asked.amount]
<1>1. /\ at[h] = "pay" /\ asked.amount <= owed[h] /\ payments' = payments \cup {new}
      /\ status' = status
  BY DEF CommitPayment
<1>2. Pays(h) /\ request[h] # NoRequest
  BY <1>1 DEF Turns
<1>3. /\ request[h].key \in Keys /\ asked \in Payload
      /\ Asked(h) \in Purchases \cup {NoPurchase} /\ asked.amount \in Amounts
  BY <1>2, RequestType
<1>4. asked.amount \in Nat \ {0}
  BY <1>3, PurchaseAssumption
<1>5. RecordOf(h) = NoRecord
  BY <1>1, <1>2 DEF KeysHeld, HoldsKey, InPayment
<1>6. \A pay \in payments : pay.by # h
  BY <1>1 DEF Written
<1>7. new \notin payments
  BY <1>6
<1>8. new.amount = asked.amount /\ new.purchase = Asked(h)
  BY DEF Asked
<1>9. /\ IsFiniteSet(payments') /\ PaidInAll' = PaidInAll + asked.amount
      /\ \A p : PaidOf(p)' = PaidOf(p) + IF Asked(h) = p THEN asked.amount ELSE 0
  <2> HIDE DEF new
  <2> QED BY <1>1, <1>4, <1>7, <1>8, PaymentAdded
<1>10. Payable' = Payable /\ owed[h] \in Int
  BY <1>1 DEF Payable, TypeOK
<1> QED BY <1>1, <1>2, <1>3, <1>4, <1>5, <1>6, <1>9, <1>10

(* A payment of the whole account that nothing disturbed stays within it.  *)
LEMMA WithinOwed ==
  ASSUME Inv, NEW h \in Handlers, CommitPayment(h), ~disturbed', Asked(h) = NoPurchase
  PROVE  ~disturbed /\ mine[h] = Payable /\ PaidInAll' <= SumOver(Total, Payable)
<1> USE DEF Inv
<1>1. /\ at[h] = "pay" /\ Pays(h) /\ PaidInAll' = PaidInAll + request[h].payload.amount
      /\ request[h].payload.amount <= owed[h] /\ request[h].payload.amount \in Nat
      /\ owed[h] \in Int
  BY CommitPaymentFacts
<1>2. ~disturbed
  BY DEF CommitPayment
<1>3. mine[h] = Payable /\ owed[h] = SumOver(Total, Payable) - PaidInAll
  BY <1>1, <1>2 DEF OwingInAll
<1>4. PaidInAll \in Nat /\ SumOver(Total, Payable) \in Nat
  BY PaymentsType, TotalsType
<1> QED BY <1>1, <1>2, <1>3, <1>4

LEMMA CommitPaymentInv ==
  ASSUME Inv, NEW h \in Handlers, CommitPayment(h)
  PROVE  Inv'
<1> USE DEF Inv
<1> DEFINE asked == request[h].payload
           new == [by |-> h, purchase |-> asked.purchase, amount |-> asked.amount]
<1>1. /\ at[h] = "pay" /\ Pays(h) /\ RecordOf(h) = NoRecord
      /\ request[h].key \in Keys /\ asked \in Payload
      /\ Asked(h) \in Purchases \cup {NoPurchase}
      /\ asked.amount \in Amounts /\ asked.amount \in Nat \ {0}
      /\ asked.amount <= owed[h] /\ owed[h] \in Int
      /\ \A pay \in payments : pay.by # h
      /\ IsFiniteSet(payments')
      /\ PaidInAll' = PaidInAll + asked.amount
      /\ \A p : PaidOf(p)' = PaidOf(p) + IF Asked(h) = p THEN asked.amount ELSE 0
      /\ Payable' = Payable
  BY CommitPaymentFacts
<1>2. /\ UNCHANGED <<status, got, quantity, taken, request, answered>>
      /\ payments' = payments \cup {new}
      /\ record' = [record EXCEPT ![request[h].key] = asked]
      /\ disturbed' = \/ disturbed
                       \/ /\ Asked(h) \in Purchases \ Payable
                          /\ \E g \in Handlers : PaysInAll(g)
      /\ at' = [at EXCEPT ![h] = "answer"]
      /\ Release(h)
  BY DEF CommitPayment, Asked
<1>3. /\ \A g \in Handlers : at'[g] = IF g = h THEN "answer" ELSE at[g]
      /\ \A g \in Handlers : mine'[g] = IF g = h THEN {} ELSE mine[g]
      /\ \A g \in Handlers : rows'[g] = IF g = h THEN {} ELSE rows[g]
      /\ \A g \in Handlers \ {h} :
           base'[g] = base[g] /\ level'[g] = level[g] /\ owed'[g] = owed[g]
      /\ \A k \in Keys : record'[k] = IF k = request[h].key THEN asked ELSE record[k]
  BY <1>2 DEF Release, TypeOK
<1>4. TypeOK'
  <2>1. new \in [by : Handlers, purchase : Purchases \cup {NoPurchase}, amount : Amounts]
    BY <1>1 DEF Asked
  <2>2. record' \in [Keys -> Payload \cup {NoRecord}] /\ disturbed' \in BOOLEAN
    BY <1>1, <1>2 DEF TypeOK
  <2>3. Nothing \in [Items -> Nat]
    BY DEF Nothing
  <2>4. /\ mine' \in [Handlers -> SUBSET Purchases] /\ rows' \in [Handlers -> SUBSET Items]
        /\ base' \in [Handlers -> [Items -> Nat]] /\ level' \in [Handlers -> [Items -> Nat]]
        /\ owed' \in [Handlers -> Int] /\ at' \in [Handlers -> Places]
    BY <1>2, <2>3 DEF TypeOK, Release, Places
  <2> HIDE DEF new
  <2> QED BY <1>2, <2>1, <2>2, <2>4 DEF TypeOK
<1>5. Turns'
  <2>1. Turns /\ request' = request /\ answered' = answered
    BY <1>2
  <2> HIDE DEF Inv
  <2> QED BY <1>1, <1>3, <2>1 DEF Turns, Pays, Asked
<1>6. Locks'
  BY <1>2, <1>3 DEF Locks, SharesPurchase, HoldsKey, InPayment, Pays
<1>7. Receiving'
  BY <1>2, <1>3 DEF Receiving
<1>8. KeysHeld'
  <2>1. \A g \in Handlers : HoldsKey(g)' => g # h /\ HoldsKey(g)
    BY <1>2, <1>3 DEF HoldsKey, InPayment, Pays
  <2>2. HoldsKey(h) /\ KeysHeld
    BY <1>1 DEF HoldsKey, InPayment
  <2>3. \A g \in Handlers : HoldsKey(g) => request[g].key \in Keys
    BY RequestType DEF HoldsKey, Pays
  <2> HIDE DEF Inv
  <2> QED BY <1>2, <1>3, <2>1, <2>2, <2>3 DEF KeysHeld, RecordOf
<1>9. Written'
  <2>1. new \in payments' /\ new.by = h
    BY <1>2
  <2>2. \A pay \in payments' : pay \in payments \/ pay.by = h
    BY <1>2
  <2>3. \A pay \in payments : pay.by \in Handlers
    BY DEF TypeOK
  <2> HIDE DEF new
  <2> QED BY <1>1, <1>2, <1>3, <2>1, <2>2, <2>3 DEF Written, Pays
<1>10. Owing'
  <2> SUFFICES ASSUME NEW g \in Handlers \ {h}, NEW p, at[g] = "pay", p = Asked(g),
                      p # NoPurchase
               PROVE  mine[g] = {p} /\ owed[g] = Total[p] - PaidOf(p)'
    <3>1. request' = request
      BY <1>2
    <3> HIDE DEF Inv
    <3> QED BY <1>3, <3>1 DEF Owing, Asked
  <2>1. mine[g] = {p} /\ owed[g] = Total[p] - PaidOf(p)
    BY DEF Owing
  <2>2. Asked(h) # p
    <3> SUFFICES ASSUME Asked(h) = p PROVE FALSE
      OBVIOUS
    <3>1. mine[h] = {p}
      BY <1>1 DEF Owing
    <3>2. mine[h] \cap mine[g] = {}
      BY DEF Locks
    <3> QED BY <2>1, <3>1, <3>2
  <2>3. PaidOf(p) \in Nat
    BY PaymentsType
  <2>4. PaidOf(p)' = PaidOf(p) + 0
    BY <1>1, <2>2
  <2> QED BY <2>1, <2>3, <2>4
<1>11. OwingInAll'
  <2> SUFFICES ASSUME NEW g \in Handlers \ {h}, ~disturbed', Pays(g), Asked(g) = NoPurchase,
                      at[g] \in {"owed", "paid", "pay"}
               PROVE  FALSE
    BY <1>2, <1>3 DEF OwingInAll, Asked, Pays
  <2>1. mine[g] = Payable /\ mine[h] \cap mine[g] = {}
    BY <1>2 DEF OwingInAll, Locks
  <2>2. CASE Asked(h) = NoPurchase
    <3>1. mine[h] = Payable /\ PaidInAll' <= SumOver(Total, Payable)
      BY <2>2, WithinOwed
    <3>2. \A p \in Payable : Total[p] = 0
      BY <2>1, <3>1
    <3>3. SumOver(Total, Payable) = 0
      BY <3>2, SumOverZero, PurchaseAssumption, FS_Subset DEF Payable
    <3>4. PaidInAll \in Nat
      BY PaymentsType
    <3> QED BY <1>1, <3>1, <3>3, <3>4
  <2>3. CASE Asked(h) # NoPurchase
    <3>1. mine[h] = {Asked(h)} /\ Asked(h) \in Purchases
      BY <1>1, <2>3 DEF Owing
    <3>2. PaysInAll(g)
      BY DEF PaysInAll, Asked
    <3> QED BY <1>2, <2>1, <3>1, <3>2
  <2> QED BY <2>2, <2>3
<1>12. ReceiptsTellStatus' /\ ReceiptsAreInStock'
  BY <1>2 DEF ReceiptsTellStatus, ReceiptsAreInStock
<1>13. PaidWithinTotal'
  <2> SUFFICES ASSUME NEW p \in Purchases PROVE PaidOf(p)' <= Total[p]
    BY DEF PaidWithinTotal
  <2>1. PaidOf(p) <= Total[p] /\ PaidOf(p) \in Nat /\ Total[p] \in Nat
    BY PaymentsType, PurchaseAssumption DEF PaidWithinTotal
  <2>2. Asked(h) = p => owed[h] = Total[p] - PaidOf(p)
    BY <1>1, PurchaseAssumption DEF Owing
  <2> QED BY <1>1, <2>1, <2>2
<1> QED BY <1>1, <1>4, <1>5, <1>6, <1>7, <1>8, <1>9, <1>10, <1>11, <1>12, <1>13

-----------------------------------------------------------------------------
LEMMA NothingChanges ==
  ASSUME Inv, UNCHANGED vars
  PROVE  Inv'
<1>1. UNCHANGED <<status, got, quantity, taken, record, payments, at, request, answered,
                  mine, base, level, rows, owed, disturbed>>
  BY DEF vars, committed, local
<1>2. TypeOK' /\ IsFiniteSet(payments')
  BY <1>1 DEF Inv, TypeOK
<1>3. Turns' /\ Locks' /\ Receiving' /\ KeysHeld' /\ Written'
  BY <1>1 DEF Inv, Turns, Locks, Receiving, KeysHeld, Written, Pays, Asked, HoldsKey,
              InPayment, SharesPurchase, RecordOf
<1>4. Owing' /\ OwingInAll'
  <2>1. PaidInAll' = PaidInAll /\ Payable' = Payable /\ \A p : PaidOf(p)' = PaidOf(p)
    BY <1>1, SamePayments DEF Payable
  <2> QED BY <1>1, <2>1 DEF Inv, Owing, OwingInAll, Asked, Pays
<1>5. Books'
  BY <1>1, SameBooks DEF Inv, Books, committed
<1> QED BY <1>2, <1>3, <1>4, <1>5 DEF Inv, Books

(* The steps that end a handler without committing anything, with what its *)
(* client is told.                                                         *)
Ends(h, a) ==
  /\ at[h] \notin {"idle", "done"} /\ Reply(h, a)
  /\ a = "created" => at[h] = "answer"
  /\ a \in {"refused", "cached", "conflict"} => at[h] # "answer"
  /\ a = "cached" => RecordOf(h) = request[h].payload
  /\ a = "conflict" => RecordOf(h) \notin {NoRecord, request[h].payload}

Answers == {"created", "cached", "conflict", "refused", "failed", "lost"}

Commits(h) == CommitReceipt(h) \/ CommitPayment(h)

(* And the others. *)
Proceeds(h) ==
  \/ LockReceipt(h) /\ at'[h] # "done"
  \/ \E i \in Items : LockStock(h, i)
  \/ LockPurchase(h) \/ ReadOwed(h) \/ ReadPaid(h)
  \/ \E place \in {"insert", "recover", "check", "lock"} :
       /\ at[h] \in {"lookup", "insert", "check"}
       /\ Goto(h, place) /\ UNCHANGED <<committed, local>>
       /\ place = "check" => Asked(h) # NoPurchase
       /\ place \in {"check", "lock"} =>
            at[h] = "check" \/ (at[h] = "insert" /\ ~Blocked(h) /\ RecordOf(h) = NoRecord)

LEMMA StepKinds ==
  ASSUME Inv, NEW h \in Handlers, Step(h) \/ Crash(h)
  PROVE  Proceeds(h) \/ Commits(h) \/ \E a \in Answers : Ends(h, a)
<1>1. CASE LockReceipt(h)
  <2>1. /\ at[h] = "lock"
        /\ \/ at' = [at EXCEPT ![h] = "stock"]
           \/ Reply(h, "refused")
    BY <1>1 DEF LockReceipt, Goto
  <2>2. at' = [at EXCEPT ![h] = "stock"] => at'[h] # "done"
    BY DEF Inv, TypeOK
  <2> QED BY <1>1, <2>1, <2>2 DEF Proceeds, Ends, Answers
<1>2. CASE \E i \in Items : LockStock(h, i)
  BY <1>2 DEF Proceeds
<1>3. CASE Lookup(h)
  BY <1>3 DEF Lookup, Proceeds, Ends, Answers
<1>4. CASE Insert(h)
  <2> DEFINE place == IF RecordOf(h) # NoRecord THEN "recover"
                      ELSE IF Asked(h) = NoPurchase THEN "lock" ELSE "check"
  <2>1. /\ place \in {"insert", "recover", "check", "lock"}
        /\ place = "check" => Asked(h) # NoPurchase
        /\ place \in {"check", "lock"} => RecordOf(h) = NoRecord
    OBVIOUS
  <2>2. /\ Goto(h, place) /\ UNCHANGED <<committed, local>>
        /\ at[h] = "insert" /\ ~Blocked(h)
    BY <1>4 DEF Insert, Asked
  <2> HIDE DEF place
  <2> QED BY <2>1, <2>2 DEF Proceeds
<1>5. CASE CheckPurchase(h)
  <2>1. /\ at[h] = "check"
        /\ \/ Goto(h, "lock") /\ UNCHANGED <<committed, local>>
           \/ Reply(h, "refused")
    BY <1>5 DEF CheckPurchase
  <2> QED BY <2>1 DEF Proceeds, Ends, Answers
<1>6. CASE LockPurchase(h) \/ ReadOwed(h) \/ ReadPaid(h)
  BY <1>6 DEF Proceeds
<1>7. CASE CommitReceipt(h) \/ CommitPayment(h)
  BY <1>7 DEF Commits
<1>8. CASE Recover(h) \/ TooMuch(h) \/ Refuse(h) \/ Created(h) \/ Crash(h)
  BY <1>8 DEF Recover, TooMuch, Refuse, Created, Crash, Ends, Answers
<1>9. CASE DeadlockAbort(h)
  BY <1>9 DEF DeadlockAbort, Blocked, WaitsFor, Ends, Answers
<1> QED BY <1>1, <1>2, <1>3, <1>4, <1>5, <1>6, <1>7, <1>8, <1>9 DEF Step

LEMMA InvStep == Inv /\ [Next]_vars => Inv'
<1> SUFFICES ASSUME Inv, [Next]_vars PROVE Inv'
  OBVIOUS
<1>1. CASE \E p \in Purchases : Create(p) \/ Order(p) \/ Cancel(p)
  BY <1>1, SetStatusInv
<1>2. CASE \E i \in Items : Withdraw(i)
  BY <1>2, WithdrawInv
<1>3. CASE \E h \in Handlers, r \in Receipt \cup Payment : Receive(h, r)
  BY <1>3, ReceiveInv
<1>4. ASSUME NEW h \in Handlers, Step(h) \/ Crash(h) PROVE Inv'
  <2>1. CASE Proceeds(h)
    BY <2>1, LockReceiptInv, LockStockInv, LockPurchaseInv, ReadInv, GotoInv DEF Proceeds
  <2>2. CASE Commits(h)
    BY <2>2, CommitReceiptInv, CommitPaymentInv DEF Commits
  <2>3. CASE \E a \in Answers : Ends(h, a)
    BY <2>3, ReplyInv DEF Ends, Answers
  <2> QED BY <1>4, <2>1, <2>2, <2>3, StepKinds
<1>5. CASE UNCHANGED vars \/ Finished
  BY <1>5, NothingChanges DEF Finished
<1> QED BY <1>1, <1>2, <1>3, <1>4, <1>5 DEF Next

LEMMA Invariance == Spec => []Inv
BY PurchaseInit, InvStep, PTL DEF Spec

(* Every variable keeps its type, whatever handlers run: in particular no  *)
(* stock quantity and no received quantity becomes negative.               *)
THEOREM PurchaseTypes == Spec => []TypeOK
<1>1. Inv => TypeOK
  BY DEF Inv
<1> QED BY <1>1, Invariance, PTL

(* However receipts, their repetitions and cancellations meet, never more  *)
(* than was ordered is received, and the status of a purchase says what    *)
(* came in for it (receive and cancel of purchase.service.ts).             *)
THEOREM StatusTellsReceipts == Spec => []ReceiptsTellStatus
<1>1. Inv => ReceiptsTellStatus
  BY DEF Inv
<1> QED BY <1>1, Invariance, PTL

(* No receipt overwrites the stock another one, or a sale, left behind:    *)
(* each adds to what it read under the lock of the stock row.              *)
THEOREM StockHoldsReceipts == Spec => []ReceiptsAreInStock
<1>1. Inv => ReceiptsAreInStock
  BY DEF Inv
<1> QED BY <1>1, Invariance, PTL

(* Concurrent payments of a purchase never pay more than its total between *)
(* them: the sum of the payments is read under the lock of the purchase.   *)
THEOREM NeverOverpaid == Spec => []PaidWithinTotal
<1>1. Inv => PaidWithinTotal
  BY DEF Inv
<1> QED BY <1>1, Invariance, PTL

(* What an unallocated payment reads under its locks, in two more queries, *)
(* stays true until it commits, unless a purchase is ordered or one that   *)
(* is cancelled is paid meanwhile (supplier-payment.service.ts).           *)
THEOREM UnallocatedStaysWithin == Spec => UnallocatedWithinOwed
<1> DEFINE Within ==
      ~disturbed' /\ (\E pay \in payments' \ payments : pay.purchase = NoPurchase)
        => PaidInAll' <= SumOver(Total, Payable')
<1>1. ASSUME Inv, [Next]_vars PROVE Within \/ UNCHANGED vars
  <2> SUFFICES ASSUME ~disturbed', NEW pay \in payments' \ payments, pay.purchase = NoPurchase
               PROVE  PaidInAll' <= SumOver(Total, Payable')
    OBVIOUS
  <2>1. PICK h \in Handlers : CommitPayment(h)
    <3>1. ASSUME NEW p \in Purchases, Create(p) \/ Order(p) \/ Cancel(p) PROVE FALSE
      BY <3>1 DEF Create, Order, Cancel, SetStatus
    <3>2. ASSUME NEW i \in Items, Withdraw(i) PROVE FALSE
      BY <3>2 DEF Withdraw
    <3>3. ASSUME NEW h \in Handlers, NEW r \in Receipt \cup Payment, Receive(h, r) PROVE FALSE
      BY <3>3 DEF Receive, committed
    <3>4. ASSUME NEW h \in Handlers, Step(h) \/ Crash(h), ~CommitPayment(h) PROVE FALSE
      <4>1. CASE Proceeds(h)
        BY <4>1 DEF Proceeds, committed, LockReceipt, Goto, Reply, LockStock, LockPurchase,
                    ReadOwed, ReadPaid
      <4>2. CASE CommitReceipt(h) \/ \E a \in Answers : Ends(h, a)
        BY <4>2 DEF CommitReceipt, Ends, Reply, committed
      <4> QED BY <3>4, <4>1, <4>2, StepKinds, <1>1 DEF Commits
    <3>5. ~UNCHANGED vars
      BY DEF vars, committed
    <3> QED BY <1>1, <3>1, <3>2, <3>3, <3>4, <3>5 DEF Next, Finished
  <2>2. Asked(h) = NoPurchase /\ Payable' = Payable
    <3>1. Payable' = Payable
      BY <1>1, <2>1, CommitPaymentFacts
    <3>2. pay = [by |-> h, purchase |-> Asked(h), amount |-> request[h].payload.amount]
      BY <2>1 DEF CommitPayment, Asked
    <3> QED BY <3>1, <3>2
  <2> QED BY <1>1, <2>1, <2>2, WithinOwed
<1>2. Inv /\ [Next]_vars => [Within]_vars
  BY <1>1
<1> QED BY <1>2, Invariance, PTL DEF Spec, UnallocatedWithinOwed

-----------------------------------------------------------------------------
(* The payments route implements OncePerKey: what each of its steps is for *)
(* a client that sees its requests, their answers, the records of the keys *)
(* and the payments made.                                                  *)
Requested(h) ==
  IF Pays(h) THEN [key |-> request[h].key, payload |-> request[h].payload] ELSE NoRequest

Told(h) == IF Pays(h) THEN answered[h] ELSE "nothing"

LEMMA RequestedType ==
  ASSUME TypeOK, NEW h \in Handlers, Pays(h)
  PROVE  /\ Requested(h) # NoRequest
         /\ Requested(h).key = request[h].key /\ Requested(h).payload = request[h].payload
         /\ Requested(h) \in Promise!Request
<1>1. request[h].key \in Keys /\ request[h].payload \in Payload
  BY RequestType DEF Pays
<1>2. Requested(h) \in [key : Keys, payload : Payload]
  BY <1>1 DEF Requested
<1> QED BY <1>2, PurchaseAssumption DEF Requested, Promise!Request

LEMMA OtherWork ==
  ASSUME UNCHANGED <<request, answered, record, payments>>
  PROVE  UNCHANGED Promise!promised
BY DEF Promise!promised, Pays

LEMMA EndsKeepPromise ==
  ASSUME Inv, NEW h \in Handlers, NEW a \in Answers, Ends(h, a)
  PROVE  [Promise!Next]_Promise!promised
<1> USE DEF Inv
<1>1. /\ UNCHANGED <<record, payments, request>>
      /\ answered' = [answered EXCEPT ![h] = a]
      /\ at[h] \notin {"idle", "done"}
  BY DEF Ends, Reply, committed
<1>2. \A g \in Handlers : Pays(g)' <=> Pays(g)
  BY <1>1 DEF Pays
<1>3. CASE ~Pays(h)
  <2>1. [g \in Handlers |-> Told(g)]' = [g \in Handlers |-> Told(g)]
    BY <1>1, <1>2, <1>3 DEF Told, TypeOK
  <2>2. [g \in Handlers |-> Requested(g)]' = [g \in Handlers |-> Requested(g)]
    BY <1>1, <1>2 DEF Requested
  <2> QED BY <1>1, <2>1, <2>2 DEF Promise!promised, Told, Requested
<1>4. CASE Pays(h)
  <2> DEFINE req == [g \in Handlers |-> Requested(g)]
             ans == [g \in Handlers |-> Told(g)]
             effects == {pay.by : pay \in payments}
  <2>1. req' = req /\ effects' = effects
    BY <1>1, <1>2 DEF Requested
  <2>2. ans' = [ans EXCEPT ![h] = a]
    BY <1>1, <1>2, <1>4 DEF Told, TypeOK
  <2>3. /\ req[h] # NoRequest /\ ans[h] = "nothing"
        /\ req[h].key = request[h].key /\ req[h].payload = request[h].payload
    BY <1>1, <1>4, RequestedType DEF Told, Turns
  <2>4. h \in effects <=> at[h] = "answer"
    BY <1>1, <1>4 DEF Written
  <2>5. /\ a = "created" => h \in effects
        /\ a \in {"refused", "cached", "conflict"} => h \notin effects
        /\ a = "cached" => record[req[h].key] = req[h].payload
        /\ a = "conflict" => record[req[h].key] \notin {NoRecord, req[h].payload}
    BY <2>3, <2>4 DEF Ends, RecordOf
  <2>6. Promise!Answer(h, a)
    <3> HIDE DEF Inv
    <3> QED BY <1>1, <2>1, <2>2, <2>3, <2>5 DEF Promise!Answer, Requested, Told
  <2>7. Promise!Waits(h)
    BY <2>3 DEF Promise!Waits, Requested, Told
  <2>8. a \in Promise!Answers
    BY DEF Promise!Answers, Answers
  <2> QED BY <2>6, <2>7, <2>8 DEF Promise!Next
<1> QED BY <1>3, <1>4

LEMMA CommitPaymentPerforms ==
  ASSUME Inv, NEW h \in Handlers, CommitPayment(h)
  PROVE  Promise!Next
<1> DEFINE req == [g \in Handlers |-> Requested(g)]
           ans == [g \in Handlers |-> Told(g)]
           effects == {pay.by : pay \in payments}
<1>1. /\ at[h] = "pay" /\ Pays(h) /\ RecordOf(h) = NoRecord
      /\ TypeOK /\ Turns
  BY CommitPaymentFacts DEF Inv
<1>2. /\ UNCHANGED <<request, answered>>
      /\ payments' = payments \cup
           {[by |-> h, purchase |-> Asked(h), amount |-> request[h].payload.amount]}
      /\ record' = [record EXCEPT ![request[h].key] = request[h].payload]
  BY DEF CommitPayment, Asked
<1>3. effects' = effects \cup {h}
  <2> DEFINE new == [by |-> h, purchase |-> Asked(h), amount |-> request[h].payload.amount]
  <2>1. payments' = payments \cup {new} /\ new.by = h
    BY <1>2
  <2> HIDE DEF new
  <2> QED BY <2>1
<1>4. req' = req /\ ans' = ans
  BY <1>2 DEF Requested, Told, Pays
<1>5. /\ req[h] # NoRequest /\ ans[h] = "nothing"
      /\ req[h].key = request[h].key /\ req[h].payload = request[h].payload
  BY <1>1, RequestedType DEF Told, Turns
<1>6. Promise!Perform(h)
  BY <1>1, <1>2, <1>3, <1>4, <1>5 DEF Promise!Perform, Requested, Told, RecordOf
<1>7. Promise!Waits(h)
  BY <1>5 DEF Promise!Waits, Requested, Told
<1> QED BY <1>6, <1>7 DEF Promise!Next

LEMMA ReceiveKeepsPromise ==
  ASSUME Inv, NEW h \in Handlers, NEW r \in Receipt \cup Payment, Receive(h, r)
  PROVE  [Promise!Next]_Promise!promised
<1> DEFINE req == [g \in Handlers |-> Requested(g)]
           ans == [g \in Handlers |-> Told(g)]
<1>1. /\ UNCHANGED <<record, payments, answered>>
      /\ request' = [request EXCEPT ![h] = r]
      /\ at[h] = "idle" /\ request[h] = NoRequest /\ r # NoRequest
      /\ answered[h] = "nothing" /\ TypeOK
  BY PurchaseAssumption DEF Receive, committed, Inv, Turns
<1>2. /\ ~Pays(h)
      /\ Pays(h)' <=> r.kind = "pay"
      /\ \A g \in Handlers \ {h} : Pays(g)' <=> Pays(g)
  BY <1>1 DEF Pays, TypeOK
<1>3. ans' = ans
  BY <1>1, <1>2 DEF Told
<1>4. CASE r.kind = "pay"
  <2>1. r \in Payment
    BY <1>4 DEF Receipt
  <2> DEFINE asks == [key |-> r.key, payload |-> r.payload]
  <2>2. asks \in Promise!Request
    BY <2>1 DEF Payment, Promise!Request
  <2>3. req' = [req EXCEPT ![h] = asks]
    BY <1>1, <1>2, <1>4 DEF Requested, TypeOK
  <2>4. req[h] = NoRequest
    BY <1>2 DEF Requested
  <2>5. Promise!Receive(h)
    BY <1>1, <1>3, <2>2, <2>3, <2>4 DEF Promise!Receive, Requested, Told
  <2> QED BY <2>5 DEF Promise!Next
<1>5. CASE r.kind # "pay"
  <2>1. req' = req
    BY <1>1, <1>2, <1>5 DEF Requested, TypeOK
  <2> QED BY <1>1, <1>3, <2>1 DEF Promise!promised, Requested, Told
<1> QED BY <1>4, <1>5

LEMMA NextKeepsPromise ==
  ASSUME Inv, [Next]_vars
  PROVE  [Promise!Next]_Promise!promised
<1>1. CASE \/ \E p \in Purchases : Create(p) \/ Order(p) \/ Cancel(p)
           \/ \E i \in Items : Withdraw(i)
           \/ UNCHANGED vars \/ Finished
  BY <1>1, OtherWork
  DEF Create, Order, Cancel, SetStatus, Withdraw, Finished, vars, committed
<1>2. CASE \E h \in Handlers, r \in Receipt \cup Payment : Receive(h, r)
  BY <1>2, ReceiveKeepsPromise
<1>3. ASSUME NEW h \in Handlers, Step(h) \/ Crash(h)
      PROVE  [Promise!Next]_Promise!promised
  <2>1. CASE Proceeds(h) \/ CommitReceipt(h)
    <3>1. CASE LockReceipt(h) /\ at'[h] # "done"
      <4>1. ~Reply(h, "refused")
        BY <3>1 DEF Reply, Inv, TypeOK
      <4> QED BY <3>1, <4>1, OtherWork DEF LockReceipt, Goto, committed
    <3>2. CASE CommitReceipt(h)
      BY <3>2, OtherWork DEF CommitReceipt, Goto
    <3>3. CASE \E i \in Items : LockStock(h, i)
      BY <3>3, OtherWork DEF LockStock, committed
    <3>4. CASE LockPurchase(h) \/ ReadOwed(h) \/ ReadPaid(h)
      BY <3>4, OtherWork DEF LockPurchase, ReadOwed, ReadPaid, Goto, committed
    <3>5. ASSUME NEW place, Goto(h, place), UNCHANGED committed
          PROVE  UNCHANGED Promise!promised
      BY <3>5, OtherWork DEF Goto, committed
    <3> QED BY <2>1, <3>1, <3>2, <3>3, <3>4, <3>5 DEF Proceeds
  <2>2. CASE CommitPayment(h)
    BY <2>2, CommitPaymentPerforms
  <2>3. CASE \E a \in Answers : Ends(h, a)
    BY <2>3, EndsKeepPromise
  <2> QED BY <1>3, <2>1, <2>2, <2>3, StepKinds DEF Commits
<1> QED BY <1>1, <1>2, <1>3 DEF Next

(* A key takes effect at most once, for the request it came with first,    *)
(* and whoever is told of success is told of a payment of that request,    *)
(* however repetitions race, crash or deadlock (supplier-payments/route.ts *)
(* and supplier-payment.service.ts): the route implements OncePerKey.      *)
THEOREM PaymentsKeepPromise == Spec => KeepsPromise
<1>1. Init => Promise!Init
  BY DEF Init, Promise!Init, Pays
<1> QED BY PurchaseInit, InvStep, NextKeepsPromise, <1>1, PTL DEF Spec, KeepsPromise, Promise!Spec
=============================================================================
