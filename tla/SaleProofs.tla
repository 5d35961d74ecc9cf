----------------------------- MODULE SaleProofs -----------------------------
(***************************************************************************)
(* Theorems about every behaviour of Sale: any number of sales, lines,     *)
(* stores, variants and customers, any prices, rates and amounts.          *)
(*                                                                         *)
(* The properties are not inductive one by one.  SaleInv adds to them that *)
(* an item row belongs to a created sale or is free (so that a sale that   *)
(* is being created owns no row), and that a sale which a request body     *)
(* called COMPLETED is settled.  They need each other: the movements of a  *)
(* sale that completes are its sold units only because nothing can have    *)
(* been returned before, and its coverage stays because its total and      *)
(* lines no longer change.                                                 *)
(***************************************************************************)
EXTENDS Sale, SumsProofs

(* What every stock handler preserves, for any number of stores, variants, *)
(* documents and units; the stock steps a sale makes use it.               *)
InventoryInv == InventoryTypeOK /\ ReservedUnitsAreThere /\ LedgerExplainsStock

LEMMA InventoryInitInv == InventoryInit => InventoryInv
<1> SUFFICES ASSUME InventoryInit PROVE InventoryInv
  OBVIOUS
<1> USE InventoryAssumption
<1>1. InventoryTypeOK
  BY DEF InventoryInit, InventoryTypeOK
<1>2. ReservedUnitsAreThere
  BY DEF InventoryInit, ReservedUnitsAreThere
<1>3. LedgerExplainsStock
  <2> SUFFICES ASSUME NEW k \in Rows
               PROVE  quantity[k] = InitialQuantity[k]
                        + SumOver([r \in References |-> ledger[r][k]], References)
    BY DEF LedgerExplainsStock
  <2> DEFINE f == [r \in References |-> ledger[r][k]]
  <2>1. \A r \in References : f[r] = 0
    BY DEF InventoryInit
  <2>2. SumOver(f, References) = 0
    <3> HIDE DEF f
    <3> QED BY <2>1, SumOverZero
  <2> QED BY <2>2 DEF InventoryInit
<1> QED BY <1>1, <1>2, <1>3 DEF InventoryInv

(* A move that leaves every row its reserved units keeps the invariant:    *)
(* the movement it books changes the ledger's sum by what it changes the   *)
(* quantity.                                                               *)
LEMMA MoveInv ==
  ASSUME InventoryInv, NEW r \in References, NEW delta \in [Rows -> Int],
         \A k \in Rows : reserved[k] <= quantity[k] + delta[k],
         Move(r, delta)
  PROVE  InventoryInv'
<1> USE InventoryAssumption DEF InventoryInv
<1>1. InventoryTypeOK'
  BY DEF InventoryTypeOK, Move
<1>2. ReservedUnitsAreThere'
  BY DEF InventoryTypeOK, ReservedUnitsAreThere, Move
<1>3. LedgerExplainsStock'
  <2> SUFFICES ASSUME NEW k \in Rows
               PROVE  quantity'[k] = InitialQuantity[k]
                        + SumOver([i \in References |-> ledger'[i][k]], References)
    BY DEF LedgerExplainsStock
  <2> DEFINE f == [i \in References |-> ledger[i][k]]
             g == [i \in References |-> ledger'[i][k]]
  <2>1. \A i \in References : f[i] \in Int /\ g[i] \in Int
    BY <1>1 DEF InventoryTypeOK
  <2>2. \A i \in References : i # r => g[i] = f[i]
    BY DEF InventoryTypeOK, Move
  <2>3. g[r] = f[r] + delta[k]
    BY DEF InventoryTypeOK, Move
  <2>4. SumOver(g, References) = SumOver(f, References) + (g[r] - f[r])
    <3> HIDE DEF f, g
    <3> QED BY <2>1, <2>2, SumOverChange
  <2>5. SumOver(f, References) \in Int
    <3> HIDE DEF f, g
    <3> QED BY <2>1, SumOverType
  <2>6. quantity[k] = InitialQuantity[k] + SumOver(f, References)
    BY DEF LedgerExplainsStock
  <2>7. quantity'[k] = quantity[k] + delta[k]
    BY DEF Move
  <2>8. f[r] \in Int /\ g[r] \in Int /\ quantity[k] \in Int /\ delta[k] \in Int
        /\ InitialQuantity[k] \in Int
    BY <2>1 DEF InventoryTypeOK
  <2>9. quantity'[k] = InitialQuantity[k] + SumOver(g, References)
    <3> HIDE DEF f, g
    <3> QED BY <2>3, <2>4, <2>5, <2>6, <2>7, <2>8
  <2> QED BY <2>9
<1> QED BY <1>1, <1>2, <1>3

LEMMA OnlyType ==
  ASSUME NEW k \in Rows, NEW n \in Int
  PROVE  Only(k, n) \in [Rows -> Int]
BY DEF Only

LEMMA InventoryUnchanged ==
  ASSUME InventoryInv, UNCHANGED inventoryVars
  PROVE  InventoryInv'
BY DEF InventoryInv, InventoryTypeOK, ReservedUnitsAreThere, LedgerExplainsStock,
       inventoryVars

LEMMA InventoryStepInv ==
  ASSUME InventoryInv, InventoryNext
  PROVE  InventoryInv'
<1> USE InventoryAssumption
<1>0. /\ \A k \in Rows : quantity[k] \in Nat /\ reserved[k] \in Nat
      /\ \A k \in Rows : reserved[k] <= quantity[k]
  BY DEF InventoryInv, InventoryTypeOK, ReservedUnitsAreThere
<1>1. ASSUME NEW k \in Rows, NEW n \in Units, Receive(k, n) PROVE InventoryInv'
  <2> USE DEF Only
  <2>1. \A j \in Rows : reserved[j] <= quantity[j] + Only(k, n)[j]
    BY <1>0
  <2> QED BY <1>1, <2>1, OnlyType, MoveInv DEF Receive
<1>2. ASSUME NEW k \in Rows, NEW n \in Units, Withdraw(k, n) PROVE InventoryInv'
  <2>0. n <= quantity[k] - reserved[k] /\ n \in Nat
    BY <1>2 DEF Withdraw, Available
  <2>1. \A j \in Rows : reserved[j] <= quantity[j] + Only(k, -n)[j]
    BY <1>0, <2>0 DEF Only
  <2>2. -n \in Int
    BY <2>0
  <2> QED BY <1>2, <2>1, <2>2, OnlyType, MoveInv DEF Withdraw
<1>3. ASSUME NEW k \in Rows, NEW q \in 0..MaxQuantity, Adjust(k, q) PROVE InventoryInv'
  <2>1. \A j \in Rows : reserved[j] <= quantity[j] + Only(k, q - quantity[k])[j]
    BY <1>0, <1>3 DEF Only, Adjust
  <2>2. q - quantity[k] \in Int
    BY <1>0
  <2> QED BY <1>3, <2>1, <2>2, OnlyType, MoveInv DEF Adjust
<1>4. ASSUME NEW source \in Rows, NEW target \in Rows, NEW n \in Units,
             TransferInventory(source, target, n)
      PROVE  InventoryInv'
  <2> DEFINE delta == [k \in Rows |-> Only(target, n)[k] - Only(source, n)[k]]
  <2>1. delta \in [Rows -> Int]
    BY DEF Only
  <2>2. \A j \in Rows : reserved[j] <= quantity[j] + delta[j]
    BY <1>0, <1>4 DEF TransferInventory, Available, Only
  <2>3. Move(Manual, delta)
    BY <1>4 DEF TransferInventory
  <2> HIDE DEF delta
  <2> QED BY <2>1, <2>2, <2>3, MoveInv
<1>5. ASSUME NEW k \in Rows, NEW n \in Units, ReserveStock(k, n) PROVE InventoryInv'
  BY <1>0, <1>5 DEF ReserveStock, Available, InventoryInv, InventoryTypeOK,
     ReservedUnitsAreThere, LedgerExplainsStock
<1>6. ASSUME NEW k \in Rows, NEW n \in Units, ReleaseReservedStock(k, n)
      PROVE  InventoryInv'
  BY <1>0, <1>6 DEF ReleaseReservedStock, InventoryInv, InventoryTypeOK,
     ReservedUnitsAreThere, LedgerExplainsStock
<1> QED BY <1>1, <1>2, <1>3, <1>4, <1>5, <1>6 DEF InventoryNext

-----------------------------------------------------------------------------

LinesBelong ==
  \A l \in Lines :
    \/ line[l] = NoLine
    \/ line[l].sale \in Sales /\ status[line[l].sale] # "ABSENT"

(* Nothing makes a sale pending again that was declared COMPLETED.         *)
DeclaredSettled == \A s \in declared : status[s] \in Settled

SaleInv ==
  /\ SaleTypeOK
  /\ LinesBelong
  /\ DeclaredSettled
  /\ ReturnedWithinSold
  /\ TotalMatchesLines
  /\ MovementsFollowSale
  /\ CompletedIsCovered

Inv == InventoryInv /\ SaleInv

-----------------------------------------------------------------------------
(* Units of the rows ln that sale s, in store st, keeps of stock row k.    *)
Kept(ln, st, s, k) ==
  SumOver([l \in Lines |-> IF ln[l].sale = s /\ <<st, ln[l].variant>> = k
                           THEN ln[l].quantity - ln[l].returned ELSE 0], Lines)

(* Units of the rows ln that sale s, in store st, sold from stock row k.   *)
SoldUnits(ln, st, s, k) ==
  SumOver([l \in Lines |-> IF ln[l].sale = s /\ <<st, ln[l].variant>> = k
                           THEN ln[l].quantity ELSE 0], Lines)

(* The movements of a completed sale: what was returned less what was      *)
(* taken, which is nothing for the sales in said.                          *)
Booked(ln, st, said, s, k) ==
  SoldUnits(ln, st, s, k) - Kept(ln, st, s, k)
    - (IF s \in said THEN 0 ELSE SoldUnits(ln, st, s, k))

LEMMA SoldIsSoldUnits ==
  \A s \in Sales, k \in Rows : Sold(s)[k] = SoldUnits(line, store[s], s, k)
<1> SUFFICES ASSUME NEW s \in Sales, NEW k \in Rows
             PROVE  Sold(s)[k] = SoldUnits(line, store[s], s, k)
  OBVIOUS
<1> DEFINE n == [l \in Lines |-> line[l].quantity]
           f == [l \in Lines |-> IF line[l].sale = s /\ <<store[s], line[l].variant>> = k
                                 THEN n[l] ELSE 0]
           g == [l \in Lines |-> IF line[l].sale = s /\ <<store[s], line[l].variant>> = k
                                 THEN line[l].quantity ELSE 0]
<1>1. Sold(s)[k] = SumOver(f, Lines)
  BY DEF Sold, PerRow
<1>2. f = g
  OBVIOUS
<1> QED BY <1>1, <1>2 DEF SoldUnits

LEMMA OutstandingIsKept ==
  \A s \in Sales, k \in Rows : Outstanding(s)[k] = Kept(line, store[s], s, k)
<1> SUFFICES ASSUME NEW s \in Sales, NEW k \in Rows
             PROVE  Outstanding(s)[k] = Kept(line, store[s], s, k)
  OBVIOUS
<1> DEFINE n == [l \in Lines |-> line[l].quantity - line[l].returned]
           f == [l \in Lines |-> IF line[l].sale = s /\ <<store[s], line[l].variant>> = k
                                 THEN n[l] ELSE 0]
           g == [l \in Lines |-> IF line[l].sale = s /\ <<store[s], line[l].variant>> = k
                                 THEN line[l].quantity - line[l].returned ELSE 0]
<1>1. Outstanding(s)[k] = SumOver(f, Lines)
  BY DEF Outstanding, PerRow
<1>2. f = g
  OBVIOUS
<1> QED BY <1>1, <1>2 DEF Kept

LEMMA TaxType == \A x, r \in Nat : Tax(x, r) \in Nat
<1> SUFFICES ASSUME NEW x \in Nat, NEW r \in Nat PROVE Tax(x, r) \in Nat
  OBVIOUS
<1>1. x * r \in Nat
  OBVIOUS
<1>2. \A z \in Nat : (z + 50) \div 100 \in Nat
  OBVIOUS
<1> QED BY <1>1, <1>2 DEF Tax

LEMMA PerRowType ==
  ASSUME NEW s, NEW n \in [Lines -> Nat]
  PROVE  PerRow(s, n) \in [Rows -> Nat]
<1> SUFFICES ASSUME NEW k \in Rows PROVE PerRow(s, n)[k] \in Nat
  BY DEF PerRow
<1> DEFINE f == [l \in Lines |-> IF line[l].sale = s /\ <<store[s], line[l].variant>> = k
                                 THEN n[l] ELSE 0]
<1>1. \A l \in Lines : f[l] \in Nat
  OBVIOUS
<1>2. SumOver(f, Lines) \in Nat
  <2> HIDE DEF f
  <2> QED BY <1>1, SumOverNat, SaleAssumption
<1> QED BY <1>2 DEF PerRow

LEMMA SoldType ==
  ASSUME SaleTypeOK, NEW s \in Sales
  PROVE  Sold(s) \in [Rows -> Nat]
<1> [l \in Lines |-> line[l].quantity] \in [Lines -> Nat]
  BY DEF SaleTypeOK, LineType
<1> QED BY PerRowType DEF Sold

LEMMA SubtotalType ==
  ASSUME NEW items \in [Lines -> LineType], NEW s \in Sales
  PROVE  Subtotal(items, s) \in Nat
<1> DEFINE f == [l \in Lines |-> IF items[l].sale = s THEN items[l].totalPrice ELSE 0]
<1>1. \A l \in Lines : f[l] \in Nat
  BY DEF LineType
<1>2. SumOver(f, Lines) \in Nat
  <2> HIDE DEF f
  <2> QED BY <1>1, SumOverNat, SaleAssumption
<1> QED BY <1>2 DEF Subtotal

(* A sale's subtotal and kept units depend on its own rows only.           *)
LEMMA OwnRowsOnly ==
  ASSUME NEW items, NEW others, NEW s, NEW st, NEW k,
         \A l \in Lines : items[l].sale = s \/ others[l].sale = s => items[l] = others[l]
  PROVE  /\ Subtotal(items, s) = Subtotal(others, s)
         /\ Kept(items, st, s, k) = Kept(others, st, s, k)
         /\ SoldUnits(items, st, s, k) = SoldUnits(others, st, s, k)
<1>1. Subtotal(items, s) = Subtotal(others, s)
  <2> DEFINE f == [l \in Lines |-> IF items[l].sale = s THEN items[l].totalPrice ELSE 0]
             g == [l \in Lines |-> IF others[l].sale = s THEN others[l].totalPrice ELSE 0]
  <2>1. f = g
    OBVIOUS
  <2> QED BY <2>1 DEF Subtotal
<1>2. Kept(items, st, s, k) = Kept(others, st, s, k)
  <2> DEFINE f == [l \in Lines |-> IF items[l].sale = s /\ <<st, items[l].variant>> = k
                                   THEN items[l].quantity - items[l].returned ELSE 0]
             g == [l \in Lines |-> IF others[l].sale = s /\ <<st, others[l].variant>> = k
                                   THEN others[l].quantity - others[l].returned ELSE 0]
  <2>1. f = g
    OBVIOUS
  <2> QED BY <2>1 DEF Kept
<1>3. SoldUnits(items, st, s, k) = SoldUnits(others, st, s, k)
  <2> DEFINE f == [l \in Lines |-> IF items[l].sale = s /\ <<st, items[l].variant>> = k
                                   THEN items[l].quantity ELSE 0]
             g == [l \in Lines |-> IF others[l].sale = s /\ <<st, others[l].variant>> = k
                                   THEN others[l].quantity ELSE 0]
  <2>1. f = g
    OBVIOUS
  <2> QED BY <2>1 DEF SoldUnits
<1> QED BY <1>1, <1>2, <1>3

(* A sale of which nothing was returned keeps what it sold.                *)
LEMMA NothingReturned ==
  ASSUME SaleTypeOK, NEW s \in Sales, NEW st, NEW k,
         \A l \in Lines : line[l].sale = s => line[l].returned = 0
  PROVE  Kept(line, st, s, k) = SoldUnits(line, st, s, k)
<1> DEFINE f == [l \in Lines |-> IF line[l].sale = s /\ <<st, line[l].variant>> = k
                                 THEN line[l].quantity ELSE 0]
           g == [l \in Lines |-> IF line[l].sale = s /\ <<st, line[l].variant>> = k
                                 THEN line[l].quantity - line[l].returned ELSE 0]
<1>1. f = g
  BY DEF SaleTypeOK, LineType
<1> QED BY <1>1 DEF Kept, SoldUnits

LEMMA SoldUnitsType ==
  ASSUME NEW items \in [Lines -> LineType], NEW s, NEW st, NEW k
  PROVE  SoldUnits(items, st, s, k) \in Nat
<1> DEFINE f == [l \in Lines |-> IF items[l].sale = s /\ <<st, items[l].variant>> = k
                                 THEN items[l].quantity ELSE 0]
<1>1. \A l \in Lines : f[l] \in Nat
  BY DEF LineType
<1>2. SumOver(f, Lines) \in Nat
  <2> HIDE DEF f
  <2> QED BY <1>1, SumOverNat, SaleAssumption
<1> QED BY <1>2 DEF SoldUnits

(* A sale that is not settled has moved no stock and had nothing returned. *)
LEMMA NotSettled ==
  ASSUME Inv, NEW s \in Sales, status[s] \notin Settled
  PROVE  /\ s \notin declared
         /\ \A k \in Rows : ledger[s][k] = 0
         /\ \A st, k : /\ Kept(line, st, s, k) = SoldUnits(line, st, s, k)
                       /\ SoldUnits(line, st, s, k) \in Nat
<1>0. SaleTypeOK
  BY DEF Inv, SaleInv
<1>1. s \notin declared /\ \A k \in Rows : ledger[s][k] = 0
  BY DEF Inv, SaleInv, DeclaredSettled, MovementsFollowSale
<1>2. \A l \in Lines : line[l].sale = s => line[l].returned = 0
  BY <1>0 DEF Inv, SaleInv, ReturnedWithinSold, SaleTypeOK, LineType
<1>3. \A st, k : Kept(line, st, s, k) = SoldUnits(line, st, s, k)
  BY <1>0, <1>2, NothingReturned
<1>4. line \in [Lines -> LineType]
  BY <1>0 DEF SaleTypeOK
<1>5. \A st, k : SoldUnits(line, st, s, k) \in Nat
  BY <1>4, SoldUnitsType
<1> QED BY <1>1, <1>3, <1>5

-----------------------------------------------------------------------------
LEMMA SaleInitInv == Init => Inv
<1> SUFFICES ASSUME Init PROVE Inv
  OBVIOUS
<1> USE SaleAssumption DEF Init
<1>1. InventoryInv
  BY InventoryInitInv
<1>2. SaleTypeOK
  BY DEF SaleTypeOK, LineType, NoLine
<1>3. LinesBelong
  BY DEF LinesBelong
<1>4. ReturnedWithinSold
  BY DEF ReturnedWithinSold, NoLine
<1>5. TotalMatchesLines
  <2> SUFFICES ASSUME NEW s \in Sales
               PROVE  total[s] = Subtotal(line, s) + Tax(Subtotal(line, s), saleRate[s])
    BY DEF TotalMatchesLines
  <2> DEFINE f == [l \in Lines |-> IF line[l].sale = s THEN line[l].totalPrice ELSE 0]
  <2>1. \A l \in Lines : f[l] = 0
    BY DEF NoLine
  <2>2. SumOver(f, Lines) = 0
    <3> HIDE DEF f
    <3> QED BY <2>1, SumOverZero
  <2> QED BY <2>2 DEF Subtotal, Tax
<1>6. MovementsFollowSale
  BY DEF MovementsFollowSale, InventoryInit, Settled
<1>7. CompletedIsCovered /\ DeclaredSettled
  BY DEF CompletedIsCovered, DeclaredSettled
<1> QED BY <1>1, <1>2, <1>3, <1>4, <1>5, <1>6, <1>7 DEF Inv, SaleInv

(* A step that leaves a sale, its rows and its movements alone.            *)
Untouched(s) ==
  /\ \A l \in Lines : line[l].sale = s \/ line'[l].sale = s => line'[l] = line[l]
  /\ status'[s] = status[s] /\ store'[s] = store[s] /\ ledger'[s] = ledger[s]
  /\ saleRate'[s] = saleRate[s] /\ total'[s] = total[s]
  /\ s \in declared' <=> s \in declared

(* What TotalMatchesLines and MovementsFollowSale say of s after a step.   *)
MatchesAfter(s) ==
  total'[s] = Subtotal(line', s) + Tax(Subtotal(line', s), saleRate'[s])

FollowsAfter(s) ==
  \A k \in Rows :
    /\ status'[s] \notin Settled => ledger'[s][k] = 0
    /\ status'[s] = "COMPLETED" =>
         ledger'[s][k] = Booked(line', store'[s], declared', s, k)
    /\ status'[s] = "CANCELLED" =>
         ledger'[s][k] = Booked(line', store'[s], declared', s, k)
                           + SoldUnits(line', store'[s], s, k)

(* What MovementsFollowSale says of s before it.                           *)
LEMMA FollowsBefore ==
  ASSUME Inv, NEW s \in Sales, NEW k \in Rows
  PROVE  /\ status[s] \notin Settled => ledger[s][k] = 0
         /\ status[s] = "COMPLETED" =>
              ledger[s][k] = Booked(line, store[s], declared, s, k)
         /\ status[s] = "CANCELLED" =>
              ledger[s][k] = Booked(line, store[s], declared, s, k)
                               + SoldUnits(line, store[s], s, k)
BY SoldIsSoldUnits, OutstandingIsKept DEF Inv, SaleInv, MovementsFollowSale, Booked

LEMMA UntouchedSale ==
  ASSUME Inv, NEW s \in Sales, Untouched(s)
  PROVE  MatchesAfter(s) /\ FollowsAfter(s)
<1> USE DEF Untouched
<1>1. Subtotal(line', s) = Subtotal(line, s)
  BY OwnRowsOnly
<1>2. \A k \in Rows :
        /\ Booked(line', store[s], declared', s, k) = Booked(line, store[s], declared, s, k)
        /\ SoldUnits(line', store[s], s, k) = SoldUnits(line, store[s], s, k)
  BY OwnRowsOnly DEF Booked
<1>3. total[s] = Subtotal(line, s) + Tax(Subtotal(line, s), saleRate[s])
  BY DEF Inv, SaleInv, TotalMatchesLines
<1>4. MatchesAfter(s)
  BY <1>1, <1>3 DEF MatchesAfter
<1>5. FollowsAfter(s)
  BY <1>2, FollowsBefore DEF FollowsAfter
<1> QED BY <1>4, <1>5

(* MovementsFollowSale in the primed state, from the terms of Booked.      *)
LEMMA MovementsFollow ==
  ASSUME \A s \in Sales : FollowsAfter(s)
  PROVE  MovementsFollowSale'
<1>1. ASSUME NEW s \in Sales, NEW k \in Rows
      PROVE  /\ Outstanding(s)'[k] = Kept(line', store'[s], s, k)
             /\ Sold(s)'[k] = SoldUnits(line', store'[s], s, k)
  <2> DEFINE here(l) == line'[l].sale = s /\ <<store'[s], line'[l].variant>> = k
             m == [l \in Lines |-> line'[l].quantity]
             n == [l \in Lines |-> line'[l].quantity - line'[l].returned]
             e == [l \in Lines |-> IF here(l) THEN m[l] ELSE 0]
             f == [l \in Lines |-> IF here(l) THEN n[l] ELSE 0]
             g == [l \in Lines |-> IF here(l) THEN line'[l].quantity ELSE 0]
             h == [l \in Lines |-> IF here(l) THEN line'[l].quantity - line'[l].returned
                                   ELSE 0]
  <2>1. Outstanding(s)'[k] = SumOver(f, Lines) /\ Sold(s)'[k] = SumOver(e, Lines)
    BY DEF Outstanding, Sold, PerRow
  <2>2. f = h /\ e = g
    OBVIOUS
  <2> QED BY <2>1, <2>2 DEF Kept, SoldUnits
<1> QED BY <1>1 DEF MovementsFollowSale, FollowsAfter, Booked

(* What is left to show of a handler that works on the one sale s.         *)
LEMMA OneSaleStep ==
  ASSUME Inv, InventoryInv', SaleTypeOK', LinesBelong', ReturnedWithinSold',
         CompletedIsCovered', DeclaredSettled', NEW s \in Sales,
         \A t \in Sales \ {s} : Untouched(t), MatchesAfter(s), FollowsAfter(s)
  PROVE  Inv'
<1>1. \A t \in Sales : MatchesAfter(t) /\ FollowsAfter(t)
  <2> SUFFICES ASSUME NEW t \in Sales PROVE MatchesAfter(t) /\ FollowsAfter(t)
    OBVIOUS
  <2>1. CASE t = s
    BY <2>1
  <2>2. CASE t # s
    BY <2>2, UntouchedSale
  <2> QED BY <2>1, <2>2
<1>2. MovementsFollowSale'
  BY <1>1, MovementsFollow
<1>3. TotalMatchesLines'
  BY <1>1 DEF TotalMatchesLines, MatchesAfter
<1> QED BY <1>2, <1>3 DEF Inv, SaleInv

-----------------------------------------------------------------------------
(* One lemma per handler.                                                  *)

LEMMA RecalculateType ==
  ASSUME SaleTypeOK, line' \in [Lines -> LineType], applyTax' \in [Sales -> BOOLEAN],
         NEW s \in Sales, Recalculate(s)
  PROVE  /\ saleRate' \in [Sales -> TaxRates \cup {0}]
         /\ total' \in [Sales -> Nat]
         /\ MatchesAfter(s)
         /\ \A t \in Sales \ {s} : total'[t] = total[t] /\ saleRate'[t] = saleRate[t]
<1> DEFINE rate == IF applyTax'[s] THEN taxRate ELSE 0
           sub == Subtotal(line', s)
<1>1. rate \in TaxRates \cup {0} /\ rate \in Nat
  BY SaleAssumption DEF SaleTypeOK
<1>2. sub \in Nat
  BY SubtotalType
<1>3. Tax(sub, rate) \in Nat
  BY <1>1, <1>2, TaxType
<1>4. /\ saleRate' = [saleRate EXCEPT ![s] = rate]
      /\ total' = [total EXCEPT ![s] = sub + Tax(sub, rate)]
  BY DEF Recalculate
<1>5. sub + Tax(sub, rate) \in Nat
  BY <1>2, <1>3
<1> HIDE DEF rate, sub
<1>6. /\ saleRate' \in [Sales -> TaxRates \cup {0}]
      /\ total' \in [Sales -> Nat]
      /\ total'[s] = sub + Tax(sub, saleRate'[s])
      /\ \A t \in Sales \ {s} : total'[t] = total[t] /\ saleRate'[t] = saleRate[t]
  BY <1>1, <1>4, <1>5 DEF SaleTypeOK
<1> QED BY <1>6 DEF sub, MatchesAfter

LEMMA ChangeLineInv ==
  ASSUME Inv, NEW s \in Sales, NEW l \in Lines, NEW item \in LineType,
         item = NoLine \/ item.sale = s, item.returned = 0,
         line[l] = NoLine \/ line[l].sale = s,
         ChangeLine(s, l, item)
  PROVE  Inv'
<1> USE SaleAssumption DEF ChangeLine
<1>0. /\ line' = [line EXCEPT ![l] = item]
      /\ line' \in [Lines -> LineType]
      /\ applyTax' \in [Sales -> BOOLEAN]
      /\ SaleTypeOK
  BY DEF Inv, SaleInv, SaleTypeOK
<1>1. InventoryInv'
  BY InventoryUnchanged DEF Inv
<1>2. /\ saleRate' \in [Sales -> TaxRates \cup {0}]
      /\ total' \in [Sales -> Nat]
      /\ MatchesAfter(s)
      /\ \A t \in Sales \ {s} : total'[t] = total[t] /\ saleRate'[t] = saleRate[t]
  BY <1>0, RecalculateType
<1>3. SaleTypeOK'
  BY <1>0, <1>2 DEF SaleTypeOK
<1>4. \A t \in Sales \ {s} : Untouched(t)
  BY <1>0, <1>2 DEF NoLine, SaleTypeOK, Untouched, inventoryVars
<1>5. LinesBelong'
  BY <1>0 DEF Inv, SaleInv, LinesBelong, NoLine, SaleTypeOK
<1>6. ReturnedWithinSold'
  BY <1>0 DEF Inv, SaleInv, ReturnedWithinSold, LineType, SaleTypeOK
<1>7. FollowsAfter(s)
  BY DEF Inv, SaleInv, MovementsFollowSale, FollowsAfter, Settled, inventoryVars
<1>8. CompletedIsCovered' /\ DeclaredSettled'
  BY <1>2 DEF Inv, SaleInv, CompletedIsCovered, Coverage, DeclaredSettled
<1> QED BY <1>1, <1>2, <1>3, <1>4, <1>5, <1>6, <1>7, <1>8, OneSaleStep

LEMMA AddItemInv ==
  ASSUME Inv, NEW s \in Sales, NEW l \in Lines, NEW v \in Variants, NEW n \in Units,
         NEW price \in Prices, NEW discount \in Discounts,
         AddItem(s, l, v, n, price, discount)
  PROVE  Inv'
<1> USE SaleAssumption, InventoryAssumption
<1> DEFINE item == [sale |-> s, variant |-> v, quantity |-> n, unitPrice |-> price,
                    totalPrice |-> price * n - discount, returned |-> 0]
<1>1. price \in Nat /\ n \in Nat /\ discount \in Nat
  OBVIOUS
<1>2. price * n \in Nat
  BY <1>1
<1>3. price * n - discount \in Nat
  BY <1>1, <1>2 DEF AddItem
<1>4. item \in LineType /\ item.sale = s /\ item.returned = 0
  BY <1>1, <1>3 DEF LineType
<1> HIDE DEF item
<1>5. ChangeLine(s, l, item) /\ line[l] = NoLine
  BY DEF AddItem, item
<1> QED BY <1>4, <1>5, ChangeLineInv

LEMMA UpdateItemInv ==
  ASSUME Inv, NEW l \in Lines, NEW n \in Units \cup {line[l].quantity},
         NEW price \in Prices \cup {line[l].unitPrice}, NEW discount \in Discounts,
         UpdateItem(l, n, price, discount)
  PROVE  Inv'
<1> USE SaleAssumption, InventoryAssumption
<1> DEFINE item == [line[l] EXCEPT !.quantity = n, !.unitPrice = price,
                                   !.totalPrice = price * n - discount]
           s == line[l].sale
<1>1. line[l] \in LineType /\ s \in Sales
  BY DEF Inv, SaleInv, SaleTypeOK, LinesBelong, UpdateItem
<1>2. price \in Nat /\ n \in Nat /\ discount \in Nat
  BY <1>1 DEF LineType
<1>3. price * n \in Nat
  BY <1>2
<1>4. price * n - discount \in Nat
  BY <1>2, <1>3 DEF UpdateItem
<1>5. ChangeLine(s, l, item)
  BY DEF UpdateItem
<1>6. status[s] = "PENDING"
  BY <1>5 DEF ChangeLine
<1>7. line[l].returned = 0
  BY <1>1, <1>6 DEF Inv, SaleInv, ReturnedWithinSold, Settled, LineType
<1>8. item \in LineType /\ item.sale = s /\ item.returned = 0
  BY <1>1, <1>2, <1>4, <1>7 DEF LineType
<1> HIDE DEF item
<1> QED BY <1>1, <1>5, <1>8, ChangeLineInv

LEMMA RemoveItemInv ==
  ASSUME Inv, NEW l \in Lines, RemoveItem(l)
  PROVE  Inv'
<1>1. line[l].sale \in Sales
  BY DEF Inv, SaleInv, LinesBelong, RemoveItem
<1>2. NoLine \in LineType /\ NoLine.returned = 0
  BY DEF NoLine, LineType
<1>3. ChangeLine(line[l].sale, l, NoLine)
  BY DEF RemoveItem
<1> QED BY <1>1, <1>2, <1>3, ChangeLineInv

(* A step that works on no sale's rows, price or movements.                *)
LEMMA ForeignStep ==
  ASSUME Inv, InventoryInv', SaleTypeOK', \A s \in Sales : ledger'[s] = ledger[s],
         CompletedIsCovered',
         UNCHANGED <<status, store, saleRate, total, line, declared>>
  PROVE  Inv'
<1>1. \A s \in Sales : Untouched(s)
  BY DEF Untouched
<1>2. \A s \in Sales : MatchesAfter(s) /\ FollowsAfter(s)
  BY <1>1, UntouchedSale
<1>3. MovementsFollowSale'
  BY <1>2, MovementsFollow
<1>4. TotalMatchesLines'
  BY <1>2 DEF TotalMatchesLines, MatchesAfter
<1>5. LinesBelong' /\ ReturnedWithinSold' /\ DeclaredSettled'
  BY DEF Inv, SaleInv, LinesBelong, ReturnedWithinSold, DeclaredSettled
<1> QED BY <1>3, <1>4, <1>5 DEF Inv, SaleInv

LEMMA SetTaxRateInv ==
  ASSUME Inv, NEW rate \in TaxRates, SetTaxRate(rate)
  PROVE  Inv'
<1> USE DEF SetTaxRate, inventoryVars
<1>1. InventoryInv'
  BY InventoryUnchanged DEF Inv
<1>2. SaleTypeOK'
  BY DEF Inv, SaleInv, SaleTypeOK
<1>3. CompletedIsCovered'
  BY DEF Inv, SaleInv, CompletedIsCovered, Coverage
<1> QED BY <1>1, <1>2, <1>3, ForeignStep

(* A body's status for a sale that is not settled: there is nothing yet    *)
(* that was sold, whatever the status says.                                *)
LEMMA DeclareFollows ==
  ASSUME Inv, NEW s \in Sales, status[s] \notin Settled, NEW requested,
         Declare(s, requested), line' = line, ledger' = ledger
  PROVE  FollowsAfter(s) /\ DeclaredSettled'
<1>0. status'[s] = requested /\ \A t \in Sales \ {s} : status'[t] = status[t]
  BY DEF Declare, Inv, SaleInv, SaleTypeOK
<1>1. /\ s \notin declared
      /\ \A k \in Rows : ledger[s][k] = 0
      /\ \A st, k : /\ Kept(line, st, s, k) = SoldUnits(line, st, s, k)
                    /\ SoldUnits(line, st, s, k) \in Nat
  BY NotSettled
<1>2. /\ s \in declared' <=> requested = "COMPLETED"
      /\ declared' \subseteq declared \cup {s}
  BY <1>1 DEF Declare
<1>3. FollowsAfter(s)
  <2> SUFFICES ASSUME NEW k \in Rows
               PROVE  /\ status'[s] \notin Settled => ledger'[s][k] = 0
                      /\ status'[s] = "COMPLETED" =>
                           ledger'[s][k] = Booked(line', store'[s], declared', s, k)
                      /\ status'[s] = "CANCELLED" =>
                           ledger'[s][k] = Booked(line', store'[s], declared', s, k)
                                             + SoldUnits(line', store'[s], s, k)
    BY DEF FollowsAfter
  <2> DEFINE sold == SoldUnits(line, store'[s], s, k)
  <2>1. sold \in Nat /\ Kept(line, store'[s], s, k) = sold /\ ledger'[s][k] = 0
    BY <1>1
  <2>2. Booked(line', store'[s], declared', s, k)
          = sold - sold - (IF s \in declared' THEN 0 ELSE sold)
    BY <2>1 DEF Booked
  <2> HIDE DEF sold
  <2>3. CASE requested = "COMPLETED"
    BY <1>0, <1>2, <2>1, <2>2, <2>3 DEF Settled
  <2>4. CASE requested # "COMPLETED"
    BY <1>0, <1>2, <2>1, <2>2, <2>4 DEF Settled, sold
  <2> QED BY <2>3, <2>4
<1>4. DeclaredSettled'
  BY <1>0, <1>2 DEF Inv, SaleInv, SaleTypeOK, DeclaredSettled, Settled
<1> QED BY <1>0, <1>3, <1>4

LEMMA CreateInv ==
  ASSUME Inv, NEW s \in Sales, NEW st \in Stores,
         NEW c \in Customers \cup {NoCustomer}, NEW withTax \in BOOLEAN,
         NEW requested \in RequestStatuses, Create(s, st, c, withTax, requested)
  PROVE  Inv'
<1> USE SaleAssumption DEF Create
<1>0. SaleTypeOK /\ InventoryTypeOK
  BY DEF Inv, SaleInv, InventoryInv
<1>1. InventoryInv'
  BY InventoryUnchanged DEF Inv
<1>2. SaleTypeOK'
  BY <1>0 DEF SaleTypeOK, Declare
<1>3. \A l \in Lines : line[l].sale # s
  BY DEF Inv, SaleInv, LinesBelong, NoLine
<1>4. LinesBelong'
  BY <1>0 DEF Declare, Inv, SaleInv, LinesBelong, SaleTypeOK
<1>5. ReturnedWithinSold'
  BY <1>0, <1>3 DEF Declare, Inv, SaleInv, ReturnedWithinSold, SaleTypeOK
<1>6. CompletedIsCovered'
  BY <1>0 DEF Inv, SaleInv, CompletedIsCovered, Coverage, Declare, SaleTypeOK
<1>7. \A t \in Sales \ {s} : Untouched(t)
  BY <1>0 DEF Declare, Untouched, SaleTypeOK, inventoryVars
<1>8. MatchesAfter(s)
  <2> DEFINE f == [l \in Lines |-> IF line[l].sale = s THEN line[l].totalPrice ELSE 0]
  <2>1. \A l \in Lines : f[l] = 0
    BY <1>3
  <2>2. SumOver(f, Lines) = 0
    <3> HIDE DEF f
    <3> QED BY <2>1, SumOverZero
  <2>3. Subtotal(line, s) = 0
    BY <2>2 DEF Subtotal
  <2>4. \A r \in Nat : Tax(0, r) = 0
    BY DEF Tax
  <2>5. \A r \in TaxRates \cup {0} : r \in Nat
    OBVIOUS
  <2>6. saleRate[s] \in TaxRates \cup {0}
    BY <1>0 DEF SaleTypeOK
  <2>7. saleRate'[s] \in TaxRates \cup {0}
    BY <1>2 DEF SaleTypeOK
  <2>8. Tax(0, saleRate[s]) = 0 /\ Tax(0, saleRate'[s]) = 0
    BY <2>4, <2>5, <2>6, <2>7
  <2>9. total[s] = Subtotal(line, s) + Tax(Subtotal(line, s), saleRate[s])
    BY DEF Inv, SaleInv, TotalMatchesLines
  <2>10. total[s] = 0
    BY <2>3, <2>8, <2>9
  <2>11. total'[s] = total[s] /\ line' = line
    OBVIOUS
  <2>12. Subtotal(line', s) = 0
    BY <2>3, <2>11
  <2> QED BY <2>8, <2>10, <2>11, <2>12 DEF MatchesAfter
<1>9. FollowsAfter(s) /\ DeclaredSettled'
  BY DeclareFollows DEF Settled, inventoryVars
<1> QED BY <1>1, <1>2, <1>4, <1>5, <1>6, <1>7, <1>8, <1>9, OneSaleStep

LEMMA UpdateInv ==
  ASSUME Inv, NEW s \in Sales, NEW st \in Stores,
         NEW c \in Customers \cup {customer[s]}, NEW withTax \in BOOLEAN,
         NEW requested \in RequestStatuses, Update(s, st, c, withTax, requested)
  PROVE  Inv'
<1> USE SaleAssumption DEF Update
<1>0. SaleTypeOK
  BY DEF Inv, SaleInv
<1>1. InventoryInv'
  BY InventoryUnchanged DEF Inv
<1>2. line' \in [Lines -> LineType] /\ applyTax' \in [Sales -> BOOLEAN]
  BY <1>0 DEF SaleTypeOK, Declare
<1>3. /\ saleRate' \in [Sales -> TaxRates \cup {0}]
      /\ total' \in [Sales -> Nat]
      /\ MatchesAfter(s)
      /\ \A t \in Sales \ {s} : total'[t] = total[t] /\ saleRate'[t] = saleRate[t]
  BY <1>0, <1>2, RecalculateType
<1>4. SaleTypeOK'
  BY <1>0, <1>2, <1>3 DEF Declare, SaleTypeOK
<1>5. LinesBelong'
  BY <1>0 DEF Declare, Inv, SaleInv, LinesBelong, SaleTypeOK
<1>6. ReturnedWithinSold'
  BY <1>0 DEF Declare, Inv, SaleInv, ReturnedWithinSold, SaleTypeOK, Settled, LineType
<1>7. CompletedIsCovered'
  BY <1>0, <1>3 DEF Inv, SaleInv, CompletedIsCovered, Coverage, Declare, SaleTypeOK
<1>8. \A t \in Sales \ {s} : Untouched(t)
  BY <1>0, <1>3 DEF Declare, Untouched, SaleTypeOK, inventoryVars
<1>9. FollowsAfter(s) /\ DeclaredSettled'
  BY DeclareFollows DEF Settled, inventoryVars
<1> QED BY <1>1, <1>3, <1>4, <1>5, <1>6, <1>7, <1>8, <1>9, OneSaleStep

LEMMA AuthorizeCreditInv ==
  ASSUME Inv, NEW s \in Sales, NEW c \in Customers, NEW amount \in Amounts,
         AuthorizeCredit(s, c, amount)
  PROVE  Inv'
<1> USE SaleAssumption DEF AuthorizeCredit, inventoryVars
<1>1. InventoryInv'
  BY InventoryUnchanged DEF Inv
<1>2. SaleTypeOK'
  BY DEF Inv, SaleInv, SaleTypeOK
<1>3. CompletedIsCovered'
  BY DEF Inv, SaleInv, CompletedIsCovered, Coverage, SaleTypeOK
<1> QED BY <1>1, <1>2, <1>3, ForeignStep

LEMMA AddPaymentInv ==
  ASSUME Inv, NEW s \in Sales, NEW amount \in Amounts, AddPayment(s, amount)
  PROVE  Inv'
<1> USE SaleAssumption DEF AddPayment, inventoryVars
<1>1. InventoryInv'
  BY InventoryUnchanged DEF Inv
<1>2. SaleTypeOK'
  BY DEF Inv, SaleInv, SaleTypeOK
<1>3. CompletedIsCovered'
  BY DEF Inv, SaleInv, CompletedIsCovered, Coverage, SaleTypeOK, Settled
<1> QED BY <1>1, <1>2, <1>3, ForeignStep

-----------------------------------------------------------------------------
(* Taking the sold units out of the stock, and booking it for the sale.    *)
LEMMA DeductStockInv ==
  ASSUME Inv, NEW s \in Sales, DeductStock(s)
  PROVE  /\ InventoryInv'
         /\ \A k \in Rows : ledger'[s][k] = ledger[s][k] - Sold(s)[k]
         /\ \A t \in Sales \ {s} : ledger'[t] = ledger[t]
<1> USE SaleAssumption
<1>0. SaleTypeOK /\ InventoryInv /\ InventoryTypeOK /\ ReservedUnitsAreThere
  BY DEF Inv, SaleInv, InventoryInv
<1>1. Sold(s) \in [Rows -> Nat]
  BY <1>0, SoldType
<1> DEFINE sold == Sold(s)
<1>2. Negated(sold) \in [Rows -> Int] /\ \A k \in Rows : Negated(sold)[k] = -sold[k]
  <2> HIDE DEF sold
  <2>1. \A n \in Nat : -n \in Int
    OBVIOUS
  <2>2. \A k \in Rows : -sold[k] \in Int
    BY <1>1, <2>1 DEF sold
  <2> QED BY <2>2 DEF Negated
<1>3. \A k \in Rows : reserved[k] <= quantity[k] + Negated(sold)[k]
  <2> SUFFICES ASSUME NEW k \in Rows PROVE reserved[k] <= quantity[k] + Negated(sold)[k]
    OBVIOUS
  <2>1. sold[k] \in Nat /\ quantity[k] \in Nat /\ reserved[k] \in Nat
        /\ reserved[k] <= quantity[k]
    BY <1>0, <1>1 DEF InventoryTypeOK, ReservedUnitsAreThere
  <2>2. sold[k] > 0 => sold[k] <= quantity[k] - reserved[k]
    BY DEF DeductStock, Available
  <2>3. Negated(sold)[k] = -sold[k]
    BY <1>2
  <2> HIDE DEF sold
  <2> QED BY <2>1, <2>2, <2>3
<1>4. Move(s, Negated(sold))
  BY DEF DeductStock
<1>5. InventoryInv'
  <2> HIDE DEF sold
  <2> QED BY <1>0, <1>2, <1>3, <1>4, MoveInv
<1>6. \A k \in Rows : ledger'[s][k] = ledger[s][k] - sold[k]
  <2> HIDE DEF sold
  <2>1. \A k \in Rows : ledger'[s][k] = ledger[s][k] + Negated(sold)[k]
    BY <1>0, <1>4 DEF Move, InventoryTypeOK
  <2>2. \A k \in Rows : sold[k] \in Nat /\ ledger[s][k] \in Int
    BY <1>0, <1>1 DEF InventoryTypeOK, sold
  <2> QED BY <1>2, <2>1, <2>2
<1>7. \A t \in Sales \ {s} : ledger'[t] = ledger[t]
  BY <1>0, <1>4 DEF Move, InventoryTypeOK
<1> QED BY <1>5, <1>6, <1>7

(* Completing a sale that is covered once the amount is received.          *)
LEMMA SellInv ==
  ASSUME Inv, NEW s \in Sales, NEW amount \in Nat,
         status[s] \notin Settled \cup {"ABSENT"},
         paid[s] + amount + credit[s] >= total[s],
         DeductStock(s),
         paid' = [paid EXCEPT ![s] = paid[s] + amount],
         status' = [status EXCEPT ![s] = "COMPLETED"],
         UNCHANGED <<taxRate, store, customer, applyTax, saleRate, total, credit,
                     creditTo, line, declared>>
  PROVE  Inv'
<1> USE SaleAssumption
<1>0. SaleTypeOK
  BY DEF Inv, SaleInv
<1>1. /\ InventoryInv'
      /\ \A k \in Rows : ledger'[s][k] = ledger[s][k] - Sold(s)[k]
      /\ \A t \in Sales \ {s} : ledger'[t] = ledger[t]
  BY DeductStockInv
<1>2. SaleTypeOK'
  BY <1>0 DEF SaleTypeOK
<1>3. LinesBelong'
  BY <1>0 DEF Inv, SaleInv, LinesBelong, SaleTypeOK
<1>4. ReturnedWithinSold'
  BY <1>0 DEF Inv, SaleInv, ReturnedWithinSold, SaleTypeOK, Settled
<1>5. CompletedIsCovered'
  BY <1>0 DEF Inv, SaleInv, CompletedIsCovered, Coverage, SaleTypeOK
<1>6. \A t \in Sales \ {s} : Untouched(t)
  BY <1>0, <1>1 DEF Untouched, SaleTypeOK
<1>7. MatchesAfter(s)
  BY DEF Inv, SaleInv, TotalMatchesLines, MatchesAfter
<1>8. FollowsAfter(s)
  <2>1. s \notin declared /\ declared' = declared
    BY NotSettled
  <2>2. \A k \in Rows :
          /\ ledger[s][k] = 0
          /\ Kept(line, store[s], s, k) = SoldUnits(line, store[s], s, k)
          /\ SoldUnits(line, store[s], s, k) \in Nat
          /\ Sold(s)[k] = SoldUnits(line, store[s], s, k)
    BY NotSettled, SoldIsSoldUnits
  <2>3. \A k \in Rows : ledger'[s][k] = 0 - SoldUnits(line, store[s], s, k)
    BY <1>1, <2>2
  <2>4. \A k \in Rows : Booked(line, store[s], declared, s, k)
                          = 0 - SoldUnits(line, store[s], s, k)
    BY <2>1, <2>2 DEF Booked
  <2> QED BY <1>0, <2>1, <2>3, <2>4 DEF FollowsAfter, SaleTypeOK, Settled
<1>9. DeclaredSettled'
  BY <1>0 DEF Inv, SaleInv, DeclaredSettled, SaleTypeOK, Settled
<1> QED BY <1>1, <1>2, <1>3, <1>4, <1>5, <1>6, <1>7, <1>8, <1>9, OneSaleStep

LEMMA CompleteInv ==
  ASSUME Inv, NEW s \in Sales, Complete(s)
  PROVE  Inv'
<1> USE SaleAssumption DEF Complete
<1>1. SaleTypeOK
  BY DEF Inv, SaleInv
<1>2. /\ status[s] \notin Settled \cup {"ABSENT"}
      /\ paid[s] + 0 + credit[s] >= total[s]
      /\ paid' = [paid EXCEPT ![s] = paid[s] + 0]
  BY <1>1 DEF Coverage, Settled, SaleTypeOK
<1> QED BY <1>2, SellInv

LEMMA CheckoutInv ==
  ASSUME Inv, NEW s \in Sales, NEW amount \in {total[s]}, Checkout(s, amount)
  PROVE  Inv'
<1> USE SaleAssumption DEF Checkout
<1>1. SaleTypeOK
  BY DEF Inv, SaleInv
<1>2. amount \in Nat /\ paid[s] + amount + credit[s] >= total[s]
  BY <1>1 DEF SaleTypeOK
<1> QED BY <1>2, SellInv

(* Units n \in Nat coming back to the stock, booked for the sale.          *)
LEMMA GiveBackInv ==
  ASSUME Inv, NEW s \in Sales, NEW n \in [Rows -> Nat], Move(s, n)
  PROVE  /\ InventoryInv'
         /\ \A k \in Rows : ledger'[s][k] = ledger[s][k] + n[k]
         /\ \A t \in Sales \ {s} : ledger'[t] = ledger[t]
<1> USE SaleAssumption
<1>1. InventoryInv /\ InventoryTypeOK
  BY DEF Inv, InventoryInv
<1>2. \A k \in Rows : reserved[k] <= quantity[k] + n[k]
  BY <1>1 DEF InventoryInv, InventoryTypeOK, ReservedUnitsAreThere
<1>3. n \in [Rows -> Int]
  OBVIOUS
<1>4. InventoryInv'
  BY <1>1, <1>2, <1>3, MoveInv
<1> QED BY <1>1, <1>4 DEF Move, InventoryTypeOK

LEMMA CancelInv ==
  ASSUME Inv, NEW s \in Sales, Cancel(s)
  PROVE  Inv'
<1> USE SaleAssumption
<1>0. SaleTypeOK /\ status[s] # "ABSENT"
  BY DEF Inv, SaleInv, Cancel
<1>1. /\ InventoryInv'
      /\ \A t \in Sales \ {s} : ledger'[t] = ledger[t]
      /\ \A k \in Rows : ledger'[s][k] = Booked(line, store[s], declared, s, k)
                                           + SoldUnits(line, store[s], s, k)
  <2>1. CASE status[s] = "PENDING" /\ UNCHANGED inventoryVars
    <3>1. /\ s \notin declared
          /\ \A k \in Rows :
               /\ ledger[s][k] = 0
               /\ Kept(line, store[s], s, k) = SoldUnits(line, store[s], s, k)
               /\ SoldUnits(line, store[s], s, k) \in Nat
      BY <2>1, NotSettled DEF Settled
    <3>2. \A k \in Rows : 0 = Booked(line, store[s], declared, s, k)
                                + SoldUnits(line, store[s], s, k)
      BY <3>1 DEF Booked
    <3>3. InventoryInv' /\ ledger' = ledger
      BY <2>1, InventoryUnchanged DEF Inv, inventoryVars
    <3> QED BY <3>1, <3>2, <3>3
  <2>2. CASE status[s] = "COMPLETED" /\ Move(s, Sold(s))
    <3>1. Sold(s) \in [Rows -> Nat]
      BY <1>0, SoldType
    <3>2. /\ InventoryInv'
          /\ \A k \in Rows : ledger'[s][k] = ledger[s][k] + Sold(s)[k]
          /\ \A t \in Sales \ {s} : ledger'[t] = ledger[t]
      BY <2>2, <3>1, GiveBackInv
    <3>3. \A k \in Rows : ledger[s][k] = Booked(line, store[s], declared, s, k)
      BY <2>2, FollowsBefore
    <3> QED BY <3>2, <3>3, SoldIsSoldUnits
  <2> QED BY <2>1, <2>2 DEF Cancel
<1> USE DEF Cancel
<1>2. SaleTypeOK'
  BY <1>0 DEF SaleTypeOK
<1>3. LinesBelong'
  BY <1>0 DEF Inv, SaleInv, LinesBelong, SaleTypeOK
<1>4. ReturnedWithinSold'
  BY <1>0 DEF Inv, SaleInv, ReturnedWithinSold, SaleTypeOK, Settled
<1>5. CompletedIsCovered'
  BY <1>0 DEF Inv, SaleInv, CompletedIsCovered, Coverage, SaleTypeOK
<1>6. \A t \in Sales \ {s} : Untouched(t)
  BY <1>0, <1>1 DEF Untouched, SaleTypeOK
<1>7. MatchesAfter(s)
  BY DEF Inv, SaleInv, TotalMatchesLines, MatchesAfter
<1>8. status'[s] = "CANCELLED" /\ UNCHANGED <<line, store, declared>>
  BY <1>0 DEF SaleTypeOK
<1>9. FollowsAfter(s)
  BY <1>1, <1>8 DEF FollowsAfter, Settled
<1>10. DeclaredSettled'
  BY <1>0 DEF Inv, SaleInv, DeclaredSettled, SaleTypeOK, Settled
<1> QED BY <1>1, <1>2, <1>3, <1>4, <1>5, <1>6, <1>7, <1>9, <1>10, OneSaleStep

(* The rows that n[l] units of each line return to are those the sale no   *)
(* longer keeps.                                                           *)
LEMMA ReturnKeeps ==
  ASSUME Inv, NEW s \in Sales, NEW n \in [Lines -> Nat], Return(s, n), NEW k \in Rows
  PROVE  Kept(line, store[s], s, k) = Kept(line', store[s], s, k) + PerRow(s, n)[k]
<1> DEFINE here(l) == line[l].sale = s /\ <<store[s], line[l].variant>> = k
           before == [l \in Lines |-> IF line[l].sale = s /\ <<store[s], line[l].variant>> = k
                                      THEN line[l].quantity - line[l].returned ELSE 0]
           after == [l \in Lines |-> IF line'[l].sale = s /\ <<store[s], line'[l].variant>> = k
                                     THEN line'[l].quantity - line'[l].returned ELSE 0]
           back == [l \in Lines |-> IF line[l].sale = s /\ <<store[s], line[l].variant>> = k
                                    THEN n[l] ELSE 0]
<1>1. ASSUME NEW l \in Lines
      PROVE  after[l] \in Int /\ back[l] \in Int /\ before[l] = after[l] + back[l]
  <2>1. line[l] \in LineType
    BY DEF Inv, SaleInv, SaleTypeOK
  <2>2. line'[l] = [line[l] EXCEPT !.returned = line[l].returned + n[l]]
    BY DEF Return
  <2>3. /\ line'[l].sale = line[l].sale /\ line'[l].variant = line[l].variant
        /\ line'[l].quantity = line[l].quantity
        /\ line'[l].returned = line[l].returned + n[l]
    BY <2>1, <2>2 DEF LineType
  <2>4. line[l].quantity \in Nat /\ line[l].returned \in Nat /\ n[l] \in Nat
    BY <2>1 DEF LineType
  <2> QED BY <2>3, <2>4
<1>2. SumOver(before, Lines) = SumOver(after, Lines) + SumOver(back, Lines)
  <2> HIDE DEF before, after, back
  <2> QED BY <1>1, SumOverAdd, SaleAssumption
<1>3. Kept(line, store[s], s, k) = SumOver(before, Lines)
  BY DEF Kept
<1>4. Kept(line', store[s], s, k) = SumOver(after, Lines)
  BY DEF Kept
<1>5. PerRow(s, n)[k] = SumOver(back, Lines)
  BY DEF PerRow
<1> QED BY <1>2, <1>3, <1>4, <1>5

LEMMA KeptType ==
  ASSUME NEW items \in [Lines -> LineType], NEW s, NEW st, NEW k
  PROVE  Kept(items, st, s, k) \in Int
<1> DEFINE f == [l \in Lines |-> IF items[l].sale = s /\ <<st, items[l].variant>> = k
                                 THEN items[l].quantity - items[l].returned ELSE 0]
<1>1. \A l \in Lines : f[l] \in Int
  BY DEF LineType
<1>2. SumOver(f, Lines) \in Int
  <2> HIDE DEF f
  <2> QED BY <1>1, SumOverType, SaleAssumption
<1> QED BY <1>2 DEF Kept

LEMMA ReturnInv ==
  ASSUME Inv, NEW s \in Sales, NEW n \in [Lines -> Units \cup {0}], Return(s, n)
  PROVE  Inv'
<1> USE SaleAssumption
<1>0. SaleTypeOK
  BY DEF Inv, SaleInv
<1>1. n \in [Lines -> Nat]
  <2>1. Units \cup {0} \subseteq Nat
    BY InventoryAssumption
  <2> QED BY <2>1
<1>2. PerRow(s, n) \in [Rows -> Nat] /\ Move(s, PerRow(s, n))
  BY <1>1, PerRowType DEF Return
<1>3. /\ InventoryInv'
      /\ \A k \in Rows : ledger'[s][k] = ledger[s][k] + PerRow(s, n)[k]
      /\ \A t \in Sales \ {s} : ledger'[t] = ledger[t]
  BY <1>2, GiveBackInv
<1>4. \A l \in Lines :
        /\ line[l] \in LineType /\ n[l] \in Nat
        /\ n[l] > 0 => line[l].sale = s /\ n[l] <= line[l].quantity - line[l].returned
  BY <1>0, <1>1 DEF Return, SaleTypeOK
<1>5. \A l \in Lines :
        /\ line'[l] \in LineType
        /\ line'[l].sale = line[l].sale /\ line'[l].totalPrice = line[l].totalPrice
        /\ n[l] = 0 => line'[l] = line[l]
        /\ line'[l].returned = line[l].returned + n[l]
        /\ line'[l].quantity = line[l].quantity
        /\ line'[l].variant = line[l].variant
  <2> SUFFICES ASSUME NEW l \in Lines
               PROVE  /\ line'[l] \in LineType
                      /\ line'[l].sale = line[l].sale
                      /\ line'[l].totalPrice = line[l].totalPrice
                      /\ n[l] = 0 => line'[l] = line[l]
                      /\ line'[l].returned = line[l].returned + n[l]
                      /\ line'[l].quantity = line[l].quantity
                      /\ line'[l].variant = line[l].variant
    OBVIOUS
  <2> DEFINE more == line[l].returned + n[l]
  <2>1. line[l] \in LineType /\ n[l] \in Nat
    BY <1>4
  <2>2. more \in Nat /\ (n[l] = 0 => more = line[l].returned)
    BY <2>1 DEF LineType
  <2>3. line'[l] = [line[l] EXCEPT !.returned = more]
    BY DEF Return
  <2> HIDE DEF more
  <2>4. /\ line'[l] \in LineType /\ line'[l].returned = more
        /\ line'[l].sale = line[l].sale /\ line'[l].totalPrice = line[l].totalPrice
        /\ line'[l].quantity = line[l].quantity
        /\ line'[l].variant = line[l].variant
        /\ n[l] = 0 => line'[l] = line[l]
    BY <2>1, <2>2, <2>3 DEF LineType
  <2> QED BY <2>4 DEF more
<1>6. line' \in [Lines -> LineType] /\ DOMAIN line' = Lines
  BY <1>5 DEF Return
<1>7. SaleTypeOK'
  BY <1>0, <1>6 DEF SaleTypeOK, Return
<1>8. LinesBelong'
  BY <1>4, <1>5 DEF Inv, SaleInv, LinesBelong, NoLine, Return
<1>9. ReturnedWithinSold'
  BY <1>4, <1>5 DEF Inv, SaleInv, ReturnedWithinSold, LineType, Settled,
     Return
<1>10. CompletedIsCovered' /\ DeclaredSettled'
  BY DEF Inv, SaleInv, CompletedIsCovered, Coverage, DeclaredSettled, Return
<1>11. \A t \in Sales \ {s} : Untouched(t)
  <2> SUFFICES ASSUME NEW t \in Sales \ {s} PROVE Untouched(t)
    OBVIOUS
  <2>1. \A l \in Lines : line[l].sale = t \/ line'[l].sale = t => line'[l] = line[l]
    BY <1>4, <1>5
  <2>2. UNCHANGED <<status, store, saleRate, total, declared>> /\ ledger'[t] = ledger[t]
    BY <1>3 DEF Return
  <2> QED BY <2>1, <2>2 DEF Untouched
<1>12. MatchesAfter(s)
  <2> DEFINE f == [l \in Lines |-> IF line[l].sale = s THEN line[l].totalPrice ELSE 0]
             g == [l \in Lines |-> IF line'[l].sale = s THEN line'[l].totalPrice ELSE 0]
  <2>1. f = g
    BY <1>5
  <2>2. Subtotal(line', s) = Subtotal(line, s)
    BY <2>1 DEF Subtotal
  <2>3. total[s] = Subtotal(line, s) + Tax(Subtotal(line, s), saleRate[s])
    BY DEF Inv, SaleInv, TotalMatchesLines
  <2>4. total' = total /\ saleRate' = saleRate
    BY DEF Return
  <2> QED BY <2>2, <2>3, <2>4 DEF MatchesAfter
<1>13. FollowsAfter(s)
  <2>0. status[s] = "COMPLETED" /\ UNCHANGED <<status, store, declared>>
    BY DEF Return
  <2> SUFFICES ASSUME NEW k \in Rows
               PROVE  ledger'[s][k] = Booked(line', store[s], declared, s, k)
    BY <2>0 DEF FollowsAfter, Settled
  <2> DEFINE sold == SoldUnits(line, store[s], s, k)
             taken == IF s \in declared THEN 0 ELSE sold
  <2>1. ledger[s][k] = sold - Kept(line, store[s], s, k) - taken
    BY <2>0, FollowsBefore DEF Booked
  <2>2. Kept(line, store[s], s, k) = Kept(line', store[s], s, k) + PerRow(s, n)[k]
    BY <1>1, ReturnKeeps
  <2>3. SoldUnits(line', store[s], s, k) = sold
    <3> DEFINE f == [l \in Lines |-> IF line[l].sale = s /\ <<store[s], line[l].variant>> = k
                                     THEN line[l].quantity ELSE 0]
               g == [l \in Lines |-> IF line'[l].sale = s /\ <<store[s], line'[l].variant>> = k
                                     THEN line'[l].quantity ELSE 0]
    <3>1. f = g
      BY <1>5
    <3> QED BY <3>1 DEF SoldUnits
  <2>4. sold \in Nat
    BY <1>0, SoldUnitsType DEF SaleTypeOK
  <2>5. Kept(line', store[s], s, k) \in Int /\ PerRow(s, n)[k] \in Nat /\ taken \in Nat
    BY <1>2, <1>6, <2>4, KeptType
  <2>6. ledger'[s][k] = ledger[s][k] + PerRow(s, n)[k]
    BY <1>3
  <2>7. Booked(line', store[s], declared, s, k)
          = sold - Kept(line', store[s], s, k) - taken
    BY <2>3 DEF Booked
  <2> HIDE DEF sold, taken
  <2> QED BY <2>1, <2>2, <2>4, <2>5, <2>6, <2>7
<1> QED BY <1>3, <1>7, <1>8, <1>9, <1>10, <1>11, <1>12, <1>13, OneSaleStep

(* A stock handler books its movements for no sale.                        *)
LEMMA StockStepInv ==
  ASSUME Inv, InventoryNext, UNCHANGED saleVars
  PROVE  Inv'
<1>1. InventoryInv'
  BY InventoryStepInv DEF Inv
<1>2. \A s \in Sales : ledger'[s] = ledger[s]
  BY SaleAssumption DEF Inv, InventoryInv, InventoryTypeOK, InventoryNext, Receive,
     Withdraw, Adjust, TransferInventory, ReserveStock, ReleaseReservedStock, Move
<1>3. SaleTypeOK' /\ CompletedIsCovered'
  BY DEF Inv, SaleInv, SaleTypeOK, CompletedIsCovered, Coverage, saleVars
<1> QED BY <1>1, <1>2, <1>3, ForeignStep DEF saleVars

-----------------------------------------------------------------------------
(* The invariant is inductive.                                             *)
LEMMA SaleStepInv ==
  ASSUME Inv, [Next]_vars
  PROVE  Inv'
<1>1. CASE Edit
  BY <1>1, CreateInv, UpdateInv, AddItemInv, UpdateItemInv, RemoveItemInv,
     SetTaxRateInv DEF Edit
<1>2. CASE Settle
  BY <1>2, AuthorizeCreditInv, AddPaymentInv, CompleteInv, CheckoutInv, CancelInv,
     ReturnInv DEF Settle
<1>3. CASE InventoryNext /\ UNCHANGED saleVars
  BY <1>3, StockStepInv
<1>4. CASE UNCHANGED vars
  <2>1. UNCHANGED inventoryVars /\ UNCHANGED saleVars
    BY <1>4 DEF vars
  <2>2. InventoryInv'
    BY <2>1, InventoryUnchanged DEF Inv
  <2>3. SaleTypeOK' /\ CompletedIsCovered'
    BY <2>1 DEF Inv, SaleInv, SaleTypeOK, CompletedIsCovered, Coverage, saleVars
  <2> QED BY <2>1, <2>2, <2>3, ForeignStep DEF saleVars, inventoryVars
<1> QED BY <1>1, <1>2, <1>3, <1>4 DEF Next

LEMMA SaleInvariant == Spec => []Inv
<1>1. Inv /\ [Next]_vars => Inv'
  BY SaleStepInv
<1> QED BY <1>1, SaleInitInv, PTL DEF Spec

(* Quantities and reservations are natural numbers in every reachable      *)
(* state, and so are totals, payments and credits.                         *)
THEOREM SaleTypes == Spec => []TypeOK
<1>1. Inv => TypeOK
  BY DEF Inv, InventoryInv, SaleInv, TypeOK
<1> QED BY <1>1, SaleInvariant, PTL

(* complete() and checkout only complete covered sales, and nothing        *)
(* uncovers them afterwards, whatever statuses request bodies carry.  A    *)
(* sale that a body called COMPLETED is the one CompletedIsCovered names.  *)
THEOREM CompletedSalesAreCovered == Spec => []CompletedIsCovered
<1>1. Inv => CompletedIsCovered
  BY DEF Inv, SaleInv
<1> QED BY <1>1, SaleInvariant, PTL

(* A sale's total is the price of its lines at its tax rate, always.       *)
THEOREM TotalsMatchLines == Spec => []TotalMatchesLines
<1>1. Inv => TotalMatchesLines
  BY DEF Inv, SaleInv
<1> QED BY <1>1, SaleInvariant, PTL

(* A sale's movements are what it took, what was returned and what its     *)
(* cancellation put back, for every status that request bodies carry:      *)
(* nothing was taken for a sale that a body called COMPLETED.              *)
THEOREM MovementsFollowSales == Spec => []MovementsFollowSale
<1>1. Inv => MovementsFollowSale
  BY DEF Inv, SaleInv
<1> QED BY <1>1, SaleInvariant, PTL

(* Quantities are explained by the movements, sales, returns and           *)
(* cancellations included.                                                 *)
THEOREM StockIsExplained == Spec => []LedgerExplainsStock
<1>1. Inv => LedgerExplainsStock
  BY DEF Inv, InventoryInv
<1> QED BY <1>1, SaleInvariant, PTL

(* No sale, withdrawal, transfer or recount takes a reserved unit.         *)
THEOREM ReservationsAreCovered == Spec => []ReservedUnitsAreThere
<1>1. Inv => ReservedUnitsAreThere
  BY DEF Inv, InventoryInv
<1> QED BY <1>1, SaleInvariant, PTL

(* No sequence of returns brings back more of a line than it sold.         *)
THEOREM ReturnsStayWithinSales == Spec => []ReturnedWithinSold
<1>1. Inv => ReturnedWithinSold
  BY DEF Inv, SaleInv
<1> QED BY <1>1, SaleInvariant, PTL

-----------------------------------------------------------------------------
(* The item handlers work on rows of a PENDING sale only.                  *)
LEMMA ChangeLineSettled ==
  ASSUME Inv, NEW s \in Sales, NEW l \in Lines, NEW item,
         item = NoLine \/ item.sale = s, line[l] = NoLine \/ line[l].sale = s,
         ChangeLine(s, l, item)
  PROVE  SettledStep
<1>0. SaleTypeOK
  BY DEF Inv, SaleInv
<1>1. \A t \in Sales : status[t] \in Settled => t # s
  BY DEF ChangeLine, Settled
<1>2. \A t \in Sales \ {s} : total'[t] = total[t] /\ saleRate'[t] = saleRate[t]
  BY <1>0 DEF ChangeLine, Recalculate, SaleTypeOK
<1>3. \A t \in Sales \ {s}, m \in Lines :
        line[m].sale = t \/ line'[m].sale = t => line'[m] = line[m]
  BY <1>0, SaleAssumption DEF ChangeLine, NoLine, SaleTypeOK
<1>4. UNCHANGED <<status, paid, credit, store, customer>>
  BY DEF ChangeLine
<1> QED BY <1>1, <1>2, <1>3, <1>4 DEF SettledStep

LEMMA EditSettled ==
  ASSUME Inv, Edit
  PROVE  SettledStep
<1> USE SaleAssumption
<1>0. SaleTypeOK
  BY DEF Inv, SaleInv
<1>1. ASSUME NEW s \in Sales, NEW st \in Stores, NEW c \in Customers \cup {NoCustomer},
             NEW withTax \in BOOLEAN, NEW requested \in RequestStatuses,
             Create(s, st, c, withTax, requested)
      PROVE  SettledStep
  BY <1>0, <1>1 DEF Create, Declare, SettledStep, Settled, SaleTypeOK
<1>2. ASSUME NEW s \in Sales, NEW withTax \in BOOLEAN, NEW requested \in RequestStatuses,
             NEW st \in Stores, NEW c \in Customers \cup {customer[s]},
             Update(s, st, c, withTax, requested)
      PROVE  SettledStep
  BY <1>0, <1>2 DEF Update, Declare, Recalculate, SettledStep, Settled, SaleTypeOK
<1>3. ASSUME NEW s \in Sales, NEW l \in Lines, NEW v \in Variants, NEW n \in Units,
             NEW price \in Prices, NEW discount \in Discounts,
             AddItem(s, l, v, n, price, discount)
      PROVE  SettledStep
  <2> DEFINE item == [sale |-> s, variant |-> v, quantity |-> n, unitPrice |-> price,
                      totalPrice |-> price * n - discount, returned |-> 0]
  <2>1. item.sale = s
    OBVIOUS
  <2>2. ChangeLine(s, l, item) /\ line[l] = NoLine
    BY <1>3 DEF AddItem
  <2> HIDE DEF item
  <2> QED BY <2>1, <2>2, ChangeLineSettled
<1>4. ASSUME NEW l \in Lines, NEW n, NEW price, NEW discount,
             UpdateItem(l, n, price, discount)
      PROVE  SettledStep
  <2> DEFINE item == [line[l] EXCEPT !.quantity = n, !.unitPrice = price,
                                     !.totalPrice = price * n - discount]
  <2>1. line[l].sale \in Sales /\ item.sale = line[l].sale
    BY <1>0, <1>4 DEF UpdateItem, Inv, SaleInv, LinesBelong, SaleTypeOK, LineType
  <2>2. ChangeLine(line[l].sale, l, item)
    BY <1>4 DEF UpdateItem
  <2> HIDE DEF item
  <2> QED BY <2>1, <2>2, ChangeLineSettled
<1>5. ASSUME NEW l \in Lines, RemoveItem(l) PROVE SettledStep
  <2>1. line[l].sale \in Sales
    BY <1>5 DEF RemoveItem, Inv, SaleInv, LinesBelong
  <2>2. ChangeLine(line[l].sale, l, NoLine)
    BY <1>5 DEF RemoveItem
  <2> QED BY <2>1, <2>2, ChangeLineSettled
<1>6. ASSUME NEW rate \in TaxRates, SetTaxRate(rate) PROVE SettledStep
  BY <1>6 DEF SetTaxRate, SettledStep
<1> QED BY <1>1, <1>2, <1>3, <1>4, <1>5, <1>6 DEF Edit

LEMMA SettleSettled ==
  ASSUME Inv, Settle
  PROVE  SettledStep
<1> USE DEF SettledStep, Settled
<1>0. SaleTypeOK
  BY DEF Inv, SaleInv
<1>1. ASSUME NEW s \in Sales, NEW c \in Customers, NEW amount \in Amounts,
             AuthorizeCredit(s, c, amount)
      PROVE  SettledStep
  BY <1>0, <1>1 DEF AuthorizeCredit, SaleTypeOK
<1>2. ASSUME NEW s \in Sales, NEW amount \in Amounts, AddPayment(s, amount)
      PROVE  SettledStep
  BY <1>0, <1>2 DEF AddPayment, SaleTypeOK
<1>3. ASSUME NEW s \in Sales, Complete(s) PROVE SettledStep
  BY <1>0, <1>3 DEF Complete, SaleTypeOK
<1>4. ASSUME NEW s \in Sales, NEW amount, Checkout(s, amount) PROVE SettledStep
  BY <1>0, <1>4 DEF Checkout, SaleTypeOK
<1>5. ASSUME NEW s \in Sales, Cancel(s) PROVE SettledStep
  BY <1>0, <1>5 DEF Cancel, SaleTypeOK
<1>6. ASSUME NEW s \in Sales, NEW n \in [Lines -> Units \cup {0}], Return(s, n)
      PROVE  SettledStep
  <2>1. \A l \in Lines : [line'[l] EXCEPT !.returned = 0] = [line[l] EXCEPT !.returned = 0]
    <3> SUFFICES ASSUME NEW l \in Lines
                 PROVE  [line'[l] EXCEPT !.returned = 0] = [line[l] EXCEPT !.returned = 0]
      OBVIOUS
    <3> DEFINE more == line[l].returned + n[l]
    <3>1. line'[l] = [line[l] EXCEPT !.returned = more]
      BY <1>6 DEF Return
    <3>2. line[l] \in LineType
      BY <1>0 DEF SaleTypeOK
    <3> HIDE DEF more
    <3> QED BY <3>1, <3>2 DEF LineType
  <2>2. UNCHANGED <<status, total, saleRate, paid, credit, store, customer>>
    BY <1>6 DEF Return
  <2> QED BY <2>1, <2>2
<1> QED BY <1>1, <1>2, <1>3, <1>4, <1>5, <1>6 DEF Settle

(* A settled sale is history: no handler changes its price, its payments,  *)
(* its credit or its lines, whatever else happens.                         *)
THEOREM SettledSalesAreFinal == Spec => SettledIsFinal
<1>1. Inv /\ [Next]_vars => [SettledStep]_vars
  BY EditSettled, SettleSettled DEF Next, SettledStep, saleVars
<1> QED BY <1>1, SaleInvariant, PTL DEF Spec, SettledIsFinal
=============================================================================
