----------------------------- MODULE Inventory -----------------------------
(***************************************************************************)
(* The stock of src/src/services/inventory.service.ts: one inventories row *)
(* per store and variant, and the inventory_movements rows that explain it.*)
(* Every handler locks the rows it changes with SELECT ... FOR UPDATE and  *)
(* commits quantity and movement together, so a handler is one step.       *)
(*                                                                         *)
(* Movement rows are kept as their net effect, per document that wrote     *)
(* them: ledger[r][k] is the sum of the quantities the handlers of         *)
(* document r booked for row k, incoming positive and outgoing negative.   *)
(***************************************************************************)
EXTENDS Integers, FiniteSets, Sums

CONSTANTS
  Stores, Variants,
  Rows,             \* the inventories rows that exist: <<store, variant>> pairs
  References,       \* documents whose handlers write movements
  Manual,           \* the reference of a movement made from the stock screens
  InitialQuantity,  \* the stock when the observation starts
  Units,            \* quantities that requests carry
  MaxQuantity       \* bound: nothing is received or transferred beyond it

ASSUME InventoryAssumption ==
  /\ Rows \subseteq Stores \X Variants
  /\ IsFiniteSet(Rows)
  /\ IsFiniteSet(References)
  /\ Manual \in References
  /\ InitialQuantity \in [Rows -> Nat]
  /\ Units \subseteq Nat \ {0}
  /\ MaxQuantity \in Nat

VARIABLES quantity, reserved, ledger

inventoryVars == <<quantity, reserved, ledger>>

Variant(k) == k[2]

Available(k) == quantity[k] - reserved[k]

(* Change the quantity of every row k by delta[k] and book it for r. *)
Move(r, delta) ==
  /\ quantity' = [k \in Rows |-> quantity[k] + delta[k]]
  /\ ledger' = [ledger EXCEPT ![r] = [k \in Rows |-> ledger[r][k] + delta[k]]]
  /\ UNCHANGED reserved

Only(k, n) == [j \in Rows |-> IF j = k THEN n ELSE 0]

InventoryInit ==
  /\ quantity = InitialQuantity
  /\ reserved = [k \in Rows |-> 0]
  /\ ledger = [r \in References |-> [k \in Rows |-> 0]]

-----------------------------------------------------------------------------
(* createMovement of type PURCHASE, TRANSFER_IN or RETURN; receiveInventory *)
(* does the same.                                                          *)
Receive(k, n) ==
  /\ quantity[k] + n <= MaxQuantity
  /\ Move(Manual, Only(k, n))

(* createMovement of type SALE or TRANSFER_OUT: never the reserved units. *)
Withdraw(k, n) ==
  /\ n <= Available(k)
  /\ Move(Manual, Only(k, -n))

(* Slip: the count is booked instead of the difference. *)
AdjustBooksCount(k, newQuantity) ==
  /\ newQuantity # quantity[k]
  /\ newQuantity >= reserved[k]
  /\ quantity' = [quantity EXCEPT ![k] = newQuantity]
  /\ ledger' = [ledger EXCEPT ![Manual][k] = ledger[Manual][k] + newQuantity]
  /\ UNCHANGED reserved

(* createMovement of type ADJUSTMENT, by a difference; adjustInventory and *)
(* adjustQuantity, to a counted quantity.  All write the difference.       *)
Adjust(k, newQuantity) ==
  /\ newQuantity # quantity[k]
  /\ newQuantity >= reserved[k]
  /\ Move(Manual, Only(k, newQuantity - quantity[k]))

TransferInventory(source, target, n) ==
  /\ source # target
  /\ Variant(source) = Variant(target)
  /\ n <= Available(source)
  /\ quantity[target] + n <= MaxQuantity
  /\ Move(Manual, [k \in Rows |-> Only(target, n)[k] - Only(source, n)[k]])

ReserveStock(k, n) ==
  /\ n <= Available(k)
  /\ reserved' = [reserved EXCEPT ![k] = reserved[k] + n]
  /\ UNCHANGED <<quantity, ledger>>

ReleaseReservedStock(k, n) ==
  /\ n <= reserved[k]
  /\ reserved' = [reserved EXCEPT ![k] = reserved[k] - n]
  /\ UNCHANGED <<quantity, ledger>>

InventoryNext ==
  \/ \E k \in Rows, n \in Units :
       \/ Receive(k, n)
       \/ Withdraw(k, n)
       \/ ReserveStock(k, n)
       \/ ReleaseReservedStock(k, n)
  \/ \E k \in Rows, newQuantity \in 0..MaxQuantity : Adjust(k, newQuantity)
  \/ \E source, target \in Rows, n \in Units : TransferInventory(source, target, n)

-----------------------------------------------------------------------------
InventoryTypeOK ==
  /\ quantity \in [Rows -> Nat]
  /\ reserved \in [Rows -> Nat]
  /\ ledger \in [References -> [Rows -> Int]]

(* Units promised to someone are physically there: no withdrawal, sale,    *)
(* transfer or recount takes a reserved unit (inventory.service.ts checks   *)
(* quantity - reservedQuantity before each of them).                       *)
ReservedUnitsAreThere == \A k \in Rows : reserved[k] <= quantity[k]

(* The stock on hand is the opening stock plus everything the movement     *)
(* rows say came in and went out, whoever wrote them: no handler changes a *)
(* quantity without the movement that explains it.                         *)
LedgerExplainsStock ==
  \A k \in Rows :
    quantity[k] = InitialQuantity[k]
                    + SumOver([r \in References |-> ledger[r][k]], References)
=============================================================================
