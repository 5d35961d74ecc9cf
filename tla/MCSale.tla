------------------------------- MODULE MCSale -------------------------------
(* Instances of Sale for TLC. *)
EXTENDS Sale, TLC

CONSTANTS st1, st2, v1, s1, s2, l1, l2, c1

(* Nothing in Sale orders the ids of lines, or of sales. *)
SaleSymmetry == Permutations(Lines) \cup Permutations(Sales)

OneRow == {<<st1, v1>>}
TwoStores == {<<st1, v1>>, <<st2, v1>>}

ManualAndSales == Sales \cup {Manual}

StockOf2 == [k \in Rows |-> 2]
FirstHolds2 == [k \in Rows |-> IF k[1] = st1 THEN 2 ELSE 1]

(* One run, two questions.  Around one sale in one store, every price,     *)
(* tax, discount, payment and credit; only the sale moves the stock.       *)
OneSale ==
  /\ \E s \in Sales : \A r \in Sales \ {s} : status[r] = "ABSENT"
  /\ \A s \in Sales : store[s] \in {st1, NoStore}
  /\ \A k \in Rows : reserved[k] = 0 /\ ledger[Manual][k] = 0

(* Around two sales in two stores, every movement of the stock; untaxed    *)
(* units at the full price, each sale paid in full or not at all, one of   *)
(* them perhaps called COMPLETED by a request.                             *)
TwoSales ==
  /\ taxRate = 0
  /\ Cardinality(declared) <= 1
  /\ \A s \in Sales : /\ applyTax[s] /\ saleRate[s] = 0 /\ customer[s] = NoCustomer
                      /\ status[s] # "CONFIRMED"
                      /\ credit[s] = 0 /\ paid[s] \in {0, total[s]}
                      /\ status[s] = "PENDING" => paid[s] = 0
  /\ \A l \in Lines : line[l].totalPrice = line[l].quantity * line[l].unitPrice
                      /\ line[l].quantity <= 1
  /\ SumOver(reserved, Rows) <= 1

InBounds == OneSale \/ TwoSales
=============================================================================
