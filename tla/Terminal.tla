------------------------------ MODULE Terminal ------------------------------
(***************************************************************************)
(* The point of sale page, src/src/app/page.tsx, and the sales it edits    *)
(* through the API (src/src/services/sale.service.ts).                     *)
(*                                                                         *)
(* The page keeps its own cart.  Confirming it deletes every row of the    *)
(* sale, posts the cart row by row, reads the total back and checks the    *)
(* sale out: one request after the other, each of which may fail.  A       *)
(* request whose answer is lost may take effect at once, later or never;   *)
(* the page treats all three as the failure of the attempt.                *)
(*                                                                         *)
(* Every unit costs 1 and there is no tax: a total counts units.           *)
(***************************************************************************)
EXTENDS Integers, FiniteSets, Sums

CONSTANTS
  Variants,
  MaxUnits,     \* bound on the units of a variant in the cart
  MaxSales,     \* bound on the sales created
  MaxTries,     \* bound on the attempts to pay
  MaxBaskets,   \* bound on the baskets served
  MaxLost       \* bound on the requests whose answer is lost

ASSUME TerminalAssumption ==
  {MaxUnits, MaxSales, MaxTries, MaxBaskets, MaxLost} \subseteq Nat

VARIABLES
  cart,       \* units of each variant on the page
  sale,       \* currentSaleId
  shown,      \* completedSaleId: the page shows this sale as completed
  creating,   \* sales created, their answer still on its way to the page
  attempt,    \* completeSale, as far as it got
  stored,     \* omnikes_pending_cart in localStorage
  away,       \* the page is left
  saleStatus,     \* of each sale on the server
  rows,       \* sale_items of each sale
  late,       \* requests given up that may still take effect
  basket,     \* history: number of the basket being served
  bought,     \* history: basket each completed sale was paid for
  overlapped, \* history: sales whose creations were on their way together
  lost        \* answers lost so far

page == <<cart, sale, shown, creating, stored, away>>
server == <<saleStatus, rows, bought>>
pageVars == <<page, attempt, server, late, basket, overlapped, lost>>

SaleIds == 1..MaxSales
NoSale == 0
Empty == [v \in Variants |-> 0]
Carts == [Variants -> 0..MaxUnits]
Nothing == [sale |-> NoSale, cart |-> Empty, basket |-> 0]
Row == [try : 1..MaxTries, variant : Variants, units : 1..MaxUnits]

UnitsIn(R) == SumOver([r \in R |-> r.units], R)

TotalOf(s) == UnitsIn(rows[s])

Sold(s) == [v \in Variants |-> UnitsIn({r \in rows[s] : r.variant = v})]

Idle(try) ==
  [at |-> "idle", try |-> try, sale |-> NoSale, basket |-> 0, goods |-> Empty,
   old |-> {}, left |-> {}, total |-> 0, mixed |-> FALSE]

PageInit ==
  /\ cart = Empty /\ sale = NoSale /\ shown = NoSale
  /\ creating = {} /\ stored = Nothing /\ away = FALSE
  /\ attempt = Idle(0)
  /\ saleStatus = [s \in SaleIds |-> "NONE"]
  /\ rows = [s \in SaleIds |-> {}]
  /\ bought = [s \in SaleIds |-> 0]
  /\ late = {} /\ basket = 1 /\ overlapped = {} /\ lost = 0

-----------------------------------------------------------------------------
(* The server: each request is one transaction that holds the sale row.    *)

Unused == {s \in SaleIds : saleStatus[s] = "NONE"}

Requests(kind, s) == [kind |-> kind, sale |-> s, row |-> {}, amount |-> 0,
                      basket |-> 0, try |-> attempt.try]

Accepted(q) ==
  /\ saleStatus[q.sale] = "PENDING"
  /\ q.kind = "delete" => q.row \subseteq rows[q.sale]
  /\ q.kind = "pay" => q.amount = TotalOf(q.sale)

Perform(q) ==
  /\ rows' = [rows EXCEPT ![q.sale] = CASE q.kind = "delete" -> @ \ q.row
                                        [] q.kind = "post" -> @ \cup q.row
                                        [] OTHER -> @]
  /\ IF q.kind = "pay"
     THEN /\ saleStatus' = [saleStatus EXCEPT ![q.sale] = "COMPLETED"]
          /\ bought' = [bought EXCEPT ![q.sale] = q.basket]
     ELSE UNCHANGED <<saleStatus, bought>>

\* A request the page gave up reaches the server after all.
Land(q) ==
  /\ q \in late
  /\ late' = late \ {q}
  /\ IF Accepted(q) THEN Perform(q) ELSE UNCHANGED server
  /\ attempt' = [attempt EXCEPT !.mixed =
       @ \/ (Accepted(q) /\ q.kind = "post" /\ attempt.at = "sync" /\ attempt.sale = q.sale)]
  /\ UNCHANGED <<page, basket, overlapped, lost>>

-----------------------------------------------------------------------------
(* The cart.                                                               *)

OnPage == ~away /\ shown = NoSale

NextBasket == IF cart = Empty /\ sale = NoSale THEN basket ELSE basket + 1

CreateSale ==
  \E s \in Unused :
    /\ \A t \in Unused : s <= t
    /\ saleStatus' = [saleStatus EXCEPT ![s] = "PENDING"]
    /\ creating' = creating \cup {s}
    /\ overlapped' = IF creating = {} THEN overlapped ELSE overlapped \cup creating \cup {s}

Put(v) ==
  /\ OnPage /\ basket <= MaxBaskets
  /\ cart[v] < MaxUnits
  /\ cart' = [cart EXCEPT ![v] = @ + 1]
  /\ UNCHANGED <<sale, shown, stored, away, attempt, rows, bought, late, basket, lost>>

\* Slip: every addition asks for a sale.
AddToCartAnew(v) ==
  /\ Put(v)
  /\ CreateSale \/ UNCHANGED <<saleStatus, creating, overlapped>>

\* A cart without a sale asks for one, which may fail.  Until the answer
\* comes, so does every further addition.
AddToCart(v) ==
  /\ Put(v)
  /\ \/ sale = NoSale /\ CreateSale
     \/ UNCHANGED <<saleStatus, creating, overlapped>>

\* setCurrentSaleId(sale.id), whatever the page has come to meanwhile.
SaleCreated(s) ==
  /\ ~away /\ s \in creating
  /\ creating' = creating \ {s}
  /\ sale' = s
  /\ UNCHANGED <<cart, shown, stored, away, attempt, server, late, basket,
                 overlapped, lost>>

UpdateQuantity(v, n) ==
  /\ OnPage
  /\ cart[v] > 0 /\ n # cart[v]
  /\ cart' = [cart EXCEPT ![v] = n]
  /\ UNCHANGED <<sale, shown, creating, stored, away, attempt, server, late,
                 basket, overlapped, lost>>

ClearCart ==
  /\ OnPage /\ cart # Empty
  /\ cart' = Empty /\ sale' = NoSale
  /\ basket' = NextBasket
  /\ UNCHANGED <<shown, creating, stored, away, attempt, server, late, overlapped, lost>>

NewSale ==
  /\ ~away /\ shown # NoSale
  /\ shown' = NoSale
  /\ UNCHANGED <<cart, sale, creating, stored, away, attempt, server, late,
                 basket, overlapped, lost>>

Leave ==
  /\ ~away /\ attempt.at = "idle"
  /\ away' = TRUE
  /\ cart' = Empty /\ sale' = NoSale /\ shown' = NoSale /\ creating' = {}
  /\ basket' = NextBasket
  /\ UNCHANGED <<stored, attempt, server, late, overlapped, lost>>

\* The page is mounted again: restoreCartState.
Return ==
  /\ away /\ away' = FALSE
  /\ stored' = Nothing
  /\ IF stored = Nothing
     THEN UNCHANGED <<cart, sale, basket>>
     ELSE cart' = stored.cart /\ sale' = stored.sale /\ basket' = stored.basket
  /\ UNCHANGED <<shown, creating, attempt, server, late, overlapped, lost>>

-----------------------------------------------------------------------------
(* completeSale                                                            *)

InHand == {v \in Variants : cart[v] > 0}

Confirm ==
  /\ OnPage /\ attempt.at = "idle"
  /\ cart # Empty /\ sale # NoSale
  /\ attempt.try < MaxTries
  /\ attempt' = [Idle(attempt.try + 1) EXCEPT
       !.at = "items", !.sale = sale, !.basket = basket, !.goods = cart, !.left = InHand]
  /\ UNCHANGED <<page, server, late, basket, overlapped, lost>>

Stop == attempt' = Idle(attempt.try)

\* A request is answered, refused, or given up.
Send(q, next) ==
  \/ /\ Accepted(q) /\ Perform(q) /\ attempt' = next
     /\ UNCHANGED <<late, lost>>
  \/ /\ ~Accepted(q) /\ Stop
     /\ UNCHANGED <<server, late, lost>>
  \/ /\ lost < MaxLost /\ lost' = lost + 1
     /\ late' = late \cup {q}
     /\ Stop
     /\ UNCHANGED server

\* Slip: the rows an earlier attempt left are not deleted.
ReadNoItems ==
  /\ attempt.at = "items"
  /\ \/ attempt' = [attempt EXCEPT !.at = "sync"]
     \/ Stop
  /\ UNCHANGED <<page, server, late, basket, overlapped, lost>>

\* The PATCH of applyTax and the GET of the rows.
ReadItems ==
  /\ attempt.at = "items"
  /\ \/ attempt' = [attempt EXCEPT !.at = "sync", !.old = rows[attempt.sale]]
     \/ Stop
  /\ UNCHANGED <<page, server, late, basket, overlapped, lost>>

DeleteItem(r) ==
  /\ attempt.at = "sync" /\ r \in attempt.old
  /\ Send([Requests("delete", attempt.sale) EXCEPT !.row = {r}],
          [attempt EXCEPT !.old = @ \ {r}])
  /\ UNCHANGED <<page, basket, overlapped>>

PostItem(v) ==
  /\ attempt.at = "sync" /\ attempt.old = {} /\ v \in attempt.left
  /\ LET r == [try |-> attempt.try, variant |-> v, units |-> attempt.goods[v]]
     IN Send([Requests("post", attempt.sale) EXCEPT !.row = {r}],
             [attempt EXCEPT !.left = @ \ {v}])
  /\ UNCHANGED <<page, basket, overlapped>>

ReadTotal ==
  /\ attempt.at = "sync" /\ attempt.old = {} /\ attempt.left = {}
  /\ \/ /\ TotalOf(attempt.sale) > 0
        /\ attempt' = [attempt EXCEPT !.at = "pay", !.total = TotalOf(attempt.sale)]
     \/ Stop
  /\ UNCHANGED <<page, server, late, basket, overlapped, lost>>

Payment == [Requests("pay", attempt.sale) EXCEPT
              !.amount = attempt.total, !.basket = attempt.basket]

Pay ==
  /\ attempt.at = "pay"
  /\ Send(Payment, [attempt EXCEPT !.at = "paid"])
  /\ UNCHANGED <<page, basket, overlapped>>

\* "open cash session", 409: the cashier may stay, or go and open the till,
\* and the cart as it was confirmed is kept.
CashClosed ==
  /\ attempt.at = "pay" /\ Accepted(Payment)
  /\ Stop
  /\ \/ UNCHANGED <<page, basket>>
     \/ /\ stored' = [sale |-> attempt.sale, cart |-> attempt.goods, basket |-> attempt.basket]
        /\ away' = TRUE
        /\ cart' = Empty /\ sale' = NoSale /\ shown' = NoSale /\ creating' = {}
        /\ basket' = NextBasket
  /\ UNCHANGED <<server, late, overlapped, lost>>

\* The answer clears the cart, with whatever was put in it meanwhile.
Completed ==
  /\ attempt.at = "paid"
  /\ attempt' = [attempt EXCEPT !.at = "idle"]
  /\ shown' = attempt.sale
  /\ cart' = Empty /\ sale' = NoSale /\ stored' = Nothing
  /\ basket' = NextBasket
  /\ UNCHANGED <<creating, away, server, late, overlapped, lost>>

Proceed ==
  \/ ReadItems
  \/ \E r \in attempt.old : DeleteItem(r)
  \/ \E v \in attempt.left : PostItem(v)
  \/ ReadTotal \/ Pay \/ CashClosed \/ Completed

PageNext ==
  \/ \E v \in Variants : AddToCart(v)
  \/ \E s \in creating : SaleCreated(s)
  \/ \E v \in Variants, n \in 0..MaxUnits : UpdateQuantity(v, n)
  \/ ClearCart \/ NewSale \/ Leave \/ Return
  \/ Confirm \/ Proceed
  \/ \E q \in late : Land(q)

PageSpec == PageInit /\ [][PageNext]_pageVars

-----------------------------------------------------------------------------
PageTypeOK ==
  /\ cart \in Carts
  /\ {sale, shown} \subseteq SaleIds \cup {NoSale}
  /\ creating \cup overlapped \subseteq SaleIds
  /\ attempt.at \in {"idle", "items", "sync", "pay", "paid"}
  /\ attempt.try \in 0..MaxTries /\ attempt.sale \in SaleIds \cup {NoSale}
  /\ attempt.goods \in Carts
  /\ attempt.old \subseteq Row /\ attempt.left \subseteq Variants
  /\ stored.sale \in SaleIds \cup {NoSale} /\ stored.cart \in Carts
  /\ away \in BOOLEAN
  /\ saleStatus \in [SaleIds -> {"NONE", "PENDING", "COMPLETED"}]
  /\ rows \in [SaleIds -> SUBSET Row]
  /\ \A s \in SaleIds : bought[s] \in Nat
  /\ \A q \in late : q.kind \in {"delete", "post", "pay"} /\ q.sale \in SaleIds
  /\ basket \in Nat /\ lost \in 0..MaxLost

(* The sale the page shows as completed is completed, and its rows are the *)
(* cart as it was when it was confirmed, whatever earlier attempts left in *)
(* the sale and whatever the cashier did to the cart meanwhile; unless a   *)
(* row posted by an earlier attempt landed while this one was posting its  *)
(* own (page.tsx:407-470, 545-552).                                        *)
SoldIsTheCart ==
  shown # NoSale =>
    /\ saleStatus[shown] = "COMPLETED"
    /\ attempt.mixed \/ Sold(shown) = attempt.goods

(* A basket is paid for once: an attempt given up whose payment was taken  *)
(* all the same leaves the page on the sale it was for, where the next one *)
(* is refused; unless the page was handed a second sale for it, asked for  *)
(* before the first had arrived (page.tsx:179, 201).                       *)
BasketPaidOnce ==
  \A s, t \in SaleIds :
    s # t /\ bought[s] # 0 /\ bought[s] = bought[t] => {s, t} \subseteq overlapped
=============================================================================
