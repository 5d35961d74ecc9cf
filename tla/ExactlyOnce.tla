---------------------------- MODULE ExactlyOnce ----------------------------
(***************************************************************************)
(* What the checkout and payments routes promise the clients of a sale:    *)
(* each idempotency key takes effect at most once, in one indivisible      *)
(* step, and a client that is told of success is told the truth.  Nothing  *)
(* here says how; module Checkout shows the routes do it.                  *)
(***************************************************************************)
EXTENDS Integers

CONSTANTS
  Handlers,        \* requests the server handles, one handler each
  Keys,            \* idempotency keys
  Users,
  Sales,
  Rows,            \* stock rows
  Total,           \* the persisted total of each sale
  Need,            \* units each sale takes of each stock row
  InitialQuantity,
  Amounts,         \* amounts the clients send
  NoRecord         \* no idempotency record was committed

Kinds == {"checkout", "payment"}

Request == [kind : Kinds, key : Keys, sale : Sales, user : Users, amount : Amounts]

(* What an idempotency record remembers of the request it answered. *)
Record == [sale : Sales, user : Users, amount : Amounts]

Remembered(r) == [sale |-> r.sale, user |-> r.user, amount |-> r.amount]

VARIABLES
  request,   \* the requests received, by handler
  answered,  \* what each client was told; "nothing" as long as it waits
  record,    \* the idempotency records, by kind and key
  status, paid, quantity

promised == <<request, answered, record, status, paid, quantity>>

Received == DOMAIN request

Init ==
  /\ request = << >>
  /\ answered = [h \in Handlers |-> "nothing"]
  /\ record = [kind \in Kinds |-> [key \in Keys |-> NoRecord]]
  /\ status = [s \in Sales |-> "PENDING"]
  /\ paid = [s \in Sales |-> 0]
  /\ quantity = InitialQuantity

Receive(h, r) ==
  /\ h \notin Received
  /\ request' = [g \in Received \cup {h} |-> IF g = h THEN r ELSE request[g]]
  /\ UNCHANGED <<answered, record, status, paid, quantity>>

(* The effect: a key nobody used, a sale that still is open, an amount     *)
(* that is due, and the goods in stock.                                    *)
Perform(h) ==
  LET r == request[h]
      s == r.sale
  IN  /\ record[r.kind][r.key] = NoRecord
      /\ status[s] = "PENDING"
      /\ record' = [record EXCEPT ![r.kind][r.key] = Remembered(r)]
      /\ paid' = [paid EXCEPT ![s] = paid[s] + r.amount]
      /\ \/ /\ r.kind = "checkout"
            /\ r.amount = Total[s]
            /\ \A k \in Rows : Need[s][k] <= quantity[k]
            /\ status' = [status EXCEPT ![s] = "COMPLETED"]
            /\ quantity' = [k \in Rows |-> quantity[k] - Need[s][k]]
         \/ /\ r.kind = "payment"
            /\ r.amount <= Total[s] - paid[s]
            /\ UNCHANGED <<status, quantity>>
      /\ UNCHANGED <<request, answered>>

(* Success is only reported of what happened, a conflict only of a key     *)
(* that stands for something else; a client may be turned away, or never   *)
(* hear of its request, whatever happened to it.                           *)
Answer(h, a) ==
  LET r == request[h]
      known == record[r.kind][r.key]
  IN  /\ answered[h] = "nothing"
      /\ a \in {"created", "cached"} => known = Remembered(r)
      /\ a = "conflict" => known # NoRecord /\ known # Remembered(r)
      /\ answered' = [answered EXCEPT ![h] = a]
      /\ UNCHANGED <<request, record, status, paid, quantity>>

Answers == {"created", "cached", "conflict", "refused", "failed", "lost"}

(* Other handlers cancel open sales and take goods out of the stock. *)
Elsewhere ==
  \/ \E s \in Sales :
       /\ status[s] = "PENDING"
       /\ status' = [status EXCEPT ![s] = "CANCELLED"]
       /\ UNCHANGED <<request, answered, record, paid, quantity>>
  \/ \E k \in Rows :
       /\ quantity[k] > 0
       /\ quantity' = [quantity EXCEPT ![k] = quantity[k] - 1]
       /\ UNCHANGED <<request, answered, record, status, paid>>

Next ==
  \/ \E h \in Handlers, r \in Request : Receive(h, r)
  \/ \E h \in Received : Perform(h) \/ (\E a \in Answers : Answer(h, a))
  \/ Elsewhere

Spec == Init /\ [][Next]_promised
=============================================================================
