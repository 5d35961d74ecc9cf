# TLA+ verification of omnikes

omnikes is a multi-tenant point-of-sale and stock system: a Next.js
application whose API routes call services that run PostgreSQL transactions
through Prisma. This directory holds TLA+ models of the part where mistakes
cost money, goods, data or access — stock, sales, payments, the cash drawer,
returns and refunds, proformas, purchases, sessions, backups, the page at the
till, and Setup on Windows with the first accounts — the TLC configurations that check them, and TLAPS proofs.

Paths are relative to the repository (`src/src/services/...` is the
application's `src/services/...`).

## 1. Inventory of the system

Every handler is an HTTP request. Requests run concurrently, in any number of
processes; they share nothing but the database, and, for backups, a flag in
each process and files beside the database. There are no queues or callbacks:
interaction is by rows, row locks, unique indexes and foreign keys. The page at
the till keeps a cart of its own and sends one request after the other. Setup and
the launcher are programs of their own, which share files, a Windows service
and TCP ports with whatever else runs on the computer.

| Component | State | Operations | What makes it correct |
|---|---|---|---|
| Stock (`inventory.service.ts`) | `inventories` (quantity, reservedQuantity), `inventory_movements` | createMovement, receive, adjust, transfer, reserve, release | reserved units are there; movements explain the quantity |
| Sales (`sale.service.ts`, `api/sales/[id]/*`) | `sales`, `sale_items`, `sale_credits` | create, PATCH, item CRUD, authorizeCredit, addPayment, complete, cancel | the total follows the lines; a completed sale is covered; a settled sale is final |
| Checkout and payments routes | `payments`, `checkout_idempotency`, `payment_idempotency` | POST checkout, POST payments | a key pays once; the payments of the payments route take no more than the total between them; a sale is checked out once; every request ends |
| Cash (`cash.service.ts`) | `cash_sessions`, `cash_movements` | open, addMovement, close; cash of sales, refunds, suppliers | one open session per store; the expected amount adds up |
| Returns and refunds (`return.service.ts`, `refund.service.ts`) | `returns`, `return_items`, `refunds`, `returnedQuantity`, `refundedAmount` | create return, create refund, replay | nothing returned or refunded twice; cents add up |
| Proformas (`proforma.service.ts`) | `proformas`, `proforma_items` | create, update, item CRUD, validate, accept, cancel, convert | becomes one sale, of what was accepted, at the price of its items |
| Purchases and receipts (`purchase.service.ts`) | `purchases`, `purchase_items`, stock rows | create, order, cancel, receive | nothing received twice or beyond the order; every received unit is in stock |
| Supplier payments (service and route) | `supplier_payments`, `supplier_payment_idempotency` | pay a purchase, pay the supplier | a key pays once; no more than is owed |
| Accounts (`auth`, `password-reset`, `admin-user` services, `rate-limiter.ts`) | `users`, `sessions`, `rate_limit_buckets` | login, logout, request and use a reset, update | sessions and failures stay bounded; a new password ends the old one's sessions |
| Local backup (`local-backup.service.ts`, `api/backup`) | the whole database, dump files, `restore-audit.jsonl`, a busy flag | back up, restore | nothing is lost; the journal is true; the flag is cleared |
| Till (`app/page.tsx`) | cart, current sale, `localStorage` | add, change, clear, confirm, leave, return | what is sold is the cart; a basket is paid once |
| Setup and launcher (`installer/*`) | password files, `.env`, port file, cluster, service | install, initialize RBAC, prepare, launch, uninstall | can be run again after anything; the password is kept; what PASS says is true |
| First accounts (`registration`, `platform-operator-bootstrap` services, `scripts/install-local.ts`) | users, roles, permission catalogue | register, install, bootstrap | the scripts succeed once; administrators hold every permission |
| Roles, stores, subscriptions, catalogue | organizations, roles, stores, products, parties | mostly single-row CRUD | names unique; permissions |
| Reports; hardware bridge; other pages | none of their own, or external | reads, I/O | — |

How they interact: checkout and complete take stock and write movements;
cancel and returns put goods back; cash payments and refunds write movements
into the open session of the store; a refund pays out of a return's amount and
a payment's remainder; supplier payments draw on the same drawer; a proforma
becomes a sale; receipts raise the stock that sales take; the till edits and
checks out a sale; a restore replaces everything there is; Setup makes the database
that registration fills.

What is hard here, each at its line in `PROJECT.json` under `hazards`:

* **interleaving** — two requests of one sale, two sales on one stock row, a
  cash payment and the closing of the drawer, two users opening one drawer;
* **retries and lost answers** — a client that did not see the answer of a
  committed checkout sends it again, possibly while the first still runs;
* **crashes** — between any two statements of a transaction, or after it; of a
  process whose `pg_restore` goes on without it; of Setup between two files;
* **deadlock** — checkouts lock stock rows in the order the database returns
  the lines; supplier payments share-lock a purchase and then want it alone;
* **no transaction at all** — proforma edits, login and password reset are
  statements that anything may run between;
* **long legal histories** — edit, credit, pay, edit again, check out, return,
  cancel: each step is right by itself and their sum need not be;
* **stale reads** — the cash session is read without a lock and used later; a
  purchase's status is read before its lock, the failed logins before their
  count;
* **numeric edges** — cents of tax spread over lines and over partial returns.

## 2. Modules

| Module | Models | Used by |
|---|---|---|
| `Sums` | a sum over a finite set | all modules about amounts |
| `Inventory` | stock rows, reservations, the ledger of movements | `Sale` |
| `Sale` | the life of a sale over that stock | `MCSale`, `SaleProofs` |
| `ExactlyOnce` | the promise of the checkout and payments routes | `Checkout` |
| `Checkout` | those routes, statement by statement | `MCCheckout`, `CheckoutProofs` |
| `CashSession` | the drawer, statement by statement | `MCCashSession`, `MoneyProofs` |
| `ReturnRefund` | the money of returns and refunds, in cents | `MCReturnRefund`, `MoneyProofs` |
| `Proforma` | one proforma and the sale it becomes, statement by statement | `MCProforma`, `ProformaProofs` |
| `OncePerKey` | the promise of the supplier payments route | `Purchase` |
| `Purchase` | the purchases of a supplier, receipts and payments, statement by statement | `MCPurchase`, `PurchaseProofs` |
| `Account` | one user's password, sessions, failures and reset token, statement by statement | `MCAccount`, `AccountBackupProofs` |
| `Backup` | backups and restores while the application writes | `MCBackup`, `AccountBackupProofs` |
| `Terminal` | the page at the till and the sales it edits | `MCTerminal`, `CheckoutProofs` |
| `Installation` | Setup, the launcher, and the computer around them | `FirstAccounts` |
| `FirstAccounts` | registration and two scripts, composed with `Installation` | `MCInstallation`, `InstallationProofs` |
| `SumsProofs` | lemmas on sums | the other proof modules |
| `SaleProofs` (stock and sales), `CheckoutProofs` (the routes and the till), `MoneyProofs` (the drawer, returns and refunds), `PurchaseProofs`, `ProformaProofs`, `AccountBackupProofs`, `InstallationProofs` | lemmas and theorems | — |
| `MC...` | instances and symmetry sets for TLC | the `.cfg` files |

Some definitions carry a comment that begins with *Slip*. Each is a mistake
one could plausibly make in the code next to it; no specification uses them.
Put in place of the definition they vary, they break a property, which shows
that the property depends on that code.

### Grain

A handler is **one step** in `Inventory` and `Sale`, and a refund in `ReturnRefund`. The code
justifies that: each opens a transaction, takes `SELECT ... FOR UPDATE` on the
row that decides (sale, return, payment, stock row), reads again under the lock
and only then checks and writes. The next handler on that row waits for the
commit. Handlers of different sales meet at the stock rows, which are locked
one after the other; since a handler reads each stock row under its lock and
holds all locks until it commits, its effect is that of a step at its commit.
A transaction that fails for any reason rolls back and leaves no step.

A handler is **many steps** where the code does not have that form, or where
the locking itself is the question: `Checkout` and the payments in `Purchase`
(idempotency rows are looked up before the transaction, inserted first inside
it, and recovered from a unique violation after it), receipts in `Purchase`
(the purchase and then its stock rows), `CashSession` (the open session is read
without a lock), returns in `ReturnRefund` (two sales, one key), and everything in
`Proforma` and `Account`, where most handlers use no transaction. In `Installation`
a step is one thing Setup leaves on the disk or in the service manager. In `Terminal` a step is a request of the page, or one thing
the cashier does; in `Backup` it is what the process waits for.

PostgreSQL is modelled from how the code uses it and is marked external in
`PROJECT.json`: a row lock lasts to the end of the transaction; an insert into a
unique index waits for an uncommitted insert of the same key and fails if that
one commits; an insert with a foreign key share-locks the referenced row; a
cycle of waiters is broken by aborting one of them; a crash rolls back what was
not committed. Prisma's transaction timeout is one more way to roll back.

### Inventory

`quantity` and `reserved` are the columns of `inventories`, for the rows in
`Rows`. Movement rows are kept as `ledger[r][k]`, the net quantity that the
handlers of document `r` booked on row `k`; the stock screens book under
`Manual`. One action per operation of the service: `Receive`, `Withdraw`,
`Adjust`, `TransferInventory`, `ReserveStock`, `ReleaseReservedStock`. The rows
exist from the start: making one with quantity 0 is not modelled. No route
calls reserve and release today; they are in the model because the service
exports them and every other operation looks at `reservedQuantity`.

### Sale

`status`, `store`, `customer`, `applyTax`, `saleRate`, `total` are columns of
`sales`; `line` holds the `sale_items`, `paid` sums the `payments`, `credit` and
`creditTo` are the `sale_credits` row. Actions: `Create`, `Update` (PATCH),
`AddItem`, `UpdateItem`, `RemoveItem`, `AuthorizeCredit`, `AddPayment`,
`Complete`, `Checkout`, `Cancel`, `Return`, and `SetTaxRate` for a tax
configuration that changes between two requests. Points to know:

* `RequestStatuses` is what the field `status` of create and PATCH bodies may
  hold. The code stores it as it comes (`validation.ts:228`,
  `sale.service.ts:165`). The PATCH schema is the create schema made partial,
  whose defaults survive, so a PATCH always carries a status and an `applyTax`.
  The pages only ever send `applyTax`; the run lets bodies carry all four statuses
  the code knows, and the theorems any set of them.
* `declared` is a history variable: the sales that a body, and neither
  `complete()` nor the checkout route, made COMPLETED. Nothing was paid or
  deducted for them (section 4). `CompletedIsCovered` is about the others, and
  says so; `MovementsFollowSale` says of both what their movements are.
* `recalculateTotals` runs inside the item and PATCH handlers, so `Recalculate`
  is part of those actions. Nothing else changes a total.
* `SaleService.addPayment` is reached by tests only; the `AddPayment` action is
  the payments route.
* Prices that the catalogue gives and the weights of weighed goods are folded
  into `Prices`. Amounts are cents; `Tax` rounds halves up as `roundMoney` does,
  without its floating-point correction.
* Permissions, tenancy and audit rows are left out.

### Checkout and ExactlyOnce

`pc[h]` is where handler `h` is: `lookup` (find the idempotency record), `insert`
(insert a PENDING one, first statement of the transaction), `recover` (after a
unique violation, read what the winner wrote), `sale` (lock and re-read the
sale), `rows` (lock stock rows one by one), `pay`, `answer`. `Crash` may happen
anywhere, `DeadlockAbort` wherever a cycle of waiters exists; both give a client
an answer that says nothing about the effect. `CancelElsewhere` and
`WithdrawElsewhere` are other handlers, which need the same locks. That a
request repeats the key with another payload is a `conflict`; the stored method
and reference are folded into the amount. `ExactlyOnce` says the same without
locks or places: a request takes effect at most once per key, atomically, and
the answer is true. `Checkout` implements it (`KeepsPromise`); every variable of
`ExactlyOnce` has its namesake in `Checkout`, so the refinement mapping is the
identity and the work is in showing that what was checked many steps before the
commit still holds at the commit.

### CashSession

Sessions are opened in two steps (look for an open one, insert under the partial
unique index) and cash arrives in three (find an open session, insert the
movement, commit). `addMovement` and `close` lock the session and are one step.
`late` is a history variable: the part of `recorded` inserted after the last
close. `Close` may close a session again: neither the route
(`api/cash-sessions/[id]/route.ts`) nor the service (`cash.service.ts:107-128`)
looks at the status.

### ReturnRefund

The lines, tax and payments of completed sales, what was returned of each line,
the amounts of returns, and refunds by return and payment. `LineTax` spreads the
sale's tax over its lines in id order by differences of rounded cumulated
shares, and `ItemRefund` does the same over the units of a line, as
`return.service.ts` does. A return is named by its idempotency key. It holds its
sale (`pending`) from `BeginReturn` to its commit, and returns of one sale meet there;
returns of two sales with one key meet at the unique index, where one commits
and the other recovers (`RecoverReturn`). `ReplayReturn` is the lookup before the
transaction. A refund is one step; its key is looked up by `Replay`. The refusal
of a CASH refund without an open session only removes steps and is left out.

### Proforma

`status`, `applyTax`, `taxRate`, `total` are columns of the proforma, `items` its
rows (an item is its id and its net price), `sales` the sales converted from it.
`Begin` is the check every handler makes; what it then writes is a statement
each, so `at[h]` is between them and `seen`, `due`, `dueRate`, `taxed` are what
the handler read. `recalculateTotals` is three of these statements (`SumItems`,
`ReadRate`, `WriteTotals`), taken after every item change, by `validate` and by
`accept`. `update` does not recalculate, as the code has it. `create` and
`convert` write in one transaction; `convert` reads before it, and only the unique
index on `convertedFromProformaId` stops a second sale.

Nothing else is guarded, so an edit may land on a proforma that was sent,
accepted, or converted since, and a cancellation that passed its check before
the conversion turns the status back. `overlapped` records that two requests
were under way at once. Two invariants hold in spite of overlap
(`ConvertedOnce`, `SalePricedByItsItems`); two hold without it, however often a
handler is cut off in the middle (`AgreedTotalIsTheItems`, `SoldAsAgreed`).

### Purchase and OncePerKey

`status`, `got`, `record`, `payments` are the purchases, their received
quantities, the committed idempotency records and the payments; `quantity` is
the stock of the items, which `Withdraw` takes from. `mine[h]` are the purchases
a handler holds `FOR UPDATE`; `rows[h]` the stock rows. Order and cancel are one
conditional UPDATE. Points to know:

* The record's foreign key (migration `20261008002000`, lines 42–44) share-locks
  the purchase to the end of the transaction. Two payments of one purchase with
  different keys therefore both hold a share lock when each asks for
  `FOR UPDATE` (`supplier-payment.service.ts:64`), and the database aborts one of
  them: `DeadlockAbort`, answered with a 500.
* A purchase's status is read before its row is locked (line 60), and `cancel`
  does not look at payments, so a purchase cancelled in between may be paid. A
  payment of a purchase is compared with that purchase's payments only; payments
  that name no purchase are not taken off.
* A payment that names none locks the purchases payable at that moment and adds
  up the ones payable a statement later. `disturbed` records that a purchase was
  ordered, or a cancelled one paid, in between; without that,
  `UnallocatedWithinOwed`.
* A receipt has no key: sent twice, it is two receipts, within what was ordered.

`OncePerKey` promises that a key is used for one payment and that answers are
true. It has no locks; its `request`, `answered` and `effects` are substituted in
`Purchase` (`Promise`), and `KeepsPromise` is the refinement.

### Account

`live` are the valid sessions, oldest first, each with the logins that listed it
for revocation; `attempts` is the account's login bucket, `failed` and `locked` the
two columns, `resettable` whether a reset token is stored and valid. All
handlers but `Administer` are single statements. `given` is what a handler was
sent: the password a login will open its session under, erased (`Overtaken`) when
sessions are revoked under it, which is what the property
`ReplacedPasswordEndsSessions` exempts; `StopUnrevoked` is a reset that stops
between the new password and the revocation, after which the old sessions
live on. `spared` counts failures that did not lock the account. Quotas by IP
address and of resets only end a handler, as `Stop` does; `changePassword` is
called by no route. `auth.service.ts` checks the limit of sessions before it
creates one, so that a user may hold one more than the limit even without
concurrency.

### Backup

`db` is the set of rows in the database, `dumps` the contents of dump files,
`journal` the lines of `restore-audit.jsonl`, `busy[p]` the flag of a process.
`pg_restore` is a process of its own (`tool[o]`): `Commit` and `Abort` happen
whether or not the application that started it still runs. `exposed` records the
rows committed between the snapshot of a safety backup and the commit of its
restore: those may be lost, since nothing keeps the application from writing
meanwhile. `NothingIsLost` is about all others. The flag is per process: two
processes may restore at once.

### Terminal

`cart`, `sale`, `shown` and `stored` are the page's state and its `localStorage`;
`attempt` is `completeSale`, with the cart and the sale id its closure captured,
what is left to delete (`old`) and to post (`left`). The server side is the
PENDING sale, its rows and its checkout. A request is served, refused, or given
up: in the last case it joins `late` and may `Land` any time. An attempt draws a
fresh idempotency key, so that what keeps a basket from being paid twice is that
the page stays on the sale (`BasketPaidOnce`) — unless two additions to an empty
cart asked for two sales (`overlapped`). Every unit costs 1 and there is no tax.
The cart may change while an attempt runs, and its success clears what was
added meanwhile (`page.tsx:546`). Leaving the page under an attempt, several tabs,
and the choice of customer, store and method are left out.

### Installation and FirstAccounts

The state is what Setup finds and leaves: two places for the password file, the
password line and the URL in `.env`, the port file, the cluster (`torn` while
initdb runs, `versioned` once `PG_VERSION` is there, `complete`), the service and the
port it was registered for, and who listens where. `Init` is a fresh computer, one
with an older build whose password is in any place it used, or one on which
initdb had failed. `at` is where `install-runtime.cjs` is; `password` and `port` are its
variables. `Crash` may happen between any two steps, and `Run` starts again from
the first. `Slow` is a service that answers after the deadline. The launcher may
run at any time, also while Setup does: `Prepare` and `WriteBack` are the user's first
launch, which reads `.env` and writes it back; `overwritten` records that it put
back another URL than it found, which ends only when Setup writes the file again.
`Serve` takes any PostgreSQL at the port for its own, as `pg_isready` does. Of `.env`
only the password and the URL are modelled; that it is written in one step, and
the port file, is an assumption (both are a line or a few).

`FirstAccounts` is the composition: its `SetupStep` is a step of `Installation`, and
registration and the scripts need the server that `Installation` brings up.
`attempt[p]` is a script's transaction. It runs SERIALIZABLE, its first statement asks
for an advisory lock, and its snapshot is that statement's: it may have been taken
before the lock's last holder committed. So the lock orders the scripts and
does not bring their reads up to date; `MayCommit` is PostgreSQL's serializability
check, and with REPEATABLE READ (`MayCommitRepeatable`) `ScriptsRunOnce` fails.
Registration runs READ COMMITTED and takes no part in that check: a registration and
a local installation may both succeed. The same codes stand in
`initialize-rbac.cjs`, `registration.service.ts` and `install-local.ts`; `Codes` is that set.

## 3. Runs

| Run | Shows | Bounds, and why they are enough |
|---|---|---|
| `sale_life` | totals, coverage, the ledger, what each sale booked in it, reservations, and that a settled sale is final | two lines, two sales, two stores with 2 and 1 units; bodies carry any of the four statuses. The CONSTRAINT `InBounds` asks two questions of them. `OneSale`: around one sale in one store, one tax change in either direction, discount 0 or 1, amounts 5 and 6: partial and full payment, credit that does and does not fit, a tax (of 5) that rounds. `TwoSales`: around two, untaxed, units at the full price, paid in full or not at all: every race for a last unit, a sale moved between stores, transfers, recounts, one reserved unit, and one of the sales called COMPLETED by a body, cancelled and returned |
| `checkout_retries` | safety of the routes, refinement of `ExactlyOnce`, and liveness | two handlers, two keys, two sales, the same two stock rows in either order, two units of each (one sale takes one of each, the other both), payments of half or all: a duplicate or another payload for the same key, a competing key, a second checkout that the stock would allow, the smallest deadlock; one user, who is one more part of the payload that is compared; no symmetry, because of liveness. For any number of handlers, keys and users the safety properties and the refinement are theorems |
| `cash_drawer` | the drawer's invariants | two handlers, two sessions, two stores |
| `refund_books` | cents of returns; the two caps; the keys of returns and refunds | two kinds of books. Two lines of 0, 5 or 7 cents, 1 or 3 units and tax 0 to 2, up to three returns: thirds that do not divide and a line that costs nothing. Whole units of 4, two sales that may be returned under one key, three payments and repeated keys: a return paid from two payments, a payment used by two returns, a payment of another sale |
| `proforma_races` | what survives overlap, and what holds without it | two handlers, two items, tax 0 or 10 percent: every pair of requests interleaved at every statement |
| `purchase_desk` | receipts, payments, and the refinement of `OncePerKey` | three handlers, two purchases, one item, two keys: two payments or receipts at once with a third that comes from elsewhere, the deadlock of the foreign key, a key used twice |
| `account_sessions` | bounds of sessions and failures, revocation | two handlers, two passwords, limits of 2 sessions and 2 failures: each limit is exceeded by concurrency, and every pair of login and reset meets |
| `backup_restore` | no loss, a true journal, a flag that clears | three operations in two processes, two rows: a restore overtaken by another and by a crash |
| `terminal_baskets` | the till | two variants, one unit of each at most, three sales, three attempts, two baskets, two lost answers: a payment taken though its answer was lost, twice retried |
| `installation_reruns` | Setup can be run again; what PASS means; the first accounts | two ports and two passwords: every disagreement between two files, a port taken and released; two codes, of which older catalogues lack some; three accounts and two processes, which race for each script and again after an operator was deactivated |
| `sale_cancel_after_return`, `sale_declared_completed` | the code departs from what it says | the smallest instances that show it (section 4) |

Bounds are constants or appear in guards: `MaxQuantity` stops receipts,
transfers and recounts beyond it, `MaxCash` stops movements that would take a
session beyond it. Everything else is finite by its sets: `Units`, `Prices`,
`Discounts`, `TaxRates`, `Amounts`, `RequestStatuses`, `Lines`, `Sales`,
`Handlers`, `Keys`, `Users`, `Sessions`, `Openings`, `Returns`, `Purchases`,
`Items`, `Ordered`, `Nets`, `Passwords`, `Operations`, `Writes`; the till by
`MaxUnits`, `MaxSales`, `MaxTries`, `MaxBaskets` and `MaxLost`, failures by
`MaxFailures`, sessions by the handlers that can be in flight.
`Ports`, `Codes`, `Emails` and `Processes` bound `Installation_reruns`, and its CONSTRAINT
`InBounds` lets accounts be made only where nothing disturbs: Setup is explored in
every way before, and `InstallationProofs` needs no such bound. The CONSTRAINT of
`Sale_life` is in the table above and in `MCSale`: prices and payments do not decide
what is deducted, and what the stock does decides no price, so that the product of the
two is left to the theorems. The CONSTRAINT of
`Refund_books` is explained in `MCReturnRefund`. Symmetry is used where nothing orders the ids: lines and sales in
`Sale`, keys in
`ReturnRefund`, handlers and lines in `Proforma`, and the sets that the `MC` modules
name; lines are **not** symmetric in `ReturnRefund`, where tax is spread in id
order, and no run with a liveness property uses any.

`CHECK_DEADLOCK FALSE` appears in `Refund_books` (all units may be returned),
`Backup_restore` (all operations may be over) and `Account_sessions` (an inactive
account without sessions may be left alone). In `Checkout` and `Purchase` the
same situation is the stuttering action `Finished`; every other stop is an error.

Fairness is assumed in three places. `Checkout!FairSpec` asks `WF_vars(Step(h))` of
every handler and of nothing else. Node goes on with a request it started,
PostgreSQL hands a released lock to a waiter and breaks a cycle after
`deadlock_timeout`. Clients need not send anything, crashes need not happen,
other handlers need not run. `EveryHandlerEnds` needs no strong fairness: each
handler serves one request, so only finitely many others can take a lock
before it. `FairBackupSpec` asks it of `Go(o)`, the continuation of an operation
in its process, and of `PgRestore(o)`: `pg_dump` and `pg_restore` end. No timeout is
set on them, so a tool that hangs keeps the flag, and `BusyEnds` says nothing of
that. `SetupSpec` asks it of the installer's own steps, a script that waits for nothing
without a deadline, and of running it again while it has not passed, which is what
its messages ask the user to do. `RerunsSucceed`: once the disturbances end, Setup
passes, except in the cases that `Beyond` names. It does not assume that a launch
ends, nor that any account is made.

## 4. Where the code departs from what it says

The first two have runs; the others were seen while modelling and are described
here, without a run of their own.

1. *Cancel after return* (`CancelRestoresOnce`): returns put goods back and
   `cancel` puts the full quantity of every line back once more.
   `PROJECT.json` quotes the lines.
2. *A status of the client's choosing* (`PendingUntilCovered`): one PATCH with status
   COMPLETED (`validation.ts:228`, `sale.service.ts:165`) makes a sale COMPLETED with
   nothing paid and nothing deducted; so does a create. `complete()` has a test that it
   "keeps sale pending when financial coverage is insufficient". A cancellation or a
   return then puts goods into the stock that were never taken out, since both believe that
   a COMPLETED sale "has previously deducted stock" (507). The model keeps such sales
   apart in `declared`.
3. *Checkout after payment*: the payments route and credit leave a PENDING sale
   partly covered; checkout then takes the full total
   (`checkout/route.ts:266`), although `sale.service.ts:680-682` speaks of
   preventing "an overpayment".
4. *Customer after credit*: credit is authorized for the sale's customer
   (`sale.service.ts:638`), and PATCH may then replace the customer (165).
5. *Late cash*: a CASH payment is booked into a session that was closed since it
   was read (`payments/route.ts:347`). `ExpectedAddsUp` states exactly what
   remains true.
6. *Refund without reference*: the stored `null` never equals the request's
   `undefined` (`refund.service.ts:60`), so an identical retry is rejected.
7. *Cancelled though converted*: `proforma.service.ts:570` refuses to cancel a
   converted proforma, but a cancellation that passed that check first, or a
   `validate` or `accept` under way, overwrites the status.
8. *Paid though cancelled*, and the deadlock of two payments of one purchase:
   see `Purchase` above.
9. *Setup that cannot finish* (`Beyond`): killed between the registration of the
   service at a new port and the port file (`install-runtime.cjs:174-177`), Setup
   keeps the old port if that is free again, does not register anew, and waits for
   a server that is elsewhere; killed after it created the password file and before
   it filled it, it fails with EEXIST for ever (131); a killed initdb leaves a
   directory it refuses, or one with `PG_VERSION` and no more (134-140). Uninstalling
   heals the first only.
10. *First launch during Setup*: `prepare-user-env.cjs:57-60` may put the `.env` of
   before back, and the server then asks the old port until Setup is run again.
11. *Operator bootstrap on an installed system*: the platform role it needs is made
    by `prisma/seed.ts` alone, so that
    `platform-operator-bootstrap.service.ts:84` always refuses there.
12. *Two kinds of ADMIN*: a registration makes its role global over the stores
    (`registration.service.ts:145`), `install-local.ts:121` makes one that is neither
    global nor of any store.

## 5. Proofs

All theorems hold for every value of the constants that satisfies the named
assumption of each module (`SaleAssumption`, `PurchaseAssumption`, ...): sets that
are summed over are finite, amounts are natural numbers, orders and payments are
of something, and the values that stand for *none* are not values. Every module
with an assumption is checked by a run, so TLC evaluates it.

Every invariant that a run checks is proved, and so are the action properties and
both refinements. Each inductive invariant was checked by TLC before it was proved.

`SaleProofs` proves that

    SaleInv == SaleTypeOK /\ LinesBelong /\ DeclaredSettled
               /\ ReturnedWithinSold /\ TotalMatchesLines
               /\ MovementsFollowSale /\ CompletedIsCovered

together with `InventoryInv` (types, `ReservedUnitsAreThere`,
`LedgerExplainsStock`) is inductive. None of the parts is inductive alone:
`LedgerExplainsStock` needs the types, or a sum of
movements means nothing; `quantity \in Nat` needs `ReservedUnitsAreThere`, since a
withdrawal is only compared with what is available; `MovementsFollowSale` after a
return needs `ReturnedWithinSold`, and before a completion `DeclaredSettled`, that a sale
a body called COMPLETED is settled and is never completed again; and the item handlers preserve the other
parts only because `LinesBelong` says whose line a line is (a line that exists
belongs to a sale that exists, so the status the handler looked at is that
sale's). There is one lemma
per handler; `SaleStepInv` puts them together, `SaleInvariant` is the temporal
step, and the theorems follow, with no assumption on the statuses that bodies carry. What a handler does to stock is proved once, in
the first part of `SaleProofs`, for any document `r` and any `delta` through `Move`. Sums are
proved about in `SumsProofs`: `SumOver` is a fold, and its lemmas (the sum of a
pointwise change, of one changed, added or removed element, of two disjoint sets, of
a pointwise inequality) are proved from the facts about finite sets.

`CheckoutProofs` proves the safety of the routes and the refinement. The
invariant is

    Inv == TypeOK /\ KeyHeld /\ SaleHeld /\ RowsHeld /\ Told

`KeyHeld` says that a handler past its insert is the only one to hold its key and
that no record of the key is committed; `SaleHeld` that past its lock it is the
only one on its sale, and that what it checked there still holds; `RowsHeld`
the same of the stock rows it has locked, with what it read of them; `Told` that
an answer of success is backed by a record. With them every step
of `Checkout` is a step of `ExactlyOnce` or leaves its variables alone
(`RoutesKeepPromise`); in particular what was checked many steps ago is still
true when the handler commits. Sums of payments are a second layer (`MoneyInv`,
`OneInv`), because `PaidOncePerKey`, `PaymentsWithinTotal` and `OneCheckoutPerSale`
count payments rather than look at one handler. `PaymentsWithinTotal` counts those of the
payments route only: with a checkout's they may exceed the total (section 4).

The second half of `CheckoutProofs` is about the page. `BasketsArePaidOnce` follows from
`Once`: a claim to a basket (a payment taken, one that may still land, or an
attempt under way) is on the sale the page goes back to with that basket, and no later
basket was confirmed by then; two sales can claim one only if the second was
asked for before the first had arrived (`Together`). `SoldIsTheConfirmedCart` follows from
two facts. Rows bear the number of the attempt that posted them, and all that are
not the present attempt's are older (`Tries`); so until a late row lands, the sale holds
what the attempt posted and what it has still to delete (`Course`). And rows are
of at least one unit: if the total the page read is the total the server finds
at the payment, they are the same rows (`SameUnitsSameRows`). This is where the price of 1
matters: with prices that may be zero, equal totals would not mean equal carts.

`AccountBackupProofs` proves `FailuresBounded`: below the threshold no more failures were
spared than are counted; once it is reached, only the handlers that read the
count before (`Sparing`) are still to spare one each, and the proof follows the
cardinality of that set through every step. `SessionsBounded` is about all sessions, but
its invariant (`Crowded`) is about every set of them, because a revocation removes a
set that depends on what was listed before: a set larger than the limit leaves
room for one more session of each login that checked the limit and saw none
of the set. `ReplacedPasswordEndsSessions` needs `Informed`: a login past its lookup was sent
the password in force, unless sessions were revoked since or are about to be. Of backups,
`JournalIsTrue` follows from the place of each operation in relation
to its `pg_restore` (`FollowsInv`), and `NothingIsLost` from an invariant that says
where the rows a restore will replace are kept until it commits (`SafeInv`).

`MoneyProofs` has two parts. For the drawer it proves `OneOpenPerStore` and
`ExpectedAddsUp` from an invariant that adds `TardyTellsStatus`: an inserted,
uncommitted movement is tardy exactly when its session is closed — true because
its foreign key holds off `close`. For returns, the invariant is

    BooksInv == BooksTypeOK /\ Books /\ Reserved /\ ReturnedOncePerKey /\ Allocated
                /\ RefundsWithinBoth /\ RefundedOncePerKey

`ReturnedMoneyAddsUp` speaks of the end, when everything came back; `Allocated` is
what holds on the way: the money given back is what is due for the units returned
by now, in however many returns they came. It needs `Reserved`, that the units
a return saw are there when it commits (the lock on the sale). The end then
follows from two facts about rounding, which are lemmas for any amounts: shares
taken as differences of rounded cumulated parts add up to the whole, over the
lines of a sale as over the units of a line, and none of them is negative
because rounding is monotone.

`PurchaseProofs` rests on what a handler knows under its locks. `Locks` says who may
hold what at once: a purchase held `FOR UPDATE` is held and shared by nobody
else. `Receiving` says that what a receipt read of its purchase and of
the stock rows it has taken is still so; `Owing` the same of a payment
of one purchase; `OwingInAll` of a payment that names none, which holds every
payable purchase until one is ordered or a cancelled one paid, and
`disturbed` is exactly that. `StatusTellsReceipts`, `StockHoldsReceipts`,
`NeverOverpaid` and `UnallocatedStaysWithin` follow. With `KeysHeld` (a key whose record is
not committed is held by one handler) and `Written` (a handler writes one payment)
every step is a step of `OncePerKey` or a stutter: `PaymentsKeepPromise`.

`ProformaProofs` separates what survives overlap from what does not. A conversion sells
what it read at the price of that (`Priced`), and there is one sale (`OneSale`, the
unique index): `OneSaleOfEach`, `SalesArePriced`. The rest holds of requests that come
one after the other (`OneByOne`): a request that is alone still finds the status
it was admitted in, the items it read and the total it wrote (`Alone`), wherever the
one before was cut off.

`InstallationProofs` has two invariants. `InstallInv` says what Setup knows at each of
its places: which files it has written (`PasswordIsWritten`), what psql told it and what
it wrote since (`Answered`), and what is left of that after PASS (`Passed`). It is
inductive because only Setup moves the service, the cluster and the files, a port that
the service holds is taken by nobody else, and the one exception, the launcher's
`WriteBack`, is on record. `ScriptsInv` says of every transaction that may still commit
that its snapshot is still true in the respect it was admitted for: whatever
would make it false has overtaken it. `PasswordsAreKept`, `PassedSystemsServe`,
`AdministratorsAreComplete` and `BootstrapsAreOneShot` follow, for the composition.

Every module states its types; no run spends a property on them, since the proofs
use them where they need them. `ReturnedWithinSold` of `Sale` is proved and has no run
of its own. Only model-checked: the liveness properties (`EveryHandlerEnds`,
`BusyEnds`, `RerunsSucceed`), since fairness and `ENABLED` are beyond the prover, and the
violations, each of which is a single behaviour. Three runs look at fewer states than
the theorems (`MCSpec` of `MCReturnRefund`, the CONSTRAINTs of `Installation_reruns` and
`Sale_life`); the theorems are about the specifications themselves.

## 6. Not modelled, and the plan

Next:

1. Proofs: that `Sale`, whose handlers are one step each, is what the statements of
   `Checkout` amount to (`Checkout` shown to implement the sale's part of `Sale`); that a
   return of `ReturnRefund` never exceeds what `Sale` lets come back.
2. `ReturnRefund` composed with `Sale`, whose goods its returns put back.
3. First receipts that create a stock row.

Not planned, and why: reports only query. The hardware bridge drives devices
and formats. The catalogue, subscriptions, roles, stores and the organization
are single-row updates whose correctness is who may call them, not the order of
their steps. Of registration, the quotas, the slug and the session it opens are left
out; of Setup, child processes that outlive it when it is killed, and the scripts
`bootstrap-local.ts` and `bootstrap-embedded-postgres.ts`, which prepare a development
database. The pages other than the till send one
request per action, and the models let clients send any request; together with
the seed script they are the larger part of the repository's lines.
