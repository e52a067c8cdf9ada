# Verification of the restaurant management system

TLA+ models of the Django application under `src/`, the TLC configurations that check them on
small instances, and TLAPS proofs about them. Every definition is translated from the Python
code; `PROJECT.json` maps it to its lines, and lists runs, mutants, hazards, findings and
theorems.

    tlc -workers 2 -config MCOrderLifecycle.cfg MCOrderLifecycle     # a model-checking run
    tlapm Orders_proofs.tla                                          # the proofs of a module

## 1. The system

A Django project with one app per part (`src/apps/`). All business rules are in the apps'
`services.py` (ARCHITECTURE.md, section 3); views and REST viewsets load rows, call a service
and answer. The server is Daphne, so requests of several waiters, the till and the kitchen run
concurrently. The database is SQLite with serialised writers by default
(docs/known-limitations.md); PostgreSQL is optional.

Two facts shape the models.

* A service is decorated with `@transaction.atomic`, but the row it works on was loaded by the
  view *before* the transaction (`get_object_or_404`). The service tests the status of that
  copy, while rows it queries for itself are read fresh. With a single writer, a service call is
  one atomic action **with the loaded copy as a parameter**.
* Many views have no transaction at all (floor, counts, purchases, customers, backups, the
  development center). They read, decide and save row by row, or file by file: each access is a
  step, other requests come in between, and a failure or the end of the process leaves the rest
  undone.

### Inventory of the parts

| Part | State | Operations | Talks to |
|---|---|---|---|
| orders (`apps/orders`) | `Order`, `OrderItem`, `Payment`, `Refund`, `OrderDiscount`, `Coupon`, `CashSession`, `CashMovement` | open, add/update/cancel item, send, discount, coupon, pay, close, cancel, refund, split, merge, transfer, delivery, cash open/close/movement | kitchen (creates tickets), inventory (consumes recipes), floor (table status), crm (points at closing), core (audit, notices) |
| kitchen (`apps/kitchen`) | `KitchenTicket`, `TicketLine`, `Station` | start, ready, complete, bump priority, order status from tickets | orders (sets row and order status) |
| floor (`apps/floor`) | `Table`, `Reservation`, `WaitlistEntry` | set status, merge/unmerge, reserve, seat, release, waiting list | orders (active order of a table) |
| inventory (`apps/inventory`) | `StockItem`, `StockBatch`, `StockMovement`, `StockCount`, `PurchaseOrder` | receive, consume, adjust, transfer, waste, sale of a recipe and its reversal, counts, purchases | catalog (closes and reopens products) |
| catalog (`apps/catalog`) | `Product`, `Recipe`, prices, modifiers | data entry, availability switch | inventory, orders |
| crm (`apps/crm`) | `Customer`, `LoyaltyTransaction`, consents | points at closing and by hand, edit, consent, erasure, tiers | orders |
| backups (`apps/backups`) | `BackupRecord`, archives on disk | create, delete, retention, restore, list what is on disk, schedule | the database file, a timer thread |
| devcenter (`apps/devcenter`, off by default) | `CodeProposal`, `Snapshot`, pending files, the project files | propose, test, apply, reject, revert, restore a snapshot | the file system, ai |
| ai (`apps/ai`) | breaker counters in the cache, `AIUsageLog` | ask with retries, fallback and circuit breaker | external providers |
| accounts (`apps/accounts`) | users, permission matrix, PIN failure counters in the cache | login, PIN check and lockout | every view |
| core (`apps/core`) | `AuditLog`, `Notification`, document numbers | audit, notify, number sequences | every service |
| hr, reports, training | shifts, closings, progress marks | data entry, read-only figures | read the others |
| config, launcher | settings | start-up | |

What is hard, and what makes each part correct:

* **orders and kitchen.** Rows, lines, tickets, order status and stock movements are five
  records of one thing, changed by waiters, till and kitchen in any order and from stale copies.
  Correct: rows and tickets are at the same stage; a recipe leaves stock once and comes back at
  most once; paid and cancelled are final; the rows of a paid bill stay.
* **money.** Rows change under discounts, refunds are partial, an order may outlive the cash
  session it was opened in. Correct: refunds never exceed payments, paid means covered, coupons
  are counted, the drawer adds up.
* **floor.** Split bills put several orders on one table; views are not atomic, and the order services
  work on copies of orders and tables. Correct: a table is not vacated under those who stay. One
  party per table, and nobody at a disabled one, is true but for requests whose rows changed after
  they were loaded.
* **inventory.** Sales may go beyond the books. Correct: quantities, movements, batches and
  shortfalls reconcile; FIFO/FEFO order; products open and close with their recipe.
* **counts and purchases.** Requests of several steps that are sent twice, overlap, or break off
  half way. Correct: no order claims goods that never came into stock, a closed order came in full,
  and a count that was applied, in whatever pieces, leaves what was counted.
* **ai.** Retries, fallback and a breaker shared through a cache without locks; the budget is read
  before the calls and written after them. Correct: every request ends, a provider that failed
  comes back, nothing sensitive goes to the cloud, the budget is exceeded only by what is in
  progress.
* **customers.** Points are read, added to and saved, in forms that save every field. Correct: a
  bill earns once; the points are what the ledger says as long as requests do not overlap.
* **document numbers.** One more than the largest visible one, compared as text, over a table that
  also has deleted rows. Correct: the next number is new.
* **backups.** Record, snapshot, archive, retention and restore are steps between which the server
  may stop, and a restore takes the table of backups itself back to the past. Correct: a restore
  can be undone, a successful backup can be read, the scheduler relies on one that exists.
* **development center.** Files are copied, written and put back one by one. Correct: every original
  file is in place or in a snapshot.

## 2. The modules

| Module | Models | State | Code |
|---|---|---|---|
| `OrderContract` | abstract: phases of bills, recipes in, out of, or back in stock | `phase`, `stock` | – |
| `OrderLifecycle` | the order and kitchen services, one action each | orders, rows, lines, tickets, movements | `orders/services.py`, `kitchen/services.py` |
| `OrderRaces` | the same services with requests that overlap | the above and `held`, what a terminal has loaded | the views of both |
| `Till` | bills, discounts, payments, refunds, sessions, drawer | sums per order and per session | `orders/services.py`, `models.py`, `views.py` |
| `Floor` | table status, the order services' effect on tables, requests that overlap, the multi-step floor views | orders, tables, `held` of a waiter, `job` of a host | `orders/services.py`, `floor/views.py` |
| `Inventory` | stock services and product availability | cells of ingredient and warehouse, products | `inventory/services.py` |
| `StockDocuments` | a purchase order and a stock count over `Inventory`, their requests step by step | documents, lines, `task` of a client | `inventory/views.py` |
| `Customers` | a customer's account | row, ledger, consent, `desk` of a client with its copy | `crm/services.py`, `models.py`, `views.py`, `orders/api.py` |
| `DocumentNumbers` | the numbers of a day | issued, deleted, asked for | `core/utils.py`, `core/models.py` |
| `DevCenter` | code proposals and snapshots | files, proposals, snapshots, `developer` of a client | `devcenter/services.py`, `views.py` |
| `Backups` | backups, retention, restores and the scheduler, with crashes | the database with its records, the disk, `job` of a worker | `backups/services.py`, `scheduler.py`, `views.py` |
| `Clients` | who sends requests to the back office | | |
| `AIGateway` | requests to AI providers, breaker, budget | cache keys with their age, spending, a request's place in `ask` | `ai/gateway.py` |
| `Orders_proofs`, `Till_proofs`, `Floor_proofs`, `Stock_proofs`, `AIGateway_proofs`, `Backups_proofs` | theorems | | |
| `BackOffice_proofs` | theorems about `Customers`, `DevCenter`, `DocumentNumbers`, and about `MCBackOffice` as a whole | | |
| `Sums` | lemmas: induction over numbers and finite sets, sums over finite sets | | |
| `MC...` | instances for TLC: finite functions and symmetry | | |

`OrderRaces` extends `OrderLifecycle`, `StockDocuments` extends `Inventory`, and both reuse the
actions they compose. In every order
service the parameters named `seen...` stand for the loaded copy: `OrderLifecycle` passes the
current value (requests one at a time), `OrderRaces` passes what `held` says. `cancel_item`
refreshes its row, hence it has no such parameter. `OrderLifecycle` implements `OrderContract`
by the mapping `Phase`, `StockState`. The services of `Floor` take the whole copy, `c` of an order and `u`
of a table: the status and the table they test and write are the copy's, while `OpenAt`, the open orders
at a table, is what they ask the database. Its waiters hold such copies (`held`); `order_merge` and
`order_transfer` load a second row some time after the first. A request without a pause works on
`OrderRow` and `TableRow`, the rows as they are.

A view that raises (`OrderError`, 400) changes nothing: the service's guard is false, and in
`OrderRaces` and `Floor` the terminal or waiter lets go of its copy (`Refuse`).

### Abstractions

* Money is counted in units. In `OrderLifecycle` an active row costs one unit; `Till` has the
  amounts: the rows of an order as one sum, discounts, bill. Service charge, delivery fee, VAT
  and decimal rounding are left out, and so is the opening float, which the drawer and
  `expected_cash` both start from.
* DRAFT is left out: no service writes it. In `Till` and `Floor` all open statuses are one, OPEN.
* The date, minimum and per-customer limits of a coupon are left out: they only make it
  refuse more often. Only the usage limit and once-per-order are kept.
* `update_item_quantity` changes an amount, not a status, so it is in `Till` only. It refuses
  a cancelled row but does not ask whether the order is closed.
* `restock=False` of `cancel_item` and `cancel_order` is never passed by a caller and left out;
  `close_order` is only called by `take_payment` and is part of it.
* `drawer` in `Till` is not in the code: it is the cash that changed hands since the drawer was
  opened, what a cashier would count.
* In `Floor` a reservation's status decides nothing (any may follow any) and its tables may be
  edited at any time without effect on `Table`; so reserving, seating and releasing act on any
  set of tables. `active_order` is the *latest* of several open orders; the models leave open
  which one it is. The waiting list and waiter assignment do not touch the modelled state.
  Marking a split order's table is not done by the code and not by the model. Since all open statuses
  are one, the services that move an order on (`delivery_complete`, `send_to_kitchen`,
  `_sync_order_status`) write back the status of their copy, or another open one: `SaveProgress`.
* In `Inventory` a recipe takes one unit of each ingredient per portion; a sale consumes the
  whole recipe in one transaction. Costs, units and notices are left out. A cell's batches are
  the sequence in which they would be consumed: a receipt goes last (FIFO) or anywhere (FEFO,
  by its expiry date).
* `StockDocuments` has one purchase order and one count, both for one warehouse, with at most one
  line for each ingredient. A stock service is one step of a request; all other stock movements
  are the actions of `Inventory`, at any time. A form with several counted quantities is as many
  requests.
* In `Customers` visits, turnover, tier and segment are left out: they are written as the points
  are. An edit saves every field of its copy, the other requests the fields they name.
* `DocumentNumbers` orders numbers as their texts come: by value up to the padding, and a wider
  number after those that are a beginning of it (`TextRank`).
* In `DevCenter` the content of a file is what became of it: original, missing, torn, or that of a
  proposal. A write, or its failure, may leave a torn file, also for a reader who comes while it is
  written.
* `Backups` is the SQLite path, where the engine copies the database atomically. The n-th backup
  started makes file n: names carry the time, and two backups in one second are left out. Manual and
  scheduled backups are one kind, since retention and scheduler treat them alike. `data` stands for
  everything in the database but the backup records. A restore replaces records and key counter
  too. Checksums, settings files, media (but for their failure after the database was replaced) and
  `RestoreRecord` are left out, and so is an archive that retention cannot unlink: its record stays.
* In `AIGateway` a request is a record that says where in `ask`, `stream` or `reset_all_breakers` it
  is; each access to the cache is a step of its own. The chain is a set, since the order in which
  it is tried is fixed by policy, preference and key. Time is counted in ticks that age all keys
  alike. Prices are whole units. A request refused for want of a provider changes nothing that is
  modelled. Daphne reads a stream to its end even when the client has gone, so there is no
  abandoned stream. A usage log that cannot be written (`_log` swallows the error) is left out.
* A send creates one ticket for each station and course; the model picks any unused ticket for
  each group. A row without any station stays without ticket but is marked sent and consumed, as
  in the code.

## 3. The runs

Counters are bounded by constants whose comment says "bound". Four instances have bounds of their
own. `PaidAlone` of `MCOrderRaces`: payments and refunds while one order exists, and two orders while
nothing is paid. `Bounded` of `MCBackups`: after a deletion by hand one backup or restore at a time,
or two if one is about to replace the database, and no other writes. `Small` of `MCFloor`: while a waiter
is between load and service, or a third order exists, no tables are merged and hosts only disable tables;
while both, the waiter holds a single order and hosts have nothing to save. Without a waiter and a third
order hosts do everything. The `Small...` definitions of `MCBackOffice`, below.
`CHECK_DEADLOCK` is left on everywhere.

| Run | Instance | Question |
|---|---|---|
| `orders` | 2 orders, 2 rows of one station, 2 tickets, 2 units paid; 158k states | Do rows and tickets agree, does stock move exactly once, do paid bills keep their rows, and do the services implement the contract? |
| `races` | 2 orders, a row with a station and one without, 2 tickets, 1 stale terminal and any other requests, payments as long as there is one order; 235k | Is a row sent or consumed twice, does it lose its ticket, when requests overlap? |
| `till` | 2 orders, 1 session, 1 coupon for one use, 2 units of rows and money; 1.5M | Do bills, refunds, coupons and drawer agree? |
| `floor` | 3 orders, 2 tables, 1 waiter with loaded copies and any complete requests, 1 host in the middle of a view; 514k | Is a table taken from those who stay? Do two parties meet, or is a disabled table seated, by anything but a late copy? |
| `back_office` | 2 clients; 2 ingredients (one FEFO) in 2 warehouses, one product of both, one document at a time; one customer and one bill; 2 files, 2 proposals; numbers up to 6 in base 2, padded to two digits; 267k | Do the books reconcile beyond zero, are batches used in order, do products close and reopen? Do deliveries and counts that overlap, repeat or break off agree with the stock? Does a bill earn once, is every original file recoverable, is the next number new? |
| `backups` | 2 workers, 3 backups, one of them kept, 1 write, 1 deletion; 1.1M | Can a restore be undone, can what is listed as successful be read, does a recent backup exist when the scheduler says so, with crashes anywhere? |
| `gateway` | 1 request at a time, a local and a cloud provider, 1 retry, threshold 2, cooldown of 2 ticks; 95k | Does every request end, does a sensitive one stay local? |
| `gateway_races` | 2 requests, 1 cloud provider, no retry; 116k | How far can the budget be exceeded, does a failing provider come back? |

`orders` takes requests one at a time, and so do two of its properties: under races a row added on a late
copy joins a paid bill (against `PaidRowsStay`), and a stale cancellation or kitchen step takes a paid bill out
of its final phase (against `ImplementsContract`). `paid_cancelled` below shows what that leads to.
What `races` checks holds of any overlap.

In `floor` the three action properties except nothing but what the code cannot know: `TableKeptForTheRest` has no
exception, and the two others name the request that is late, the row that changed since it was loaded,
and which services can do it. That transfers and merges are not among those that bring parties
together is because `open_order` and `transfer_order_to_table` ask for the active order of a table in
their transaction.

In `gateway` one client suffices to see each request through retries and fallback; that the requests of
others cannot keep it from its end is `CallsAreBounded` (section 4), for any number of clients.

The bounds are enough for what the properties can tell apart. Two orders are one to move rows from
and one to move them to, three orders are two halves of one bill and a second party. Two rows on
one ticket are a row that stays and a row that goes, or one cancelled and one not; two tickets are
two rounds of one order, or a double send that could happen. One terminal with a stale copy
against any complete requests is every way a copy can be stale: two stale requests that run one
after the other are one stale request after the other's complete run, and the theorems of section
4 cover any number, any stations and payments. Two units allow partial payments and refunds and
discounts that outlive rows. A second warehouse separates the stock of a cell from the total that
decides stock-outs. Fallback, order and privacy need two providers but one request; the races on
the breaker and the budget need two requests but one provider. A cooldown of two ticks lets a
failure in the middle of it prolong it. Costs of 0 or 1 against a daily budget of 1 and a monthly
one of 2 exceed either.

`back_office` checks four parts in one run. They share nothing but the clients, so `BackOfficeNext` lets
only one of them leave its initial state; this is every behaviour of each part, not of their product.
`StockOfDocument`, `SmallPurchase`, `SmallCount`: without a document the stock moves as freely as the bounds
allow; with one, the other warehouse stays empty, and a second request that overlaps is about
flour only. Two lines are needed for an order that is closed too early or a count applied in part, two
overlapping requests on one line for what is booked twice. `SmallAccount`: once requests have met,
points stay within one. `SmallTree`: two developers at once work on the one file both proposals change,
while one developer alone also creates, tests and rejects. The theorems of section 4 have none of these
bounds. `NumberIsNew` needs a number beyond the padding (4), its successors and a deletion.

`backups` has three backups: one to restore, the safety copy of that restore and a third that meets
either, or makes retention remove the first.

Four runs expect a violation; each belongs to a finding of `PROJECT.json`:

| Run | What the repository says | What the code does |
|---|---|---|
| `revived_rows` | a cancelled row cannot be changed | `start_ticket` sets all rows of the ticket to preparing, cancelled ones too: the row is back on the bill and its stock is not |
| `paid_cancelled` | a paid order cannot be cancelled | `cancel_order` asks a copy loaded before the payment; with no active row left nothing reads the order again |
| `drawer` | `expected_cash` is the cash that should be in the drawer | cash of orders opened in another session, or before one, is booked or refunded elsewhere |
| `free_table` | a table with an open order is not set free | cancelling or merging one half of a split bill frees the table |

While modelling, more behaviour was met on which no run is spent. Most of it no text of the
repository excludes: a split moves a ticket shared by both bills; a merge accepts a cancelled
target and leaves the source's payments behind; a ready order stays READY when a second round
is sent; a payment on a stale copy pays a cancelled order; a refund with restock on a stale copy
gives stock back twice; an amount above the balance is booked whole. Two cases are nearer to a
text: stock coming in also reopens products that were closed by hand (`_reopen_products_for` says
"closed automatically"), and a failure count that a success deletes between its read and its
write comes back, so that a circuit may open for a provider that has just answered (the gateway
says "several times in a row"). On the floor:

* *Two parties.* "masasında zaten açık bir adisyon var" (there is already an open order at the table)
  keeps a second party away, and "Ödenmiş adisyon bölünemez" (a paid order cannot be split). But an
  order may be paid and its table given to another party while a request still holds the copy loaded
  before. `delivery_complete` or a kitchen step saves that copy as open again, or
  `split_order_by_items` opens a new order from it, at the table of the new party. TLC finds it
  when `OnePartyPerTable` is made an invariant of `MCFloor`.
* *Disabled tables.* "kullanım dışı" (out of use) is tested on the table the view loaded
  (`open_order`, `transfer_order_to_table`): one disabled since is seated and marked occupied.
  `PartiesMeetOnlyLate` and `DisabledSeatedOnlyLate` except just these requests.

And in the back office:

* *REST orders.* `status` is writable in the serializer, so an update can make an order paid.
* *Numbers.* `number` is unique over all rows, but the next one is taken from the visible ones. After
  the newest order of a day was deleted through REST, every later order of that day gets its number
  and is refused. The same after 9999 documents of a day. `NumberIsNew` excepts both.
* *Purchases.* `purchase_approve` asks for no status and reopens a received order; a draft can be
  received; deliveries sent twice are booked twice (`ReceiptsBacked` only says that no record goes
  without a booking); a line added late can stay open for ever. `ClosedInFull` excepts such lines.
* *Counts.* "Tamamlanmış sayım değiştirilemez" (a finished count cannot be changed) is tested on the loaded
  copy: a quantity entered while the count is applied changes the line but not the stock.
  `CountConverges` excepts lines entered after a request to apply it has loaded them, and
  ingredients that moved since the count began, whose movements the count undoes.
* *Customers.* A form loaded before an erasure and saved after it brings the personal data back
  (the erasure is called irreversible); consents can be recorded for erased customers; overlapping
  requests lose points. `AccountAgrees` is about requests that do not overlap.
* *Development center.* A new file is not removed when a proposal fails or is reverted; after a failure
  or a crash the proposal does not know its snapshot; applying a proposal overwrites what others
  changed in its files since, and the results of tests that ended meanwhile.
* *Backups.* Two backups at once are possible, which `scheduler.py` excludes; the record of a restored
  backup stays RUNNING; writes between the safety copy and the replacement are lost; when media
  cannot be copied the database is replaced but the failure is answered, without listing the
  archives; after a restore keys are given out again, so that a backup under way may save its record
  over another's. `RecentBackupExists` excepts archives deleted by hand or by a failure after they were
  complete.

### Fairness and liveness

`AIGateway` is the part that promises to end, and states fairness: weak fairness of each request's
steps (a provider answers or `TIMEOUT_SECONDS` pass, and a retry sleeps a second at most) and of
`Tick` (time passes). Nobody has to ask, no provider has to answer well, days and months need not
change and the server need not be restarted. Under it every request ends (`RequestsEnd`), and an
open circuit closes (`ProvidersReturn`): failures of requests whose chain is older than the
opening may prolong a cooldown, but each such request ends and new ones skip the provider.

The other runs state no fairness and no liveness property. Nothing in orders, till, floor and back
office obliges a person to act (a waiter need not send, a guest need not pay), and a service call
ends by itself. The backup scheduler promises little: a thread of each process wakes up, every
exception is logged and swallowed, and a backup that fails counts as none; that it is content only with
a backup that exists is a safety property (`RecentBackupExists`).

## 4. The proofs

Every invariant and every action property that a passing run checks is also a theorem, and so is the
refinement; what is left to TLC alone is liveness. All theorems hold for every set of orders, rows,
tickets, terminals, tables, waiters, hosts, sessions, coupons, ingredients and bills, every grouping into stations,
every recipe and all bounds; they rest on the `ASSUME`s of the modules only (null values differ from
real ones, bounds and usage limits are natural numbers, and what a terminal or client holds when idle
is not a copy or a request). Finiteness is assumed of three sets, where something is counted or summed over
them: the clients and providers of the AI gateway and the warehouses.

`Sums` has what the proofs need about sums. The library states induction with an operator as
parameter, which no installed prover can instantiate; here it is stated with a *set* instead
(`NumberInduction`, `FiniteSetInduction`: a set that has 0, or the empty set, and with each member the
next has them all), which is all that is needed. From it follow that the sum over a finite set exists
and is unique (`SumsExist`, `SumsUnique`), does not depend on the order in which its members are taken
(`SumRemoves`) although `SumFunctionOnSet` takes them by `CHOOSE`, and changes with one term as that term does
(`SumChanges`).

`Orders_proofs`, about `OrderLifecycle`:

* `TypeCorrect`, `KitchenAgrees`, `StockCorrect`: `Spec => []TypeOK`, `[]KitchenAgreement`,
  `[]StockExact`.
* `PaidRowsKept`: `Spec => PaidRowsStay`: the set of rows of a paid order is what it was, none joins and none leaves.
* `Refinement`: `Spec => ImplementsContract`, by simulation of each step.

None of the invariants is inductive as it stands. A kitchen step sets *all* rows of a ticket, so
one has to know that a row on a ticket was sent and deducted, that a ticket with a row exists,
that lines and rows belong together and that a new or absent row has neither ticket nor
movement. The inductive invariant adds these facts to the properties; the proofs have one step
per service, the shared updates `Set` and `Count` are lemmas. `StockExact` alone does not survive
`start_ticket`: a revived row has its stock back and is active, so the invariant ties the flag
to the movements and not to the row's status.

`Orders_proofs`, about `OrderRaces`: `RaceTypeCorrect`, `KitchenAgreesInRaces`, `SentOnceInRaces`,
`TicketsKeptInRaces` for any number of terminals. What is kept under races is what the services decide on rows they read
themselves; the guards on loaded copies play no role in the proof, which is why it goes through
and why `StockExact` (a stale refund) and the contract (a stale cancellation) do not. The type of what a terminal
holds is the exception: it needs `ReferencesInv` (a row belongs to an order, a ticket to an order
that was opened) and `HeldInv` (what was loaded is still there when the service runs).

`Till_proofs`:

* `TillTypeCorrect`, `RefundsCovered`: `Spec => []TypeOK`, `[]RefundsWithinPayments`. The two are
  inductive together: what may be refunded is computed as payments less refunds, so a refund
  needs both to be numbers, and no other service lowers a payment.
* `CouponsAreCounted`: `Spec => []CouponsCounted`. The induction also needs that the orders with
  a coupon are finitely many, which is part of the invariant and not an assumption on the set of
  orders, and that an order not opened yet has no coupon.
* `PaidIsCovered`: `Spec => PaidWhenCovered`.
* `OwnSessionIsAccounted`: `Spec => []OwnSessionAccounted`. `expected_cash` takes the cash refunds of a session's orders
  off, a sum over orders, so `DrawerInv` carries what the sum rests on: the orders of a session are finitely
  many, one session is open at most, and what does not exist yet has no money. Each service changes one
  term of the sum, or none (`SumChanges`).

`AIGateway_proofs`:

* `GatewayTypeCorrect`: `Spec => []TypeOK`. A request's chain is never empty while it calls, the
  number it is about to write is a count or a cost of its provider, and `FirstOf` is a member of
  any set of providers (by well-foundedness of the order of keys).
* `SensitiveIsLocal`: `Spec => []SensitiveStaysLocal`. Each step of a request leaves it with no
  provider it did not have.
* `OverspendIsBounded`: `Spec => []OverspendBounded`. "Spent is below the limit plus one answer for
  each client" is not inductive: what the requests in progress may still spend has to be on the
  left side. Needs that the clients are finitely many, an assumption of the module.
* `CallsAreBounded`: `Spec => RequestsAdvance`. `StepsLeft` is a natural number that every step of a request
  lowers: there are at most `MaxRetries + 1` attempts for each provider left, of three steps each. No run
  checks it: on an instance, `RequestsEnd` says more.
* `OpenCircuitsShield`: while a circuit is open nobody new gets its provider into a chain. These two are the
  safety part of the liveness properties: a request whose steps are fairly taken can take only
  boundedly many, and a cooldown can only be prolonged by the callers there were, each boundedly often.
  The step from there to `RequestsEnd` and `ProvidersReturn` needs `ENABLED` and is TLC's.

`Floor_proofs`. A step is a service on some copies or leaves the orders alone (`StepsServe`). What opening,
closing, cancelling, merging and transferring do is shown for *any* copies of the right type
(`OnAnyCopy`): nothing that is said of a loaded row is needed, because they ask the database for
the orders at a table. Only splitting and saving a status write what they loaded of an order's status
and table, so of these it is shown that on the row as it is they do no harm.

* `FloorTypeCorrect`: `Spec => []TypeOK`; a job of a host always has tables left to save, and what a waiter
  holds is a copy of rows there were.
* `TableIsKept`: `Spec => TableKeptForTheRest`, on whatever copies.
* `MeetingsAreLate`: `Spec => PartiesMeetOnlyLate`. Table status plays no part in it, which is why the
  views that save table status row by row cannot bring parties together.
* `OneParty_UnlessLate`: `Spec /\ [](no waiter holds an order that changed since) => []OnePartyPerTable`. What is
  assumed is about requests on one order only: late copies in transfers, merges and openings do not matter.
* `DisabledSeatingIsLate`: `Spec => DisabledSeatedOnlyLate`. Opening and transferring need the table's copy to
  be late, splitting and saving the order's.

`Stock_proofs`, about `Inventory` and, with the same lemmas, about `StockDocuments`, whose requests use
its services. A step of either is one of `Services`, the stock services with any positive amounts, or leaves the
stock alone; the bounds of the runs play no part.

* `StockAgrees`: `[]StockReconciles`, from `Books`, the types with it. That consuming n of any batches leaves a sum less by
  n, or nothing and the shortfall, is proved of `Take` for batches of any length: those used up are the
  ones whose running sums n reaches (`UsedUp`), and what `Left` says of the rest adds up.
* `OldestTakenFirst`, `TransfersAreBacked`, `StockoutsClose`, `StockedReopen`: the four action properties
  `OldestFirst`, `TransfersBacked`, `StockoutCloses`, `ReopenedWhenStocked`. The last two compare totals over the
  warehouses before and after, which need the warehouses to be finitely many.
* `StockTypeCorrect`: `[]TypeOK`.
* `ReceiptsAreBacked`, `ClosedOrdersAreFull`: `DocumentsSpec => []ReceiptsBacked`, `[]ClosedInFull`. The inductive
  invariant `DeliveriesSound` says of each delivery that what it read from the lines had been booked
  by then, so that stock is never behind what it records, and that one about to close the order saw
  everything delivered. What others do in between does not disturb that, since nothing lowers
  `delivered` (`OthersSound`).
* `CountsConverge`: `DocumentsSpec => []CountConverges`. The property speaks of the end; the invariant `CountSound`
  says of each line that is neither disturbed nor late that the stock is what was expected until the
  first request has loaded the lines to apply them, then that or already what was counted (`LinesSound`); of
  each request that applies them, that what it has still to correct it will correct to what was counted, and that
  the rest is as counted (`ApplyingSound`); and that one request at most lists the lines, each with the
  stock of the moment (`ListingSound`). TLC checked `CountSound` on the instance of the run first.
* `DocumentsTypeCorrect`: `DocumentsSpec => []DocumentsTypeOK`, inductive only with `DeliveriesSound`: a delivery
  books a positive difference.

`BackOffice_proofs`:

* `RestorePointsKept`: `DevCenterSpec => []OriginalsKept`. Each request that has saved a file, or is to put
  one back, keeps the original somewhere: the inductive invariant `Keeping` says so of requests,
  snapshots and the rows of proposals.
* `BillsEarnOnce`: `CustomersSpec => []EarnedOnce`. What makes it inductive is that a bill with an EARN
  transaction is found by the next closing, on whatever copy of the customer.
* `LedgerExplainsPoints`: `CustomersSpec => []AccountAgrees`. The invariant `AccountSound` says what is true in the middle of
  a request that nobody meets: it is the only one, its copy has the points of the customer, and points
  that are saved and not yet booked are the difference to the ledger.
* `NumbersAreNew`: `NumbersSpec => []NumberIsNew`, for every radix and padding. The last text exists in any set of
  numbers (by well-foundedness of the natural numbers), and within the padding texts come in the
  order of the numbers.
* `DevCenterTypeCorrect`, `CustomersTypeCorrect`, `NumbersTypeCorrect`: the types of the three modules.
* `PartsOfBackOffice`: `BackOfficeSpec` implies the specification of each part, so that the instance TLC checks
  is one the theorems speak of; `BackOfficeTypeCorrect`: `BackOfficeSpec => []BackOfficeTypeOK`.

`Backups_proofs`:

* `SafetyCopiesKept`, `SuccessesAreWhole`, `RecentBackupsExist`, `BackupsTypeCorrect`: `Spec => []SafetyKept`,
  `[]SuccessIsWhole`, `[]RecentBackupExists`, `[]TypeOK`, for every retention, number of workers and backups,
  and crashes anywhere. A restore can make any archived database the present one, so what is said
  of records must be said of every database there is: the present one, those in archives and the
  snapshots of jobs under way (`BasesSound`). What is said of a record (`RowSound`) is that a success has
  no archive half written or still to be made, that a safety copy is recorded as one, so that
  retention passes over it, and that a backup as recent exists (`Backed`); the last is kept by retention
  because a later backup backs each record it removes (`StaleSound`). `Progress` says what every step
  keeps of all this; the proofs show it for the kinds of steps (those that leave the files alone,
  those that change one, a new record, a restore), then each action is one of these.

Only model-checked: `RequestsEnd` and `ProvidersReturn`, on the instances of `gateway` and `gateway_races`.
Liveness under fairness and `ENABLED` are out of the prover's reach; `CallsAreBounded` and `OpenCircuitsShield`
are how far it goes. The four violations are TLC's counterexamples, of course.

## 5. What is not modelled

| Part | Why not |
|---|---|
| PIN lock (`accounts/pin_security.py`) | two counters with an expiry, the pattern of the breaker in `AIGateway` |
| opening two cash sessions at once | one check before one insert; `Till` opens a session in one action |
| service charge, VAT, rounding, even split | decimal arithmetic of single expressions, which unit tests reach |
| PostgreSQL: READ COMMITTED, dumps | an option of the settings; the default is SQLite, with one writer |
| audit log, notifications, streams (Channels) | best effort and display: they decide nothing |
| AI providers, prompts, analytics, reports, exports | I/O, text and read-only figures; `build_daily_closing` writes one row computed from the others |
| hr, training, catalog editing, suppliers, campaigns, gift cards, permissions | data entry of single rows without interaction |
| git branches, terminal and sandbox of the development center | subprocesses |
| launcher, configuration, scripts, translations, demo data, presentation | no behaviour of the running system, and a large part of the lines |
