# A formal model of the OpenEOS API

OpenEOS is a point-of-sale backend for festivals: a NestJS application on
PostgreSQL (through TypeORM), with tills and kitchen displays as devices, printer
agents on a WebSocket, payment providers (SumUp, Stripe) and a fiscal signature
service (TSE). This directory holds TLA+ models of its core logic, TLC
configurations that check them on small instances, and theorems proved with
TLAPS. Paths below are relative to the repository; a file of a module is named
without its directory where the module is clear.

1. [The system](#1-the-system) - 2. [The modules and their runs](#2-the-modules-and-their-runs) -
3. [What is proved](#3-what-is-proved) - 4. [Findings](#4-findings) -
5. [What stays with TLC, what is not modelled](#5-what-stays-with-tlc-what-is-not-modelled) -
6. [The plan](#6-the-plan)

## 1. The system

One Node process serves HTTP and WebSocket requests. A handler runs alone between
two `await`s and interleaves with every other handler at each of them. Almost no
handler opens a transaction, so

* what a handler read before an `await` may be stale when it is used after it,
* a handler that throws, or a process that stops, leaves the writes made so far.

TypeORM's `save(entity)` writes every column of the entity in memory that differs
from the row at that time, so a stale copy overwrites what others wrote meanwhile,
and inserts a row that was deleted meanwhile.

### Inventory

| component | state | operations | what makes it correct |
|---|---|---|---|
| Orders (`modules/orders`) | orders, order_items, products.stock_quantity, stock_movements, order_audit_logs | create, update, remove, add / update / remove item, ready, deliver, complete, cancel, forced cancel, forced status | totals follow the items; closed orders stay closed; stock is taken once and given back once |
| Payments (`modules/payments`) | payments, order_item_payments, orders.paidAmount | create, split, refund, forced refund, TSE signature | paidAmount is what was captured and not refunded; every reversal mirrors one payment |
| Device API (`modules/devices`) | the same tables | create order, pay, split, cancel from a till | the same promises, with its own copies of the code |
| Shop checkout (`events-shop-checkout.controller`) | shop_checkouts, orders, SumUp's session | create, verify, webhook, settle | one paid checkout, one complete order |
| Print jobs, gateway | print_jobs, sockets | route, create, dispatch, acknowledge, retry, cancel, replay | no line on two tickets, every job printed, a finished job stays finished |
| Shifts | plans, jobs, shifts, registrations, proposals, mails | plan, register, verify mail, approve, reject, propose changes, magic link, two cron jobs | nobody is confirmed unproven, nothing outlives its shift, whoever waits gets a link |
| Events and their billing | events.status, events.billing_status, organizations, Stripe sessions | create, change, activate, copy, invoice, checkout, webhook, waive | only paid events are live; paid stays paid, for the days paid |
| Offline sync (`modules/sync`, outbox subscriber), rentals | sync_outbox, sync_inbox, rental_assignments | record a change, push, ingest, rent, return | the central installation ends up with every change |
| Online orders, QR codes | codes, sessions with a cart, orders, payments, PayPal's orders | scan, cart, submit, open and confirm a payment, manage codes | money taken is booked once, on the right order; paid means every item was paid |
| Auth, two-factor, users | users, refresh tokens, one-time codes, trusted devices | register, sign in, lock out, refresh, verify, reset, set up and remove a second factor, erase | a second factor that is on can be passed; an erased account stays erased |
| Organizations | organizations, memberships, invitations | create, change, invite, accept, change roles, remove, leave, erase | an administrator remains; an invitation is good once |
| Devices | devices, PINs | register, link, verify, block, log out, sign in with a PIN | who is let in has an organization; who is blocked stays out |
| Rental desk, printers | rental_hardware, rental_assignments, printers | offer, confirm, decline, activate, return, assign and synchronize printers | hardware is promised once; a rented printer ends with its rental |
| Inventory counts, catalogue | counts, items, products, categories, stock_movements | draft, start, count, complete, adjust, import, sell, remove | a difference is booked once; the stock is what its movements say |
| TSE, VAT split, DSFinV-K | settings, TSS, signatures, closings, archives | set up, sign, reverse, close, archive | a sale is signed or marked; taxes foot; a closing contains what it should, once |
| others | stations, invoices, vouchers, deposit types, reports, support, uploads, settings | record keeping | - |

`PROJECT.json` lists every component with its status and every hazard with its
source line.

### How the components interact

Orders, payments and the device API share the order tables and have no lock on
them. The shop and the QR sessions create rows of the same tables. Orders, counts,
adjustments and imports share the stock of a product. Accounts, memberships, devices
and rentals share users, organizations and devices, and the guards of every request
read them. Everything that
changes an order calls the print service without waiting for it; print jobs go to
agents through the gateway. The TSE is called between the payment row and the save
that stores its signature. The outbox subscriber records changes of the same tables
on an offline box. SumUp and Stripe answer through return pages and webhooks that
may both arrive, late or never. An event has to be unlocked by its billing before it
is activated, and only an active event takes orders.

The hard behaviours are therefore the same everywhere: overlapping requests between
a read and a save, a request that stops half way, and outside parties (SumUp, Stripe,
agents, boxes, mail) whose messages are lost, repeated or late.

## 2. The modules and their runs

| module | models | extended or instantiated by |
|---|---|---|
| `OrderRows` | rows of an order and the pure rules on them | `OrderLedger` |
| `OrderLedger` | orders, payments, device API, stock | `MCOrderLedger`, `OrderLedger_proofs` |
| `ShopCheckout` | online shop | `MCShopCheckout`, `ShopCheckout_proofs` |
| `PrintRouting` | which tickets an order prints, where | `PrintDelivery` |
| `PrintDelivery` | print jobs, gateway, agents | `MCPrintDelivery`, `PrintAndBilling_proofs` |
| `ShiftPlanning` | shifts | `MCShiftPlanning`, `Standalone_proofs` |
| `EventBilling` | events, billing, Stripe | `MCEventBilling`, `PrintAndBilling_proofs` |
| `SyncPromise` | what the synchronization promises (abstract) | `BoxSync` (`INSTANCE ... WITH`) |
| `BoxSync` | outbox, push loop, ingest, rental status | `MCBoxSync`, `Standalone_proofs` |
| `Requests` | requests as lists of awaited statements, restarts | the modules below |
| `Catalogue` | categories, products, stock movements | `StockTaking` |
| `StockTaking` | inventory counts on the catalogue | `MCStockTaking`, `TillAndStock_proofs` |
| `TableOrdering` | QR codes, guest sessions, PayPal | `MCTableOrdering`, `TableOrdering_proofs` |
| `VatSplit` | tax composition of an amount (pure) | `FiscalRecords` |
| `FiscalRecords` | TSE, DSFinV-K closings and archive | `MCFiscalRecords`, `TillAndStock_proofs` |
| `Accounts` | users, sessions, second factor | `Memberships` |
| `Memberships` | organizations, members, invitations, erasure | `DeviceFleet` |
| `DeviceFleet` | devices and PINs | `RentalDesk` |
| `RentalDesk` | hardware, assignments, printers; the composition of the four | `MCRentalDesk`, `RentalDesk_proofs`, on which `Memberships_proofs` builds |

How a handler becomes actions. The first action of a handler reads and checks; the
writes that follow are steps of their own wherever another handler could come in
between and it matters, with the values the handler keeps in memory stored in the
worker (`task`, or a `todo` list of remaining statements). Consecutive writes that no
one can tell apart share a step in `OrderLedger`; `ShiftPlanning` and `EventBilling`
keep every statement apart, and so does every module over `Requests`, where
`task[w]` is the list of statements worker `w` has still to run. A stop of the process empties the workers and leaves the
tables.

Bounds that recur: two workers, because a lost update needs one reader and one writer;
one order, checkout, plan or rental, because no handler touches two; a handful of
requests, enough for create + change + undo in every order. Every bound is a constant
with a comment in its module. A run says `CHECK_DEADLOCK FALSE` where its bounds let
the system stop: when every request, save or ticket was used up, nothing is left to do.

A row that was read earlier is saved whole in many handlers, and where two of them
overlap most of what one would like to say is false in this code. The modules over
`Requests` therefore keep a few history variables (`raced`, `drifted`, `crossed`, `cut`,
`excused`, `desk`, ...) that name the rows concerned, so that a property can say
exactly what survives and for which rows it is not promised. Each is set by the step
that makes the overlap, not by its consequences.

Every module has a type invariant (`TypeOK`, or a part of it as `AccountsOK`; where two
components are proved about in one module their names say whose they are, as `StockOK`,
`BillingOK` and `PlanningOK`, and likewise `StockSpec` or `PlanningNext`). Where
no run lists it, it documents the state, holds on the instance of the module's run, and
is used by the proofs: the runs spend their properties on what could go wrong.

### OrderRows, OrderLedger (orders, payments, device API)

`OrderRows` holds the rows and the pure rules on them (totals, payment status, order
status, what TypeORM's cascade and orphan check do). `OrderLedger` has one action per
handler up to its first write that depends on something read, and one action per
later step; a worker of the model is a request in progress and `task[w]` its local
variables.

Granularity. A step is what the code does between two awaits *that matters to
others*: consecutive writes of one handler share a step, and so do a read and the
insert of a new row. The gap between a read and the write computed from it is always
kept, because that is where updates are lost, and so is the gap between two tables that
have to agree: `updateItem` saves the product (`SaveAdjustment`) and, some awaits later,
the item (`SaveUpdatedItem`); what stops in between loses the units.

`OrphanCheck`. The handlers save orders that were loaded with their payments
after inserting further payments. With TypeORM's default `orphanedRowAction` the save
tries to null the key of the rows missing in memory and is refused by the NOT NULL
column; whether it bites depends on the library's version, so the serial run is made
without the check (`FALSE`) and the concurrent one with it (`TRUE`). With it, a
forced cancel of an order with a captured payment never succeeds, although
`orders.service.spec.ts:158` (which mocks the repository) expects it to.

Money is counted in units above the cent tolerances the handlers allow; prices,
deposits and quantities are small numbers; numbers, notes, printing and notifications
are left out.

`NoStockLost` is a lower bound: what is not in stock is in an item. Stock that comes out too
high (a removed order gives back what its cancel gave back, `orders.service.ts:411`) is
outside it, and so is `paidQuantity` of an item.

| run | bounds | shows |
|---|---|---|
| `ledger_serial` | 1 request at a time, 5 requests, all 20 operations, 2 items in quantities of 1 and 2, `OrphanCheck = FALSE` | paid amounts, the stock and forced cancels agree with the rows behind them without concurrency, also when requests abort half way |
| `ledger_concurrent` | 2 requests at a time, 3 requests, all operations, interrupts anywhere, `OrphanCheck = TRUE` | reversals mirror their target, no request goes on with something that is gone or takes more stock than it read |

Five requests reach create + change + pay + undo + once more. One order and two
products (one with tracked stock, one with a station and a deposit) cover the branches
of the handlers. Safety only: no fairness is assumed.

### ShopCheckout (online shop)

The checkout row, the SumUp session (external), the webhook and the shop order with
the three saves that complete it. `Fail` makes the next step of a request throw;
`Crash` stops the process and counts as two failures, because it takes both the step
and the release of the claim. Fairness: every accepted request goes on (`Progress`,
weak fairness - Node runs every continuation) and the return page polls (`Polls`,
strong fairness, because a poll is only possible while a worker is idle, and the page
repeats it until it is served). Nothing is assumed of the webhook.

| run | bounds | shows |
|---|---|---|
| `shop_settle` | 1 checkout, 3 requests at a time, 3 failures, restarts | never more orders than failures allow; only paid sessions become orders; claims are exclusive; linked orders are complete; a single failure never costs the order |

Three requests are needed for a claim, a second settlement that meets it and a third
that comes after the release; checkouts do not interact except through the test
limit, which no property is about.

### PrintRouting, PrintDelivery (print jobs, gateway)

`PrintRouting` is pure: from a configuration and the stations of an order's lines it
computes the tickets (`resolveItemPrinter`, `resolveOrderPrinter`,
`dispatchKitchenTickets`, `handleOrderCreated`). `PrintDelivery` saves a job per
ticket, sends it, and follows it through acknowledgement, outcome, retry, cancel and
the replay on reconnect. The wire between gateway and agent is a set of messages that
may be late or disappear with the connection; the agent and its persistent queue are
external (`shelf`): it takes a job once, prints it and reports.

| run | bounds | shows |
|---|---|---|
| `print_delivery` | 7 configurations, 3 lines, 2 tickets, 1 agent, 2 upsets, replay of 2 | no line on two kitchen tickets of one routing, each at its station; no queued job without somebody who will send it, no late acknowledgement takes back an outcome, queued jobs are delivered |

An upset is a lost connection, a late acknowledgement, a restart of the server or a
retry or cancel by hand. One agent suffices because jobs of different agents share
nothing but the table; two tickets, because the order of two is what replay and
acknowledgement can confuse. Fairness: a handler that began goes on (`Printing`), an
administrator's request is finished (`Administration`), an agent reconnects and
handles what it got (`Agent(a)`); all weak.

### ShiftPlanning (shifts)

One published or unpublished plan with its jobs, shifts, registrations (rows of one
request share a group), proposals, magic links and mailbox. A worker's `todo` holds
the statements its handler has still to run: save of a whole row (which re-inserts a
deleted row), insert, delete, update of a group, mail, cascade. The cron jobs `Hourly`
(verification reminders) and `Daily` (shift reminders) are actors like the workers.
The hourly job takes the first row of every group of a query that has no order, so
`HandleVerificationReminders` takes any one row per group, and fairness does not make it
take another the next time; a row without an address is passed over, and its group with
it (`PassOver`). `PlanningInit` has a plan not made yet, or a published one with one helper in any state the
handlers leave, so that short behaviours reach the late part of the life of a plan.

| run | bounds | shows |
|---|---|---|
| `shifts` | 2 requests at a time, 2 requests (1 when the plan reminds), 2 shifts, 1 helper, 1 restart, 1 lost mail | nobody is confirmed unproven, nothing dangles, whoever waits for verification, in a group whose waiting rows all have an address, gets a link that works |

Fairness: the two cron jobs run (`WF`); requests need none.

### EventBilling (events, billing, Stripe)

The events of one organization: status, billing status, session, price, days, and
`unlockedFor`, a history of the days that were unlocked. Stripe is external: a session
is shown, known by its idempotency key, open, paid or expired; `notices` are webhooks
repeated until they are answered with 2xx. `save` writes the whole row as read.
`overlapped` remembers whether two requests ever overlapped: `PaidUnlocks` holds only
without overlap and says so. The price is 5 units per day, 4 for the first billed
event. `Event` has no column for soft deletion, so `EventsService.remove` is refused
by the database at its last statement (`RefuseSoftRemove`). The index
`events_one_active_per_org` (migration 1783000000000) refuses a save that would make a
second event live (`OneLive`): of two overlapping activations one throws.

| run | bounds | shows |
|---|---|---|
| `events` | 2 events of up to 2 days, 2 requests at a time, 3 requests, 2 sessions, 1 restart | only unlocked events are live, paid events were paid at their price and are not extended; without overlaps, who paid gets the event unlocked |

Two sessions are needed for a second price, two events for the discount of the first. Fairness:
accepted requests are finished (`Handled`), Stripe repeats its notices (`Notified`).

### SyncPromise, BoxSync (offline box, rentals)

`SyncPromise` is the abstract specification, written from
`docs/design/offline-box-sync.md` sections 5 and 6: changes are committed, received in
batches, never before the rental is active, never forgotten, and all of them received
as long as it stays active. `BoxSync` is the code: a transaction on the box draws a
number (`Stamp`), later commits row and outbox copy together (`Commit`) or rolls back;
the loop reads the oldest unpushed rows (`HandlePush`), a request travels, passes the
guard (`Admit`, `Refuse`), is stored (`Ingest`) and answered (`Answered`); connections
break and the box restarts; the rental goes through its states. The guard and the
insert are two steps because a rental may end between them. A content is named by the
number of the save that wrote it. The refinement maps committed to the contents of the
outbox, received to the inbox and the status of the rental to three phases.

| run | bounds | shows |
|---|---|---|
| `box_sync` | 2 transactions at a time, 3 saves of 2 rows, batches of 2, 1 write past the subscriber, 1 lost connection or restart | marked rows have arrived, the newest copy is the row, and `BoxSync` implements `SyncPromise` with its liveness |

Three saves against batches of two give a second batch; one failure leaves an old
request under way while the next is sent. Fairness: the interval timer ticks
(`HandlePush`), requests on a connection that holds are served and answered
(`Ingests`, `Answers`); nobody has to save or rent.

### Catalogue, StockTaking (products, stock, inventory counts)

`Catalogue` has the categories and products of one event, their movements, and a
handler per operation of `products.service` and `categories.service`, with the import
of a parsed list (`Action` decides per row what becomes of it, `Applied` are the
statements). `Sell` is what `OrdersService.addItemToOrder` does to the stock. Products
are deleted softly, their category takes them along. `StockTaking` adds the counts: a
completion lists one read, save and movement per counted item that differs
(`CompleteCount`, `Adjust`, `ApplyStockAdjustment`) and the status last. The rows of a
count are read without an order, so a completion may take them in any; an imported list
is taken from top to bottom (`Ascending`).

| run | bounds | shows |
|---|---|---|
| `stock_taking` | 2 requests at a time, 3 requests, 2 products, 2 categories, 2 counts of 2 items, 1 restart, a list with a valid and an invalid row | a count books every difference, and none twice but once more per completion that was cut off; every change of the stock is told by a movement |

`drifted` are products whose stock was set by hand, or written by two requests at a
time, or left without movement by a restart; `raced` are the counts two requests worked
on; `cut` says how often the completion of a count was cut off, by a stop of the process
or by a statement of it that failed.
Three requests: one starts or fills the count, one completes it, one comes in between.

### TableOrdering (QR sessions)

Codes, sessions with a cart, orders with items, payments and what PayPal holds of each
(`provider`: open, approved, captured). A confirmation names the payment and, beside it,
the PayPal order to capture; the code captures that order without comparing it with the
one opened for the payment, so `ConfirmPayment(w, p, q)` takes any two, and `taken`
remembers for which payment each PayPal order was captured. A cart is a list of lines that are changed by
position; submitting inserts the order and its items one by one from the menu of that
moment and saves the total last. PayPal captures an approved order once; the answer is
saved on the payment, then on the order as it was read. `Expire` ends a session,
`DeleteProduct` and the administration of codes run beside the guests, `Restart` stops
the process and notes what was between capture and booking (`cut`).

| run | bounds | shows |
|---|---|---|
| `table_ordering` | 2 requests at a time, 5 requests, 1 code, 1 session, 2 products, 2 orders, 2 payments, 1 restart | what PayPal took is on the payment it was captured for and on its order, once; a paid order was paid for all its items |

Two orders and two payments of one session are what a repeated or crossed confirmation
can confuse; five requests reach submission, two payments and two confirmations, each with
either PayPal order.

### VatSplit, FiscalRecords (TSE, DSFinV-K)

`VatSplit` has the functions of `vat-split.ts` in cents, division and remainder exact.
`FiscalRecords` follows one till: the set-up of a TSS step by step (`Setup`, any request
may fail with or without effect), the registration of the till as a client, sales and
refunds that start and finish a transaction (`ledger` is what the TSE logged, also what
was logged though the answer was lost), forced refunds that abort when the TSE does,
exports that read a period, draw the next number and write, and the archival job. A
tick of the clock may come between any two steps. An order has what the taxes and the
export read of it: its items by rate, their deposits, the discount, the tip and which items
are cancelled. `Owed` is `recalculateOrderTotals`; `EditOrder` changes the discount or tip and
cancels items as a cancellation leaves them that was cut off. The export has a line
per item, also of a cancelled one, always positive, and one per deposit (`Lines`). Free
orders and organizations that are exempt from taxes are left out. The lookups of the
settings and of the till's client are outside of what `recordTransaction` catches
(`LookupFails`): a database error there leaves a sale without a mark, although the comment
at `tse.service.ts:84-90` says it never throws.

| run | bounds | shows |
|---|---|---|
| `fiscal` | 2 requests at a time, 3 requests, 1 order of two tax rates with a deposit, with and without a discount, no tip, 2 payments, 2 closings, 1 TSS, 1 tick, 1 restart | a sale is signed or marked as failed; what is signed foots to the cent and its reversal mirrors it; a row is closed once, and a closing's turnover is what was paid but for what its lines come to over the payments |
| `closing_gap` | 1 request at a time, 2 ticks, no restart | disagreement, see Findings |

The basket (one cent at 7 %, one at 19 %) is the smallest whose half has to be rounded.
`history` names payments whose signing was cut off or never tried, reversals of a payment that was not
signed, and whether two exports of the till overlapped.

### Accounts, Memberships, DeviceFleet, RentalDesk

One state machine in four layers, because the tables are shared: erasing a user ends
memberships, a device belongs to an organization and serves a member, a rental lends a
device. Each layer has its state, its requests and its statements; `RentalDesk` composes
them. Tokens, codes and row ids are numbers drawn from one counter; that its time is
over is a property of a token (`tokens.expired`). What somebody types is right or wrong.

* `Accounts`: `auth.service`, `two-factor.service`, `users.service`. A row of `users` is
  read and saved whole; sessions, one-time codes and trusted devices are rows of their
  own; columns written by themselves are statements of their own.
* `Memberships`: `organizations.service`, the erasure of members and accounts, the terms
  the platform sets. One permission stands for the five of a member.
* `DeviceFleet`: `devices.service` with the device guard (`Admitted`), the PINs and the
  client a till gets at the TSE.
* `RentalDesk`: the parts of `admin.service` about hardware, assignments, printers and
  devices, `rentals.service`, `printers.service` with `syncFromAgent`.

| run | bounds | shows |
|---|---|---|
| `accounts` | 2 requests at a time, 2 requests, 1 restart, 1 expired token, 3 users, 2 organizations, from eight stages | types and references hold; a second factor that is on can be passed; an erased account stays erased but for a password and a confirmation; an administrator whose account works, or one that was erased, remains; an invitation is good once; who is admitted belongs there; hardware is promised once; a rented printer has its rental |

Two requests that overlap are the shortest thing that can go wrong here, so the life
before them is in the initial states (`MCInit`: second administrator, member with a
second factor, invited guest, former member; a printer that is offered, agreed on, lent,
returned); the first request may also be over before the second begins, which gives
every sequence of two from every stage. Each stage is reached by the handlers
themselves. No fairness: none of the properties is about progress.

An erased row keeps the address `deleted-<id>@anonymized.invalid` (`users.service.ts:325`),
which `forgotPassword` and `resendVerificationEmail` find like any other: the row gets
links, and through them a password and a confirmation, though it stays switched off.
`ErasedStaysErased` therefore compares the row without those columns (`Anonymous`). Its
memberships stay too, and whoever counts administrators counts it.

`RentalDesk` has no events, and with them it leaves out the index
`UQ_rental_assignments_one_active_per_event` (`1804000000000-AddOfflineBoxSync.ts:65-69`),
which makes the second activation of a box for an event fail; the model has activations
the database refuses, and no property is about the boxes of an event.

## 3. What is proved

tlapm checks eight modules of proofs, for every value of the constants that meets the
named assumptions. Each module EXTENDS what it is about; the theorems are listed in
`PROJECT.json`, and what follows is the argument of each. `TypeCorrect` is in every case
the type invariant of the module, for all steps. Every safety invariant and every action
property that a passing run checks is a theorem here.

Three modules are about two components that share no row: `PrintAndBilling_proofs`
(`PrintDelivery`, `EventBilling`), `Standalone_proofs` (`BoxSync`, `ShiftPlanning`) and
`TillAndStock_proofs` (`FiscalRecords`, `StockTaking`, which share the lemmas about sums).
They are not composed: each theorem is about the specification of its own component
(`Spec` or `BillingSpec`, `PlanningSpec`, `StockSpec`).

**`ShopCheckout_proofs`** (`FaultSpec`, with failures and restarts; `ShopAssumption`):
`ClaimsExclusive`, `OrdersBounded`, `OrdersArePaid`, `LinkedOrdersComplete`. `TypeOK`,
what every request and row can rely on (`ClaimSound`), exclusive claims and a budget (the
orders of a checkout that no request holds are at most its failures, plus one while
somebody holds the claim or once an order is linked) form one inductive invariant. The
bound on orders needs the budget; the budget needs exclusivity, because two holders
would each add an order.

**Events and billing**, in `PrintAndBilling_proofs` (`BillingSpec`; `DaysAssumption`):
`ActiveEventsUnlocked`, `PaymentsProven`, `PaidEventsNotExtended`. The properties of the
table are not inductive: a worker may write an old row at any time. The invariant
therefore says of every row, in the table or in the memory of a handler, that it is
right relative to Stripe's sessions; a row once right stays right, because sessions only
grow (the event and the amount are fixed, paid stays paid; lemma `Grow`), so it does not
matter how stale it is when it is written.

**The offline box**, in `Standalone_proofs` (`Spec`; `BoundsAssumption`):
`PushesReceived`; `SafelySynced`, the refinement `Spec => Promise!Safe`;
`NewestCopyIsCurrent` (of the box's outbox, but for rows saved by two transactions at a
time or written past the subscriber). The invariant follows a batch: outbox rows are never deleted, so
a batch stays a part of what was committed wherever the push is; an answer belongs to
the push the loop waits for, and a good one was given after its rows reached the inbox,
which only grows; nothing is let through before the rental is active. That the newest
copy is the row needs `OrderInv`: a number is drawn once (`NumbersTaken`), and of a row
that was never saved by two transactions at a time, the numbers follow the order of the
commits (`SavedInOrder`).

**Shifts**, in `Standalone_proofs` (`PlanningSpec`; `PlanningAssumption`):
`ConfirmationsProven`, `CascadesComplete`. A handler saves whole rows it read earlier, and
such a save re-inserts a row that was deleted meanwhile, so neither property follows from
the tables alone. `PlanningInv` = types (a job, a shift and a registration as the tables
keep them) /\ `NothingDangles` /\ `TasksProven`: every statement a handler has still to
run carries rows and values that keep the tables right whatever they look like by then: a
row that is confirmed carries its proof (a verified address, an administrator, an accepted
proposal). That nothing dangles needs each save to look once more for the row its own
belongs to, which is the foreign key of the database.

**`OrderLedger_proofs`** (`FaultSpec`, with aborts and restarts): `TypeCorrect` and
`ReversalsMirror` for any number of overlapping requests, `StockIsKept` for one worker.
`LedgerInv` has the tables and, of each request, that what it still has to save is of the
types the tables have (`Tables`, `Sound`). That a reversal has the whole amount of a
payment of its own order is inductive on top of it, because only five kinds of write
touch the payments (lemma `PaymentWrites`) and each reversal is written in one step with
the amount read in the same step. `StockIsKept` has two hypotheses. One is `UpdatesEndWhole`: no interruption between the
two saves of `updateItem`, which loses the units (the product is saved, the item is
not); the invariant counts them as in the request's hand (`Torn`, `InHand`) until the
item is saved. The other is `Workers = {w}`: with
two requests the property is false in this code (both take the stock they read), which
is why the concurrent run does not list it. Its invariant `StockInv` balances, product
by product, the stock against the items that count and those whose stock the request in
progress has already given back (`Returned`, `Covers`), and says that what the request
read is still current; sums are counted as the cardinality of a set of units.
`PaidAmountsMatch` has the same hypothesis and is about `Spec`: an interruption between
the insert of a payment and the save of the order that counts it leaves them apart for
good, with one request too. Its invariant `PaidInv` is about the amount an order is
*about* to say (`Booked`): a payment is inserted before the order counts it and saved as
refunded before the order gives it back, so the request in progress accounts for the
difference; what it remembers of its order and its payment is still so (`Remembers`).
It rests on `StockInv`, whose currency of what was read is what keeps TypeORM's save from
being refused, and on `ReversalMirrorsTarget`, because a reversal cancels its target only
when it has its amount. `ForcedCancelsReverse` (one request, `FaultSpec`, so also when it
aborts or the process stops): while a forced cancel runs, each captured payment of the
order has a reversal the TSE did not reject or is still in its loop (`ForceInv`); a
request that ends without having saved the order makes no promise.

**Print jobs**, in `PrintAndBilling_proofs` (`Spec`; the assumptions of
`PrintDelivery`): `DeliveryInOrder` (`DeliveryInv` = `TypeOK`, room in the table for
every ticket still to be saved, a retry has an attempt left), `LateAckIsHarmless` as an
action property, `QueuedIsInMind`, and `LinesAtTheirStation`. `QueuedIsInMind` assumes
`MaxJobs <= ReplayLimit`, because a replay takes 50 queued jobs (`take: 50`) and a
fifty-first is forgotten (section 4). The tickets of an order are a recursive function
of its lines; that they list every line once, each at its station, is proved by
induction over the lines, and `LinesInv` carries it through saving: tickets saved and
tickets still in the handler are together the tickets of the order, apart from each
other.

**`TableOrdering_proofs`** (`Spec`; the assumptions of `TableOrdering`): `OrderingInOrder`,
`MoneyBooked`, `PaidForItems`. `OrderingInv` = types, `TablesInv` (what rows say of each
other: a payment has the amount its order had, a paid order has only items that existed when it
was paid), `PlansInv` (what a request has still to write fits what is there, and no two
requests fill one order or confirm one payment) and `MoneyIsBooked` itself. The proof
splits on the statement that runs; what is being booked is counted once, in flight or on
the order (`FlightIsWork`), and the sum over the payments of an order changes by exactly
the payment that lands.

**Fiscal records**, in `TillAndStock_proofs` (`Spec`; the assumptions of `VatSplit` and
`FiscalRecords`): `AllocateFoots` for the pure allocation, then `FiscalInOrder`,
`EveryPaymentIsSigned`, `TaxesFoot`, `RowsClosedOnce`, `TurnoverFoots`. `AllocateFoots`
is about every composition with a positive sum and every amount, also negative: the
floors leave fewer cents than there are rates, the largest remainders get one each, so
the parts add up. `TurnoverFoots` is an equation with a remainder: turnover = what was paid + what the lines of the
orders come to over their payments. The remainder is where discounts, tips, cancelled items
and partial payments show; without it the claim is false of this code. `FiscalInv` = `TypesInv` /\ `SigningInv` (what is being signed fits
its row and has a transaction number nobody else has; every signed row has its finished
transaction) /\ `ClosesInv` (an export in progress covers the rows of its period and
nothing another closing has) /\ `ClosingsInv`. The turnover of a closing is a sum over
tables by rate, what was paid a sum over payments by order; both are regrouped by order
and compared order by order.

**Stock and counts**, in `TillAndStock_proofs` (`StockSpec`; `RequestsAssumption`,
`CatalogueAssumption`, `StockAssumption`): `CountsBookedOnce`, `StockExplained`.
`StockInv` = `StockTypes` /\ `ProductsInv` (a movement follows the save of its product in
the plan and tells what that save changes; a product to be inserted is inserted by one
request only) /\ `ItemsInv` (an item keeps its count and its product, and a count that was
not raced has a product once, in the table and in the plans together) /\ `PlansInv` (a
request completes one count, or books nothing for any) /\ `CountsInv`. The last says of
every count that was not raced: a completion is alone with it and owes (`Due`) whatever is
not covered yet; a product that is due was booked at most `cut` times, one that is not at
most once more, and a completed count has everything covered. A completion is re-run
from the start after it was cut off, and therefore may book what it had booked, once for
each time. `StockExplained` is on top of it: the changes the movements tell (`Told`) and
the changes a request has made whose movement is still to come (`Untold`) are sums over
finite sets; each statement moves both by what the head of its plan tells, so that
what they leave unexplained of the stock of a product changes only when it drifts.

**`RentalDesk_proofs`** (`Spec`, the four modules together; the assumptions of
`Accounts`, `Memberships`, `DeviceFleet` and `RentalDesk`): `DeskInOrder`,
`FactorUsable`, `BelongsWhoIsAdmitted`, `PromisedOnce`, `PrintersEndWithTheirRental`. A
request only reads and leaves a plan; the statements of the plans change the tables.
`DeskInv` therefore says which statements a plan may hold: they name what was drawn or
stored before (`Known`), and that only grows (`Grows`), so a plan stays good while
others run. A second factor is part of the type of a row (`Factor`), which is why it
survives the whole-row saves. `BlockInv`: while a blocked device is not the subject of
overlapping requests (`Quiet`), no plan holds a save of it that would activate it,
except by admitting it again. `RentInv` is about hardware and rentals. `Fits` says what
each plan may still do to what is not loose: save a rental only as one of the same
hardware that is still running or that the hardware is vacant for (`RentalFits`), set
hardware free only as the last statement of a plan that ends every rental of it
(`FreeFits`), end a rental only after its printers are gone and with none still to come
(`EndFits`), make printers only for rentals that are agreed on (`Agreed`). With it go
`Promised` (one rental of a piece of hardware is not over, and then the hardware is not
available unless another worker is just about to mark it rented), `OneHardware` (a
rental is of the same hardware in every plan) and `RentalPrinterHasRental` itself. The
proof splits on the statement that runs; a plan that does not move stays fit because
what it is about is `Spared`, or was noted as loose by the step: that is what `Notes`
records, so the exception in both properties is exactly the overlap.

**`Memberships_proofs`** (`Spec`, the four modules together, under the assumptions of
`RentalDesk_proofs`, which it EXTENDS): `InvitationsAcceptedOnce`, `AdministratorsRemain`,
`ErasedAccountsStayErased`. Each has an invariant over the plans on top of `DeskInv`, and
each proof splits on the statement that runs, with one lemma for the many that have
nothing to do with it (`JoinStays`, `StaffStays`). `JoinInv`: an invitation that became a
membership is marked, no plan is about to make it anew or to accept it, and plans about
one invitation are about one organization, so that the race of the first of two
acceptances notes the second. `StaffInv`: an organization that was neither raced nor demoted
has an administrator whose account works or one that was erased, and each plan about its members makes one or leaves another.
`EraseInv`: of an erased account that was not raced, the row is anonymous but for what the
links of its address give it, every plan that saves it saves it so, no plan signs in to it, and its sessions are revoked or a plan is
about to revoke them; for the last, a plan that erases goes on with the revocation and
nothing else (`Whole`), so that no failure comes in between.

What they share. Induction over the naturals is proved in the form of sets (`Induction`: a set of
numbers with 0 and all successors has them all, by counting), because the library's
theorem takes an operator. With it, each sum over a finite set (`SumFunctionOnSet`) is a
recursive function that can be reasoned about (`SumsUp`, `TakesAny`). These lemmas are
repeated in the modules that need them, so that each module of proofs stands on its
components alone.

TLC checked these invariants before they were proved, each on the instance of its
component's run: `PlanningInv` on 365,526 states, `StaffInv` and `EraseInv` on
479,763, `StockInv` of the counts on 258,143 (and on 4,906,944 with five requests), and
`StockInv` and `PaidInv` of the ledger on the serial instance (2,651,308), and with the
orphan check, in quantities of one (7,887,256).

What the proofs changed in the models. An invariant that would not go through was in most
cases a definition that said less than the code does: a request that throws loses the
rest of its plan but keeps what it wrote (`CutShort`, and rentals it leaves `loose`); the
tickets of an order are a function of its lines (`TicketsUpTo`); an amount a guest pays is at least
a cent and a basket is not empty; a till has one signing in progress per payment
(`InSigning`). For the counts it was the property: the bound on bookings allowed one more
for a stop of the process, and the invariant did not go through because a completion is
also cut off when one of its own statements fails; `cut` counts both. Where a handler takes
rows in an order the database chooses, the model now takes every order instead of one the
module picks. The assumptions on constants (`ListsAssumption`, `RequestsAssumption`,
`AccountsAssumption` and the ones of the other modules) say that bounds are numbers and
that sets of inputs are finite and not empty; TLC evaluates each of them in a run.

## 4. Findings

Five properties are taken from a comment of the repository, and TLC finds each of them
violated. The first has a run of its own, with the quotation in `PROJECT.json`; the others
are definitions of their modules, and TLC refutes each when it stands alone in the
configuration named.

* `EverythingIsClosed` (run `closing_gap`): `generateExport` is documented to cover everything since the till's last
  closing (`dsfinvk-export.service.ts:54-56`), but it selects orders by their creation
  (150-160), so the rest of an order that was paid in part before a closing is in no
  export at all.
* `DiscountsAreBooked` (`Closing_gap.cfg`): a discount is said to be booked as a line of its own (`gv-typ.ts:37`);
  nothing but a test calls `classifyDiscount`, and the turnover of a closing is above what
  was paid by the discount of an order that was paid in full.
* `EveryPendingGetsLink` (`Shifts_plan.cfg`): the hourly job is said to nudge helpers who did not click the link
  (`shift-reminder.service.ts:135-137`); of a group it looks at the first row the database
  returns (174-176), and when that row has no address it skips the group (179-182), every
  hour again.
* `SomeoneManages` (`Accounts.cfg`): an organization without any administrator is said to be
  unmanageable (`users.service.ts:353-356`); an erased account keeps its memberships and
  is counted as an administrator, so the other of two may be removed.
* `PrintersAreDeleted` (`Accounts.cfg`): `returnRental` deletes the printers made for a rental
  (`admin.service.ts:916-925`); a handler that had read one of them saves it afterwards, and the
  save inserts it again.

Disagreements met while modelling that have no run of their own. The first five are
within the models (drop the exclusion the property names, or state the sentence quoted,
and TLC finds them):

* Refund: a refund made while the TSE signs the payment is overwritten by the payment in
  memory (`payments.service.ts:347`; `payments.service.spec.ts:289` says the status is
  never changed beyond REFUNDED).
* Shop: a restart while the claim is held leaves a paid checkout without an order
  (`events-shop-checkout.controller.ts:405`, against the comment at 440).
* Events: an event extended while its payment page is open is unlocked at the old price
  (`events.service.ts:89`, against the comment at 78-82).
* Shifts: moving a helper saves the shift the registration was loaded with
  (`shifts.service.ts:432`, against the comment at 398).
* Shifts: the query for shift reminders names a column that does not exist
  (`shift-reminder.service.ts:66`), so no reminder is ever sent.
* Orders: a cancelled order is reopened when one of its items is marked delivered
  (`orders.service.ts:711`, 1479 against 1042); `completeOrder` trusts a payment
  status that an added item made stale (775, 781); a cancel after a refund reverses
  the reversal (848 against `payment.entity.ts:114`); two overlapping refunds both
  write a reversal; adding an item may overwrite a completion; `OrdersService.create`
  prints kitchen tickets twice (`orders.service.ts:231`).
* Shop: a retry after a failure makes a second order; the webhook answers 200
  whatever happened; the test limit is exceeded by overlapping requests; linking the
  order writes `paidAt` of a stale row.
* Printing: of more than 50 queued jobs the replay takes 50, whatever
  `print-jobs.service.ts:349` says; a switched-off printer ends the remaining tickets
  of an order; a cancel and an outcome overwrite each other; a printer moved to an agent
  that is connected gets no replay; jobs of a printer without agent are never replayed.
* Shifts: a proposal can be accepted and declined by two clicks, and a stop leaves it
  half applied (`shifts.service.ts:546` says atomically); a rejected helper returns
  through an old mail link; magic links ignore approval and the limit per person.
* Events: a stale save undoes a
  settlement; two checkouts create two customers at Stripe; payments that complete
  asynchronously are not handled; removing an event always throws.
* Sync: two transactions that save one row at once may commit in the other order than
  they drew numbers, so the newest copy is not the row (`sync-outbox.subscriber.ts:38-42`
  says the outbox can never desync); print jobs are changed by `.update()`
  (`print-jobs.service.ts:376`, 431), which runs no subscriber, although lines 73-77 say
  nothing does; removals leave no copy; a returned rental refuses the backlog that
  `sync-push.service.ts:16-19` expects to push once the box is back; a rental may be
  returned twice, the second time freeing hardware that is rented again.
* Counts: a completion that is cut off, by a stop or by a product that cannot be saved, is
  run again and books again
  (`inventory.service.ts:226-236`); the stock after two overlapping saves is the one
  saved last, and the movements say otherwise (`products.service.ts:213`).
* Table ordering: the PayPal order a guest's confirmation names is captured without being
  compared with the payment's own (`online-orders.controller.ts:162-168`,
  `online-orders.service.ts:544-603`): with two payments open, money taken for one is booked as the
  amount of the other, and the other's PayPal order may stay uncaptured; a scan saves the code as read and undoes its deactivation
  (`online-orders.service.ts:93`); cart lines are changed by position, so a repeated
  removal takes another line; the stock is compared for the added quantity only and never
  reserved; a restart between saving CAPTURED (594) and the order leaves it unpaid, because
  a captured payment is not confirmed again; two payments confirmed at a time lose one
  amount (598); the cart stays after submission, so it can be submitted again; removing a
  code removes its sessions; the comment at 641 expects SumUp webhooks that do not exist.
* Fiscal: a signature that was made but whose answer was lost is marked failed; a TSS that
  was set up half way is never taken on; two exports of one period get two numbers; the
  archival job gives an archive to the newest closing of the till, whoever made it, and
  exports a second event from the end of the closing it has just made for the first, so
  that the rows of the second are in none (`dsfinvk-archival.service.ts:98-125`); originals that were refunded are left out of an export while their reversals are in
  it; a part payment is exported with all lines of its order; a cancelled item of an order that was
  paid (a cancellation that was cut off leaves such orders) is exported as a positive line
  (`dsfinvk-export.service.ts:251-293`); tips and deposit returns have no line either, though
  `gv-typ.ts:32-48` classifies them; a database error before the till's client is known
  leaves a payment unsigned and unmarked (`tse.service.ts:96-104`).
* Accounts: an erased account can get a new password and a confirmation by the address that
  is left (`users.service.ts:325`, `auth.service.ts:257-269`, 526-548); another member can demote the last administrator; overlapping removals leave an
  organization without one; `OrganizationsService.update` can save the masked credential
  over the real one; `acceptedAt: undefined` in `createInvitation` (485) matches accepted
  invitations, so a removed member cannot be invited again before the old one expires; a
  save of a user read before an erasure undoes it.
* Devices and rentals: verifying a blocked device leaves it verified but inactive; saving
  settings drops the client of the TSE; `returnRental` asks for no status, so returning an
  old assignment frees hardware that is rented again (`admin.service.ts:896-977`);
  offers that overlap, or stop between their two saves (763-777), promise hardware twice;
  activation may take an agent another organization uses; an unassigned agent leaves its
  other printers behind.
* Reports (not modelled): a refunded original is left out while its reversal is counted
  with its negative amount (`reports.service.ts:385-388`, 671-760; `payments.service.ts:810`,
  896), so a refund is subtracted twice; cancelled items are counted by the product report.

## 5. What stays with TLC, what is not modelled

Liveness under fairness and everything about ENABLED is out of the prover's reach:
`SettledDespiteOneFailure`, `QueuedIsDelivered`, `PendingGetsLink`, `PaidUnlocks` and the
liveness of `PromiseKept` (whose safety is `SafelySynced`) are checked on the instances
only. Everything else the passing runs check is proved.

The theorems say less than one might read into them in these places. `LinesAtTheirStation` is
about the tickets of one routing: not that every line is on one, and not about what
`OrdersService.create` prints beside it. `MoneyBooked` takes the amount of the payment as what
was captured for it. `StockIsKept`,
`PaidAmountsMatch` and `ForcedCancelsReverse` are about requests that follow each other;
with two at a time the code does not keep the first two, and the run for overlaps lists only
what it does keep. The theorems about `StockTaking`, `RentalDesk` and
`Memberships` exempt the rows their history variables name, as the properties do: mostly
rows two requests worked on at a time.

The pure operators on rows in `OrderRows` (totals, payment status) are proved about only
as far as `OrderLedger_proofs` needs them. There is one stated refinement (`BoxSync` of
`SyncPromise`): its safety is proved, its liveness checked.

Not modelled: texts, layouts, PDF and QR rendering, mails as far as nothing depends on
them, statistics and read-only queries, order numbers, broadcasts to screens, uploads,
vouchers, deposit types, production stations, the import of customers, the exchange with
a single sign-on provider, and `reports` (sums over the rows of other modules, without
state of their own). TypeORM, PostgreSQL, SumUp, Stripe, PayPal, the TSE, the mail server and
the printer agents are external and modelled from how the code uses them.

## 6. The plan

Done: the order ledger, the shop, printing, shifts, events with billing, the offline box,
the stock with its counts, ordering at the table, the fiscal records, and accounts with
organizations, devices and rentals; eight modules of proofs, in which every safety
property of the passing runs is a theorem. Left, in order:

1. A ledger (what was captured minus what was reversed) as an abstract specification that
   `OrderLedger` implements when requests do not overlap; a queue (every ticket printed at
   least once) for `PrintDelivery`.
2. Vouchers and deposit returns of the tills, and the sums of the reports over the rows of
   `OrderLedger` (a refund must be subtracted once).
