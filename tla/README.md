# A verification of the ECITY shop system

ECITY is the back office of a chain of mobile-phone shops: a Next.js application over
one Postgres database. Its business logic is the set of services in `src/src/server/services`;
the pages and the HTTP routes call them, and they share nothing but the database. This directory
holds TLA+ models of the services whose correctness depends on the order in which several requests
run, TLC configurations that check them on small shops, and TLAPS proofs about shops of any size.

## The system

### How it runs, and what makes it hard

Most requests open one transaction (`db.transaction`), read, decide, and write. Nothing raises
the isolation level, so the transactions run at Postgres' default, READ COMMITTED:

* each statement sees what had committed when *it* started, so a handler that reads a row in one
  statement and acts on it in another may act on something that is no longer so;
* an `UPDATE ... WHERE` looks at the condition again after waiting for a concurrent writer, so a
  conditional update whose number of rows is checked is safe, and its row stays locked to the commit;
* `SELECT ... FOR UPDATE` and an insert under a unique index wait for the other transaction;
* an `AppError` thrown anywhere rolls the whole transaction back.

The importer and the alert rules use no transaction at all: each of their statements commits by itself.
The other services use all four. Where a property below holds it is because a conditional update, a row
lock or a unique index decides; where the code relies on a plain read, a check shows what happens.

### Inventory

| component (service) | state | operations that change it | what makes it correct |
|---|---|---|---|
| cash drawer (`cash`) | `cash_drawer_day`, `cash_movement` (append-only) | `openDrawerDay`, `postCashMovement` | one drawer a day; opens with counted money; signed days change only by flagged, authorised corrections |
| daily closing (`closing`) | `daily_closing`, the drawer's status | `closeDay`, `voidClosing` | one live signature a day; statements are stamped, never rewritten; drawer and signature agree |
| expenses (`expense`) | `expense`, cash movements | `createExpense`, `voidExpense` | money out once, back at most once |
| opening balances (`opening-balance`) | movements and ledger entries of kind OPENING | `openingCash`, `openingStock`, `openingDues` | one opening figure each |
| stock and device status (`stock`) | `device_unit.status`, `branch_stock`, `stock_ledger`, `device_event` | `setDeviceStatus`, `moveStock` | legal moves only; no shelf below zero; the ledger explains the shelf |
| transfers (`transfer`) | `stock_transfer`, `transfer_item` | request, approve, dispatch, receive, cancel | nothing duplicated, mislaid or stranded on the way |
| adjustments (`adjustment`) | `stock_adjustment`, device status, shelf | `createAdjustment` | agrees with whatever else holds the goods |
| sales (`sale`) | `sale`, `sale_item`, `payment` | `createSale`, `markSoldExternally` | a handset is sold once; bills settle at most their total; a retry bills once |
| returns (`return`) | `sales_return`, `return_item`, `refund` | `createReturn`, `inspectDevice` | a line comes back once; refunds within what was received |
| purchases (`purchase`) | `purchase`, `purchase_item`, devices | `createPurchase`, `reversePurchase` | reversed once and only if untouched |
| devices and identifiers (`device`, migration 0029) | `device_unit`, `device_identifier` | register, edit; a trigger follows the status | an identifier is claimed by the device that holds it |
| customer credit (`customer-payment`, `customer-ledger`) | receipts, allocations, ledger | collect, void | no bill overpaid; the ledger says what is owed |
| supplier credit (`supplier-payment`, `supplier-ledger`) | payments, allocations, ledger | pay, void | the same, towards suppliers |
| trade-in (`trade-in`) | `trade_in` | accept, link to a bill | settles one bill once |
| document numbers (`sequence`, `invoice`) | `document_sequence` | `nextDocumentNumber` | no number twice, no gap |
| money accounts (`account`) | `account`, `account_transaction` | transfer, reconcile | both halves of a transfer or none |
| sign-in (`auth`, `session`, `rate-limit`) | users, sessions, reset tokens | login, reset | lock-out after eight failures; tokens used once |
| tax, GST, warranty, changes (`lib`) | none | pure functions | totals add up |
| import (`import`) | `import_job`, `import_row`, and what the rows create | `createImportJob`, `validateImport`, `commitImport` | a row is applied once, and once more only for each late validation that reopens its batch; every row says what became of it |
| notifications (`notification`, `jobs/worker`) | `notification`, `notification_rule` | `evaluateRules` by timer and by button, `setRule` | what lasts is on the bell, what cleared is off it, no evaluation raises a thing twice (the worker and the button together may) |
| master data, users, roles, branches, reports, analytics, search, history, exports, audit, attachments, pages | their own tables | single-row writes, batch entry or reads | no interleaving of several steps worth a model |

The components meet in the database only. A sale changes device status and shelf (`stock`), posts into the
drawer (`cash`), takes a number (`sequence`) and appends to the customer's ledger; a transfer, an adjustment and
a purchase reversal change the same devices and shelves; every cash posting meets the closing of its day.

`PROJECT.json` lists the components with what is modelled of each, and under `hazards` the places in
this code where an order of events that no test exercises can go wrong, each with the property
that is about it.

## Modules

### CashDrawer

The till and the signature. One variable per table, keyed the way the unique indexes key it:

| variable | code |
|---|---|
| `today` | `businessDateFor(new Date())`; `Tick` is midnight in the shop's time zone |
| `drawer[branch, day]` | the row of `cash_drawer_day` (status, `opening_paise`), status `NONE` when there is no row |
| `posted[branch, day]` | the sum of the day's `cash_movement` rows (only sums are ever read) |
| `expense[e]` | `expense`, together with the sum of the movements that refer to it |
| `closing[i]` | `daily_closing`: voided rows stay; `sealed` says that closing found a drawer row to freeze |
| `openings[branch]` | the number of its OPENING movements |
| `late` | history: the kinds of movement that were inserted into a signed day |
| `txn[client]` | the request in flight: its next statement, what it has read, the drawer row it has inserted and not committed (`claim`) |

A posting is `PostRequest` (or the part of an expense, a void or an opening that comes before its
posting), `OpenDrawer` (first look, and the previous count), `CreateDrawer` (`INSERT ... ON CONFLICT DO
NOTHING`, which waits while someone holds the same row uncommitted and re-reads if it lost), and then
`ClosedDayRefused` or `InsertMovement`, which is the insert and the commit. `voidExpense` has
its conditional update first (`VoidExpenseLock`, which waits for another void of the same row).
`closeDay` reads its summary before the transaction (`CloseRequest`), then checks, inserts, freezes and
commits (`CloseCommit`). `voidClosing` reads the closing and looks for a later one (`ReopenRequest`),
then updates (`ReopenCommit`). `Abort` is a failure or a refusal anywhere.

Abstracted: branch permissions, expense categories, payment methods that do not touch the drawer (their money goes to
`account_transaction`), and the frozen JSON summary; sales, collections, refunds and supplier
payments appear as `post`, since all of them call `postByPaymentMethod` without `allowClosedDay`.
One request declares the opening cash of one branch.

### StockTransfer

Where the goods are. `status` and `branch` are the columns of `device_unit`, `quantity` is
`branch_stock` of one accessory, `transfer` is `stock_transfer` with its lines, `ledger` sums the
`stock_ledger` rows of each transfer by branch, `sale` holds the handset lines of bills, and `txn` what a
request has read or locked.

A transfer is requested in two steps, because its checks are plain reads (`RequestTransfer`,
`InsertTransfer`). Every later step is `LoadForChange` (`SELECT ... FOR UPDATE`, then
`assertTransition`) followed by one action that does everything the handler does and commits; the row is locked in
between. A sale and an adjustment read the handset without a lock and update it on condition of its
status, in two steps. Inspection, marking sold elsewhere, a purchase reversal and a return are one
conditional update each. An update of several rows is one action because each row it has changed stays
locked to the commit and any failed condition rolls all of them back.

Abstracted: the sales channel (which handsets the till may bill is left open), reservations (no code
makes one), identifiers, prices, permissions, document numbers, a handset named twice in one request, and
the branch of a return (the handset keeps the branch it was sold from, as in the code). Accessories that
are bought, returned or reversed change the shelf as `AdjustCount` does.

### IdentifierClaims, NumberRegistry, DeviceLifecycle

Which handset a number belongs to. `DeviceLifecycle` is the table of legal moves of `device_unit.status`, which
`StockTransfer` uses too. `NumberRegistry` is the promise: a number has one holder, only free numbers
are taken, and a device that goes gives up all of them. `IdentifierClaims` is the code that keeps it:

| variable | code |
|---|---|
| `status[d]` | `device_unit.status` |
| `carries[d]`, `claim[d]` | the values in its `device_identifier` rows, and those with `released_at IS NULL` |
| `purchase[p]` | `purchase.status` and the handsets of its lines |
| `booking[client]` | what a request is about to insert, its duplicate check passed |
| `move[d]` | the change of its status that is not committed yet: the status written, the numbers the trigger takes |
| `left` | history: the handsets that have been sold or lost |

Booking in is two actions, because `assertIdentifiersFree` is a plain read (`BeginBooking`) and the rows and
their index come later (`CommitBooking`); a purchase books several handsets, any other entry one. Every
handler that changes a status is `SetDeviceStatus`, with the statuses that handler expects and writes: the
conditional update, and the look of migration 0029's trigger for other holders, on the snapshot of its own statement.
What the trigger wrote counts at the commit (`CommitStatus`), which the unique index may refuse: a booking of the
number, or the return of another handset that carries it, may have committed in between, and the request
then fails (`AbortStatus`). So may a handler that fails later on. A handset whose change is not committed makes every
other change of it wait. `ReversePurchase` also deletes the identifiers. In Postgres the second of two that write one
number waits in the index for the first; here both have looked and the first that commits wins, which is the same order of
the commits.

What the trigger's rule leaves: a handset that comes back while another one holds its number stays
without it, until some later change of its status finds the number free. In between, the other handset may
leave, and the number is then free although one that carries it is in the shop; so it is when the other
leaves between the look and the commit. `StaysClaimed` is therefore about the handsets that never left.

Abstracted: the difference between IMEI and serial number (the index spans both), the details and the edits of
a handset (`updateDevice` changes neither number nor status), branches and transfers as documents, and
counted lines and payments of a purchase.

### Billing, BillRegister

How a document gets its number and a repeated request does not get a second one. `BillRegister` is the
promise: a series is numbered 1, 2, 3, ... and a request with a key is on one document. `Billing` is the
code: `nextNumber[s]` and `lock[s]` are the counter row of `document_sequence` and its row lock, `documents` the
rows with their key, series and number, `txn` the transaction in flight, `sent` and `told` what the till
sent and was told.

`createSale` looks for the key outside its transaction (`FindByKey`), takes the counter's row lock and reads the
number (`TakeNumber`), inserts the document (`InsertDocument`, where the unique index on the key speaks) and
moves the counter at the commit (`Commit`), which gives the lock back. Who loses the index rolls back and looks
again (`LookupByKey`). An answer may be lost on its way (`LoseAnswer`), and the till sends the request again;
a transaction may fail anywhere (`Fail`). A retry whose first attempt commits between the look for the key
and the check of the handsets is refused because they are sold; that is `Fail`, and the next attempt finds
the bill. Purchases, receipts, returns and transfers number themselves the same way, as requests without a key.

### CustomerCredit

What customers owe. `billedTo[b]` is the row of `sale`, `receipts[p]` a `customer_payment` with its
allocations, `linked[t]` is `trade_in.sale_id`. The code sums rows each time it needs a figure; the module
keeps the running totals (`received`, `returned`, `goods`, `refunded`, `paidOut`, `balance`) and `RowsAddUp`
compares them with the rows. `taken` is a history of what was ever received on a bill.

A sale is `BeginSale` (its trade-in is locked) and `CommitSale`; a collection is `BeginReceipt`, whose automatic
allocation is an unlocked read, `AllocateNext` for each bill it locks, and `CommitReceipt`; a void reads
(`BeginVoid`) and decides again in its update (`CommitVoid`); a return locks its bill and counts what came back
(`BeginReturn`), then writes (`CommitReturn`). Two tills may lock the same bills in opposite order: the
database ends one of them (`DeadlockVictim`).

Abstracted: a bill has one line of counted goods (its handsets are in `StockTransfer`), a refund's posting
is CashDrawer's `post`, and a payment by several methods is its sum. Left out because no page or code reaches
them: the optional `saleId` of `acceptTradeIn`, `linkTradeInToSale`, `billDiscountPaise`, and the same line twice
in one return.

### SupplierCredit

What the shop owes, and the counted goods it owes it for. `status[p]` is `purchase.status`, `payments[m]` a
`supplier_payment` with its allocations; `paid`, `balance` and `shelf` are running totals as above. Both
modules take the totals they compare them with from `Sums`.

Three kinds of row make a request wait while it holds another, and each has its variable: `lock[p]` is the
purchase's row lock, `shelfLock` that of `branch_stock`, and `drawer` the row of the day's till, which whoever
posts the first cash inserts and keeps uncommitted.

A purchase or a sale of counted goods takes the shelf (`TakeShelf`) and commits after its cash is posted
(`EnterPurchase`, `EnterPaidPurchase`, `Sell`); `PostCash` waits for a drawer that somebody else is opening. Nobody
sees the rows of a purchase before the commit. A payment posts its cash first, and keeps the drawer if it opened it;
it names one purchase or leaves it to `autoAllocate`, oldest first (`PayPurchase`, `PayOldest`), locks one purchase
after the other (`AllocateNext`) and commits (`CommitPayment`). A void and a reversal read outside their transaction
(`BeginVoid`, `BeginReversal`) and their first conditional update decides (`CommitVoid`, `ClaimReversal`). The
reversal waits for a payment that holds the purchase, holds the purchase itself from then on, and waits for the shelf
(`CommitReversal`), where it can find too few pieces.

`NoCircle` says that no group of these requests all wait for one another, with one exception the code has. Drawers
that are open are no obstacle, and purchase, shelf and drawer are then taken in that order; but the day's first cash
payment holds the drawer before it locks a purchase. If it waits for a purchase that a reversal has claimed, the
reversal for a shelf that a sale holds, and the sale for the drawer, all three wait, until the database ends one of
them. TLC finds this ring in the run `SupplierCredit` when `drawer \notin group` is taken out of `NoCircle`.

Left out of `Waits`, and so of what `NoCircle` says: the rows of handsets and the shelves of several products. A bill
takes them in the order of its lines, a reversal handsets first, so two requests that share two such rows in opposite
order can wait for each other (`PROJECT.json` has them under the deadlock of `transfer.service.ts:333`).

Abstracted: handsets and the untouched check (in `IdentifierClaims`); the amount of the posting (CashDrawer's `post`);
the counters of purchase and invoice numbers, which are taken before any of the three rows; and the naming of several
purchases in one payment, which no page sends.

### Imports

The importer, statement by statement. `job[j]` and `row[j][n]` are `import_job` and `import_row`; `call[c]` is
where a request is and what it remembers; `made[j][n]` says which commits of the batch have applied the row, and
`claims`, `late` and `disturbed` are history. `Upload`, `Validate` and `Commit` are the three services; a
commit claims the batch with one conditional update and then takes its rows one by one, each
through the service of manual entry, notes what it created or what was wrong, and writes the
counts. `Fail` is a request that dies and leaves what it did. All batches are uploads of one
file: batches of different files never meet.

### Alerts

The alert rules, with no transaction either. `alert` is the open rows of `notification`, `job[e]` the
evaluation in flight: it reads its rule, runs the query of the kind, raises what it found (`raise` looks for an
open row, then inserts) and closes what it did not find (`resolveMissing` reads the open rows, then updates by
id). `Advance` takes it one statement further and, after the last kind, back to the first: the worker repeats,
the button may. `Fail` ends an evaluation half-way. `ShopMoves` changes stock, debts and rules meanwhile. Two
of the seven kinds are modelled; the others take the same steps with other queries.

### Configurations

The `MC` modules give the constants that a configuration cannot write, and the symmetry.

| run | module | question | bounds |
|---|---|---|---|
| `CashDrawer` | MCCashDrawer | types; one live signature per day; drawer and signature agree; openings are counted figures; statements are never rewritten | 1 branch, 3 days, 2 clients, 2 closings, 1 posting |
| `Expenses` | MCCashDrawer | an expense's money moves once each way | 1 branch, 2 days, 2 clients, 2 expenses, 1 closing |
| `StockTransfer` | MCStockTransfer | types and shelves; nothing stranded in transit; the ledger tells the transfer; one step after the other | 2 branches, 1 handset, 1 accessory, 2 transfers, 2 clients; no sales or returns |
| `Sales` | MCStockTransfer | a sold handset on one bill, whatever tills, returns and a dispatch do at once | 2 branches, 2 handsets, 1 transfer, 2 sale lines, 2 clients |
| `IdentifierClaims` | MCIdentifierClaims | claims follow the handsets; nothing that never left is unclaimed; the rows implement `NumberRegistry` | 2 handsets, 2 numbers, 2 purchases, 2 clients |
| `Billing` | MCBilling | series without gaps; one answer per key; the rows implement `BillRegister`; every request ends | 3 requests, 2 of them keyed, 2 series, 2 clients, each request sent twice; fairness |
| `CustomerCredit` | MCCustomerCredit | no bill overpaid; nothing returned twice; refunds within what was taken; the account is what the documents say | 2 bills (2 pieces for 3, 1 for 1), 1 trade-in, 2 receipts, 1 customer and a walk-in, 2 clients |
| `SupplierCredit` | MCSupplierCredit | no purchase overpaid; shelf and account are what the documents say; no group of requests that all wait for one another, but for the opener of the drawer; a reversal is final | 2 purchases of one supplier, a second supplier, 2 payments, 3 clients, 2 pieces sold |
| `Imports` | MCImports | a row is applied once, and again only after a late validation; every row says what became of it | 1 batch of 3 rows, 2 mappings, 2 validations, 3 requests |
| `Alerts` | MCAlerts | what lasts is shown, what cleared is closed; no evaluation raises a thing twice | 1 shelf, 1 bill, worker and button, 1 failure, 5 rows; fairness |
| `WrittenOff` | MCCustomerCredit | *violated*: what is owed on a bill is at most the goods that were kept | as `CustomerCredit` |
| `PaidIsNotOverdue` | MCAlerts | *violated*: a bill that owes nothing does not stay on the bell | as `Alerts` |

Why the bounds are enough. Each interleaving in question but the ring of `SupplierCredit` is one of two requests, and
a third request of the kinds modelled only repeats what one of the two did; three days are an earlier, a middle and a
later one, which the carried count and the check for later closings tell apart; two closings are a day closed,
reopened and closed again, or two days; two transfers can compete for one handset; two sale lines are a handset sold,
returned, inspected and sold again; two handsets under two numbers are the one that was sold and the one booked in
under its number, which may both be on their way at once, and a purchase may bring in two of them. Three requests are
what a ring through purchase, shelf and drawer takes. Two keyed requests in one series and one without a key in
another compete for a counter and do not; a request sent twice is one retry, and a third would find what the second
found. A bill of two pieces for three paise has an odd half, so that rounding shows; a trade-in, two receipts and a
plan over both bills let two tills meet in either order; two purchases of one supplier are what an automatic
allocation goes through. The three rows of a batch are one any mapping reads and any service takes, one that only one
mapping reads and the shop takes once, and one a service refuses; the third request is a validation between two
commits. Five alert rows are more than two evaluations of two conditions can have open. The proofs remove the bounds
for what is proved. `CHECK_DEADLOCK FALSE` stands in every configuration but those of `MCAlerts`, because the shop may
stop: the bounded tables fill up and no request has to arrive. The worker of `Alerts` never stops. Handsets, branches,
receipts, payments and clients are interchangeable, so the runs that check only invariants and step properties use
symmetry; those with fairness do not.

Fairness (`FairSpec` of `Billing` and of `Alerts`). In `Billing` the database answers every statement (`WF` of a
client's next statement), and a statement that waits for the counter row is woken when the other transaction ends; the
lock queue of Postgres is first come, first served, so a waiter is not passed over for ever (`SF`). Requests
need not arrive. In `Alerts` only the worker is fair, whose `setInterval` goes on
ticking whatever an evaluation did; an evaluation started by the button may stop anywhere.

### What the code does not do

Two runs check sentences of the comments and documents that the code does not live up to;
`PROJECT.json` quotes each under `findings`:

* `WrittenOff`: a return takes the goods off the customer's ledger but off no bill, so a bill on credit that
  came back in full still shows its total on the dues screen and draws the next collection to itself.
* `PaidIsNotOverdue`: the overdue query subtracts what was paid at the counter only, so a bill that was settled
  by a later collection is reported overdue and stays so.

The modules state more such sentences, each in its last section. They are not runs of their own; TLC refutes each
when it is put into the configuration named here:

* `LateEntriesAreFlagged` (`CashDrawer`): a posting reads an open drawer, the day is signed, and the posting commits:
  a movement in a signed day, without the flag and without the permission.
* `OpensWithTheCount` (`CashDrawer`): the drawer of tomorrow opens with its first posting; if today is closed after
  that (or recounted), tomorrow keeps the old figure.
* `ReopenedWhileLast` (`CashDrawer`, as a `PROPERTY`): `voidClosing` finds no later day closed, a later day is closed,
  and the void commits.
* `OneOpeningFigure` (`CashDrawer`), `OneOpenTransfer` (`StockTransfer`): check and write are two statements with
  nothing to hold the first one true.
* `CancelAvailable` (`StockTransfer`, with two handsets and one transfer): no race is needed. A handset in transit is
  adjusted as lost; the transfer then can be neither received nor cancelled, since both expect every handset to be in
  transit.
* `SoldWhereItIs` (`Sales`): the till checks the branch, the update that sells checks the status only.
* `SoldIsNotReversed` (`IdentifierClaims`): a handset that was sold and came back into stock counts as untouched;
  reversing its purchase voids it and deletes the identifiers its bill refers to.
* `ReturnNeverRefused` (`IdentifierClaims`): "The old sale comes back. It must not throw"
  (`m2.integration.test.ts:557`), and migration 0029 says of its guard that without it the index would reject the
  return. The guard looks and then writes: when the number is booked in again, or comes back with another handset, in
  between, the index rejects the return all the same.
* `ReversedIsUnpaid` (`SupplierCredit`): a reversal looks for payments outside its transaction; one that commits in
  between stays allocated to a purchase that no longer stands.
* `FileImportedOnce` (`Imports`, with two batches): the look for an earlier upload of the file is long past when its
  rows are committed.

### Mutants

Beside some definitions stands a mutant, a version with a plausible mistake: `MayAlwaysClose` has lost the
check and the index, `CarriedExpected` carries the wrong figure, `NotLocked` and `NeverHeld` take a row without
its lock, `ReadLive` and `ReadConfirmed` trust what was read before, `LocksKept` forgets to let go, `IsAny` locks in
any order. `PROJECT.json` pairs each property of a passing run with a mutant that breaks it, which shows that the
property depends on the code.

## Proofs

### CashDrawerProofs

For every set of branches and clients, every calendar, every set of amounts and any number of requests,
under `BoundsAssumption` and `MoneyAssumption` alone:

| theorem | property |
|---|---|
| `TypeCorrect` | `TypeOK` |
| `OneLiveClosingPerDay` | `OneLiveClosing` |
| `SealAndSignatureAgree` | `SealedIffSigned` |
| `ExpenseMovesItsMoneyOnce` | `VoidedExpenseNetsToZero` |
| `ClosingsAreStamped` | `ClosingNeverRewritten` |
| `DrawersOpenWithCounts` | `OpeningIsACount` |

Two inductive invariants carry them. `IInv` strengthens the types by what a request in flight remembers
(`TxnOK`: what it asks for, the drawer row it claims, the expense or closing row it is about to write)
and by mutual exclusion (`Exclusive`: two requests never claim the same drawer row, nor the same
expense or closing row): without it, two commits could each write the row the other one relied on, and
neither `OneLiveClosing` nor `VoidedExpenseNetsToZero` would survive a step. `CInv` adds what a
request carries: the count it read is still the count of some closing of an earlier day, which needs that
closings are never rewritten (`ClosingsAreStamped`), and so an opening is always a count.
One lemma per action shows that it keeps the invariant; the theorems combine them with PTL.

### StockTransferProofs

For every set of branches, handsets and clients, any number of transfers and sale lines and any
quantities, under `StockAssumption` alone:

| theorem | property |
|---|---|
| `StockTypesHold` | `TypeOK` |
| `NothingStranded` | `InTransitOnOneTransfer` |
| `LedgerIsRight` | `LedgerTellsTheTransfer` |
| `SoldOnce` | `SoldOnOneBill` |
| `StepsInOrder` | `TransferLifecycle` |

The inductive invariant `IInv` adds to the types: what a request relies on (`TxnOK`: the status it read
under the row lock is still the transfer's), the row lock itself (`Exclusive`), well-formed rows
(`RowsOK`: two different branches, and nothing received before the end), where the goods are (`Goods`:
every handset of a transfer in transit is in transit or lost and still the sender's, no two transfers
in transit share one, and every handset in transit has one), what the ledger owes (`Ledger`) and what
the bills say (`Bills`). `InTransitOnOneTransfer` alone is not inductive: a reception must know that the
handsets it takes are carried by no other transfer. `NothingStranded` does not need the
check of `requestTransfer`, which two requests can pass together (`OneOpenTransfer`): the conditional
updates of `dispatchTransfer` are what keeps a handset on one transfer in transit.
Each action has its lemma, `StepFollows` gives the lifecycle, and PTL combines them.

### IdentifierClaimsProofs

For any number of handsets, numbers, purchases and requests, with no assumption on the constants but
`NoneAssumption`, which no proof needs:

| theorem | property |
|---|---|
| `Types` | `TypeOK` |
| `OneHolder` | `HeldOnce(claim)`, the index itself |
| `ClaimsFollowTheHandset` | `ClaimsAreInTheShop` |
| `NeverLeftStaysClaimed` | `StaysClaimed` |
| `ImplementsRegistry` | `RegistrySpec`, the refinement of `NumberRegistry` |

`IInv` joins the three properties and the index with three facts: a handset being booked in has no row yet and nobody
else books it in (`BookingOK`); a handset whose status says it is out of the shop has been seen to leave (`LeftOK`);
and `MoveOK`, which says of a change that is not committed that its handset has been booked in and not voided, and
that it takes only numbers the handset carries. All changes of status are one lemma (`SetDeviceStatusStep`), because
the handlers differ in the statuses alone, and so are their commits (`CommitStatusStep`), where the index and not the
trigger's look, stale by then, keeps a number with one holder. In the refinement the look is a stutter, and so is the
commit of a change that leaves the claims alone; the commit of a change to a status of `Gone` is `GiveUp`, of any
other a `Take` of the handset's free numbers (`CommitStatusRefines`), a reversal is `GiveUp` of its handsets, and a
booking is a `Take` of all its numbers, which rests on the index and not on the check.

### BillingProofs

For any requests, series and transactions, under `BillingAssumption`:

| theorem | property |
|---|---|
| `BillingTypes` | `TypeOK` |
| `SeriesAreGapless` | `Gapless` |
| `RetriesAgree` | `OneAnswerPerKey` |
| `ImplementsRegister` | `RegisterSpec`, the refinement of `BillRegister` |

`HoldersAreAlone`: whoever has read a counter and not ended holds its row, and has the number it shows.
`KeysAreOnce`: a document is written only while no other has its key. `AnswersAreBills`: whatever was
answered is in the books. `Numbered`: the numbers below the counter, and no others, are used, once each.
The commit maps to `Issue`, every other step to a stutter.

### CustomerCreditProofs

For any bills, totals, pieces, trade-ins, receipts and tills, under `CreditAssumption`:

| theorem | property |
|---|---|
| `CreditTypes` | `TypeOK` |
| `NobodyOverpays` | `NeverOverpaid` |
| `ReturnsStayWithinTheSale` | `NothingReturnedTwice` |
| `RefundsAreCapped` | `RefundsWereReceived` |
| `AccountsAddUp` | `RowsAddUp` |
| `OldestAreSettledFirst` | what `autoAllocate` gives whom (below) |

The row lock is what carries them: an allocation that was made (`AllocationsFit`) and a return that was checked
(`ReturnsFit`) hold their bill, so what they read of it can only have gone down, by a receipt voided meanwhile.
`SalesAreNew` says that a bill in the making is nobody else's. `BillsInBounds` has the products
that make rounding safe: the goods that came back are worth at most their exact share of the total, so their
shares, each rounded down, never add up to more than the bill.

`AccountsAddUp` has an invariant of its own, `LInv`: a receipt that is being entered is no row yet and one request
enters it (`ReceiptsAreNew`), a handset in part-exchange is on no bill while a sale holds it (`TradesAreHeld`), a bill
that does not exist has no figures (`BillsStartEmpty`), and the running totals are the sums of the rows (`Ledger`).
Each commit adds, changes or takes away one row of each sum. The sums need no induction, because `SumOver` (module
`Sums`) counts pairs instead of recurring: what a sum becomes when an element joins, leaves or changes follows from the
library's facts about cardinalities (`SumGrows`, `SumShrinks`, `SumChanges`).

`OldestAreSettledFirst` is about the operator `AutoAllocate`, here and in `SupplierCredit`: in every reachable state and
for every amount, the plan it makes gives nobody more than is owed, all together no more than the amount,
nothing to a newer bill while an older one is not settled, and keeps nothing back while somebody is owed
(`SettlesOldestFirst`). The newest bill that gets anything bounds the sum; the oldest that stays owing uses up the
amount (`GreatestOf`, `LeastOf`).

### SupplierCreditProofs

For any purchases, suppliers, payments and clients, under `SupplierAssumption`:

| theorem | property |
|---|---|
| `SupplierTypes` | `TypeOK` |
| `NoPurchaseOverpaid` | `NeverOverpaid` |
| `RingsNeedTheOpener` | `NoCircle` |
| `ReversalsStand` | `ReversedIsFinal` |
| `LedgerAddsUp` | `RowsAddUp` |
| `OldestAreSettledFirst` | what `autoAllocate` gives whom, as above |

`AllocationsFit`: what a payment has allocated still fits, and to a purchase that still stands, because the purchase
is locked. `Claimed`: so does the purchase that a reversal has claimed. `OldestFirst`: what a payment has still to
lock is newer than all it has locked. Of a group without the opener of the drawer, whoever holds the shelf waits for
the drawer alone, and so for nobody in the group; if none holds the shelf, a reversal that has claimed its purchase
waits for none of them; and if there is none of these, whoever holds the newest purchase that the group holds does
not: a group of three that wait in a ring is excluded as two that wait for each other are. `LedgerAddsUp` adds to the
invariant that a payment being entered is no row yet (`PaymentsAreNew`) and that shelf, payments and account are the
sums of the rows (`Ledger`). The facts about sums stand in this module too, because `CustomerCreditProofs` is about
another state and neither module can extend the other.

### ImportsProofs

For any batches, rows, mappings and requests, under `ImportAssumption`:

| theorem | property |
|---|---|
| `ImportTypes` | `TypeOK` |
| `ImportedOnce` | `OnlyALateCheckReopens` |
| `RowsAccountedFor` | `EveryRowAccounted` |

A batch that is not `COMMITTED` has been reopened as often as it was claimed (`ReopenedAsOften`), rows are applied
by claims (`AppliedByAClaim`), commits in flight hold different claims (`OwnClaim`), and none has applied the rows
it has still to do (`Fresh`).

`RowsAccountedFor` is about the batches nobody disturbed, and its invariant `AInv` says that such a batch goes through
its life in one order (`Orderly`): where a request stands on it tells its status (`StatusFits`); while it is
staged or validated nobody else is at it (`WorkedAlone`); before the claim nothing has been created and the count of
errors is the number of wrong rows (`CheckCounts`); during the commit the rows it is through with are accounted for
and counted, the others as the validation left them (`CommitCounts`); and so when it has ended
(`EndedAccounted`). A request that dies, loses a reference or validates a batch somebody else is at disturbs it, and
the invariant lets go of it.

### AlertsProofs

For any shelves, bills and evaluations, under `AlertAssumption` and `KeysAssumption`:

| theorem | property |
|---|---|
| `AlertTypes` | `TypeOK` |
| `NobodyShoutsTwice` | `OncePerEvaluation` |

The strengthening is `AboutToRaise`: an evaluation between the look and the insert of `raise` has no row with
the key.

### Left to TLC

Every invariant and every action property of the passing runs is a theorem, and so are both refinements. Model-checked
only are the three liveness properties, since liveness under fairness is out of the prover's reach: `EveryRequestEnds` of
`Billing`, `LastingIsShown` and `ClearedIsClosed` of `Alerts`. The sentences of the documents that
the code does not keep have counterexamples and no proofs.

## Plan

In this order, each module with its type invariant, the properties of its hazards, its run and its proofs:

1. `CashDrawer`, the till and the signature: done.
2. `StockTransfer`, where the goods are: done.
3. `IdentifierClaims` with `NumberRegistry`: done.
4. `Billing` with `BillRegister`: done.
5. `CustomerCredit`, then `SupplierCredit`: done.
6. `Imports` and `Alerts`, the two parts that work without transactions: done.

What would come next, in order of worth: the arithmetic of `lib/tax.ts` and `lib/gst.ts` as functions against a
reference definition over small amounts; the edit of a handset's attributes (`updateDevice`) beside
`IdentifierClaims`; the money accounts of the methods that do not touch the drawer.

## Not modelled

* Money accounts: a transfer inserts both legs in one statement, a reconciliation one row, an opening one row; nothing
  is read and acted on later.
* Sign-in, sessions, rate limits: the count of failures and the use of a token are updates of one row.
* Tax, GST, warranty terms and change sets: pure functions with unit tests; the models take a bill's total as given
  (the rounding of a returned share is in `CustomerCredit`).
* Opening stock and opening dues: single inserts. Opening stock is not guarded against a second declaration,
  and the documentation says so.
* Master data, settings, users, roles and branches: single-row updates; permissions are the nondeterminism of who
  calls.
* Reads (reports, analytics, search, dashboards, device history), formatting and files (exports, invoices,
  attachments), the browser's cart and pages, the HTTP routes. `device_event` and the audit log are append-only and
  never read back by an operation that changes state.
