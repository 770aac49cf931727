# Dukaano: the offline-first core, specified and checked

Dukaano is a billing, stock and credit ("khata") system for small shops. A device
keeps selling with no signal; a server holds the books of every shop. What makes the
program hard is the meeting of the two: operations queued on a device are applied once
although they are sent several times, changes made on the server reach every device
although they commit out of order and are pruned after a while, bills are numbered by
devices that cannot talk to each other, and balances are cached sums that concurrent
requests update. This directory specifies those parts in TLA+, model-checks them on
small instances with TLC and proves properties of them for all instances with TLAPS.

`PROJECT.json` lists, in machine-readable form, what this file explains: components,
runs, mutants (a plausible bug per property, which the run must find), the source
lines each definition models, findings, hazards and theorems.

## 1. Inventory

Server: NestJS over PostgreSQL through Prisma, isolation READ COMMITTED. Every request
is one transaction for one shop (`TenantTransactionInterceptor`, `runAsTenant`), except
`POST /sync/push`, which runs one transaction per step of each operation. Device: the
SQLite data layer under `apps/mobile/src/data`; the loop that drives it (flush, pull,
apply) is not in the repository. Shared packages are pure.

| Component | State | Operations | Hard behaviour | What makes it correct |
|---|---|---|---|---|
| Change feed: `sync.service` (pull, bootstrap), `change-log.service`, `cursor.ts`, `sync-retention.job` | `change_log` with writer's xid and row id, the device row's cursor and date, the device's own cursor | record, pull a page, bootstrap, prune, register, revoke | writers commit out of id order; pages are read while they commit; pruning deletes what a slow device needs; a restored phone has an old cursor | no change is skipped; what a device needs is retained or it is told to start again; a device that keeps pulling catches up |
| Push: `sync.service` (push ... recordOutcome), `outbox.ts` | `sync_outbox`, `processed_operation`, `sync_conflict` | enqueue, draw a batch, claim, authorize, apply, record, release, answer | lost answers, retries while the first attempt runs, crashes between claim and record, one bad operation in a batch | decided before it leaves the device; in the books once; record and work commit together; nothing blocks for ever |
| Conflict policy: `conflict.ts`, `conflicts.service` | product version, clocks of device and server, the inbox | resolve per field, acknowledge | two edits of one product, offline and online, with skewed clocks | the later edit wins; a refused field is in the inbox |
| Invoice numbers: `devices.service` (leases), `sales.repository` (drawInvoiceNumber), `sales.service` (nextSaleNumber) | `number_lease` on both sides, `sale.sale_number` | lease, resume, draw, number an online sale, sync | devices draw offline; two leases at once; reinstall; online numbering knows only synced bills | no number is on two bills; a printed bill gets in |
| Sales: `sales.service` | `sale`, items, payments | create, cancel | cancel against cancel, against return, against payment | billed once, reversed once |
| Returns: `returns.service` | `sale_return`, items | create | concurrent returns of one bill | never more back than was sold |
| Khata: `ledger`, `payments`, `customers` services, `allocation.ts` | `ledger_entry` with a running balance, `customer_balance`, `payment`, allocations | append, record, reverse, archive | every writer of a customer's row in every order | cached balance = sum of entries; each entry's running balance follows from the one before |
| Inventory: `inventory.service`, `costing.ts`, `reconciliation.job` | `inventory_balance`, `inventory_transaction` | movement, adjustment, opening stock, reconcile | locks of several products | stock = sum of movements; no lock cycle |
| Catalogue: `products`, `categories`, `master-catalogue`, `import` services, `rows.ts` | product and category rows under partial unique indexes, files | create, edit, archive, adopt, preview, commit | every check is read before the write it guards; a queued edit, a counter edit and an import meet on one row | codes stay unique, an import does what its preview said, stock keeps its unit |
| Sessions: `token.service`, `auth.service`, `membership-lookup` | refresh tokens in families | register, sign in, rotate, log out, expire | rotation is four commits; two refreshes of one token; an answer that is lost | one live token a family; a closed family stays closed; a patient device stays signed in |
| Memberships: `memberships.service`, `rbac/matrix.ts`, `auth.guard` | `shop_membership` with role, status, overrides | invite, change, let in | two people who change each other at once | the shop keeps an owner; no role is above its ceiling |
| The money of a bill: `packages/business-logic/src/money`, `business-date.ts`, `validation/schemas/sale.ts`, `shops.service` (settings) | the settings of the shop and those the device knows; a bill printed, stored, returned; quantity and average cost of stock | ring up, check, compute again, store, return, receive | rounding twice in two places; settings that differ; stock below zero | the paper stays true; refunds follow the goods; cost stays between what was paid |
| Shops, request plumbing, i18n, schema | settings, grants, text | single-row edits and pure functions | little | unit tests reach it |

How they interact: a device's sale is one local transaction over the bill, the
provisional stock and balance and an outbox row. Push applies the row through the same
services as the API. Every service that changes something a device shows records a
change in the feed in its own transaction; pull hands the changes out in the order of
writer's transaction and row id. The retention job deletes log rows and processed operation ids by age.

## 2. Plan

1. `ChangeFeed`: the feed, with a proof that nothing is skipped. *Done.*
2. `SyncPush`, with `OpDelivery`, the promise it implements, and the proof that it does.
   *Done.*
3. `InvoiceNumbers`: leases, device numbering, online numbering, with a proof that no
   number is printed twice by devices. *Done.*
4. `Books`: sales, cancels, returns, payments and reversals as transactions under row
   locks, with `RunningBalance` as what they promise every account, and the proof that
   they keep it. *Done.*
5. `Catalogue`, with `ConflictPolicy` (offline against online edits) and `ImportFile` (the
   verdicts and the plan of an import) as its pure parts, and the proofs of what it
   promises. *Done.*
6. `Memberships` and, on top of it, `Sessions`, with the proofs of what both promise. *Done.*
7. `Money` and `Bill`: what a bill costs on both sides, what comes back, what stock cost,
   with proofs for every price and quantity. *Done.*
8. `Customers`, on top of `Books`: the credit limit, archiving, the khata list, and the
   proof that it leaves what `Books` promises alone. *Done.*
9. Left: the provisional stock and balance of the device, once the client that applies the
   server's answers is in the repository; several customers and a merge of two of them,
   which the code does not have.

Every invariant and action property a passing run checks is also proved for all values of
the constants (`theorems` in `PROJECT.json`); liveness is model-checked only.

| Run | Module | Expected | Question |
|---|---|---|---|
| `feed`, `feed_liveness` | `MCChangeFeed` | pass | is a change skipped, does a backlog drain |
| `feed_gap` | `MCChangeFeed` | violation | the gap between two watermarks |
| `push` | `MCSyncPush` | pass | one request at a time: lost, doubled, blocked operations |
| `push_concurrent` | `MCSyncPush` | pass | what holds when handlers overlap |
| `push_lost` | `MCSyncPush` | violation | an operation acknowledged and lost |
| `numbers` | `MCInvoiceNumbers` | pass | two bills with one number |
| `books` | `MCCustomers` | pass | balances, limits, locks, archiving under overlap |
| `books_cancel` | `MCBooks` | violation | a bill cancelled twice |
| `catalogue` | `MCCatalogue` | pass | any two writers of a product |
| `sessions` | `MCSessions` | pass | token families, and who owns the shop |
| `bill` | `MCBill` | pass | paper, refunds and cost to the paisa |

## 3. `ChangeFeed`

What it models. A writer transaction takes its id at its first write (`BeginWrite`), some
time after it began, inserts rows that carry that id, one from a sequence and the time it
began (`RecordMany`), and ends (`CommitWrite`, `RollBack`), so rows become visible in any
order of ids and of dates. A pull is four actions, one for each statement that matters, each
with a snapshot of its own under READ COMMITTED: `PullDecide` (device row, effective cursor,
`decideBootstrap`), `PullRows` (the page of rows below `pg_snapshot_xmin` in keyset order),
`PullCursor` (the next cursor, which of a drained pull is the watermark *read again*) and
`PullFinish` (the device row). A bootstrap reads the watermark (`BootstrapMark`) and then the
tables (`BootstrapRead`, `BootstrapFinish`). The device applies an answer or never gets it
(`ApplyDelta`, `ApplyDataset`, `LoseAnswer`). `PruneChangeLog` is the retention job, at any
moment; `Register` and `Revoke` are the registry, `BackUp` and `Restore` a reinstall.

The clock (`Tick`) runs while transactions and requests are open, in ticks as short as one
likes: `Retention` and `TxnTimeout` count them. `decideBootstrap` compares the ages of
instants (`cursor.ts:103`) and the job deletes by the instant a writer began
(`sync-retention.job.ts:43`, `changed_at` is CURRENT_TIMESTAMP); so does the model. Assumed:
the API and the database read one clock, and a transaction is over when its timeout is
(Prisma's; 120 s, `@LongTransaction`, is the longest).

A device may leave the cursor to the server on its first delta after a bootstrap
(`packages/validation/src/schemas/sync.ts:74-77`); `CursorlessPull` admits it, and every run
but the finding's has it, `feed_liveness` included. Such a pull goes by the server's copy of
the cursor (`sync.service.ts:425`), which is ahead of the device when an answer was lost.

Five variables are history only: `committed` (every row that ever committed), `has` (what a
device holds), `gap` (the transactions its drained pulls stepped over), `presumed` (what a
device that had taken every answer behind the server's copy of its cursor would hold) and
`missed` (what it had not got of that when it asked without a cursor).

Runs.
- `feed`: `TypeOK`. `SkippedInTwoWays`: a change behind a device's cursor that the device
  was not given either belongs to a transaction that was unfinished when a drained pull read
  its rows and below the watermark that pull read next, or was in an answer the device does
  not hold, after which it asked without a cursor. `DrainedCursorIsRetained`: of what a
  device lacks whose last answer arrived and had drained the window, nothing is pruned until
  three transaction timeouts before the window ends; and up to that end, while the server
  lets it pull a delta, nothing of a transaction that began since its last pull. 3.4 million
  distinct states.
- `feed_liveness`: `BacklogDrains`, a served row reaches a device that keeps pulling. 54 000
  distinct states.
- `feed_gap` (violation of `NothingSkipped`): that gap is real. It is run with
  `CursorlessPull` false, so that the other way to skip a row plays no part in it.

Both properties say what is left of a claim the code makes in full. `sync.service.ts:43` says
that no change can be skipped; the two ways of `SkippedInTwoWays` are the exceptions.
`cursor.ts:82-84` says that nothing a device needs has been pruned if it pulled inside the
window. But `lastPulledAt` moves on every page of a backlog and before the answer arrives
(`sync.service.ts:509-515`), so a device that keeps losing answers, or is still far behind,
looks fresh while the rows it needs are pruned: hence the condition on the last answer. And a
writer that is in flight at the watermark of a drained pull began before that pull, so its
rows are dated before `lastPulledAt` and may go while the device is still allowed a delta:
hence the last moments. Three timeouts, because the writer that holds the watermark back, the
writer of the row (which may have begun a timeout before it, and taken a later id) and the
pull itself may each take one. Two are not enough: TLC has the history.

Bounds. One device, because devices share nothing but the log; two writing transactions and
two rows, enough for a later id to commit first, for a rollback's hole and for a page of one
row to leave another behind; a retention of four with a timeout of one and six ticks, so that
three timeouts end inside the window and a row written at the start ages out while a device
holds a cursor before it. `feed_liveness` has a third row, for a backlog of three pages, and
no passing of time. The theorems have no bounds.

Fairness. A device with an open app keeps pulling (weak), and of requests made again and
again some are finished and some answers arrive (strong, since `LoseAnswer` may end any
single one). Nothing is asked of writers, the pruner, registrations or backups.

Proof (`ChangeFeedProofs`), for any devices, entities, page size, retention, timeout, any
number of transactions, rows and ticks, with or without `CursorlessPull`. `TypeCorrect`:
`Spec => []TypeOK`. `SkippedInTwo`: `Spec => []SkippedInTwoWays`. The property is not
inductive: that a cursor may pass a row rests on what was true when the page was read. `IInv`
adds that every position anybody holds (cursors, backups' cursors, the server's copies, the
cursor of an answer under way) is *settled*, that is, no transaction that may still commit
can put a row there; that row ids are unique; what the server's copy of a cursor stands for
(`StoredOK`); and what each request's answer covers so far (`ReadOK`, `PagedOK`, `DeltaOK`,
`DatasetOK`). Settled stays settled because the least unfinished transaction only rises.
There is a lemma per group of actions and one per conjunct.
`DrainedIsRetained`: `Spec => []DrainedCursorIsRetained`. The rows that pruning may take are
dated, positions are not, so `RInv` dates what a position leaves ahead. Nothing runs for
longer than its timeout (`InTime`), so transactions begin in the order of their ids up to a
timeout (`BeganInOrder`), and from the least unfinished one on all rows are recent
(`RowsAreRecent`). `StoredIsFresh` and `NextIsFresh` say so of the position a pull stored, or
is about to, `LogIsKept` that the job keeps rows up to the retention's age, and
`AllowedInTime` that a pull under way was let in before its window ended.

## 4. `SyncPush` and `OpDelivery`

What they model. The device's side is `Enqueue`, the batch (`NextBatch` is `pending`
less the chains in backoff), `Respond` (acknowledge, fail), `BackoffEnds` and `GiveUp`.
A handler is a program counter over the transactions of `push`: `ClaimInsert` and
`ClaimLookup` (the two statements of `claimOperation`), `Authorize` or
`RejectUnauthorized`, `ApplyRead` and then `ApplyCreate`, `ApplyEdit`, `ApplyReject` or
`ApplyFail` (the read and the write of the operation's own transaction, with
`recordOutcomeInTransaction` in the same commit), `ReleaseClaim`. A handler may crash
between any two. `Handlers` may overlap: the device gives up on one (`GiveUp`) and
pushes again; `OneAtATime` is the schedule of a device that waits the old one out.

An operation is a create or a fact (a row with a device-drawn id), an edit, one the
server does not know, or one whose service always throws. Field values are abstracted to
newer or older than the row's clock. An edit may name no field (`Bare`): a payload of `{}`
passes the schema (`sync.ts:44`), is answered and recorded as a conflict, and no row of the
inbox is written, since no field was refused (`sync.service.ts:349-363`).

`OpDelivery` is the promise: an operation is held until decided, it is decided in one
step with its effect, and a decision is never revised. `DecidedOnce` is that `SyncPush`
with `OneAtATime` implements it under the mapping `verdict <- [q \in Ops |-> Decision(q)]`.

Runs.
- `push`: one request at a time; five operations of every kind, batches of three, two
  permission changes, two faults. `TypeOK`, `SettledIsDecided`, `DecidedOnce` (the
  refinement), `OutboxDrains` (liveness).
- `push_concurrent`: two handlers on the same two operations. `CreatesOnce`, and
  `RecordIsTrue`: what is recorded as applied is in the books, what is recorded as a conflict
  is in the inbox unless the edit named no field.
- `push_lost` (violation): an operation acknowledged although its claim was released
  and its work rolled back.

The order within a row is not a property: the server goes on within a batch after a
retryable failure (`sync.service.ts:91-101`), so a later edit of a row can be refused for
good because its create, earlier in the same batch, was not there yet. `outbox.ts:14`
promises a stop at the first hard failure of a chain; the model has the history.

Bounds. Three per batch with five operations is the smallest instance in which a batch
is partial, a chain is split over batches and every kind is next to every other; two
handlers are what one device that gives up once can have running; three faults let one
handler be abandoned, fail and be retried.

Fairness. A running handler goes on, the app pushes what is pending, backoffs end.
Crashes, timeouts and transient failures are bounded by `MaxFaults`: liveness says what
happens once the environment is quiet.

Proof (`SyncPushProofs`). For all constants: `TypeCorrect`, `InTheBooksOnce` (`CreatesOnce`)
and `RecordsAreTrue` (`RecordIsTrue`); with `OneAtATime` assumed, `NothingIsLost`
(`SettledIsDecided`) and `PushKeepsItsPromise` (`DecidedOnce`). The one fact about data they
use is `RowIdsAreFresh`: no two operations create one row. Three invariants in turn. `TInv`:
the types are not inductive alone, because `backoff \subseteq outbox` rests on an awaited
answer speaking only of operations the device holds and is not backing off from
(`AnswersHeld`). `BInv`, which holds however many handlers overlap: a row is there exactly
when its create took effect, rows never go, and what a handler saw is still there, so a
create that finds its row may be recorded as applied. `DInv`, for one handler at a time: a
handler past its claim owns it, an operation without a decision has had no effect, and what
was answered for good is decided. `StepKinds` then sorts every step into five kinds (idle,
push, move, answer, end), each of which keeps `DInv` and maps to a step of `OpDelivery` or to
none. `push_lost` is the counterexample without `OneAtATime`.

## 5. `InvoiceNumbers`

What it models. A lease request is the statements of `issueNumberLease`: `LockSeries`
(the advisory lock), `ReadHighest` (`max(range_to)`), `IssueLease` (retire the device's
live leases, insert, commit), or `FailLease` anywhere before the commit. Its answer is
kept in the device's one row of the series (`InstallLease`) or nobody waits for it any
more (`GiveUp`, `DropLease`). `RecordSale` is the local transaction that draws a number,
writes the bill and queues it; `Accept` is the push of it, under the unique index of the
sale table, and `Acknowledge` its answer. `Reinstall` empties a phone, `Resume` is
`currentLease`, which gives the live lease back as it was issued. A web sale is
`LockNumbers`, `NextSaleNumber` (`max + 1` of the books) and `CommitSale` or `FailSale`.

One series, because two series share nothing. `printed` is what customers hold: it
survives a reinstall, the phone's outbox does not. `resumed` is history only.

Runs.
- `numbers`: `TypeOK` (which ties each lock to the request or sale that is past it);
  `LeasesDisjoint`; `OneLiveLease`; `DevicesPrintOnce`, no two bills of devices share a
  number unless one device resumed a lease it had drawn from; `NumbersRise`, for one
  device; `WebNumbersFresh`, two web sales never meet on a number. 1.3 million states.

A web sale against a device is not a property: `nextSaleNumber` takes the highest number
in the books plus one and does not look at the leases (`sales.service.ts:520`), so a web
sale can take a number that lies in a block a device holds, and the device's bill is then
refused on every push. The model has the history.

Bounds. Every property is about a pair (of leases, bills, sales), so two devices, two
requests, two web sales and two bills make every pair. `MaxLeases = 2` guards the sending
of a request only: two requests sent while one lease exists still issue a third. Blocks
of one and two numbers give an exhausted block, one with a remainder, and neighbours of
different length. No fairness, and deadlock is not checked: with the bounds reached the
instance simply stops.

Proof (`InvoiceNumbersProofs`). `TypeCorrect`; `LeasesNeverShare` (`LeasesDisjoint` and
`OneLiveLease`); `PaperIsUnique` (`DevicesPrintOnce` and `NumbersRise`); `WebSalesNeverMeet`
(`WebNumbersFresh`): for any number of devices, requests, sales, leases and bills and any
block sizes. Four invariants in turn. `TInv` adds to the types that the sets a maximum is
taken of have one. `LInv` adds that `range_from` is a key and that what a request past its
read has read is still the highest end of a lease, which is what the lock is for. `DInv`
ties the devices to the leases: a block is a leased range from `next` on, every number
printed by a device that never resumed lies in a range leased to it and below `next`, and
a grant it may still install lies above all of them. `WInv` says what a web sale that has
its number knows of the books. `NumberFacts` holds what all proofs share: least and greatest members of a
set of numbers, induction over the subsets of a finite set, and sums.

## 6. `Books` and `RunningBalance`

What they model. `Books` is the server's five handlers that move money and goods:
`SalesService.create` and `cancel`, `ReturnsService.create`, `PaymentsService.record` and
`reverse`, and the callers that only correct an account (`BeginAdjust`). All of them have
one shape, and the model keeps it: documents are read without locks (`Begin...`, and
`CountReturns` or `ReadReturned` where there is a second read), then row locks are taken
one by one in the order of the handler's statements (`Lock`, with `Places` for the order of
the tables and `Precedes` for that of the stock rows), the balance of an account being
read with its lock, and everything commits at once (`Commit...`). `Abort` is a rollback
anywhere: an exception, a timeout, a crash, the victim PostgreSQL picks in a deadlock. So
what another request commits after the reads is not seen, which is READ COMMITTED, and
what one commits before a lock is granted is.

A request's `job` is what it has read and will write: its postings, one number for each
account (the khata, every stock card), cash handed back, and the allocations of a
collection. `Needs` are the rows it locks. `balance` is `customer_balance` and
`inventory_balance`, `log` the entries with the balance each is stamped with
(`balance_after_paise`, `balance_after_milli`). Documents are the sale's status, what was
returned of it, the payment rows (live or reversed), the OUT rows and the allocations.

Abstractions. One shop and one customer, on every bill: customers share no row. One
counter payment and one line a product on a bill, at a price of one, so line rounding is left
out (`Bill` has it). What is paid and what is owed need not add up to the lines (`Worth`):
the difference is the discount on the bill, which lines that come back are not reduced by.
A return names each line up to `MaxNamed` times, and every naming is held against what
earlier returns left of it, as `resolveLines` does. `Fifo` is `allocateFifo` over the
open-bill query. Manual allocations go to bills that exist. The request's ids are drawn once, so a retried
`record` or `create` is answered as it stands and changes nothing.

`raced` (bills two requests worked on at once), `byHand` (bills with a manual allocation) and
`repeated` (bills with a return that named a line twice) are history only.

`RunningBalance` is the promise of `ledger.service.ts:36-50`, for every account: entries
are only appended, each is stamped with the balance before it plus its amount, and the
balance row is the last stamp.

Runs.
- `books` (with `Customers`, section 7): `KeepsStatement`, the refinement of
  `RunningBalance`, and `StockNeverDeadlocks`, both for any overlap; for bills no two
  requests worked on at once, `AllocatedWithinCredit` (bills without manual allocations) and,
  where no return named a line twice, `GoodsComeBackOnce` (never more back than was sold, by
  returns and a cancellation together) and `CashWithinPaid` (the cash is at most what the bill
  says was paid and what its discount took off); and `BooksAgree`, the nightly reconciliation
  (`inventory.service` `reconcile`, `reconciliation.job`, `ledger.service` `reconcile`), which
  finds nothing whatever overlapped, and the khata and stock cards are what the documents add
  up to as long as no bill was raced. 769 000 states.
- `books_cancel` (violation of `CancelledOnce`): two cancellations that both read the bill
  as completed each return its stock and credit.

The restriction to bills handled one request at a time is the code's, not the model's: the
documents are read without locks, so overlapping returns, reversals and collections go
past each of those limits, as `books_cancel` shows for cancellations. The hazards say which.
So does one return alone that names a line twice: `createReturnSchema` lets it through
(`sale.ts:151-166`) and `resolveLines` maps the lines one by one (`returns.service.ts:269-277`),
although the comment above it asks for a limit over all returns (`:251-253`). And what was
paid is what the bill says: a counter payment that bounced since still counts, and may be
handed out in cash a second time (`returns.service.ts:16-26`, `:86`).

Bounds. Two bills of one piece of each product, so that locks are taken in pairs and FIFO has
an older bill: the first partly paid, the second wholly on credit and with a discount, so that
what comes back is worth more than was paid and owed. A line may be named twice. Two
collections, each enough for both bills; two requests at once and four in all, so that a bill
can be issued, paid, returned and cancelled, or issued while another runs. Every mutant is
found within four. A credit limit of one against two bills of one lets one bill through and
makes two race. Deadlock is not checked: with `MaxRequests` used up the instance stops, and requests that
wait for each other across tables are modelled, with `Abort` as the way out.

Proof (`BooksProofs`), for all constants within `BooksAssumption`: any bills, products,
amounts, corrections and any number of requests. `LocksAreSound` is the inductive invariant
`BInv`: the types of the request's side, the locks of a request are exactly `Needs` less
`todo`, what is in `todo` is among its needs, rows held come before rows still to be
locked, and a balance read under a lock is still the balance (`BeforeIsBalance`). The last
is why `KeepsStatement` holds and is not inductive alone: an account moves only at a
commit, a commit moves only accounts the request holds, and the lock excludes another
holder. `StatementIsKept` then maps every commit to a step of `RunningBalance` and every
other step to none. `StockIsFree`: were every request of a group waiting for stock held in
it, there would be a highest product waited for; whoever holds that one waits for another,
and by `HeldBelow` for a higher one.

`BooksType` (`TypeOK`), `BillsAreBounded` (`GoodsComeBackOnce`, `CashWithinPaid`,
`AllocatedWithinCredit`) and `BooksBalance` (`BooksAgree`) are about the documents, which are
read without locks. None of the limits is inductive: that a return fits rests on what was
returned when it was read. `DInv` adds that two requests that look at one bill have raced on
it (`Alone`), and that what a request has read of a bill nobody raced on still stands, per
operation (`ReadsStand`): a cancellation's bill is completed with nothing returned, a return
fits what is left and its cash what the goods cover, a collection fits the open credit. The
cash is bounded more closely than the property says, by what the goods that came back are
worth beyond the bill's credit (`CashBehindCredit`), since the handler clears credit first;
no more than `Worth` comes back of a bill none of whose lines was named twice, which makes it
at most what was paid and what the discount took off. Nothing is assumed of what a bill's
lines, payment and credit add up to. `Agreement` says that a balance is the sum of its
entries, and what the documents add up to as long as no bill was raced; each commit moves both sides by what its job posts.
The sums run over any finite number of bills, products, entries and collections: `NumberFacts`
proves, by induction over the subsets of a finite set, what one changed member does to a sum.
So `BooksAssumption` asks for finitely many bills and collections, and for one bill at least,
because the bills tell which requests raced.

## 7. `Customers`

What it models. `Customers` extends `Books` and adds the customer's row: `limit`
(`credit_limit_paise`), `archived`, the requests that are `closing` it, and, as history,
what each request has `read`. `BookStep` is a step of `Books` with, for a new bill,
`CheckCreditLimit`: over the limit only with an override. `ChangeLimit` is `update`,
`BeginArchive` and `CommitArchive` are `archive`, `Ageing` is the khata list. The limit and
the archiving are both decided on the balance read without its lock
(`sales.service.ts:474-504`, `customers.service.ts:157-182`), and nothing that posts to the
khata looks at `archived_at`.

Run. `books`, with `CustomerTypeOK` and `KhataReadsHold`: a bill without an override takes
the khata over its limit, and an archived customer comes to owe something, only through an
entry another request made after the balance was read. Two bills at once do pass a limit
each of them keeps, and an archived customer's debt is on no list, since `ageing` filters
`archived_at`; `customers.service.ts:146-150` means to prevent that. `ageing` also gives the
date of the oldest bill on credit, paid since or not (`customers.service.ts:203-210`), where
the comment above it says the oldest unpaid one. Phone numbers, which a unique index keeps
apart, and a second customer are not modelled.

Proof (in `BooksProofs`), for any limits and any number of requests: `ReadsHold`
(`KhataReadsHold`), `CustomersType` (`CustomerTypeOK`) and, since the customer's requests
share nothing with the books but the count of requests, for the composition what holds of
the books alone: `ListedStatement` (`KeepsStatement`), `StockStaysFree`
(`StockNeverDeadlocks`), `GoodsAndCash` (`GoodsComeBackOnce`, `CashWithinPaid`),
`CollectionsFit` (`AllocatedWithinCredit`) and `DocumentsAddUp` (`BooksAgree`). The invariant `CInv` is `BInv` of `Books` with:
nothing was read of a later khata than the present one, and as long as the khata has the
number of entries it had when it was read, what was decided on it is true of it
(`BillsFit`, `ClosingOwesNothing`, `ArchivedOwedNothing`). It rests on `KhataMoves`: a step
leaves the khata as it is or adds an entry.

## 8. `Catalogue`, `ConflictPolicy` and `ImportFile`

What they model. Every writer of a product or a category as a request that reads
(`Begin...`) and later writes and commits (`Commit...`): the counter's create, edit and
archive, a device's queued create and edit (`BeginPush`, `CommitPush`, `CommitRefusal`), the
same for categories, the adoption of master products, the preview and commit of an import,
and the inbox (`BeginAcknowledge`, `CommitAcknowledge`, `AcknowledgeAll`). `Move` is stock
coming and going, `Stop` a rollback, `Tick` the clock. `log` is the change log by entity, id
and version. `ConflictPolicy` is `resolveProductConflict`, field by field. `ImportFile` is
the import without the database: what is wrong with a row, which lines of a file clash, what
a preview says of them and which rows the commit will create or update.

A field's value is represented by the time its author says it was decided at (`wrote`):
the server's clock online, the device's own in a queued edit, which may be wrong.

Run `catalogue`. `EditsRespectNewer`: a queued edit never replaces a later decision nor an
unseen price, provided the row was not written while it was applied, and leaving out a row
that has a device's time on it and was edited online since; `NothingDropped`: a field of an
answered edit is on the row or in the inbox, but for what is accepted and never written (see
below); `StockKeepsItsUnit`: 45 kg become 45 pieces
only through a counter edit that was overtaken; `NoTwins`: two products of one master, or
two categories of one name, take two overlapping requests; `ImportKeepsItsWord`: the commit
of an import overwrites only what the preview showed as a duplicate; `BatchFitsTheIndex`: a
batch cannot fail on a unique index unless a product was written since or both codes of a
line were taken; `LogHoldsTheRows`: a device is sent every row at its version.

Each property names its exception because the code has it: `effectiveUpdatedAt` is
`clientUpdatedAt ?? updatedAt` and an online edit leaves the former alone
(`sync.service.ts:345`), so an older queued edit can win over it; `ProductsService.update`
does not write `mrpPaise` (`products.service.ts:275-295`), takes a null category or threshold
for no value (`:281`, `:291-292`) and knows no other name, while the payload of a push is open
(`z.record(z.unknown())`, `sync.ts:44`): all of these are accepted, answered as applied and
never written, with no row of the inbox; the import's UPDATE logs version 1 (`import.service.ts:437-439`) and an adoption's categories are
not logged; CREATE_ANYWAY gives up one code of a line (`import.service.ts:199-206`); and no
index is on `master_product_id` or on category names.

Bounds. Two requests, because every property is about a pair; three patches: a
category, a price and both codes; a null category beside an mrp and a name the server does not
know; and nothing at all; three products (one with a
history) and three categories, so that a file or an adoption has fresh ids to draw; three
files that clash with the shop, with themselves and with both codes; three ticks, so an
edit can be older than, as old as and newer than the row. No fairness; the instance stops
when its two requests are used up, so deadlock is not checked.

Proof (`CatalogueProofs`), for any products, categories, files, patches, drafts and any number
of requests: `CatalogueType` (`TypeOK`), `LogIsComplete` (`LogHoldsTheRows`), `BatchesFit`
(`BatchFitsTheIndex`), `EditsRespect` (`EditsRespectNewer`), `NothingIsDropped`
(`NothingDropped`), `UnitsAreKept` (`StockKeepsItsUnit`), `NoTwinsAreMade` (`NoTwins`) and
`ImportsKeepTheirWord` (`ImportKeepsItsWord`). All follow from `CatalogueIsSound`, the
inductive invariant `CatInv`. The action properties speak of a request at the moment it writes,
about rows it read earlier, and nothing of that is a lock; so `CatInv` carries the decision of
every running request along with what it was decided on. `TablesOK`: rows are well formed, a
row no device has dated was last decided on when it was last written, and the log is complete.
`RequestsOK`: a row whose version is the one the request saw is the row it saw (`Before`,
`Behind`), and on those rows what it holds is what the code computes (`PushOK` for the policy of
`ConflictPolicy`, `PreviewOK` and `ImportOK` for the verdicts and the plan of `ImportFile`,
`UpdateOK` for the unit check, `AdoptOK` and `Unshelved` for the twins). It is inductive because
every writer of a product raises its version (`Moves`). The assumptions are that
what people send is of its type (`InputAssumption`: a patch names any fields whatever, since the
schema leaves them open), names for nothing that name nothing, and a clock of two
ticks at least, since the instance begins at the second one. `NothingIsDropped` holds
for any `Fields`, because the property itself names what `ProductsService.update` drops.

## 9. `Memberships` and `Sessions`

What they model. `Memberships` has the role matrix, with one permission for each way the
matrix treats them, `resolveEffectivePermissions`, registration, and `invite` and `update`
as a read and a later write. `Sessions` has `rotate` in its four statements, each a commit
of its own because sign-in runs outside the tenant transaction: `ReadToken`,
`FindMembership`, `RevokePresented`, `Mint`; reuse detection (`RevokeFamily`), login,
`Logout` and `Expire`. The device is the plain client the protocol is written for: it keeps
the last token it was answered with, may stop waiting at any time and send its token again,
and a server may stop between two statements (`Lose`).

Run `sessions`. `OneLivePerFamily`: a family has one live token unless two requests used one
token at once, which the update by id lets both win (`token.service.ts:109-114`, against
`:66-68`); `ClosedStaysClosed`: a family closed by reuse or logout has no live token again,
unless a refresh was under way; `PatientStaysSignedIn`: a device that had every answer is
never signed out by the protocol; `ShopKeepsAnOwner`: the last owner is never taken away by
a change whose author is an owner when it is written. A manager who was granted
`employee.manage` can do it, and so can two owners who remove each other at once
(`memberships.service.ts:113-118` only looks at oneself).

Bounds. Two overlapping refreshes of one phone, three in all and three tokens: a fork, its
detection and a successor; two people, each with a change under way, three changes in all.
Phones share nothing but accounts, so one is enough, which the proof below confirms. Deadlock
is not checked, for the same reason as above.

Proof (`SessionsProofs`), for any phones, people, requests, tokens and changes:
`TypeCorrect` (`TypeOK`), `OneLiveToken` (`OneLivePerFamily`), `ClosedForGood`
(`ClosedStaysClosed`), `PatientStayIn` (`PatientStaysSignedIn`) and `OwnersRemain`
(`ShopKeepsAnOwner`). None of the token properties is inductive. `SInv` adds that a family
is with one phone (`Apart`), although a phone that stopped waiting leaves requests behind
that still run; that a family about to get a token has no live one (`MintOK`); that nothing
about to insert works for a closed family (`ClosedOK`); and what is true of the one request
a patient phone waits for, statement by statement (`PatientOK`, `SignInOK`). The owner rests
on `OwnChanges`: a change of oneself that is under way leaves role and status. The
assumptions are that the roles and statuses sent are those the schemas accept
(`MembershipsAssumption`), and that the bounds are numbers (`SessionsAssumption`).

## 10. `Money` and `Bill`

What they model. `Money` is the arithmetic: half away from zero (`DivRound`), a line, a
bill's totals and its rounding, the schema's exact sum, the business day, the refund of a
part of a line, the average cost. Amounts are paise and quantities thousandths, as in the
code. Where the code leaves the integers, the model says what a double may make of it: the
refund's exact half may come out on either side (`tie`), and the schema's comparison may say
either at zero (`Short`). `Bill` is one bill through them: `RingUp` with the settings the
device knows, `Refuse` or `Store` with those of the server, `Return` in parts, a request
naming each line up to `MaxNamed` times (every naming is rounded and held against earlier
returns by itself; the bill's `twice` notes the lines, as history), `Receive` and
`ReceiveUnpriced` for stock, `ChangeSettings` and `LearnSettings`.

Run `bill`. `PrintedIsStored`: under one set of settings the server stores what the device
printed, and refuses nothing but a walk-in's bill paid in full that rounding made cheaper
than its exact sum by a paisa or more (`sale.ts:93-104`, whose comment says it only catches
what is "clearly not paid in full"); `RefundsWithinBill`: what was paid back for a line is the
value of what came back to within half a paisa a time; no more of a line comes back than was
sold, unless one request named it twice; and where none did, the cash is at most what was paid
plus what discount and rounding took off, since lines come back at their own value;
`CostWithinPaid`: the average cost lies between the lowest and the highest cost goods came
in at, however far the stock went below zero. Goods that come in before any price is known
come in at zero, and count. Deadlock is checked.

Bounds. Three carts: a line whose value does not divide by its quantity, two lines with one
at half a paisa, a line sold below zero. Portions of nothing, one and one and a half; two
receipts; two namings of a line in one request; an hour of the day that belongs to another
business day under each of the two starts; all rounding policies. Three
events let a change of settings, a return and a second return of the rest meet.

Proof (`BillProofs`), for all prices, quantities, discounts, settings and receipts:
`PrintedBillsAreStored` (`PrintedIsStored`), `RefundsStayWithinBill` (`RefundsWithinBill`),
`CostStaysWithinPaid` (`CostWithinPaid`), with `LinesPayTheirGoods` and `PaperStaysTrue` for the
parts about one line and one bill, and `RoundsSymmetrically`. `BInv` is inductive: stock is
typed and its cost between what was paid (`StockOK`), each bill is what `Written` makes of its
cart (`QueuedOK`), each line of a stored one within its half paise (`LinePaid`), and a refused
one paid in full by a walk-in (`RefusedOK`). A rounded quotient is within half a divisor of the
exact one (`RoundNat`), so an average stays between its two costs and each return adds at most
half a paisa. That bounds each line but not the cash, which no line knows: `CashOK` says that
once any cash went out, it and the credit of the bill are together no more than the lines that
came back were worth, because a return clears credit first. Summed over the lines (`NumberFacts`),
what came back of a bill with no line named twice was worth at most the subtotal and half a
paisa a time, which is what was paid, what is owed, and what discount and rounding took off. The assumptions are those of the schema:
a cart has finitely many lines, none worth less than nothing, and discounts are not negative.

## 11. Findings

- `push_lost`: `claimOperation` answers `duplicate` when the row it conflicted with is
  gone by the time it looks (`sync.service.ts:646`); the device then deletes an operation
  nobody applied.
- `feed_gap`: a drained pull reads the watermark a second time, in a snapshot of its own; a
  transaction that ended between the two readings is stepped over (`sync.service.ts:503`).
- `books_cancel`: `cancel` looks at the status before it has the row
  (`sales.service.ts:294`), so a double tap returns stock and credit twice.

The quotes are in `PROJECT.json`. Other places where the code and a comment part ways are
told with the module that shows them, above. Seen while modelling and not settled by a run:
`cancel` gives back counter payments that were already reversed (`sales.service.ts:290`), and
the open-bill query charges the counter payment to the credit part
(`payments.service.ts:267`); both are in the model of the books. Exceptions the properties name
because the code has them, each a place where a reviewer of the code may want a change:

- a return that names a line twice brings back, and pays out, more than was sold
  (`returns.service.ts:269-277` against `:251-253`); a bill's discount is paid out with its
  lines, and a bounced counter payment counts as paid (`GoodsComeBackOnce`, `CashWithinPaid`,
  `RefundsWithinBill`);
- a null category or threshold, an mrp and an unknown field are accepted and not written
  (`NothingDropped`);
- an edit that names no field is a conflict about nothing (`RecordIsTrue`);
- a pull without a cursor after a lost answer skips that answer's rows, against
  `sync.service.ts:43` (`SkippedInTwoWays`);
- rows are pruned in the last moments of retention while a delta is still allowed, against
  `cursor.ts:82-84` (`DrainedCursorIsRetained`).

## 12. What the tools do not show

Liveness (`BacklogDrains`, `OutboxDrains`) and anything with ENABLED stays with TLC; of the
properties of the passing runs nothing else does. Recursive operators and the library's
induction theorems, which take an operator, are out of the prover's reach: the modules use
`Cardinality`, quantifiers and folds instead, and the sums they rest on are proved with
induction in the form of sets (`SubsetInduction` and `SetInduction` in `NumberFacts`). The pure
modules have no theorems of their own: `ConflictPolicy` and `ImportFile` are covered by what
`CatalogueProofs` says of their callers, `Money` by `BillProofs`. `OpDelivery` and
`RunningBalance` are the promises `SyncPushProofs` and `BooksProofs` show to be kept.

### Not modelled

- HTTP, row-level security, guards other than the permission check, audit rows, OTP
  delivery: no state the properties depend on.
- The sync client (flush, pull, apply): not in the repository; what it must do is external
  in the map. With it go the device's provisional stock and balance.
- Reading CSV text, formatting, translations, parsing of amounts: text over single values.
- `distributeBillDiscount`, `allocate`, `percentOf`, `resolveBusinessTimestamp`,
  `totalStockValue`, `revokeAllForUser`: nothing in the apps calls them.
- Lists, reports, searches: they read, and nothing depends on them.
- Screens, seed, deployment: no logic of the core.
