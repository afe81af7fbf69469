# Rentwell: TLA+ models, checks and proofs

Rentwell is a rent ledger: it bills charges, ingests payments from a provider
or from CSV files, matches and allocates payments to charges, keeps a
double-entry subledger, and closes accounting periods month by month. This
directory holds formal models of it, the TLC configurations that check them,
and proofs checked by TLAPS. `PROJECT.json` ties every definition to the lines
of `src/` it models and lists every run, theorem, hazard and finding.

All state lives in PostgreSQL, with queues in Redis that it feeds. Every
operation is one interactive transaction at READ COMMITTED
(`packages/database/src/client.ts`, `runInTransaction`), so correctness rests
on four mechanisms: advisory locks per (property, period), version columns
compared on update, unique indexes, and an outbox written with the data. What
is hard to test is how operations that use different subsets of them meet, what
a crash leaves behind, and what pages do with answers that have grown old.

## 1. Inventory

| Component (code) | State it keeps | Operations | Works with | Hard behaviour | What makes it correct | Model |
|---|---|---|---|---|---|---|
| Period locks (`database/src/locks.ts`, `client.ts`) | advisory locks, held to the end of the transaction | `lockPeriod`, `lockPeriodForPosting`, `lockPeriodsInOrder`, `runInTransaction` | every operation that posts | interleaving, deadlock, timeouts | no posting into a closed period, no circular wait, every transaction ends | `PeriodLocks` |
| Period transitions (`close.service.ts`, `domain/close`) | period rows, snapshots | `startReview`, `close`, `reopen`, `gatherFacts` | locks, all tables | figures gathered while others post; two controllers | the snapshot is what the period holds; figures derived twice agree | `PeriodLocks`, `Figures` |
| Allocations (`allocations.service.ts`) | allocations, totals of charges and payments | `approve`, `reverse` | locks, ledger, suggestions, exceptions | reads before locks; updates without versions | totals follow ACTIVE allocations; what commits is what was seen | `Reconciliation`, `Review` |
| Charges and credits (`charges.service.ts`) | charges, credits | `preview`, `generate`, `createCredit` | locks, ledger, keys | credits race approvals; stale previews | open balance derived and stored agree; one charge per key | `Reconciliation`, `Billing` |
| Payments (`transactions.service.ts`, `worker/src/ingest`) | bank transactions | `ingest`, `applyProviderReversal`, `requestSync` | locks, allocations, exceptions | redelivery; reversals that race approvals | received once; REVERSED is final | `Reconciliation`, `ImportBatch`, `ProviderFeed` |
| Ledger (`domain/ledger`, `database/src/ledger.ts`) | journal entries by event id | six entry builders, `writeJournalEntry` | all of the above | an id reused vanishes | accounts say what rows say | `Reconciliation`, `Figures` |
| CSV imports (`imports.service.ts`, `import.processor.ts`) | batch, checkpoint, row records, the stored object | upload, validate, confirm, cancel, retry, process | ingest, outbox, web page | crash between batches, replays, replaced files | each row once; complete means complete; confirmed bytes only, unless a late request writes over the import | `ImportBatch`, `ImportPage` |
| Outbox and queues (`outbox.ts`, `outbox.dispatcher.ts`, `queues.ts`) | outbox rows, jobs | append, claim, publish, mark; attempts, stalls | all writers and processors | published and not marked, dead letters | at least once, then once | `Outbox` |
| Provider sync, webhooks (`provider-sync.processor.ts`, `webhook.processor.ts`) | cursor, events | pages, reversals | ingest, outbox | late, repeated and failing items; syncs that overlap; refusals that look like success | the cursor stands behind durable work; a report is true | `ProviderFeed` |
| Exceptions (`exceptions.service.ts`, `domain/exceptions`) | exception rows | open, assign, resolve, reopen, comment | approve, ingest, close | two open at once; evidence read outside the transaction | resolved by somebody who saw what it was | `Exceptions`, `Review` |
| Suggestions (`suggestions.service.ts`, `domain/matching`) | suggestions by fingerprint | generate, store, supersede | approve, engine | generations overlap decisions | a fresh proposal fits what is open | `Matching`, `Review` |
| Idempotency and audit (`database/src/audit.ts`) | key records, audit rows | claim, complete, replay, purge | every mutation | a retry beside the first request | one effect per key | `Idempotency` |
| Billing (`domain/charges`, `periods`) | none | segments, truncation, proration, keys | charges | overlapping versions, month ends | each day billed once; pieces add up | `Billing`, `Calendar` |
| Money (`domain/money`) | none | decimals, splits, parsing | all | rounding twice, leftover cents | no cent lost | `Decimals`, `Amounts`, `Money` |
| CSV parser (`integrations/src/csv`) | none | tokenize, validate, write | imports | quotes, breaks, formulas | what is written is read back | `CsvCells`, `CsvRows` |
| Authorization, sessions (`domain/access`, `guards.ts`, `auth`) | sessions, memberships | sign in and out, `can`, scopes | every resolver, web client | access that changes between check and act | whoever acts was allowed to | `Access` |
| Assistant (`apps/api/src/assistant`) | runs, audit rows | tool loop, grounding | exceptions | invented records, budgets, crashes | an answer cites what its reader may see | `Assistant` |
| Lists (`pagination.ts`, resolvers, `apollo/client.ts`) | cached pages | walk, filter | web client | rows move between pages | nothing missed, nothing twice | `Listing` |
| Dashboard, cards (`dashboard.service.ts`) | none | figures | close | the same figure derived several ways | the figures agree | `Figures` |
| Web client (`apps/web`) | page state | import page, close checklist, workbench | API | answers late or lost, selection changed | a page acts on what it showed | `ImportPage`, `ClosePage`, `Review`, `Access`, `Listing` |
| GraphQL schema, complexity limits, observability, storage, seeds | | declarations, metrics, files | | | | section 8 |

## 2. Modules

Names of operators are those of the source where it has one.

### PeriodLocks

One property, periods `1..LastPeriod` in the order their lock keys sort in. A
session is `idle`, `locking` (asking for `want[t]`, with `todo[t]` still to
take), `deciding` (all locks held) or `committing` (it has read what it decides
on). `holder` is the table of advisory locks; `Finish` frees them, on commit
and on rollback alike, since they are transaction-scoped.

| Action | Code |
|---|---|
| `Begin` | a request arrives: kind, periods it will lock, version its controller saw |
| `Acquire` | `pg_advisory_xact_lock`; next in sorted order (`lockPeriodsInOrder`), in file order for an import batch |
| `DecidePosting` | `lockPeriodForPosting`, `assertPeriodsAcceptPostings`, the skipped rows of `processBatch`; no check at all in `applyProviderReversal` |
| `DecideTransition` | `startReview`, `close`, `reopen` up to their update: `assertPeriodTransition`, the version check, the blockers about periods |
| `CommitPosting`, `CommitTransition` | the writes, visible at commit; the version compared by the `updateMany` |
| `Rollback`, `DeadlockVictim` | crash, timeout, refusal; error 40P01 |

### Reconciliation

The rows of one property, with amounts in cents. An operation is three steps:
`Load...` is what it reads before it holds its locks (the page of the approver;
the rows the handler looks up to learn which periods to lock), `Enter...` is
the moment it holds them and reads again, `Commit...` makes its writes visible.
Between the steps any other operation may commit.

| Actions | Code |
|---|---|
| `Generate`, `Ingest` | `ChargesService.generate`, `TransactionIngestService.ingest`: rows nobody else has seen, one step under the period's lock |
| `LoadApproval`, `EnterApproval`, `CommitApproval` | `AllocationsService.approve`: versions of the page, `planAllocation` on the rows read under the locks, compare-and-swap of charges and payment |
| `LoadReversal`, `EnterReversal`, `CommitReversal` | `AllocationsService.reverse`: `planReversal`, compare-and-swap of the allocation only; charge and payment are written whatever their version |
| `LoadCredit`, `EnterCredit`, `CommitCredit` | `ChargesService.createCredit`: kind `credit` is dated in the charge's period, kind `datedCredit` wherever the caller says; no version compared |
| `LoadProviderReversal`, ... | `TransactionsService.applyProviderReversal`: status, allocations and charges read before the locks, and used after them |
| `Rollback` | crash, timeout, conflict |

An update that does not write a column leaves it as it is at the commit:
`Reallocated` writes `allocated`, `open`, `status` and the version but not
`credited`, `Recredited` the other way round, and both compute from the row
they read, not from the row they overwrite. `journal` is a set of entries named
by their posting event, so writing one twice is writing it once, as the unique
index makes it.

`PeriodLocks` has the order of locks and the status of periods and reduces
postings to counts; `Reconciliation` has the rows, grants all locks of an
operation at once and leaves periods open. A deadlock is then a rollback, which
`Reconciliation` allows anywhere.

### Outbox, ImportBatch, ProviderFeed, composed by Delivery

`Outbox` has the rows of the outbox (`outbox[e]`), the dispatch pass of each
worker process (`pass[w]`, a transaction: claimed rows are locked until it
commits or aborts) and the job named after each event (`jobs[e]`), which BullMQ
retries a bounded number of times and hands out again when the lock of the
process that ran it expires (`Stall`). It gives the other two `Appended`,
`Taken`, `Succeeded` and `Threw`, with which they append events in their own
transactions and take and finish jobs.

`ImportBatch` has the import of one file: `batch` (status, hash confirmed,
checkpoint, number created), `file` (the version of the bytes in the store,
which its URL allows to replace), `payments` and `records` (of each row),
`client` (requests at the API, in the steps between their awaits) and
`importRun` (what each process is doing).

| Actions | Code |
|---|---|
| `CreateUpload`, `Upload` | `createUpload`, the signed URL |
| `BeginValidate`, `MarkValidating`, `ReadObject`, `FinishValidate` | `validate`: status looked at once, written unguarded afterwards |
| `BeginConfirm`, `CheckStored`, `CommitConfirm` | `confirm`: hash compared with the row and with the stored bytes, then one transaction with the outbox event |
| `Cancel`, `Retry`, `ApiFails` | the same service; a request that dies between its steps |
| `TakeImport`, `MarkProcessing`, `BeginSlice`, `CommitSlice`, `Complete`, `FinishImport` | `ImportProcessor.process`: claim of the status, the bytes compared with the hash, a batch of rows with its checkpoint in one transaction, the final status |
| `FailBatch` | `failBatch`, then the error rethrown to the queue |

Requests overlap, and a late one may write over what the import has become
since it looked. Two history variables follow that: `confirmed`, the hashes that
were quoted, and `overtaken`, that a `validate` or a failed check wrote on an
import that was no longer the API's to write, or that `confirm` queued a hash it
had not compared. The properties of the import that such a write breaks except
it by name, and say so; those about money (`PaidOnce`) and about the contract
do not need to.

A slice looks its payments up (`BeginSlice`) and inserts them when it commits:
a run that overlaps another may have inserted one meanwhile (`Collides`), and
then the whole transaction fails.

`ProviderFeed` has the provider's stream `1..LastItem`: payments in and out,
reversals, items held back, sent twice, refused by a closed period, on accounts
that are not held, in another currency. Its state is `cursor` (offset and what
is deferred), `syncRun` per process, `paid`, `reversed`, `conflicts`, `hooks`
and `reports`.

| Action | Code |
|---|---|
| `RequestSync`, `TakeSync` | `requestSync`; the job begins with the stored cursor |
| `FetchPage` | `fetchTransactions` of the simulator, at most `MaxPages` in a run |
| `LookUp` | `applyOne` up to its look-up: an account that is not held is only logged; a payment is looked up inside the transaction that ingests it, the target of a reversal before it |
| `ApplyItem` | the insert (`Fits`: the unique index lets it through), the conflict, the currency mismatch, `applyProviderReversal`; two runs may have looked up the same item, and then the later insert can only fail |
| `SaveCursor` | the cursor moves behind the page; at the ceiling the run stops where it is |
| `ReportSync`, `FinishSync` | `PROVIDER_SYNC_COMPLETED`, then the job |
| `RejectSync` | a `ProviderError` that is not retryable: the job completes, nothing is reported |
| `ThrowSync` | any other error: the job fails and is retried |
| `StoreHook`, `ProcessHook` | the webhook's two halves |

`Delivery` composes the three: they meet in the outbox and its queues, and a
`Crash` ends everything a process was doing, whichever component it belongs to.
`ImportContract` is the abstract specification: rows settled for good, money
once per row, complete only when every row is settled. `ImplementsContract`
maps to it and is both checked and proved.

### Idempotency, Exceptions, composed by Review

`Review` is one payment between the proposals of the engine, two pages that
show it, requests that arrive late, twice or never, provider reversals and
conflicts found by workers, and the exceptions that tell what is wrong. It
takes `Claim`, `Complete`, `RollBack` and `Purge` of `Idempotency`, and of
`Exceptions` the effects on rows: `OpenOrUpdate` (found first, written by id),
`ReconcileAfterAllocation`, `ResolveAt`, `AssignAt`, `ReopenAt` (at the version
the page showed). Approvals, reversals and credits exclude each other by their
period lock; regeneration (`ReadPayment`, `ReadCharges`, `Store`), conflicts
and exception requests take none, and interleave with everything.

### Matching

The engine's rows and the payment's text as model values; `resolveReference`,
`findExactSubset` (its search a recursive function: `loop[i]` goes through the
charges from `i` on, `Entered` is a call of the search), `Fill` (charges in
order of due date), the drafts of each strategy and their classification.
Behaviours ingest, approve one proposal, and propose again. What the search
prefers is stated apart from it, as the comment on it has it: fewer charges,
then earlier due dates (`Preferred`).

### Calendar, Decimals, Billing

Dates as day numbers over the real calendar, decimals as an unscaled integer
with its places. `Billing` adds versions of a schedule, their truncation
(`TruncatedEnd`), `Segments` of a month, `prorateMonthlyAmount`, keys, the
preview, its confirmation, amendments and the end of a lease. Schedules of a
lease are billed side by side, and rents may be negative (concessions); both
matter to what can be promised of a month (`PiecesAddUp` is about one schedule).

### CsvCells, CsvRows, Amounts, Money

`Scan` is `tokenizeCsv` a character at a time; `Parse` is `parseImportCsv`
with the errors of rows and files, a data row at a time (`DataRead`, `AddRow`); `CsvCells` writes what is then read back.
`Amounts` is `parseAmountToCents` and `formatCents`; `Money` has
`allocateProportionally`, one leftover cent a step.

### Access, Assistant, Listing

`Access`: one person, the membership as others change it, sessions, the context
built when a request arrives and used later, the viewer the client holds, and
the controls of its pages: an action and, for an exception, the resolution
chosen. Workers are not in it: no job asks for a permission.
`Assistant`: the loop of `assistant.service.ts` with the scope of each tool, the
budgets and the schema's limits; the language model asks and answers anything,
the mock provider follows its plan. The row of a call and the event of its
refusal are two commits (`ExecuteOne`, `RecordDenial`), and any write of a turn
may fail (`WriteFails`). `Listing`: cursors, connections and the
client's one cached page per filter, while rows come and change.

### Figures, ImportPage, ClosePage

`Figures`: the rows behind every figure, payments of both directions, the operations that move money as
whole transactions with the periods they lock, and for each period a close that
gathers its facts query by query (`Steps`) while it holds the period's lock, and
looks at the preceding month alone (`priorPeriodStatus`); the dashboard's and the cards' figures are
operators over the same rows. `ImportPage`: several imports and the page that
keeps one validated hash for all. `ClosePage`: the checklist, its form state
and queries whose answers come late or never.

### Instances

`MCPeriodLocks`, `MCReconciliation`, `MCDelivery`, `MCReview` and `MCOffice`
instantiate these for TLC. `MCOffice` holds ten modules that share no state
(`Matching`, `Billing`, `CsvRows`, `Access`, `Assistant`, `Listing`, `Money`,
`Figures`, `ImportPage`, `ClosePage`): a behaviour is one of them, and the
variables of the others are parked at 0.

## 3. Runs

State counts are distinct states. Between them the passing runs fire every
action.

| Run | Instance | Result | What it shows |
|---|---|---|---|
| `period_locks` | 2 sessions, 2 periods, every kind of request, rollback anywhere | 579,444 states, holds | no checked posting enters a CLOSED period; a snapshot stays exact; compare-and-swaps never fail; transitions follow what was seen; waits climb |
| `period_locks_liveness` | the same with `MaxVersion = 2` and fairness | 84,886 states, holds | every transaction that asks for locks ends |
| `closed_period_reversal` | 1 period | violated | a provider reversal posts into a closed period |
| `import_lock_order` | 2 periods | violated | an import in file order deadlocks with a sorted transaction |
| `reconciliation` | 2 sessions, 2 charges, 2 payments over 2 months; approvals, reversals, credits | 395,776 states, holds | open balances, columns and payment totals never drift; approvals commit what was seen |
| `reconciliation_reversals` | 2 sessions, 1 charge, 2 payments, every operation | 660,425 states, holds | the ledger follows the rows; REVERSED is final |
| `reversal_races_approval` | 2 sessions | violated | a live allocation of a returned payment, unapplied cash negative |
| `same_charge_twice` | 1 session | violated | totals wrong after a legal sequence without a race |
| `credit_dated_elsewhere` | 2 sessions | violated | a credit overwrites the open balance an approval wrote |
| `delivery` | 2 workers, 2 requests at once, 2 events; a file of 2 rows with 2 versions; a stream of 5 items; up to 2 troubles | 186,421 states, holds | nothing lost or paid twice through crashes, stalls, retries and runs that overlap; a sync reports only what it delivered; the import implements its contract; every event and every queued import ends |
| `review` | 2 sessions, 3 requests, 2 charges, 1 payment, 1 regeneration, symmetry on sessions and charges | 305,856 states, holds | one effect per key; fresh proposals fit; a reversal leaves a blocking exception; resolved as seen |
| `office` | ten modules, one behaviour each | 1,776,806 states, holds | see below |

`office`, by property:

| Property | Module | What it shows |
|---|---|---|
| `ProposalsSound` | `Matching` | proposals fit the books and say what their strategy says; of all exact combinations the shortest is found, of those the earliest; a payment ingested without an exception has one proposal that finishes it |
| `MonthBilledOnce` | `Billing` | no day of a schedule billed twice for a lease as it was, or forgotten by one generation; the pieces of a schedule's month come to its rent; one rounding; due in the period |
| `RowsAccounted` | `CsvRows` | each row is kept or has its error, once; what `toCsvRow` writes is read back |
| `ActsWithinAccess` | `Access` | whoever acts was a member allowed to when the request arrived; who bills does not close; a button is refused only if something changed meanwhile, or an accountant chose a resolution kept for controllers |
| `AnswersAreGrounded` | `Assistant` | an answer cites only what a tool returned to this caller; gaps are told; refused calls have their events, but for one that a failure cut off |
| `WalkSeesAll` | `Listing` | who walks a list to its end saw every row that stayed, once |
| `MoneyExact` | `Money` | splits add up to the cent, in order of remainder; amounts are read as written |
| `ReadyMeansReconciled` | `Figures` | a month that closes stands as signed; ledger and charges differ by exactly what was paid across its end; pages show the checklist's figures but for payments that go out, which are named |
| `PagesActOnWhatTheyShow` | `ImportPage`, `ClosePage` | queued bytes reached the page first, unless a validation overtook the confirmation; ticks are not spent again after the close they were given for was answered |

Bounds, and why they suffice for the question asked:

- Two sessions or workers: every rule here is about a pair, one operation
  meeting another between its read and its write. The proofs lift this bound
  for what they cover.
- Two periods: a lock order, a prior period, and a charge in another month than
  its payment.
- `MaxPostings = 1`, `MaxVersion = 4`: one entry before or after a close, and a
  period that is reviewed, closed and reopened, which leaves a controller with
  a stale page. A request beyond a bound is refused by its guard.
- Amounts of one to three cents: a charge can be settled, half settled,
  credited in full or in part, and two lines can fit a payment apart and exceed
  it together. `MaxAllocations = 2`, `MaxCredits = 1`: a reversed allocation
  followed by a new one, two on one charge, one both allocated and credited.
- `delivery`: `SliceSize = 1` of two rows, so that there is a between; a second
  version of the file; one debit, one row whose period closes; pages of three of
  five items, with one held back, its reversal, a payment out sent twice, one on
  an account that is not held, one late and in another currency; a ceiling of two
  pages, which the stream exceeds. `MaxTroubles` bounds crashes, failures, stalls,
  aborted passes and repeated requests together (a request beside another counts
  twice, the feed has one trouble less than the import); an import and a feed
  share only the queues and are checked in separate behaviours.
- `review`: `MaxEvents = 4` requests and happenings together, each mutation with
  a key of its own, sent more than once.
- `office`: the bounds of each instance stand in its `WITH` in `MCOffice.tla`,
  among them the code's own limits scaled down: 5 of 6 charges as candidates,
  combinations of 3 (`Matching`); a leap February and March, versions that
  overlap, follow each other or begin at once, fees beside rents, a negative rent
  (`Billing`); three months, so that there is one before the preceding, with a
  payment in and one out, one close in progress and four writes (`Figures`); every text of up to
  four of ten characters (`Money`); pages of one and two rows with keys of one
  millisecond (`Listing`); three tool calls (`Assistant`).

`CHECK_DEADLOCK FALSE` stands in `delivery`, `review` and `office`: when
everything is delivered, answered or computed these systems stop. In the other
runs deadlock checking is on: a rollback or a refusal always leaves a session
free to begin again.

Each property was also seen to fail: `PROJECT.json` names, for each, a mutation
of one modelled definition (a lock set without the charge's own period, a
failed publication marked as done, a cursor that forgets what it deferred, a unique index that lets everything through, a
session that resolves for ever) that TLC refutes.

## 4. Fairness

`period_locks_liveness`:

- weak fairness of deciding and committing: once it holds its locks a handler
  awaits nothing but the database, and Prisma's transaction timeout ends what
  hangs;
- strong fairness of `Acquire`: PostgreSQL queues the waiters of a lock and
  wakes them in turn;
- weak fairness of `DeadlockVictim`: the deadlock detector runs whenever a wait
  exceeds `deadlock_timeout`. It is needed because of import batches alone;
- none of `Begin` or `Rollback`: nobody has to send requests or to crash.

`delivery`:

- weak fairness of `Claim`, strong fairness of `Publish` and `CommitPass`: the
  dispatcher's timer polls again and again, so one that is interrupted now and
  then gets a pass through;
- weak fairness of the steps of a run that a worker has begun, and of taking a
  job: a consumer polls its queue;
- weak fairness of `Stall` for a job whose process is gone: the lock of a job
  that nobody renews expires;
- none of crashes, failures, uploads, requests or syncs.

## 5. Proofs

Proved for all values of the constants that meet the modules' named
assumptions. Eight modules hold theorems; `PROJECT.json` lists those a reader
should know of, the lemmas stand beside them.

`PeriodLocksProofs`. The inductive invariant is

    TypeOK /\ LockDiscipline /\ SortedSoFar /\ VerdictStands /\ TransitionStands /\ SnapshotExact

`LockDiscipline`: a session past locking holds every lock it needs, and what it
needs it either holds or has still to take. `SortedSoFar`: what a session that
sorts holds is below what it asks for. `VerdictStands`: what a posting found
open is open while it commits, since only the holder of a period's lock changes
its status. `TransitionStands`: status, version and count a transition read are
still those of the row. They give `TypeCorrect`, `SnapshotIsExact`,
`CompareAndSwapNeverFails`, `SortedLocksCannotDeadlock`,
`ClosedPeriodsRefusePostings` and `ControllersSeeTheLastTransition`.

`ReconciliationProofs`. `IInv` says that locks of sessions that hold theirs are
disjoint, that each operation holds the period of the payment it writes
(`Requests`), and therefore that the payment it read under its locks still is
the row (`PaymentStands`), that what it read has the versions of its approver's
page (`SeenIsRead`), and that a REVERSED payment has nothing allocated. It
gives `ReversalsAreFinal` and `ApprovalsMatchThePage`. `CInv` adds the same for
charges, with the plan's inequality, and that each row is in step. It is
inductive only under `InPeriodOnly`, no `datedCredit` and no
`providerReversal`: those two write charges without their lock or from rows
read before it, and the violated runs show what becomes of the columns. It
gives `ColumnsStayInStep`.

`DeliveryProofs`, for any number of processes, events, rows, items and clients,
with crashes, stalls and failures anywhere:

- `OutboxInv`: rows a pass has claimed exist, what it counts as published is in
  its queue (`ClaimsStand`), and no job is without its row (`JobsHaveRows`). It
  gives `DispatchedReachedItsQueue`.
- `PaymentsInv`: nothing is paid twice, because a slice inserts only what
  collides with nothing at its commit. It gives `RowsPaidOnce`.
- `FeedInv`: the cursor stands behind items that left their mark (`Behind`), and
  so does what a run that is under way holds in its hands (`RunStands`): the
  cursor it fetched with, the page applied up to where it is, the look-up it has
  made, which may since be outdated in one direction only (a payment that was
  found stays). A payment is inserted only where the unique index has none, so
  runs may overlap between look-up and insert in any number. It gives
  `FeedPaidOnce`, `CursorStandsBehindWork` and `ReportedSyncDelivers`.
- `ImportInv` and `SettledBehind`: an import nobody queued has left no trace
  (`Untouched`), and of one that was queued and not overtaken (`Underway`)
  records and payments are of the confirmed file alone, rows up to the checkpoint
  are recorded, the number created is the number of payments made, and each run
  has recorded what lies behind its place in the file (`RunFollows`). Any number
  of requests and of the worker's runs may overlap. It gives `CheckpointDurable`,
  `CompletedIsWhole`, `ConfirmedBytesOnly`, `CreatedExactly` and `CancelledStays`,
  each of which holds until a request overtakes the import and says so in its
  statement. `ImportImplementsContract` needs no such exception: every step of
  the system is a step of `ImportContract` or a stutter.

`FiniteSums`: facts about sums over finite sets (taking an element out, changing
one summand, unions, renamings, groups, bounds, a common factor), for any
function, and about division. The library's
induction takes an operator as its parameter and cannot be used, so each fact
is proved from a least set that would contradict it, which is a set and not an
operator.

`ReconciliationProofs` also has, for any number of charges, payments, sessions
and rows:

- `LInv` adds to `IInv` that each payment's total, limit and status are what its
  ACTIVE allocations make them, and that the journal is exactly the entries the
  rows call for, one for each charge, receipt, allocation, unwound allocation,
  returned receipt and credit (`JournalOfRows`). The balances follow in any
  state by adding up each kind of entry. `PaymentsStayInStep` and
  `LedgerStaysWithRows` hold with every operation, provider reversals included,
  because whoever writes a payment holds its period.
- `TablesAreTyped` needs besides that sessions lock periods of the property.
- `OInv`: the open balance of a charge is its amount without ACTIVE allocations
  and credits, under `InPeriodOnly` as `ColumnsStayInStep`. An approval plans
  with what it reads under its locks, and a reversal gives back one allocation,
  whose amount is part of the sum. It gives `OpenBalancesAreOwed`.

`ReviewProofs`, for any number of sessions, requests, charges and exceptions.
`RInv` says that

- versions only climb, so what a page, a worker or a session saw of a row is
  outdated by its version, or still what the row says;
- those who write the payment exclude each other, so what one of them checked
  under the period lock holds when it commits;
- the record of a key is held by one session at a time, and a request whose
  key was purged finds its effect in the rows themselves (an approval the
  version of its payment, a reversal the status of its allocation);
- an exception that a reversal has found stays unresolved until the reversal
  commits, unless a person resolves it, knowingly or after.

It gives `RepeatedRequestsWorkOnce`, `OfferedProposalsFit`,
`ReversalsAreAnswered` and the action property `ResolutionsAreSeen`. What
`Review` needs of its constants (`ReviewAssumption`) is that amounts are
naturals, charges are finitely many, and each request may have a key of its own.

Also in `ReviewProofs`, about what is proposed:

- `ProposalsAreSound`, under `MatchingAssumption` (balances are whole cents, a
  payment that is matched is of money received), for any charges, tenants,
  references and limits. The invariant is `Proposed`: proposals that are there
  are those of the book as it is. What `findExactSubset` finds is proved from
  the last charge back (`LoopFinds`, over the least number of charges for which
  it would fail). A state of the search (`Searching`) knows the combinations it
  still tries, and that what it has found comes before them by due date; its
  result (`Found`) is at least as good as each of them, and no worse than what it
  had. The two cuts, at `MAX_COMBINATION_SIZE` and at the size of the best found,
  lose nothing that `Preferred` would have chosen. That nothing payable is
  without a balance is needed: a combination within another that comes to the
  same is the same (`SameSumSameSet`), so the search may stop where nothing
  remains.

`OfficeProofs`, about parts that share no state, each with an invariant of its
own:

- `AccessIsRespected`. What was done keeps the membership of the moment its
  request arrived, and that membership allowed it. Memberships of one tenure
  have one role, and a page offers what is allowed as long as nothing has changed
  since it was loaded, but for the two resolutions it offers to every role.
- `AssistantIsGrounded`, under `AssistantAssumption`. Every
  record that was retrieved may be seen by the caller, an answer cites retrieved
  records alone and tells each gap, and every refused call has its event, but for
  the last one while it is being written or when the run ended there. The
  mock provider has one call under way at most, a step of its plan it has not
  taken, about a payment an earlier result named; so it makes as many calls as
  it has called tools, four at most.
- `QueuedIsSeen`. The hash a page holds or a confirmation carries has reached
  the page, and after a confirmation has looked the batch has that hash until somebody
  validates, which marks the confirmation as overtaken (`anew`).
- `TicksAreSpentOnce`, under `ClosePageAssumption`. The ticks of a press are
  younger than the last close the page saw succeed, and what is told to have
  succeeded was settled by then, so later presses share no tick with it. A
  period closed at a version has moved on at least as many versions as its
  status is transitions away, hence three before it can be closed again.
- `ProratedOnce`, rounding at the intermediate scale first does no harm for any
  amount and any length of month (the quotient, scaled up, is never so near
  half a cent that rounding it there moves it across), and
  `SplitMonthWithinACent`.

- `MonthsAreBilledOnce`, under `BillingAssumption`, for any lease, calendar
  months, amendments and sessions. The invariant is

      BillingTyped /\ ChargesFit /\ GenerationsFit /\ RoundedOnce /\ NoDayTwice /\ DueInPeriod

  `ChargesFit`: a charge generated since the last amendment is one the lease is
  billed. `GenerationsFit`: of a period generated since then all the lease is
  billed is there, under its key. The versions of a schedule that
  `detectOverlaps` leaves lie apart, and cover the days their originals were in
  force; a month's days are counted by the calendar; so the pieces of a month
  divide its days among themselves, and each is within half a cent of its share
  (`FiniteSums`). Assumed are a scale with its power of ten, of which the
  provers know nothing (`INTERMEDIATE_SCALE` is 12 in the code), and rows as the
  constructors of ranges and due dates let them through.

`FiguresProofs`:

- `FiguresStand`, under `FiguresAssumption` (finitely many rows with their
  columns), for any rows, months and closes in progress at once. The invariant
  is `Rows /\ CloseTyped /\ SignedFits /\ GatheredFits`. `Rows` ties every
  figure to the table of allocations: what is allocated on a charge or of a
  payment is what that table adds up to, nothing of a payment that goes out, and
  a month's ledger is what its rows add up to, allocations counted in the month of
  the payment, and the receipt of a payment that goes out only when it was
  reversed. The difference
  between ledger and charges (`CrossCheckExplained`) and the equality of the
  figures of dashboard, cards and lists follow in any such state. `SignedFits`:
  behind a month whose snapshot stands all months are closed, and its figures
  are those signed. `GatheredFits`: what an undisturbed close has gathered is so
  still, because what it reads lies in months that are closed or whose lock it
  holds.
- `SplitsAddUp`, under `MoneyAssumption` (whole cents, no negative weight), for
  any number of weights. Fewer cents are short after truncation than there are
  parts with a remainder, and serving by remainder and place ranks the parts
  without gaps; so a turn serves each part at most once and no part without a
  remainder, and the loop ends before it goes round.

`ListingProofs`:

- `WalksSeeAll`, under `ListingAssumption`, for any rows, keys, filters and page
  sizes, however often rows change. What was seen is one sorted sequence
  (`InOrder`), and every row that stayed is seen, lost to the grain of the
  cursor, or after the cursor that the next page is asked from (`Walking`).
  That the numbers of an import's rows are their own (`NumberKeys`) is needed,
  since their cursor has no tie-breaker.
- `RowsEndOnce`, under `CsvAssumption` (a text is a sequence of characters): of
  any text that is read, each data row is kept or has an error, once. It holds
  of every prefix of the rows (`ReadFits`); the induction is over the least
  number of rows for which it would fail.

The theorems of these modules whose names are not those of a property are
about the definitions that the properties of `office` consist of
(`A!ActsWithinAccess` in `ActsWithinAccess`, and so on), for the part's own
`Init` and `Next`. `MCOffice` evaluates the eight assumptions
(`AssistantAssumption`, `ClosePageAssumption`, `BillingAssumption`,
`FiguresAssumption`, `MoneyAssumption`, `ListingAssumption`, `CsvAssumption`,
`MatchingAssumption`)
for its instances. Each invariant was also checked by TLC on an instance before
it was proved.

Proving `MonthsAreBilledOnce` corrected the model: `PiecesAddUp` once added up
the pieces of all schedules of a lease, which fails as soon as two of them are
billed in one month; it is about the pieces of one.

Only model-checked:

- liveness, which is outside the prover's reach;
- of `RowsAccounted`, that what was written is read back (`ReadBack`,
  `AmountsSurvive`), and of `MoneyExact`, that an amount is read as written
  (`ReadAsWritten`): the writers and the decimals' digits are folds over text,
  and what they compute would need induction over data.

## 6. Findings

Each is a run that TLC ends with a violation; the quoted text and lines are in
`PROJECT.json`.

1. `applyProviderReversal` takes the period locks and never looks at the status
   they protect: it posts into a CLOSED period, where the integration contract
   and a comment in the same file say it is refused.
2. `processBatch` takes locks in file order, where `locks.ts` says every
   transaction takes them in sorted order. The victim is rolled back and
   `runInTransaction` runs it again, three times at most; no row is left half
   written.
3. `applyProviderReversal` reads the allocations to unwind before its locks: one
   approved in between survives under a REVERSED payment and unapplied cash
   goes negative.
4. Its loop computes each update of a charge from the row read before the loop:
   with two allocations of the payment to one charge only one is subtracted.
   No concurrency is needed.
5. `createCredit` with a posting date in another month locks that month alone
   and writes the open balance from what it read: a concurrent approval is
   overwritten.

## 7. Other disagreements met

Where code and text disagree and no run is about it. The models do what the code
does in each case, unless section 8 says otherwise.

Imports and queues
- `failBatch` sets FAILED and rethrows; BullMQ's retry then finds FAILED and does
  nothing (`import.processor.ts:168`: "the checkpoint means the retry resumes").
- `validate` writes the status three times after one look
  (`imports.service.ts:177-232`): beside another request it brings a CANCELLED,
  QUEUED or COMPLETED import back. `confirm` compares the status and not the
  hash in its update (`:356`): an import validated anew between its checks and
  its update is queued with bytes nobody confirmed, against decision 2 of the
  service (`:13-16`). `delivery` runs with two requests at once and reaches both;
  `OnlyConfirmedBytes`, `CancelledIsFinal`, `CheckpointIsDurable`,
  `CompletedLosesNothing`, `CreatedIsExact` and `QueuedBytesWereSeen` except an
  import after such a write (`overtaken`), so they do not catch it.
- Runs that overlap count rows twice in `processedRows`, turn CREATED records
  into DUPLICATE and may move the checkpoint back. A failing audit write after
  COMPLETED turns the import FAILED. A third stall fails the job and leaves the
  import PROCESSING.
- `outbox.ts:11`: "every consumer deduplicates on ProcessedEvent"; only the
  webhook consumer does. `queues.ts:5-6`: after a loss of Redis "the outbox still
  holds the events, and the dispatcher republishes them"; a row marked
  DISPATCHED is never published again.
- A payment out that is redelivered is reported as a conflict. A reversal that
  arrives before its late target is a conflict, and the target is then ingested
  unreversed; one by webhook is only logged (`webhook.processor.ts:128`). A sync
  stream that ended starts over. One item that always fails holds the cursor.
- A sync that the provider refuses for good completes its job like one that went
  through (`provider-sync.processor.ts:154-157`), without the audit event and
  with an error on the connection; a run at its ceiling of pages writes the event
  `PROVIDER_SYNC_COMPLETED` although the stream goes on (`:86-92`), and nothing
  requeues it. `ReportedSyncDelivered` is therefore about the event, and about
  runs below the ceiling.
- A transaction on an account that is not held is only logged, and the cursor
  passes it (`provider-sync.processor.ts:176-183`): when the account is connected
  later it is not fetched again until the stream starts over.
  `CursorBehindWork` and `ReportedSyncDelivered` except such items.

Review
- Two open exceptions of one payment are possible (`exceptions.service.ts:71`
  says at most one); an allocation that uses the payment up resolves a
  blocking exception of any category; a partial one downgrades it. Evidence of
  a resolution is gathered outside its transaction.
- Storing proposals again revives APPROVED, REJECTED and SUPERSEDED ones
  (`suggestions.service.ts:157` against `:203-211`); generations that overlap
  supersede each other's fresh ones.
- A unique violation in `claimIdempotencyKey` aborts the transaction it is
  caught in. The request hash leaves out `expectedChargeVersions` and the
  close's `expectedVersion`. `client.ts:98` tells a person "Your change was not
  saved" when the answer was lost, though it may have been.
- The 200 oldest charges are candidates, settled ones included
  (`suggestions.service.ts:88-93`): after 200 settled charges of a property
  nothing is proposed. The assistant's tool has the same pattern with 15.
- A payment that is the sum of more than five charges gets no proposal; two
  proposals make AMBIGUOUS_MATCH although the summary says "scored equally".
- `reverse` computes a forced posting date and then refuses it
  (`allocations.service.ts:766` against `:620`).

Billing and money
- One rent whose share of a month comes to nothing, or a concession, has no
  journal entry (`posting.ts:91-99`, `:151-155`), and the whole generation of the
  property is rolled back, the other leases' charges included (`Postable`,
  `Refuse`).
- `assertPreviewUnchanged` compares keys: an amendment of the amount alone posts
  another amount than was previewed (`charges.service.ts:297`). No property
  catches that.
- Overlapping versions are truncated at the next start, so the days after a
  short later version are not billed. After an amendment that moves a boundary
  already billed, generating again bills days twice: `MonthBilledOnce` is about
  charges of the lease as it was at one time.
- `decimal.ts:5-7`: "rounded exactly once"; division rounds at scale 12 first,
  which `ProratedOnce` shows harmless. `parseAmountToCents("(-5)")` is 5.

Access, assistant, lists
- `tools.ts:186`: a membership suspended mid-run stops the next tool call; the
  context is the one of the request's start. Grounding looks at ids alone. A
  crash leaves a run RUNNING; an error after SUCCEEDED makes it FAILED.
- `permissions.ts:178-184`: decisions that need a named person, reversing an
  allocation among them, are denied to workers "even when the borrowed role
  permits it". No job looks the list up, since none asks for a permission, and
  workers do reverse allocations when the provider takes a payment back
  (`provider-sync.processor.ts:266`, `webhook.processor.ts:136`,
  `transactions.service.ts:137-203`). `Access` makes no claim about workers; what
  such a reversal does is in `Reconciliation`, `Review`, `Figures` and
  `ProviderFeed`.
- The exception page offers every resolution to whoever may resolve
  (`ExceptionWorkspace.tsx:30-42`), WRITTEN_OFF and CLASSIFIED_UNAPPLIED among
  them, which the rules refuse to an accountant (`rules.ts:258-267`).
  `NoDeadButtons` excepts these two.
- The row of a refused tool call and its audit event are two commits
  (`assistant.service.ts:370`, `:384`): a crash or a failed write between them
  leaves a refused call without its event. `CallsAccounted` allows for one, in a
  run that is not SUCCEEDED.
- A session is created before the audit transaction of the sign-in and survives
  its failure. PROPERTY_MANAGER may not read suggestions but the payment page
  asks for them.
- The second page of receivables and of transactions is refused: the cursor is
  an instant to which the resolver appends another time
  (`receivables.resolver.ts:77`). Cursors keep milliseconds of columns that have
  microseconds; `WalkSeesAll` excepts rows lost in that grain, and walks on
  which Next was pressed while another page showed, so it catches neither.

Close
- A payment that goes out is kept as a row, UNAPPLIED, with no receipt and no
  exception (`transaction-ingest.service.ts:220`, `:261`). The checklist looks at
  no direction: it counts the payment as unreviewed, which blocks the close of
  its month and which no resolved exception lifts (`close.service.ts:131-138`),
  and in the totals of the snapshot (`:140-147`), where the dashboard takes
  CREDIT alone (`dashboard.service.ts:112-121`, `:184-193`; `loaders.ts:248-256`).
  A reversal of it takes back a receipt that was never posted
  (`transactions.service.ts:73-222`), and unapplied cash in the ledger falls below
  what the rows say. `FiguresAgree` states each difference by its amount.
- A payment with cash left whose exceptions are all resolved counts as
  unreviewed and blocks the close, one with an open non-blocking exception does
  not (`close.service.ts:131`; `docs/reconciliation-rules.md:248` says the
  opposite). A payment dated in another month than its charge makes the two
  derivations differ and blocks the close: `CrossCheckExplained` states the
  difference.
- A close looks at the preceding month alone (`close.service.ts:110`): a month
  can be closed while one before the preceding is open again, and what is
  posted there afterwards moves its balances. Such a snapshot is excepted
  (`disturbed`).
- A provider reversal or a reopening of an earlier month while the figures are
  gathered makes the snapshot wrong at signing (excepted as `disturbed`).
- Acknowledgements carry over to another period or property
  (`CloseWorkspace.tsx:107`; `TicksSpentOnce` does not catch it), and `readyToSubmit` guards the box, not its
  button. Checklist and version are two queries, so the version sent may be
  newer than the checklist (`close.service.ts:392`).
- The import page keeps its validated hash across imports
  (`ImportCenter.tsx:277`): another READY import is then refused until it is
  validated again.

## 8. Abstractions, and what is not modelled

- Audit rows: append-only, read by nothing that decides. Comments of exceptions
  likewise.
- Properties other than one, organizations and currencies, except in `Access`,
  `Assistant` and `CsvRows`: locks and rows of different properties are
  disjoint, and a request of the wrong organization is refused before any step.
- `Reconciliation` has payments that come in alone: those that go out are never
  allocated, and what they do to the figures is in `Figures`, their redelivery in
  `ProviderFeed`. `Review` and `Matching` are about one payment that came in.
- The system context of workers and its list of denied actions: nothing looks
  it up (section 7).
- `Reconciliation` leaves out the suggestions, exceptions and outbox rows its
  operations write; they influence none of its variables. `Review` has them.
- A unique violation that is caught inside an interactive transaction leaves
  PostgreSQL's transaction aborted. For the journal, writing twice is modelled
  as writing once; the abort is a `Rollback`, in `ImportBatch` a failed batch.
- Row locks and PostgreSQL's other waits: `approve` updates ledger accounts
  before charges (`ledger.ts:42`), a credit the other way round, and under
  different period locks the two can wait for each other. Such a cycle ends in a
  victim that is run again.
- Redis coming back empty: the code does nothing about it, and any liveness of
  `delivery` would be false.
- The limit of 50 webhooks per sweep; `lastErrorMessage` and `lastErrorAt` of a
  connection, which nothing decides with; the schedule of retries (a job or row may be tried at any time).
- The match scores, but for what orders and classifies proposals; how text is
  normalised, but for words being equal.
- Passwords, CSRF tokens, `lastSeenAt`; query complexity limits, loaders' batch
  order, metrics, health checks but for the readiness they report; files and
  signed URLs; seeds; the rates and trends of the dashboard; layout, toasts and
  navigation of the web client. They are stateless, or input and output.
- Whole-program liveness of people: nobody has to approve, resolve or close.

## 9. What is left

1. An account book as an abstract specification of `Reconciliation`, entry by
   entry: `ReconciliationProofs` has the lemmas such a refinement needs.
2. Row locks as a lock-order module, and Redis's loss beside a republication the
   code does not have.

## 10. Running

    tlc -workers 2 -config PeriodLocks.cfg MCPeriodLocks
    tlc -workers 2 -config Reconciliation.cfg MCReconciliation
    tlc -workers 2 -config Delivery.cfg MCDelivery
    tlc -workers 2 -config Review.cfg MCReview
    tlc -workers 2 -config Office.cfg MCOffice
    tlapm PeriodLocksProofs.tla

The other configurations run the same way: `PeriodLocksLiveness`,
`ClosedPeriodReversal` and `ImportLockOrder` with `MCPeriodLocks`,
`ReconciliationReversals`, `ReversalRacesApproval`, `SameChargeTwice` and
`CreditDatedElsewhere` with `MCReconciliation`; `ReconciliationProofs`,
`FiniteSums`, `ReviewProofs`, `DeliveryProofs`, `OfficeProofs`, `FiguresProofs`
and `ListingProofs` with tlapm. A run of the larger ones takes about two
minutes, a proof from nothing up to ten.
