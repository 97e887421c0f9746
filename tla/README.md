# A formal model of webhook-payment

TLA+ specifications of the payment service in `src/`: what it does with the
invoices it issues, the events Stark Bank delivers about them and the money it
sends on; model-checked with TLC on small instances, with safety theorems proved
by TLAPS for instances of any size.

## 1. The system

A FastAPI service issues batches of invoices at Stark Bank, listens to the bank's
webhooks, and sends the net amount of every invoice that was credited to a fixed
account. A daily job reconciles what webhooks missed. All state is in one SQLite
file (WAL); `supervisord` runs several uvicorn workers over it
(`WEB_CONCURRENCY`), each with its own event loop, its own `asyncio.Lock` and its
own APScheduler.

| component | state | operations | interacts with |
|---|---|---|---|
| webhook (`modules/webhook`) | `webhook_events`; the in-memory `_webhook_lock` | parse, check, insert, handle invoice / transfer / other event, commit, answer | transfer, invoice and transfer tables |
| payout (`modules/transfer`) | `transfer_records` | `transfer_credited_invoice`: flush row, call the bank, settle the row | called by webhook and reconciliation; bank |
| reconciliation (`modules/scheduler/reconciliation`) | none; a session | load pending invoices, fetch each, recover payouts, commit; the same for transfers | bank, transfer, scheduler job |
| issuance (`modules/invoice`) | `invoice_batches`, `invoice_records` | `issue_batch` | bank; called by scheduler and API |
| scheduler (`modules/scheduler/service`) | `schedule_cycles`, `scheduler_state`; `current_mode`, next run time | boot, interval job, manual cycle, mode change, reset | issuance |
| database (`infra/db`, `shared/repository`) | the file, its write lock | flush, commit, rollback, busy timeout | everybody |
| listing (`shared/pagination`, routers) | none | COUNT, then SELECT with OFFSET/LIMIT | a client walking through pages |
| Stark Bank (external) | invoices, transfers, events to deliver | status changes, deliveries, create and get calls | webhook, payout, reconciliation, issuance |
| dashboard (`modules/dashboard`) | none; a session | two aggregate queries, then the summary | reads the invoice and transfer tables |
| exceptions (`core/exceptions`) | none | SDK error to service exception, service exception to HTTP status | decides what the bank delivers again |
| configuration (`core/config`) | the settings | validators that replace or clamp what the environment says | scheduler, reconciliation |
| middleware, cryptography, migrations | - | - | not modelled, see section 7 |

What is hard here, and what makes each part correct:

* **Workers meet only in the database.** `_webhook_lock` serialises the webhooks
  of one process. Between processes only the write lock and `UNIQUE(event_id)`
  help: one event, one transfer row (`OneRowPerCause`), and event and row
  permanent together (`EventWithRow`, `LedgerImplemented`).
* **A call to the bank in the middle of a transaction.** The row is flushed, so
  the write lock is held while the bank is called (`PayoutHoldsLock`,
  `LockReleased`). If the call's answer is lost or the worker dies, the rollback
  hides a transfer that was executed (`PayoutsOnTheBooks`, `PayoutsPerInvoice`).
* **Order.** Events arrive in any order, before the batch that issued their
  invoice is committed, and before the row of their transfer is committed
  (`EventWithRow`, `SkippedForGood`, `StatusWasReached`, `TransfersSettle`).
* **Redelivery.** What is answered 2xx is never sent again (`AckedIsStored`); what
  failed must leave nothing behind (`FailedDeliveryIsClean`), or the redelivery is
  taken for a duplicate (`EventuallyStored`).
* **Check, then act.** The reconciliation looks for a transfer, then pays
  (`RecoversOnlyUnpaid`); the scheduler counts cycles, then issues
  (`QuotaKeptUnlessLost`); COUNT, then SELECT (`MissesBounded`).
* **Restarts and late starts.** A cycle may start up to `misfire_grace_time` after its
  slot with the next one still at its own, and a restart cuts the wait that is left to
  whole seconds: batches must not come closer than the interval by more than that
  (`CyclesSpaced`). The mode must survive restarts, mode changes in two workers at once
  included (`ModeKept`).
* **Time.** The daily reconciliation looks back as far as its runs are apart, so an
  invoice on the edge depends on the run being in time; a worker that is down at the
  hour, a run that is still busy at the next one, and a run that starts late all
  lose some; and an invoice written down as overdue is looked at by none
  (`PaidInTimeIsRecovered`, `EventuallyRecovered`).
* **The status of an error.** One that came out as a 2xx would acknowledge an event
  that was rolled back (`AckedIsStored`); a repeated event that did not would be
  delivered for ever (`EventuallyAcknowledged`).
* **Two queries, one answer.** The dashboard adds up invoices, then transfers, while
  others commit, and of different amounts: an invoice is on record with the amount it
  was issued with, its payout is computed from the amount it was paid with
  (`LiquidatedIsCovered`).

`PROJECT.json` lists these hazards with their lines.

## 2. Modules

```
Settings             validators of the settings
ExceptionHandlers    error to exception to HTTP status
PaymentData          vocabulary, constants, assumptions (extends the one above)
  Database           committed tables, the writer's tables, the write lock
  StarkBank          the bank (external)
    TransferService          transfer_credited_invoice   (extends both)
      WebhookService         process_webhook
      ReconciliationService  run_reconciliation
      InvoiceService         issue_batch
        PayoutSystem         all of them, crashes, fairness, properties
          DashboardService   and somebody who reads the summary
PayoutLedger         what the books promise, abstractly (PayoutSystem refines it)
Scheduler            cycles, quota, mode, restarts, several workers (uses Settings)
ReconciliationWindow the reconciliation in time                    (uses Settings)
Pagination           page arithmetic
  Listing            a client walking the pages of a changing list

PayoutProofs, EventProofs, FaultProofs
                     theorems about PayoutSystem, each on the ones before
DashboardProofs      theorems about DashboardService, on all of these
SchedulerProofs      theorems about Scheduler
ListingProofs        theorems about Listing
WindowProofs         theorems about ReconciliationWindow
Counting             lemmas about sets of bounded size, least and largest numbers and
                     sums (used by Fault-, Dashboard-, Scheduler- and ListingProofs)
MCPayout, MCDashboard, MCScheduler, MCWindow    instances for TLC
```

Operators that begin with a comment `Mutation:` are plausible bugs of the code
(a dropped guard, a commit in the wrong place). No specification uses them; each
was put in place of the definition that follows it, to see that the properties
notice. Each run is paired with them in `PROJECT.json`.

### How state and steps correspond to the code

* `db` is what is committed, `work` what the session holding the write lock sees,
  `writer` that session's process. SQLAlchemy opens no write transaction for a
  SELECT, so reads outside a transaction see `db`. The first flush takes the lock
  (`Flush`), `session.commit()` gives it back (`Commit`), closing the session
  undoes (`Rollback`). Autoflush before a query is a flush: `PayMissing` and
  `SkipPayout` flush the statuses set so far.
* `pc[p]` is the point where a request, job or batch could be overtaken by another
  process: after an `await` on the bank, the database or a lock. Between two such
  points everything is one action. The statements in which a process holds the
  write lock are split only where the bank is involved or the code loops: nobody
  else can see the difference.
* `order[p]` is the ORM object of the transfer row that `transfer_credited_invoice`
  works on; ids of rows are numbered by `lastRow`, and the id of a row also names
  its execution at the bank.
* Calls to the bank are two actions, "the bank executes" and "the answer arrives",
  so that a lost answer (`CallFails` from `executed`) and a crash in between are
  there. The service sends no external id, so a repeated request is executed again.
* An event id stands for object and log type: the bank repeats the id on every
  delivery. A delivery is possible until the bank has seen a 2xx.
* `loaded`, `changes` and `item` are the local variables of a reconciliation run:
  rows still to be looked at with the status they were loaded with, statuses set on
  objects and not flushed, and the invoice whose transfer is being looked up.

### Abstractions

* An invoice has three amounts: `Issued`, which its record keeps
  (`invoice/service.py:107`), `Gross`, which the bank reports in the event and to the
  reconciliation once it is paid (fine, interest or a discount included), and `Fee`.
  Payouts come from the last two, the dashboard's credited sum from the first. Names,
  tax ids, accounts, payloads and times of the money path are left out.
* An `overdue` invoice can still be paid, and `overdue` is not pending
  (`invoice/repository.py:60`). The invoices of `Lapsing` may become it: the bank is
  asked for them, and has their event delivered, in that status. `overpaid` and
  `expired`, which no code tests, are folded into `canceled`; a transfer's `canceled`
  into `failed`.
* A transfer event may carry a status of the transfer later than its log type, and the
  code prefers it (`webhook/service.py:115`): `SnapshotOf`.
* A wait for a lock has no length. `busy_timeout` is a fault that may strike whenever
  a flush finds the lock taken.
* In `PayoutSystem`, `RECONCILIATION_LOOKBACK_HOURS` is the fault `age`: any item may
  leave the window at any time. A reconciliation run that would load nothing is left
  out. `ReconciliationWindow` has the clock instead, the cron job with its misfires and
  the age of every invoice, and folds a run's steps for one invoice into one.
* `RECONCILIATION_ENABLED` is taken to be true: without it there is no job.
* Faults are counted by kind: `Budget` bounds each kind, `MaxKinds` the number of
  kinds one behaviour combines. No theorem depends on either.
* In the second phase of a run the session still holds the objects of the first
  phase; none of its queries reads them, so they are dropped.
* `autocommit=True` of `transfer_credited_invoice` has no caller and is left out.
* `Scheduler` leaves the write lock out: commits are single steps there, and a refused
  one is the fault `busy`. Its workers are several, each with a scheduler, a mode in
  memory and a next run; they share cycles, batches and the state row.
* In `Scheduler` and in `ReconciliationWindow` time passes at any point, also while a
  job is due. A job that starts late is one run for all the slots it missed (`coalesce`),
  is dropped when it is later than `Grace`, and has its next run at its next slot
  (`Slot`, `Fire`). A tick is a part of a second: `FirstRun` cuts what is left of an
  interval to multiples of `Second`, as `int()` does (`scheduler/service.py:97`).
* `Listing` numbers the rows of the table by `created`. The list is any set of them: a
  row enters it anywhere, because it gets the status of the filter, or because it is new
  and was committed later than younger ones, `created` being set before the wait for the
  write lock (`shared/models.py:22`). Rows with equal `created`, which the query leaves
  in any order, are left out.
* `DashboardService` keeps sums and counts of the two queries; `known` and `Unmatched`
  are history, to say which liquidated rows the first query could not have matched.

## 3. Runs

`MCPayout` instances: `i*` invoices, `w*` workers, `r*` request slots, `j*`
reconciliation jobs, `b1` one batch; `r1, j1, b1` live on `w1`, `r2, j2` on `w2`.
Faults named are allowed once each (`Budget`), in one behaviour up to `MaxKinds` of
them. Slots are recycled, jobs start again and again, so one slot or job per role
gives every sequence of its calls; two give every interleaving of two.

| run | instance | shows |
|---|---|---|
| `workers` | 2 requests on 2 workers, 1 invoice, credited and transfer events; every fault but aging, any three kinds | types; locks, books and skipped transfer events across workers; acknowledged events are stored, failed deliveries leave nothing, rows stand for money, up to the faults; only a paid invoice on record is paid out; `LedgerImplemented` |
| `reconcile` | reconciliations of w1 and w2 and a webhook on w2, 1 invoice; lost reply or lock timeout | an invoice is recovered once and only while unpaid, `LedgerImplemented` |
| `dashboard` | a reconciliation of two invoices, issued with 100 and paid with 120, one reader; crash | a crash loses at most the payouts of one run; the summary shows more liquidated than credited only by the surcharges |
| `delivery` | fair; 2 requests on 2 workers, an ordinary and a worthless invoice; crash, refused call with either of two errors | every event stored and acknowledged in the end, and the worthless invoice never paid out; lock given back |
| `recovery` | fair; no invoice event arrives, transfer events "processing" and "success" on w2, a reconciliation on w1; the invoice may fall due; a crash, a refused call or aging, one of them | every paid invoice is paid out unless it left the window, was written down as overdue, or its payout failed; its transfer's status settles on the final one; no status is written that its object never had; lock given back |
| `scheduler` | 2 workers, 1 call of any kind; interval 4, window 4, grace 1, a second 2, quota 2, 8 ticks; one crash, lock timeout or refused call; the environment says "Daily", which is no mode | the quota holds up to the other worker's batch and lost records; cycles an interval apart, less the grace or the part of a second; the stored mode is the one in use; types |
| `window` | slots 2 and 5, look-back 3, grace 1, 6 ticks, 2 invoices, which may fall due | which paid invoices a run has to recover |
| `listing` | 7 rows, any of them in the list at the start, any entering it at any time, rows leaving it twice; pages of 2 | what a walk misses is bounded; the walk stays within its pages |

Why the bounds are enough for what they are for: every property of the money path is
about one invoice, one event or two rows, and every race in it is between two processes;
a third adds no guard that two do not meet. `dashboard` has two invoices because its
properties are about several payouts of one run and about sums. `recovery` delivers
"processing", the one late event that can undo a final status, and "success". No run
delivers the invoice events "created", "overdue", "paid" and "canceled", nor any of
other subscriptions: what the safety properties say of them, `PutBack` in
`LiquidatedIsCovered` and `StatusWasReached` among them, rests on the proofs, which
leave `Subscribed` open. Eight cycles of three hours are the 24 hours of the scheduler's
quota; in the run the cycles of two workers at one slot use up the quota and the window
is one interval of two seconds of two ticks, so that 8 ticks hold a full window, the
slot on its edge, the one after it and a start a grace time late, and what a restart
finds left of an interval need not be whole seconds. It has one call; two concurrent
changes of mode are covered by the proof of `ModeKept` alone. `window` has two slots a
look-back apart, as 24 hours are by default, and the second one's grace. In `listing`
seven rows are four pages, so that a row can slip to a page already read, and past the
last one, in front, in the middle and at the end of the walk; its bound is reached
(three rows missed with two that left and one that entered). Symmetry is used in
`dashboard` and `window`, where the invoices are alike and only safety is checked.
`CHECK_DEADLOCK FALSE` is set because all of these systems may stop: when every invoice
is final and every event acknowledged, when `MaxTime` is reached, when the client has
seen the last page.

### Disagreements with the documentation

Four runs state what the documentation, a comment or a test says, and TLC finds a
behaviour of the code that does otherwise (quotations are in `PROJECT.json`).

| run | the documentation | the code |
|---|---|---|
| `lost_reply` | a redelivered event is not paid again | it is, when the first attempt's reply was lost |
| `paid_twice` | transfers are not duplicated | an invoice recovered while "paid" is paid again by its credited event, without any fault |
| `locked_out` | a duplicate's 200 says the event was processed | a lock timeout, here on a batch that holds the lock over its call to the bank, is answered the same way and the event is lost |
| `retry` | the lookup of a transfer event's row is repeated to absorb commit latency, and the retry finds the row (`webhook/service.py:119`, `test_webhook_service.py:290`) | it is repeated with the write lock held, so no other session can be about to commit a row; the retries find nothing and prolong the hold |

For each of them the passing runs check the strongest related statement that does
hold: `PayoutsPerInvoice` (one payout per source and one more per lost answer or
crash), `AckedIsStored` (up to lock timeouts) and `RetriesFindNothing`; that nothing is
lost by it is `SkippedForGood`.

Others were met while modelling; the models contain them, and no run is spent on them:

* the reconciliation pays out on "paid" as well (`reconciliation.py:55`), where
  `docs/business-rules.md:92` has only "credited" set off a transfer; hence `Paid` in
  `PayoutJustified`;
* a batch whose cycle record is lost is not counted (`scheduler/service.py:168`), and
  every worker process has a scheduler (`scheduler/service.py:272`), so the 8 batches of
  `docs/business-rules.md:35` can be exceeded: by one for each further worker, which
  counts before it knows of the others' cycles, and by one for each record that was
  lost. That is the bound of `QuotaKeptUnlessLost`. Batches started at one and the same
  time count for each other only if the other's quota was as strict: while the mode is
  being changed a worker may finish a late cycle and start the next, by the window, at
  the very time at which another one has started by the count of all, and that one
  knows of neither (`Before`). It takes three intervals, more than the bounds of `scheduler`
  hold; with `EnvInterval = 2`, `Window = 2`, one call and no fault TLC reaches it too;
* `PUT /scheduler/mode` changes the memory of the worker that serves it and the row
  (`scheduler/service.py:38`); the other workers keep their mode until they restart.
  Hence `agreeing` in `ModeKept`;
* "every 3 hours" of `docs/business-rules.md:9` is not kept to the second: with
  `misfire_grace_time` (`scheduler/service.py:240`) a cycle may start up to an hour late
  and the next one on time, and after a restart up to a second is cut off the wait
  (`scheduler/service.py:97`); hence `Spacing` in `CyclesSpaced`;
* a payout that failed leaves a row, and no later run looks for a better one
  (`reconciliation.py:73`); an invoice that a run or an event has taken for overdue is
  no longer pending, so only its credited event can still pay it
  (`invoice/repository.py:60`). `GivenUp` in `EventuallyRecovered` names both, `shelved`
  in `PaidInTimeIsRecovered` the second;
* the sums of the dashboard are not of one amount: what an invoice was paid beyond its
  issuance is liquidated and never credited (`Surcharge` in `LiquidatedIsCovered`);
* the look-back of 24 hours is the spacing of the runs, so nothing is promised of an
  invoice created just before one run and paid just before the next, of one paid after
  its last run, or after a run that was missed: `Reachable` and `disturbed` in
  `PaidInTimeIsRecovered` are exactly these;
* a worker that cannot read or create the state row takes the mode of the settings and
  goes on (`BootCreates`, `BootTimesOut` in `Scheduler`), so it may differ from the row;
* `POST /scheduler/trigger` answers success also when the cycle's batch failed
  (`scheduler/router.py:74`; `RecordFailure` in `Scheduler`);
* in "recurring" the slot one window after the first cycle still finds the window full
  and is skipped (`scheduler/repository.py:27`);
* a batch issued directly is recorded as a manual cycle too (`invoice/service.py:114`),
  unlike `docs/business-rules.md:52`.

## 4. Fairness

`FairSpec` assumes what the runtime provides, and nothing of the outside world but
redelivery:

* weak fairness of each process's own steps: the event loop and the threads run,
  and the bank's client has a timeout, so each call ends;
* weak fairness of starting the reconciliation: the scheduler's cron job;
* strong fairness of acquiring `_webhook_lock` (`asyncio.Lock` wakes its waiters in
  order), of the insert and of the reconciliation's flush (SQLite's busy handler keeps
  polling, and the lock is free again and again);
* strong fairness of delivering each invoice event: the bank retries until it is
  answered 2xx. Liveness of transfer events is not assumed: `TransfersSettle` holds
  by the reconciliation alone.

No fairness is assumed of customers paying, of batches being started, of faults or
of the bank finishing a transfer.

## 5. What is proved

The theorems hold for every value of the constants that the named assumptions of the
models allow. Those of `PaymentData`, on which items 1 to 9 rest: the constants have
their types, the three kinds of process are disjoint, there are finitely many invoices,
and `None` is no value of anything. Workers, requests, jobs, batches and fault budgets
are arbitrary.

1. **`PayoutProofs`, types**: `TypeOK` alone is not inductive: `NewRow` needs the
   event of a request to be an event, an order to be a row when it is settled, a
   flushed change to be the status of an invoice in phase one and of a transfer in
   phase two. `TypeInv == TypeOK /\ Positions` adds what the place of a process says
   of what it holds. One lemma per group of actions, then `TypeInvariant`, from which
   `TypeCorrect` (`Spec => []TypeOK`) follows.
2. **`PayoutProofs`, locks**: `PayoutHoldsLock` needs the converse direction too, that a
   process which holds the lock is at a place where it may, or a commit of another
   process could take it away. `LockPositions` ties the writer to the places (exactly,
   for requests and batches) and says that without a writer `work = db`.
   `LockInvariant`, then `PayoutsExcludeEachOther` (`Spec => []PayoutHoldsLock`).
3. **`PayoutProofs`, requests**: what a request finds and leaves. `Turns` sorts the
   steps of the system by what they are for one request: its own, the death of its
   worker, or a step of somebody else, which changes no table while the request is
   writing (`Undisturbed`). With that, `RequestsInv`: a transfer looked up in vain is
   still not there, and the event of a request that is writing is not committed. From
   it `RetriesAreInVain` (`Spec => []RetriesFindNothing`), and, with the rollback in
   `FailRequest`, `FailuresAreClean` (`Spec => FailedDeliveryIsClean`).
4. **`PayoutProofs`, books**: one row per cause. A new row has a new cause because a
   request that is about to start a payout has just inserted its event, so that event
   was in no table before and - every webhook row has its event in the same tables -
   no row answers it; and because a reconciliation only recovers an invoice no row
   names, while the row `ReconcileId(i)` names `i`. `BooksInv` says this of the
   committed and of the uncommitted tables, and that the row being settled is in
   `work`. `BooksInvariant`, then `RowsHaveOwnCause` (`Spec => []OneRowPerCause`).
5. **`PayoutProofs`, refinement**: `PayoutSystem` implements `PayoutLedger`. The books
   change when a session commits and then become what its tables were, so the
   invariant, `DraftInv`, says how far the writer's tables are ahead of the committed
   ones: a request by its event and, from the start of a payout, one entry caused by
   that event; a reconciliation by entries for invoices that had none; a batch by
   nothing in the ledger. `Effects` shows that every step does one of six things to
   the books (nothing, flush what the ledger does not see, flush an event, flush a
   transfer, undo, commit); the rest of the argument is about these six.
   `LedgerIsImplemented` (`Spec => LedgerImplemented`), where `RequestsInv` is what
   makes a recorded event new, and `RecoveriesAreUnpaid` (`Spec =>
   RecoversOnlyUnpaid`).
6. **`EventProofs`, events**: what is told, paid and known. `EventsInv` has seven
   parts, and each is there for another: events at hand are of objects the bank has
   (`RealEvents`), so an event cannot be ahead of its object; the invoices of a batch
   come into being while the batch holds the write lock (`Lots`), so their credited
   events cannot be stored before they are recorded; what a run is looking at is
   recorded and what it may pay is paid (`JobItems`), recorded invoices are ours
   (`Ours`), so what is at the bank or about to be is numbered and was due
   (`RealTransfers`); only a request that has just stored a credited event owes a
   transfer (`Owing`); the payouts in progress are of rows newer than any transfer
   told of (`Naming`). `Deeds` sorts the steps by what they do to the tables, `Onward`
   by what they do at the bank; the preservation of each part follows from these.
   `EventsInvariant`, then `EventsHaveRows` (`Spec => []EventWithRow`),
   `PayoutsAreJustified` (`Spec => []PayoutJustified`) and `SkipsAreFinal` (`Spec =>
   SkippedForGood`).
7. **`EventProofs`, statuses**: three writers set them, each from news of its own age: the
   answer to a payout, the event of a delivery, what a reconciliation fetched. News stays
   true however late it is written down, because the bank's objects only go on
   (`BankSteps`); so `StatusInv` says of everything that is told, fetched or in flight
   that its object has been through that status, and of a row that it has the status of
   the transfer it asked for itself. `StatusInvariant`, then `StatusesWereReached`
   (`Spec => []StatusWasReached`).
8. **`FaultProofs`**: what faults cost. Each of four properties bounds the size of a set
   by faults of the kind that can enlarge it, so each invariant is about a set that every
   step leaves alone, makes smaller, or enlarges by what the fault of that very step pays
   for. As the properties stand they are not inductive; the sets have to include what is
   not lost yet but cannot be saved. `AckInv` also counts the events of requests that
   were answered 2xx and not yet heard (`Confirmed`). `RowsInv` counts rows of the writer
   too, but for the one whose call is under way. `LossInv` counts transfers at the bank
   that have no row in the tables their session will commit (`Missing`; the session of a
   failed call commits none), and bounds by `LostByCrash` what the writer could lose in a
   crash (`Drafted`), which is one transfer in a request and one for each invoice in a
   reconciliation; `IdsInv` says that ids of rows, orders and transfers tell them apart,
   `SourcesInv` that a transfer that is being written has one of two causes.
   `FaultInvariant`, then `AcknowledgedEventsAreStored` (`AckedIsStored`),
   `BookedRowsAreReal` (`RowsAreReal`), `PayoutsAreOnTheBooks` (`PayoutsOnTheBooks`) and
   `PayoutsAreFew` (`PayoutsPerInvoice`): what is paid for an invoice is on the books,
   where every cause has one row, or missing, and then a fault has paid for it.
9. **`DashboardProofs`**: `LiquidatedIsCovered` compares two sums taken at different
   times, and the proof has three parts. The first is an invariant of `PayoutSystem`,
   `CountInv`: the invoice of a transfer row was paid at the bank, and its own status is
   "paid" or "credited" unless the event of an older status that was written over it is
   stored with it. It has to hold of the writer's tables as well, and it needs to know
   that what a batch is about to record has no status yet and that what a run loaded was
   unpaid, so a status the run changes and flushes is one the payout can rest on
   (`PaidOutIsCounted`). The second follows a reader between its queries, `SumsInv`: the
   rows its first query could have known (their ids stay, and no id is used again) are
   of invoices it counted, or of invoices put back by an event, which stays stored
   (`SumsStayGood`). The third is about the numbers (`MatchedIsCovered`): the rows that
   are not in `Unmatched` are of different counted invoices, each worth at most what its
   invoice was issued with and its surcharge, so their sum is no more (`SumPlus`). Then
   `SummariesAreCovered` (`DashboardSpec => []LiquidatedIsCovered`), by
   `DashboardOnlyReads`, which says that a behaviour with readers is one of
   `PayoutSystem`.

   `IssuedOf`, `NetOf` and `SurchargeOf` are folds of the community modules, which are defined by a
   recursive function that takes the elements of the set in an order of `CHOOSE`. What
   they compute is proved in `Counting` without an induction theorem: were a statement
   false of some subset of a finite set, it would be false of a smallest one
   (`SmallestIs`), and there one element fewer contradicts it. So the function exists
   (`SumExists`), any element may be taken first (`SumWithout`), a sum can be split
   (`SumSplit`), and a sum over elements that each have a place of their own is no more
   than the sum over the places (`SumOneEach`).
10. **`SchedulerProofs`**, about `Spec` of `Scheduler`, for any finite set of workers,
   any calls, and any environment value of interval, quota and mode, from
   `SchedulerAssumption` and `NoneAssumption`. `TypeInvariant`, then
   `ValuesAreOfTheirTypes` (`Spec => []TypeOK`); `ModesInv` says that a change of mode
   which has been alone so far has set the mode of its worker and will write over the
   very row it read, hence `ModesAgree` (`Spec => []ModeKept`). For the quota `Deeds`
   reduces the steps to six: a job starts, issues its batch, records it, a reset
   forgets, time passes, all the rest is quiet. `SlotInv` relates slots, batches and
   records: no record is earlier than its batch; the job at work and every recorded
   batch are at least `Spacing` before the next run of their worker: a start is at most
   `Grace` after its slot and the next run at the next one (`SlotIs`), and a wait
   computed from a record loses less than a `Second` (`RestIs`); and when a worker
   starts again, the record of a batch before that, if there is one, is no later than
   the start and the two starts are `Spacing` apart (`Apart`).
   `CyclesAreSpaced` (`Spec => []CyclesSpaced`) follows. For the quota the batches
   before `b` are divided in three: those a start at the time of `b` could know of
   (`Known`), fewer than the quota, because no record is added in the past of a start
   (`QuotaInv`); those whose record was lost, at most as many as the faults
   (`LostInv`); and the rest, of which no worker has two and the worker of `b` none
   (`OnePerWorker`). `QuotaIsKept` (`Spec => []QuotaKeptUnlessLost`). The proof found
   an error in the property: see `Before` and section 3 on cycles at the very same
   time.
11. **`ListingProofs`**, about `Spec` of `Listing`, for any number of rows and any page
    size, from `ListingAssumption`. `MissesBounded` speaks of the end of the walk; the
    invariant speaks of the pages passed (`Behind`): rows there that have stayed and the
    client has not seen are at most as many as the times a row left. A row that enters,
    wherever, raises ranks and lowers none (`RankChanges`), a row that leaves lowers them
    by one, and ranks are distinct (`RanksDiffer`), so at most one row slips to a page
    already read. When there is no next page the pages read hold `total` rows
    (`PagesHoldAll`), and beyond rank `total` there are no more rows than entered since
    the COUNT, though perhaps others than those (`RowsBeyond`).
    `ListingInvariant`, then `FewAreMissed` (`Spec => []MissesBounded`) and
    `WalkStaysWithinPages` (`Spec => []TypeOK`). Of the arithmetic alone: every row of a
    list is on exactly one of its pages (`PagesPartition`), and `has_next` is true exactly
    when a row is left for the next page (`NextPageIsNotEmpty`).
12. **`WindowProofs`**, about `Spec` of `ReconciliationWindow` with any invoices, slots,
    grace time and any value of the environment variable, from `WindowAssumption`. The
    inductive part is `RunCovers`: what a run in progress has loaded, found or skipped
    covers every invoice its slot is answerable for, unless it is told of as paid or
    shelved as overdue; it starts that way because a run is at most `Grace` late.
    `RecoveredInTime` (`Spec => []PaidInTimeIsRecovered`).

Every invariant and every action property that a passing run checks is proved. Only
model-checked are:

* all liveness (`EventuallyStored`, `EventuallyAcknowledged`, `EventuallyRecovered`,
  `TransfersSettle`, `LockReleased`), which is out of the prover's reach;
* the four runs that find a violation, which are about single behaviours.

## 6. Checking it

```
tlc -workers 2 -config MCWorkers.cfg MCPayout     # likewise the others
tlapm PayoutProofs.tla     # then EventProofs, FaultProofs, DashboardProofs
tlapm Counting.tla         # then SchedulerProofs, ListingProofs
tlapm WindowProofs.tla
```

## 7. Not modelled

* **Signature verification** is the SDK's; its outcome is `Parse` or `ParseFails`.
* **Middleware and logging**: headers, timing and text. The middleware's 500 for an
  exception without a handler is no 2xx, as the fallback handler's.
* **Migrations, container setup, CORS, the health endpoint**: no state a property is
  about. The supervisor's restart is the idle state after `Crash`.
* **Settings that are text**: keys, URLs, CORS origins, the time zone. The bank's client
  is set up from them once; failing to is failing to start.
* **Reading endpoints of the scheduler**: `GET /scheduler/status` reads counters of
  committed rows; `is_paused` and `last_scheduled_run` are read by no code.
* **The dashboard's conversion rate**, a quotient of two of its sums.
* **Texts and details of error answers**; `EntityNotFoundError` and
  `DuplicateEntityError`, which nothing raises; `BaseRepository.delete` and
  `update_partial`, which nothing calls; `autocommit=True`, which nothing passes.

## 8. Plan

Done, in this order: the money path (`PaymentData` to `PayoutSystem`), its ledger,
its first proof modules, the scheduler, the listing; then exceptions and settings,
several workers in the scheduler, the reconciliation in time, the dashboard, the
proofs of the refinement, of what failing requests leave behind, and of events, their
rows and the payouts being justified; then the proofs about statuses, about what faults
cost, about the scheduler, about the listing and about the dashboard's sums.

Since then: "overdue" as a status that is neither pending nor final, the amount an
invoice was issued with beside the one it was paid with, late starts and whole seconds in
the scheduler, and rows that enter a list anywhere.

Next, modelling: the scheduler and the write lock together, a cycle that waits for a
reconciliation and the two commits of a cycle around it.
