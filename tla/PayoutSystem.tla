---------------------------- MODULE PayoutSystem ----------------------------
(***************************************************************************)
(* The money path put together: the bank, the webhook requests, the        *)
(* reconciliation jobs and the batches of all workers over one database.   *)
(***************************************************************************)
EXTENDS WebhookService, ReconciliationService, InvoiceService

vars == <<dbVars, bankVars, transferVars, webhookVars, reconcileVars>>

Init == DatabaseInit /\ BankInit /\ TransferInit /\ WebhookInit /\ ReconcileInit

On(w, p) == Host[p] = w

\* A worker dies with all it was doing and comes back with nothing running;
\* the database undoes what its sessions had not committed.
Crash(w) ==
  /\ \E p \in Processes : On(w, p) /\ pc[p] \notin {"idle", "done"}
  /\ Fault("crash")
  /\ pc' = [p \in Processes |->
       CASE ~On(w, p) -> pc[p]
         [] On(w, p) /\ p \in Batches /\ pc[p] # "idle" -> "done"
         [] OTHER -> "idle"]
  /\ order' = [p \in Processes |-> IF On(w, p) THEN None ELSE order[p]]
  /\ event' = [r \in Requests |-> IF On(w, r) THEN None ELSE event[r]]
  /\ answer' = [r \in Requests |-> IF On(w, r) THEN None ELSE answer[r]]
  /\ loaded' = [p \in Reconcilers |-> IF On(w, p) THEN {} ELSE loaded[p]]
  /\ changes' = [p \in Reconcilers |-> IF On(w, p) THEN {} ELSE changes[p]]
  /\ item' = [p \in Reconcilers |-> IF On(w, p) THEN None ELSE item[p]]
  /\ webhookLock' = [webhookLock EXCEPT ![w] = None]
  /\ IF writer # None /\ On(w, writer) THEN Rollback(writer) ELSE UNCHANGED dbVars
  /\ lookups' = [r \in Requests |-> IF On(w, r) THEN 0 ELSE lookups[r]]
  /\ UNCHANGED <<bankVars, lastRow, aged>>

Next ==
  \/ TransferNext /\ UNCHANGED <<webhookVars, reconcileVars>>
  \/ WebhookNext /\ UNCHANGED reconcileVars
  \/ ReconcileNext /\ UNCHANGED webhookVars
  \/ IssueNext /\ UNCHANGED <<webhookVars, reconcileVars>>
  \/ BankNext /\ UNCHANGED <<dbVars, transferVars, webhookVars, reconcileVars>>
  \/ \E w \in Workers : Crash(w)

Spec == Init /\ [][Next]_vars

(* Fairness.  A process that can go on does: the event loop and the threads  *)
(* of the bank's client run, and every call to the bank ends (the client has *)
(* a timeout).  The scheduler keeps starting the reconciliation.  A request  *)
(* or job that waits for a lock gets it if it is released again and again:   *)
(* asyncio.Lock serves its waiters in order, and SQLite's busy handler polls *)
(* more often than the lock is busy.  The bank repeats every delivery until  *)
(* it is accepted.  Nothing obliges a batch to start, a customer to pay, or  *)
(* a fault to happen.                                                        *)
InvoiceLogs == {s \in InvoiceStatus : <<"invoice", s>> \in Subscribed}
Fairness ==
  /\ \A p \in Requests \cup Reconcilers :
       WF_vars(TransferStep(p) /\ UNCHANGED <<webhookVars, reconcileVars>>)
  /\ \A r \in Requests :
       /\ WF_vars(WebhookStep(r) /\ UNCHANGED reconcileVars)
       /\ SF_vars((AcquireWebhookLock(r) \/ InsertEvent(r) \/ InsertCollides(r))
                    /\ UNCHANGED reconcileVars)
  /\ \A p \in Reconcilers :
       /\ WF_vars(LoadInvoices(p) /\ UNCHANGED webhookVars)
       /\ WF_vars(ReconcileStep(p) /\ UNCHANGED webhookVars)
       /\ SF_vars((PayMissing(p) \/ SkipPayout(p)) /\ UNCHANGED webhookVars)
  /\ \A b \in Batches :
       WF_vars((BankIssues(b) \/ RecordBatch(b)) /\ UNCHANGED <<webhookVars, reconcileVars>>)
  /\ \A i \in Invoices, s \in InvoiceLogs :
       SF_vars(\E r \in Requests : Deliver(r, InvoiceEvent(i, s)) /\ UNCHANGED reconcileVars)

FairSpec == Spec /\ Fairness

-----------------------------------------------------------------------------
(* Every variable keeps the values the code can give it: the two views of    *)
(* the tables, the bank's objects, and what requests and jobs hold.          *)
TypeOK == DatabaseTypeOK /\ BankTypeOK /\ TransferTypeOK /\ WebhookTypeOK /\ ReconcileTypeOK

\* What the place of a process says of what it holds.
InvoiceItem == [id : Invoices, status : InvoiceStatus]
TransferItem == [id : Nat, status : TransferStatus]
InPayout == {"sending", "executed", "transferred", "transferFailed"}
RequestAt(r) ==
  /\ pc[r] # "idle" => event[r] \in EventIds
  /\ pc[r] \in {"invoice", "transfer", "other"} => event[r].kind = pc[r]
OrderAt(p) == pc[p] \in {"sending", "executed"} => order[p] \in TransferRow
JobAt(p) ==
  /\ pc[p] = "checking" => item[p] \in Invoices
  /\ pc[p] \in {"invoices", "checking"} \cup InPayout =>
       loaded[p] \subseteq InvoiceItem /\ changes[p] \subseteq InvoiceItem
  /\ pc[p] = "transfers" =>
       loaded[p] \subseteq TransferItem /\ changes[p] \subseteq TransferItem
  /\ pc[p] \in {"idle", "loading"} => changes[p] = {}
Positions ==
  /\ \A r \in Requests : RequestAt(r)
  /\ \A p \in Processes : OrderAt(p)
  /\ \A p \in Reconcilers : JobAt(p)

(* A process that is talking to the bank about a payout holds the database's *)
(* write lock: whatever the workers do, payouts happen one at a time.        *)
PayoutHoldsLock == \A p \in Processes : pc[p] \in InPayout => writer = p

\* Where a process is while it holds the write lock, and only then; a
\* reconciliation may also be there without having written anything.
InTransaction ==
  [request |-> {"invoice", "transfer", "other", "recorded"} \cup InPayout,
   batch |-> {"issuing", "issued"},
   job |-> {"invoices", "checking"} \cup InPayout]
LockAt(p) ==
  /\ p \in Requests => (writer = p <=> pc[p] \in InTransaction.request)
  /\ p \in Batches => (writer = p <=> pc[p] \in InTransaction.batch)
  /\ p \in Reconcilers => (writer = p => pc[p] \in InTransaction.job)
  /\ pc[p] \in InPayout => writer = p
LockPositions ==
  /\ \A p \in Processes : LockAt(p)
  /\ writer = None => work = db

UniqueCauses(tables) == \A a, b \in tables.transfers : a.event = b.event => a = b

(* One event never has two transfer rows, whichever workers handle its       *)
(* deliveries, and an invoice is never recovered twice (UNIQUE event_id,     *)
(* get_by_invoice_id).                                                       *)
OneRowPerCause == UniqueCauses(db)

\* What OneRowPerCause rests on, for the committed tables and the writer's.
Books(tables) ==
  /\ UniqueCauses(tables)
  /\ \A row \in tables.transfers :
       /\ row.event.id = row.invoice
       /\ row.event.kind # "reconcile" => row.event \in tables.events
BooksAt(p) ==
  /\ p \in Requests /\ pc[p] = "invoice" =>
       /\ event[p] \in work.events
       /\ \A row \in work.transfers : row.event # event[p]
  /\ pc[p] \in {"sending", "executed"} => order[p] \in work.transfers
BooksInv ==
  /\ Books(db) /\ Books(work)
  /\ \A p \in Processes : BooksAt(p)

(* The event and its transfer row become permanent together: a row of the    *)
(* webhook has its event, and the credited event of an invoice of ours has   *)
(* its row - also when the event came before the batch was committed.        *)
EventWithRow ==
  /\ \A row \in db.transfers : row.event.kind = "invoice" => row.event \in db.events
  /\ \A i \in Invoices :
       /\ InvoiceEvent(i, "credited") \in db.events
       /\ db.invoices[i] # None
       => \E row \in db.transfers : row.event = InvoiceEvent(i, "credited")

(* Money only leaves for an invoice this service has on record (and not for  *)
(* one it issued but whose reply it lost, or for another service's) and that *)
(* the bank says was paid, and never a net amount of zero or less.           *)
PayoutJustified ==
  \A t \in bankTransfers :
    /\ db.invoices[t.invoice] # None
    /\ Paid(bankInvoices[t.invoice])
    /\ Net(t.invoice) > 0

LostByCrash == IF Reconcilers = {} THEN 1 ELSE Cardinality(Invoices)

(* Money that left is on the books, or its session is still at it, or an     *)
(* answer was lost or a worker died.  A lost answer loses one payout, and so *)
(* does a crash in the webhook; a crash in the reconciliation, which commits *)
(* once for all its invoices, can lose one payout for each of them.          *)
PayoutsOnTheBooks ==
  Cardinality({t \in bankTransfers :
                 \A row \in db.transfers \cup work.transfers : row.id # t.id})
    <= faults["lost"] + LostByCrash * faults["crash"]

(* A row that is not marked failed stands for money that left, except that   *)
(* an empty answer is booked as a success whatever the bank did.             *)
RowsAreReal ==
  Cardinality({row \in db.transfers :
                 row.status # "failed" /\ \A t \in bankTransfers : t.id # row.id})
    <= faults["empty"]

Sources == {S \in {Requests, Reconcilers} : S # {}}
Payouts(i) == Cardinality({t \in bankTransfers : t.invoice = i})

(* How often an invoice can be paid out: once by its credited event, once    *)
(* more by the reconciliation, which does not know of the other's payout     *)
(* when it comes first, and again for every lost answer or crash.            *)
PayoutsPerInvoice ==
  \A i \in Invoices :
    Payouts(i) <= Cardinality(Sources) + faults["lost"] + faults["crash"]

(* An event the bank need not deliver again is stored, except that each      *)
(* timeout of the write lock may have lost one.                              *)
AckedIsStored == Cardinality(acked \ db.events) <= faults["busy"]

(* A local status is one the bank's object has really been through, however  *)
(* late the event or the reconciliation that wrote it.                       *)
StatusWasReached ==
  /\ \A i \in Invoices : db.invoices[i] # None =>
       db.invoices[i] \in Reached(i)
  /\ \A row \in db.transfers : row.stark # None =>
       \E t \in bankTransfers : t.id = row.stark /\ row.status \in TransferHistory[t.status]

(* The three lookups of a transfer event are one: they run under the write   *)
(* lock the event's own insert took, so what the first does not find, the    *)
(* others do not find either.                                                *)
RetriesFindNothing ==
  \A r \in Requests : pc[r] = "transfer" /\ lookups[r] > 0 => RowsOf(event[r]) = {}

Named(n, tables) == \E row \in tables.transfers : row.stark = n

(* A transfer event is only skipped for good reason: a transfer no row named *)
(* when its event was recorded is never named by a row later, so no status   *)
(* update came too early.                                                    *)
SkippedForGood ==
  [][\A e \in db.events :
       e.kind = "transfer" /\ ~Named(e.id, db) => ~Named(e.id, db')]_vars

(* The reconciliation commits a transfer for an invoice only if no transfer  *)
(* for it was committed, by whichever worker, since it looked.               *)
RecoversOnlyUnpaid ==
  [][\A row \in db'.transfers \ db.transfers :
       row.event.kind = "reconcile" /\ (\A old \in db.transfers : old.id # row.id)
         => \A old \in db.transfers : old.invoice # row.invoice]_vars

(* A delivery answered with an error has left nothing behind: the event is   *)
(* not stored, so the next delivery of it starts afresh.                     *)
FailedDeliveryIsClean ==
  [][\A r \in Requests :
       pc[r] # "parsing" /\ answer[r] = None /\ answer'[r] # None /\ ~Accepted(answer'[r])
         => /\ db' = db /\ writer' = None
            /\ event[r] \notin db.events]_vars

-----------------------------------------------------------------------------
(* What the documentation says of the system; the code does not keep these.  *)

(* docs/architecture.md:83-85, docs/testing.md:51-53: transfers are not      *)
(* duplicated, and an event that is delivered again is not paid again.       *)
OnePayoutPerInvoice == \A i \in Invoices : Payouts(i) <= 1


(* docs/architecture.md:85: the answer to a duplicate says that the event    *)
(* has already been processed.                                               *)
DuplicateWasProcessed ==
  \A r \in Requests : answer[r] = "DuplicateEventError" => event[r] \in db.events

-----------------------------------------------------------------------------
(* The write lock is always given back: no process waits for something that  *)
(* only another process could do while holding the lock.                     *)
LockReleased == \A p \in Processes : writer = p ~> writer # p

Refused(i, s) == s = "credited" /\ i \notin External /\ ~Payable(i)

(* Every event of an invoice is stored in the end, through refused payouts,  *)
(* crashes and deliveries to other workers; only a credited invoice of ours  *)
(* that is not worth its fee is refused for ever.                            *)
EventuallyStored ==
  \A i \in Invoices, s \in InvoiceLogs :
    InvoiceEvent(i, s) \in Emitted /\ ~Refused(i, s) ~> InvoiceEvent(i, s) \in db.events

(* And the bank is told in the end, so that it stops delivering: the answer  *)
(* to a repeated delivery of a stored event has to be a 2xx too.             *)
EventuallyAcknowledged ==
  \A i \in Invoices, s \in InvoiceLogs :
    InvoiceEvent(i, s) \in Emitted /\ ~Refused(i, s) ~> InvoiceEvent(i, s) \in acked

\* A row that names the transfer the bank has made for i.
PaidOut(i) == \E row \in db.transfers : row.invoice = i /\ row.stark # None

\* What the reconciliation does not look at again: an invoice that left its
\* window, one it found overdue, and one whose payout the bank once refused.
GivenUp(i) ==
  \/ i \in aged
  \/ db.invoices[i] = "overdue"
  \/ \E row \in db.transfers : row.invoice = i /\ row.status = "failed"

(* A pending invoice of ours that was paid is paid out in the end even if    *)
(* none of its events arrives, unless the reconciliation has given it up:    *)
(* no other skipped fetch, crash, or order of the runs can lose it.          *)
EventuallyRecovered ==
  \A i \in Invoices :
    db.invoices[i] \in PendingInvoiceStatus /\ Paid(bankInvoices[i]) /\ Payable(i)
      ~> PaidOut(i) \/ GivenUp(i)

Settled(row) ==
  \A t \in bankTransfers :
    t.id = row.stark /\ t.status \in {"success", "failed"} => row.status = t.status

(* The status of a transfer settles on the bank's final one, in whatever     *)
(* order events and reconciliations write it, while it is in the window.     *)
TransfersSettle == <>[](\A row \in db.transfers : Settled(row) \/ row.id \in aged)

Ledger == INSTANCE PayoutLedger WITH
  recorded <- db.events,
  ledger <- {[id |-> row.id, invoice |-> row.invoice, cause |-> row.event] : row \in db.transfers}

(* Under the workers, locks, sessions and faults, the committed tables are   *)
(* those of the abstract ledger: event and transfer are booked in one step.  *)
LedgerImplemented == Ledger!LedgerSpec
=============================================================================
