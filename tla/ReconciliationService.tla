------------------------ MODULE ReconciliationService ------------------------
(***************************************************************************)
(* ReconciliationService.run_reconciliation: the scheduler job that asks   *)
(* the bank for the status of every pending invoice and transfer of the    *)
(* last RECONCILIATION_LOOKBACK_HOURS, writes down what changed, and pays  *)
(* out the invoices that were paid without a transfer.  The rows are       *)
(* loaded once; each is then handled with the status loaded, however long  *)
(* the calls before it took; one commit ends each of the two phases.       *)
(***************************************************************************)
EXTENDS TransferService

VARIABLES
  loaded,   \* the rows still to be looked at: their id and loaded status
  changes,  \* statuses set on loaded rows and not flushed yet
  item,     \* the invoice whose payout is being considered
  aged      \* invoices and transfer rows that left the window

reconcileVars == <<loaded, changes, item, aged>>

StatusOf == [id : Invoices \cup Nat, status : InvoiceStatus \cup TransferStatus]

ReconcileTypeOK ==
  /\ loaded \in [Reconcilers -> SUBSET StatusOf]
  /\ changes \in [Reconcilers -> SUBSET StatusOf]
  /\ item \in [Reconcilers -> Invoices \cup {None}]
  /\ aged \subseteq Invoices \cup Nat

ReconcileInit ==
  /\ loaded = [p \in Reconcilers |-> {}]
  /\ changes = [p \in Reconcilers |-> {}]
  /\ item = [p \in Reconcilers |-> None]
  /\ aged = {}

\* The status that changes give an item, its old one when they are silent.
StatusFrom(ch, id, old) ==
  IF \E c \in ch : c.id = id THEN (CHOOSE c \in ch : c.id = id).status ELSE old

\* The UPDATE statements of a flush, by primary key.
FlushInvoices(tables, ch) ==
  [tables EXCEPT !.invoices = [i \in Invoices |-> StatusFrom(ch, i, tables.invoices[i])]]
FlushTransfers(tables, ch) ==
  [tables EXCEPT !.transfers =
     {[row EXCEPT !.status = StatusFrom(ch, row.id, row.status)] : row \in tables.transfers}]

\* get_pending_invoices_in_window, and the same query for transfers.
PendingInvoices ==
  {[id |-> i, status |-> db.invoices[i]] :
     i \in {j \in Invoices \ aged : db.invoices[j] \in PendingInvoiceStatus}}
PendingTransfers ==
  {[id |-> row.id, status |-> row.status] :
     row \in {t \in db.transfers : /\ t.id \notin aged
                                   /\ t.status \in PendingTransferStatus
                                   /\ t.stark # None}}

AgeOut(x) ==
  /\ x \notin aged
  /\ \/ x \in Invoices /\ db.invoices[x] # None
     \/ \E row \in db.transfers : row.id = x
  /\ Fault("age")
  /\ aged' = aged \cup {x}
  /\ UNCHANGED <<dbVars, bankVars, pc, order, lastRow, loaded, changes, item>>

\* The job starts.  A run that would load nothing changes nothing: left out.
LoadInvoices(p) ==
  /\ pc[p] = "idle"
  /\ PendingInvoices \cup PendingTransfers # {}
  /\ loaded' = [loaded EXCEPT ![p] = PendingInvoices]
  /\ Goto(p, "invoices")
  /\ UNCHANGED <<dbVars, bankVars, order, lastRow, faults, changes, item, aged>>

\* x has been dealt with: x leaves the loop's list, with change c if any.
Advance(p, x, ch) ==
  /\ loaded' = [loaded EXCEPT ![p] = @ \ {x}]
  /\ changes' = [changes EXCEPT ![p] = @ \cup ch]

\* No status in the answer, or the status loaded: nothing to write.
Change(x, status) ==
  IF status \in {None, x.status} THEN {} ELSE {[id |-> x.id, status |-> status]}

\* Mutation: only credited invoices are recovered.
PaidStrictly(status) == status = "credited"
Paid(status) == status \in {"paid", "credited"}

\* The bank's status of one invoice is fetched.
FetchInvoice(p, x) ==
  /\ pc[p] = "invoices"
  /\ x \in loaded[p]
  /\ Advance(p, x, Change(x, bankInvoices[x.id]))
  /\ IF Paid(bankInvoices[x.id])
       THEN item' = [item EXCEPT ![p] = x.id] /\ Goto(p, "checking")
       ELSE UNCHANGED <<item, pc>>
  /\ UNCHANGED <<dbVars, bankVars, order, lastRow, faults, aged>>

\* The fetch raises: the error is logged and the item skipped.
FetchFails(p, x) ==
  /\ pc[p] \in {"invoices", "transfers"}
  /\ x \in loaded[p]
  /\ Fault("reject")
  /\ Advance(p, x, {})
  /\ UNCHANGED <<dbVars, bankVars, pc, order, lastRow, item, aged>>

\* Mutation: only a finished transfer counts.
HasFinishedTransfer(i) ==
  \E row \in work.transfers : row.invoice = i /\ row.status = "success"
HasTransfer(i) == \E row \in work.transfers : row.invoice = i

\* The tables once the pending status changes are written to them.
Flushed(p) == FlushInvoices(work, changes[p])

\* The query for an existing transfer flushes first.  No transfer: pay out.
PayMissing(p) ==
  /\ pc[p] = "checking"
  /\ ~HasTransfer(item[p])
  /\ StartTransfer(p, item[p], ReconcileId(item[p]), Flushed(p))
  /\ changes' = [changes EXCEPT ![p] = {}]
  /\ item' = [item EXCEPT ![p] = None]
  /\ UNCHANGED <<bankVars, faults, loaded, aged>>

\* There is a transfer, or a net amount that cannot be paid: next invoice.
SkipPayout(p) ==
  /\ pc[p] = "checking"
  /\ HasTransfer(item[p]) \/ ~Payable(item[p])
  /\ Flush(p, Flushed(p))
  /\ changes' = [changes EXCEPT ![p] = {}]
  /\ item' = [item EXCEPT ![p] = None]
  /\ Goto(p, "invoices")
  /\ UNCHANGED <<bankVars, order, lastRow, faults, loaded, aged>>

\* The payout ended, well or not: an error is logged, the row stays flushed.
NextInvoice(p) ==
  /\ pc[p] \in {"transferred", "transferFailed"}
  /\ Goto(p, "invoices")
  /\ UNCHANGED <<dbVars, bankVars, order, lastRow, faults, reconcileVars>>

\* Mutation: what an earlier query flushed is not counted.
UpdatedUnflushed(p) == changes[p] # {}
\* updated_count > 0: a change is pending, or was flushed by an earlier query.
Updated(p) == changes[p] # {} \/ writer = p

\* Mutation: only changes not flushed yet are counted.
EndPhaseUnflushed(p, tables) ==
  /\ loaded[p] = {}
  /\ IF changes[p] # {} THEN Commit(p, tables) ELSE Rollback(p)
  /\ changes' = [changes EXCEPT ![p] = {}]
  /\ UNCHANGED <<bankVars, order, lastRow, faults, item, aged>>

\* The phase of p ends: one commit if anything was updated, none otherwise.
EndPhase(p, tables) ==
  /\ loaded[p] = {}
  /\ IF Updated(p) THEN Commit(p, tables) ELSE UNCHANGED dbVars
  /\ changes' = [changes EXCEPT ![p] = {}]
  /\ UNCHANGED <<bankVars, order, lastRow, faults, item, aged>>

EndInvoices(p) ==
  /\ pc[p] = "invoices"
  /\ EndPhase(p, Flushed(p))
  /\ Goto(p, "loading")
  /\ UNCHANGED loaded

LoadTransfers(p) ==
  /\ pc[p] = "loading"
  /\ loaded' = [loaded EXCEPT ![p] = PendingTransfers]
  /\ Goto(p, "transfers")
  /\ UNCHANGED <<dbVars, bankVars, order, lastRow, faults, changes, item, aged>>

FetchTransfer(p, x) ==
  /\ pc[p] = "transfers"
  /\ x \in loaded[p]
  /\ \E t \in bankTransfers : t.id = x.id /\ Advance(p, x, Change(x, t.status))
  /\ UNCHANGED <<dbVars, bankVars, pc, order, lastRow, faults, item, aged>>

EndTransfers(p) ==
  /\ pc[p] = "transfers"
  /\ EndPhase(p, FlushTransfers(work, changes[p]))
  /\ Goto(p, "idle")
  /\ UNCHANGED loaded

\* A flush times out.  The handler of the error reads an expired object of the
\* broken session and raises again, so the job ends and its session is closed.
AbortJob(p) ==
  /\ \/ pc[p] = "checking"
     \/ pc[p] \in {"invoices", "transfers"} /\ loaded[p] = {} /\ changes[p] # {}
  /\ LockedOut(p)
  /\ Fault("busy")
  /\ loaded' = [loaded EXCEPT ![p] = {}]
  /\ changes' = [changes EXCEPT ![p] = {}]
  /\ item' = [item EXCEPT ![p] = None]
  /\ Goto(p, "idle")
  /\ UNCHANGED <<dbVars, bankVars, order, lastRow, aged>>

ReconcileStep(p) ==
  \/ \E x \in loaded[p] : FetchInvoice(p, x) \/ FetchFails(p, x) \/ FetchTransfer(p, x)
  \/ PayMissing(p) \/ SkipPayout(p) \/ NextInvoice(p) \/ EndInvoices(p)
  \/ LoadTransfers(p) \/ EndTransfers(p) \/ AbortJob(p)

ReconcileNext ==
  \/ \E p \in Reconcilers : LoadInvoices(p) \/ ReconcileStep(p)
  \/ \E x \in Invoices \cup 1..lastRow : AgeOut(x)
=============================================================================
