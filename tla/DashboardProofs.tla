-------------------------- MODULE DashboardProofs ---------------------------
(***************************************************************************)
(* What the dashboard adds up.  The payouts of PayoutSystem are of         *)
(* invoices whose own status says that they were paid, unless an older     *)
(* status has overwritten it; so the summary shows no more liquidated than *)
(* credited and the surcharges of late payers, whatever is committed       *)
(* between its two queries.                                                *)
(***************************************************************************)
EXTENDS DashboardService, FaultProofs

-----------------------------------------------------------------------------
(***************************************************************************)
(* The status of an invoice that was paid out.  Its transfer row is only   *)
(* written together with a status the bank gives to paid invoices, and     *)
(* what is written over that status later is either such a status too, the *)
(* type of an older event, which is stored in the same session, or the     *)
(* "overdue" of an invoice that was paid late.                             *)
(***************************************************************************)

PutBackIn(tables, i) ==
  i \in overdue \/ \E s \in {"created", "canceled"} : InvoiceEvent(i, s) \in tables.events
CountedIn(tables, i) == Paid(tables.invoices[i]) \/ PutBackIn(tables, i)

\* What a reconciliation loaded was unpaid, so a paid invoice is a change.
Loads(p) ==
  /\ pc[p] \in InTransaction.job =>
       /\ \A x \in loaded[p] : x.status = "created"
       /\ \A c \in changes[p] : c.status # "created"
  /\ pc[p] = "checking" => \E c \in changes[p] : c.id = item[p]

CountInv ==
  /\ \A entry \in Entries(work) :
       Paid(bankInvoices[entry.invoice]) /\ CountedIn(work, entry.invoice)
  /\ \A entry \in Entries(db) : CountedIn(db, entry.invoice)
  /\ \A b \in Batches : pc[b] = "issued" => LotOf[b] \cap RecordedIn(work) = {}
  /\ \A p \in Reconcilers : Loads(p)

\* What a session makes of the writer's tables leaves paid invoices counted.
Counts(tables) ==
  \A i \in Invoices : Paid(bankInvoices[i]) /\ CountedIn(work, i) => CountedIn(tables, i)
\* A payout starts, of an invoice that is paid and counted.
StartsCounted ==
  \E entry : /\ entry.invoice \in Invoices /\ Entries(work') = Entries(work) \cup {entry}
             /\ Paid(bankInvoices[entry.invoice]) /\ CountedIn(work', entry.invoice)
CountStep ==
  work' = db \/ (Counts(work') /\ (lastRow' = lastRow \/ StartsCounted))

(* Tables whose events are the same or more, and whose statuses are the same.*)
LEMMA SameCounts ==
  ASSUME NEW tables, work.events \subseteq tables.events, tables.invoices = work.invoices
  PROVE  Counts(tables)
BY DEF Counts, CountedIn, PutBackIn

(* A step that touches no table. *)
LEMMA QuietCounts ==
  ASSUME UNCHANGED dbVars, UNCHANGED lastRow
  PROVE  CountStep
<1>1. work' = work
  BY DEF dbVars
<1>2. Counts(work)
  BY DEF Counts
<1>3. QED BY <1>1, <1>2 DEF CountStep

(* A session writes such tables. *)
LEMMA SessionCounts ==
  ASSUME NEW p, NEW tables, Flush(p, tables) \/ Commit(p, tables), Counts(tables),
         UNCHANGED lastRow
  PROVE  CountStep
<1>1. work' = tables
  BY DEF Flush, Commit
<1>2. QED BY <1>1 DEF CountStep

(* Between a payout's start and its end, only its row is written. *)
LEMMA TransferCounts ==
  ASSUME TypeInv, NEW p \in Processes, TransferStep(p)
  PROVE  CountStep
<1>1. CASE BankExecutes(p)
  BY <1>1, QuietCounts DEF BankExecutes
<1>2. ASSUME NEW row, NEW label, SettleRow(p, row, label)
      PROVE  CountStep
  <2>1. work'.events = work.events /\ work'.invoices = work.invoices
    BY <1>2 DEF SettleRow, TypeInv, TypeOK, DatabaseTypeOK, Tables
  <2>2. lastRow' = lastRow
    BY <1>2 DEF SettleRow
  <2>3. PICK tables : tables = work'
    OBVIOUS
  <2>4. Counts(tables)
    BY <2>1, <2>3, SameCounts
  <2>5. QED BY <2>2, <2>3, <2>4 DEF CountStep
<1>3. QED BY <1>1, <1>2 DEF TransferStep, BankReplies, BankRepliesEmpty, CallFails

(* A batch writes statuses of its lot only, which had none before. *)
LEMMA IssueCounts ==
  ASSUME TypeInv, CountInv, IssueNext
  PROVE  CountStep
<1>1. PICK b \in Batches : OpenBatch(b) \/ OpenBatchTimesOut(b) \/ BankIssues(b)
                             \/ RecordBatch(b) \/ FailBatch(b)
  BY DEF IssueNext
<1>2. work \in Tables
  BY DEF TypeInv, TypeOK, DatabaseTypeOK
<1>3. UNCHANGED lastRow
  BY <1>1 DEF OpenBatch, OpenBatchTimesOut, BankIssues, RecordBatch, FailBatch
<1>4. ASSUME NEW s, Flush(b, [work EXCEPT !.batches[b] = s])
                      \/ Commit(b, [work EXCEPT !.batches[b] = s])
      PROVE  CountStep
  <2> DEFINE tables == [work EXCEPT !.batches[b] = s]
  <2>1. tables.events = work.events /\ tables.invoices = work.invoices
    BY <1>2 DEF Tables
  <2>2. Flush(b, tables) \/ Commit(b, tables)
    BY <1>4
  <2> HIDE DEF tables
  <2>3. QED BY <1>3, <2>1, <2>2, SameCounts, SessionCounts
<1>5. CASE OpenBatchTimesOut(b) \/ BankIssues(b)
  BY <1>3, <1>5, QuietCounts DEF OpenBatchTimesOut, BankIssues
<1>6. CASE RecordBatch(b)
  <2> DEFINE tables == WithLot(work, b)
  <2>1. /\ tables.events = work.events
        /\ \A i \in Invoices :
             tables.invoices[i] = IF i \in LotOf[b] THEN "created" ELSE work.invoices[i]
    BY <1>2 DEF WithLot, Tables
  <2>2. Commit(b, tables) /\ pc[b] = "issued"
    BY <1>6 DEF RecordBatch, BatchAt
  <2>3. \A i \in Invoices : i \in LotOf[b] => work.invoices[i] = None
    BY <2>2 DEF CountInv, RecordedIn
  <2>4. ~Paid(None)
    BY NoneAssumption DEF Paid, InvoiceStatus
  <2> HIDE DEF tables
  <2>5. Counts(tables)
    BY <2>1, <2>3, <2>4 DEF Counts, CountedIn, PutBackIn
  <2>6. QED BY <1>3, <2>2, <2>5, SessionCounts
<1>7. QED BY <1>1, <1>4, <1>5, <1>6 DEF OpenBatch, FailBatch

(* A status "overdue" of an invoice that is paid by now. *)
LEMMA OverdueWas ==
  ASSUME NEW i \in Invoices, Paid(bankInvoices[i]), InvoiceReached(i, "overdue")
  PROVE  i \in overdue
BY DEF InvoiceReached, Reached, Paid, InvoiceHistory

(* An event that unpays an invoice is stored: it puts the invoice back. *)
LEMMA StatusCounts ==
  ASSUME work \in Tables, NEW i \in Invoices, NEW s \in InvoiceStatus,
         InvoiceEvent(i, s) \in work.events, InvoiceReached(i, s)
  PROVE  Counts(WithInvoiceStatus(work, i, s))
<1> DEFINE tables == WithInvoiceStatus(work, i, s)
<1>1. /\ tables.events = work.events
      /\ \A j \in Invoices : tables.invoices[j] = work.invoices[j]
                               \/ (j = i /\ tables.invoices[j] = s)
  BY DEF WithInvoiceStatus, Tables
<1>2. Paid(bankInvoices[i]) => Paid(s) \/ PutBackIn(tables, i)
  <2>1. CASE s = "overdue"
    BY <2>1, OverdueWas DEF PutBackIn
  <2>2. CASE s # "overdue"
    BY <1>1, <2>2 DEF InvoiceStatus, Paid, PutBackIn
  <2>3. QED BY <2>1, <2>2
<1> HIDE DEF tables
<1>3. Counts(tables)
  BY <1>1, <1>2 DEF Counts, CountedIn, PutBackIn
<1>4. QED BY <1>3 DEF tables

(* A payout starts on top of tables in which its invoice is counted. *)
LEMMA StartCounts ==
  ASSUME TypeInv, NEW p, NEW i \in Invoices, NEW cause, NEW tables \in Tables,
         StartTransfer(p, i, cause, tables), tables.transfers = work.transfers,
         Counts(tables), Paid(bankInvoices[i]), CountedIn(tables, i)
  PROVE  CountStep
<1> DEFINE new == [tables EXCEPT !.transfers = tables.transfers \cup {NewRow(i, cause)}]
<1>1. work' = new
  BY DEF StartTransfer, Flush
<1>2. /\ new.events = tables.events /\ new.invoices = tables.invoices
      /\ new.transfers = work.transfers \cup {NewRow(i, cause)}
  BY DEF Tables
<1> HIDE DEF new
<1>3. Counts(new) /\ CountedIn(new, i)
  BY <1>2 DEF Counts, CountedIn, PutBackIn
<1>4. Entries(new) = Entries(work) \cup {Entry(NewRow(i, cause))}
  BY <1>2 DEF Entries
<1>5. Entry(NewRow(i, cause)).invoice = i
  BY DEF Entry, NewRow
<1>6. StartsCounted
  BY <1>1, <1>3, <1>4, <1>5 DEF StartsCounted
<1>7. QED BY <1>1, <1>3, <1>6 DEF CountStep

(* A request writes its event's type over the status, or credits it. *)
LEMMA WebhookCounts ==
  ASSUME TypeInv, LockPositions, BooksInv, RealEvents, NEW r \in Requests,
         WebhookStep(r) \/ \E e \in Emitted \ acked : Deliver(r, e)
  PROVE  CountStep
<1> r \in Processes /\ r # None
  BY NoneIsNoStatus DEF Processes
<1>1. work \in Tables /\ LockAt(r)
  BY DEF TypeInv, TypeOK, DatabaseTypeOK, LockPositions
<1>2. CASE \E e \in Emitted \ acked : Deliver(r, e)
  BY <1>2, QuietCounts DEF Deliver
<1>3. CASE Parse(r) \/ ParseFails(r) \/ AcquireWebhookLock(r)
  BY <1>3, QuietCounts DEF Parse, ParseFails, AcquireWebhookLock
<1>4. CASE CheckDuplicate(r) \/ InsertCollides(r) \/ InsertTimesOut(r)
  BY <1>4, QuietCounts DEF CheckDuplicate, InsertCollides, InsertTimesOut
<1>5. CASE AnswerArrives(r) \/ AnswerLost(r) \/ MissTransfer(r)
  BY <1>5, QuietCounts DEF AnswerArrives, AnswerLost, ReleaseSlot, MissTransfer
<1>6. CASE InsertEvent(r)
  <2>1. PICK tables : /\ tables = [work EXCEPT !.events = work.events \cup {event[r]}]
                      /\ Flush(r, tables) /\ UNCHANGED lastRow
    BY <1>6 DEF InsertEvent
  <2>2. work.events \subseteq tables.events /\ tables.invoices = work.invoices
    BY <1>1, <2>1 DEF Tables
  <2>3. QED BY <2>1, <2>2, SameCounts, SessionCounts
<1>7. ASSUME pc[r] = "invoice"
      PROVE  /\ event[r].id \in Invoices /\ event[r].type \in InvoiceStatus
             /\ InvoiceEvent(event[r].id, event[r].type) \in work.events
             /\ InvoiceReached(event[r].id, event[r].type)
  <2>1. event[r] \in EventIds /\ event[r].kind = "invoice"
    BY <1>7 DEF TypeInv, Positions, RequestAt
  <2>2. Real(event[r]) /\ event[r] \in work.events
    BY <1>7 DEF RealEvents, BooksInv, BooksAt
  <2>3. event[r].id \in Invoices /\ event[r].type \in InvoiceStatus
    BY <2>1, EventKinds
  <2>4. event[r] = InvoiceEvent(event[r].id, event[r].type)
    BY <2>1 DEF EventIds, OtherEvent, InvoiceEvent
  <2>5. QED BY <2>1, <2>2, <2>3, <2>4 DEF Real, InvoiceReached
<1>8. CASE RecordInvoiceEvent(r)
  <2> DEFINE tables == WithInvoiceStatus(work, event[r].id, event[r].type)
  <2>1. Counts(tables)
    BY <1>1, <1>7, <1>8, StatusCounts DEF RecordInvoiceEvent
  <2>2. Flush(r, tables) /\ UNCHANGED lastRow
    BY <1>8 DEF RecordInvoiceEvent
  <2> HIDE DEF tables
  <2>3. QED BY <2>1, <2>2, SessionCounts
<1>9. CASE DispatchCredited(r)
  <2> DEFINE i == event[r].id
             tables == WithInvoiceStatus(work, i, event[r].type)
  <2>1. pc[r] = "invoice" /\ event[r].type = "credited" /\ work.invoices[i] # None
    BY <1>9 DEF DispatchCredited, Credited, Known
  <2>2. Counts(tables) /\ tables \in Tables
    BY <1>1, <1>7, <2>1, StatusCounts, WithInvoiceStatusTyped
  <2>3. tables.transfers = work.transfers /\ tables.invoices[i] = "credited"
    BY <1>1, <1>7, <2>1 DEF WithInvoiceStatus, Tables
  <2>4. CountedIn(tables, i)
    BY <2>3 DEF CountedIn, Paid
  <2>5. Paid(bankInvoices[i]) /\ i \in Invoices
    <3>1. bankInvoices[i] \in InvoiceStatus /\ "credited" \in InvoiceHistory[bankInvoices[i]]
      BY <1>7, <2>1 DEF InvoiceReached, Reached, TypeInv, TypeOK, BankTypeOK
    <3>2. QED BY <1>7, <2>1, <3>1, CreditedIsPaid
  <2>6. StartTransfer(r, i, event[r], tables)
    BY <1>9 DEF DispatchCredited
  <2> HIDE DEF tables, i
  <2>7. QED BY <2>2, <2>3, <2>4, <2>5, <2>6, StartCounts
<1>10. ASSUME NEW a, FailRequest(r, a), pc[r] \in InTransaction.request
       PROVE  work' = db
  BY <1>1, <1>10 DEF FailRequest, Rollback, LockAt
<1>11. CASE RefuseCredited(r) \/ AbandonCredited(r)
  BY <1>10, <1>11 DEF RefuseCredited, AbandonCredited, InTransaction, InPayout, CountStep
<1>12. CASE UpdateTransfer(r)
  <2>1. PICK tables, rows : /\ tables = [work EXCEPT !.transfers = rows]
                            /\ Flush(r, tables) /\ UNCHANGED lastRow
    BY <1>12 DEF UpdateTransfer
  <2>2. work.events \subseteq tables.events /\ tables.invoices = work.invoices
    BY <1>1, <2>1 DEF Tables
  <2>3. QED BY <2>1, <2>2, SameCounts, SessionCounts
<1>13. CASE CommitEvent(r)
  BY <1>13, SameCounts, SessionCounts DEF CommitEvent
<1>14. QED BY <1>2, <1>3, <1>4, <1>5, <1>6, <1>8, <1>9, <1>11, <1>12, <1>13 DEF WebhookStep

(* Of a paid invoice, a reconciliation writes that it is paid or was overdue. *)
LEMMA FlushCounts ==
  ASSUME TypeInv, work \in Tables, NEW ch,
         \A c \in ch : InvoiceReached(c.id, c.status) /\ c.status # "created"
  PROVE  /\ Counts(FlushInvoices(work, ch))
         /\ \A i \in Invoices : Paid(bankInvoices[i]) /\ (\E c \in ch : c.id = i)
                                  => CountedIn(FlushInvoices(work, ch), i)
<1> DEFINE F == FlushInvoices(work, ch)
<1>1. /\ F.events = work.events
      /\ \A i \in Invoices : F.invoices[i] = StatusFrom(ch, i, work.invoices[i])
  BY DEF FlushInvoices, Tables
<1>2. ASSUME NEW i \in Invoices, Paid(bankInvoices[i]), \E c \in ch : c.id = i
      PROVE  Paid(StatusFrom(ch, i, work.invoices[i])) \/ i \in overdue
  <2>1. PICK c \in ch : c.id = i /\ StatusFrom(ch, i, work.invoices[i]) = c.status
    BY <1>2 DEF StatusFrom
  <2>2. /\ bankInvoices[i] \in {"paid", "credited"}
        /\ c.status \in InvoiceHistory[bankInvoices[i]] \/ i \in overdue
    BY <1>2, <2>1 DEF InvoiceReached, Reached, Paid
  <2>3. c.status \in {"created", "paid", "credited"} \/ i \in overdue
    BY <2>2 DEF InvoiceHistory
  <2>4. c.status # "created"
    BY <2>1
  <2>5. QED BY <2>1, <2>3, <2>4 DEF Paid
<1>3. \A i \in Invoices : ~(\E c \in ch : c.id = i)
        => StatusFrom(ch, i, work.invoices[i]) = work.invoices[i]
  BY DEF StatusFrom
<1> HIDE DEF F
<1>4. \A i \in Invoices : Paid(bankInvoices[i]) /\ (\E c \in ch : c.id = i) => CountedIn(F, i)
  BY <1>1, <1>2 DEF CountedIn, PutBackIn
<1>5. Counts(F)
  BY <1>1, <1>3, <1>4 DEF Counts, CountedIn, PutBackIn
<1>6. QED BY <1>4, <1>5 DEF F

(* And it pays an invoice whose new status it writes in the same flush. *)
LEMMA ReconcileCounts ==
  ASSUME TypeInv, JobItems, StatusInv, CountInv, NEW p \in Reconcilers,
         LoadInvoices(p) \/ ReconcileStep(p)
  PROVE  CountStep
<1>1. work \in Tables
  BY DEF TypeInv, TypeOK, DatabaseTypeOK
<1>2. ASSUME NEW x \in loaded[p], FetchInvoice(p, x) \/ FetchFails(p, x) \/ FetchTransfer(p, x)
      PROVE  CountStep
  BY <1>2, QuietCounts DEF FetchInvoice, FetchFails, FetchTransfer
<1>3. CASE LoadInvoices(p) \/ NextInvoice(p) \/ LoadTransfers(p) \/ AbortJob(p)
  BY <1>3, QuietCounts DEF LoadInvoices, NextInvoice, LoadTransfers, AbortJob
<1>4. ASSUME pc[p] \in {"invoices", "checking"}
      PROVE  /\ Counts(Flushed(p)) /\ Flushed(p) \in Tables
             /\ Flushed(p).transfers = work.transfers
             /\ \A i \in Invoices : Paid(bankInvoices[i]) /\ (\E c \in changes[p] : c.id = i)
                                      => CountedIn(Flushed(p), i)
  <2>1. \A c \in changes[p] : InvoiceReached(c.id, c.status) /\ c.status # "created"
    BY <1>4 DEF StatusInv, ChangesReached, InTransaction, CountInv, Loads
  <2>2. changes[p] \in SUBSET InvoiceItem
    BY <1>4 DEF TypeInv, Positions, JobAt
  <2>3. \A c \in changes[p] : InvoiceReached(c.id, c.status)
    BY <2>1
  <2>4. QED BY <1>1, <2>1, <2>2, <2>3, FlushCounts, FlushTold, FlushInvoicesTyped DEF Flushed
<1>5. CASE PayMissing(p)
  <2>1. pc[p] = "checking" /\ StartTransfer(p, item[p], ReconcileId(item[p]), Flushed(p))
    BY <1>5 DEF PayMissing
  <2>2. /\ item[p] \in Invoices /\ Paid(bankInvoices[item[p]])
        /\ \E c \in changes[p] : c.id = item[p]
    BY <2>1 DEF JobItems, RecordedIn, CountInv, Loads
  <2>3. QED BY <1>4, <2>1, <2>2, StartCounts
<1>6. CASE SkipPayout(p)
  BY <1>4, <1>6, SessionCounts DEF SkipPayout
<1>7. CASE EndInvoices(p)
  <2>1. /\ pc[p] = "invoices" /\ UNCHANGED lastRow
        /\ Commit(p, Flushed(p)) \/ UNCHANGED dbVars
    BY <1>7 DEF EndInvoices, EndPhase
  <2>2. QED BY <1>4, <2>1, SessionCounts, QuietCounts
<1>8. CASE EndTransfers(p)
  <2> DEFINE tables == FlushTransfers(work, changes[p])
  <2>1. UNCHANGED lastRow /\ (Commit(p, tables) \/ UNCHANGED dbVars)
    BY <1>8 DEF EndTransfers, EndPhase
  <2>2. tables.invoices = work.invoices /\ tables.events = work.events
    BY <1>1 DEF FlushTransfers, Tables
  <2> HIDE DEF tables
  <2>3. QED BY <2>1, <2>2, SameCounts, SessionCounts, QuietCounts
<1>9. QED BY <1>2, <1>3, <1>5, <1>6, <1>7, <1>8 DEF ReconcileStep

(* Whatever happens, the invoices that were paid out stay counted. *)
LEMMA CountSteps ==
  ASSUME TypeInv, LockPositions, BooksInv, EventsInv, StatusInv, CountInv, [Next]_vars
  PROVE  CountStep
<1>1. CASE UNCHANGED <<dbVars, lastRow>>
  BY <1>1, QuietCounts
<1>2. CASE TransferNext
  BY <1>2, TransferCounts DEF TransferNext, Processes
<1>3. CASE WebhookNext
  BY <1>3, WebhookCounts DEF WebhookNext, EventsInv
<1>4. CASE ReconcileNext
  BY <1>1, <1>4, ReconcileCounts DEF ReconcileNext, AgeOut, EventsInv
<1>5. CASE IssueNext
  BY <1>5, IssueCounts
<1>6. ASSUME NEW w \in Workers, Crash(w)
      PROVE  CountStep
  <2>1. CASE writer # None /\ On(w, writer)
    BY <1>6, <2>1 DEF Crash, Rollback, CountStep
  <2>2. CASE ~(writer # None /\ On(w, writer))
    BY <1>1, <1>6, <2>2 DEF Crash
  <2>3. QED BY <2>1, <2>2
<1>7. CASE UNCHANGED <<dbVars, transferVars>>
  BY <1>1, <1>7 DEF transferVars
<1>8. QED BY <1>2, <1>3, <1>4, <1>5, <1>6, <1>7 DEF Next, vars

(* A run loads what is created; what it fetches differs from that. *)
LEMMA NextLoads ==
  ASSUME TypeInv, NEW p \in Reconcilers, Loads(p), [Next]_vars
  PROVE  Loads(p)'
<1> p \in Processes
  BY DEF Processes
<1>1. "idle" \notin InTransaction.job /\ "loading" \notin InTransaction.job
      /\ "transfers" \notin InTransaction.job /\ "checking" \in InTransaction.job
      /\ "invoices" \in InTransaction.job
  BY DEF InTransaction, InPayout
<1>2. ASSUME NEW label \in Places, Goto(p, label)
      PROVE  pc'[p] = label
  BY <1>2, GotoTyped DEF TypeInv
<1>3. (Loads(p)' <=>
       /\ pc'[p] \in InTransaction.job =>
            /\ \A x \in loaded'[p] : x.status = "created"
            /\ \A c \in changes'[p] : c.status # "created"
       /\ pc'[p] = "checking" => \E c \in changes'[p] : c.id = item'[p])
  BY DEF Loads, InTransaction, InPayout
<1> USE DEF TypeInv, TypeOK, ReconcileTypeOK, reconcileVars
<1>4. CASE /\ pc'[p] = pc[p] /\ loaded'[p] = loaded[p]
           /\ changes'[p] = changes[p] /\ item'[p] = item[p]
  BY <1>3, <1>4 DEF Loads
<1>5. CASE TransferStep(p) /\ UNCHANGED reconcileVars
  <2>1. pc[p] \in InPayout
    BY <1>5 DEF TransferStep, BankExecutes, BankReplies, BankRepliesEmpty, CallFails, InPayout
  <2>2. PICK label \in {"executed", "transferred", "transferFailed"} : Goto(p, label)
    BY <1>5 DEF TransferStep, BankExecutes, BankReplies, BankRepliesEmpty, CallFails, SettleRow
  <2>3. pc'[p] # "checking" /\ pc[p] \in InTransaction.job
    BY <1>2, <2>1, <2>2 DEF Places, InTransaction
  <2>4. QED BY <1>3, <1>5, <2>3 DEF Loads
<1>6. CASE LoadInvoices(p)
  <2>1. pc[p] = "idle" /\ changes[p] = {}
    BY <1>6 DEF LoadInvoices, Positions, JobAt
  <2>2. \A x \in PendingInvoices : x.status = "created"
    <3>1. db.invoices \in [Invoices -> InvoiceStatus \cup {None}]
      BY DEF DatabaseTypeOK, Tables
    <3>2. None # "pending"
      BY NoneAssumption DEF TransferStatus
    <3>3. QED BY <3>1, <3>2 DEF PendingInvoices, PendingInvoiceStatus, InvoiceStatus
  <2>3. loaded'[p] = PendingInvoices /\ changes'[p] = {} /\ pc'[p] = "invoices"
    BY <1>2, <1>6, <2>1 DEF LoadInvoices, Places
  <2>4. QED BY <1>3, <2>2, <2>3
<1>7. ASSUME NEW x \in loaded[p], FetchInvoice(p, x)
      PROVE  Loads(p)'
  <2>1. pc[p] = "invoices" /\ x.status = "created"
    BY <1>1, <1>7 DEF FetchInvoice, Loads
  <2> DEFINE s == bankInvoices[x.id]
             ch == Change(x, s)
  <2>2. /\ \A c \in ch : c.status # "created"
        /\ Paid(s) => \E c \in ch : c.id = x.id
    <3>1. Paid(s) => s \notin {None, x.status}
      BY <2>1, NoneAssumption DEF Paid, InvoiceStatus
    <3> HIDE DEF s
    <3>2. CASE s \in {None, x.status}
      <4>1. ch = {}
        BY <3>2 DEF Change
      <4>2. QED BY <3>1, <3>2, <4>1
    <3>3. CASE s \notin {None, x.status}
      <4> DEFINE c == [id |-> x.id, status |-> s]
      <4>1. ch = {c}
        BY <3>3 DEF Change
      <4>2. c.id = x.id /\ c.status = s
        OBVIOUS
      <4> HIDE DEF c, ch
      <4>3. QED BY <2>1, <3>3, <4>1, <4>2
    <3>4. QED BY <3>2, <3>3
  <2>3. loaded'[p] \subseteq loaded[p] /\ changes'[p] = changes[p] \cup ch
    BY <1>7 DEF FetchInvoice, Advance
  <2>4. \/ Paid(s) /\ item'[p] = x.id
        \/ pc'[p] = "invoices"
    <3>1. CASE Paid(s)
      BY <1>7, <3>1 DEF FetchInvoice
    <3>2. CASE ~Paid(s)
      BY <1>7, <2>1, <3>2 DEF FetchInvoice
    <3>3. QED BY <3>1, <3>2
  <2> HIDE DEF ch, s
  <2>5. QED BY <1>1, <1>3, <2>1, <2>2, <2>3, <2>4 DEF Loads
<1>8. ASSUME NEW x \in loaded[p], FetchFails(p, x)
      PROVE  Loads(p)'
  <2>1. pc'[p] = pc[p] /\ pc[p] # "checking" /\ loaded'[p] \subseteq loaded[p]
        /\ changes'[p] = changes[p]
    BY <1>8 DEF FetchFails, Advance
  <2>2. QED BY <1>3, <2>1 DEF Loads
<1>9. CASE PayMissing(p) \/ SkipPayout(p)
  <2>1. /\ pc[p] = "checking" /\ loaded' = loaded /\ changes'[p] = {}
        /\ Goto(p, "sending") \/ Goto(p, "invoices")
    BY <1>9 DEF PayMissing, StartTransfer, SkipPayout
  <2>2. pc'[p] # "checking"
    BY <1>2, <2>1 DEF Places
  <2>3. QED BY <1>1, <1>3, <2>1, <2>2 DEF Loads
<1>10. CASE NextInvoice(p)
  <2>1. pc[p] \in InPayout /\ pc'[p] = "invoices" /\ UNCHANGED reconcileVars
    BY <1>2, <1>10 DEF NextInvoice, InPayout, Places
  <2>2. pc[p] \in InTransaction.job
    BY <2>1 DEF InTransaction
  <2>3. QED BY <1>3, <2>1, <2>2 DEF Loads
<1>11. CASE EndInvoices(p) \/ LoadTransfers(p) \/ EndTransfers(p) \/ AbortJob(p)
  <2>1. pc'[p] \in {"idle", "loading", "transfers"}
    BY <1>2, <1>11 DEF EndInvoices, LoadTransfers, EndTransfers, AbortJob, Places
  <2>2. QED BY <1>1, <1>3, <2>1
<1>12. ASSUME NEW x \in loaded[p], FetchTransfer(p, x)
       PROVE  Loads(p)'
  <2>1. pc'[p] = "transfers"
    BY <1>12 DEF FetchTransfer
  <2>2. QED BY <1>1, <1>3, <2>1
<1>13. CASE ReconcileStep(p)
  BY <1>7, <1>8, <1>9, <1>10, <1>11, <1>12, <1>13 DEF ReconcileStep
<1>14. CASE pc'[p] = "idle"
  BY <1>1, <1>3, <1>14
<1>15. QED BY <1>4, <1>5, <1>6, <1>13, <1>14, JobTurns

(* A lot is not recorded before its batch does it. *)
LEMMA NextIssued ==
  ASSUME TypeInv, LockPositions', EventsInv, StatusInv, CountInv, Deed, [Next]_vars,
         NEW b \in Batches, pc'[b] = "issued"
  PROVE  LotOf[b] \cap RecordedIn(work') = {}
<1> b \in Processes /\ b # None
  BY NoneIsNoStatus DEF Processes
<1>1. LotOf[b] \cap RecordedIn(work) = {}
  <2>1. CASE pc[b] = "issued"
    BY <2>1 DEF CountInv
  <2>2. CASE pc[b] = "issuing"
    BY <2>2, ConstantsAssumption DEF EventsInv, Lots, StatusInv, TablesReached, InvoicesReached,
       InvoiceReached, Reached, RecordedIn
  <2>3. pc[b] \in {"issuing", "issued"}
    BY Onward DEF GoesOn, BatchGoesOn
  <2>4. QED BY <2>1, <2>2, <2>3
<1>2. CASE RecordedIn(work') = RecordedIn(work)
  BY <1>1, <1>2
<1>3. CASE Undone
  <2>1. RecordedIn(work') \subseteq RecordedIn(work)
    BY <1>3 DEF Undone, EventsInv, Ours
  <2>2. QED BY <1>1, <2>1
<1>4. ASSUME NEW c \in Batches, Records(c)
      PROVE  FALSE
  <2>1. writer' = b
    BY DEF LockPositions, LockAt, InTransaction
  <2>2. QED BY <1>4, <2>1 DEF Records
<1>5. CASE Still
  BY <1>2, <1>5 DEF Still, dbVars
<1>6. QED BY <1>2, <1>3, <1>4, <1>5 DEF Deed, Rewrites, Keeps, Inserts, Starts, Replies

(* The payouts on the tables are of invoices that are paid and counted. *)
LEMMA NextCount ==
  ASSUME TypeInv, TypeInv', LockPositions, LockPositions', BooksInv, DraftInv, EventsInv,
         StatusInv, CountInv, [Next]_vars
  PROVE  CountInv'
<1>1. Deed
  BY Deeds
<1>2. \A i \in Invoices : Paid(bankInvoices[i]) => Paid(bankInvoices'[i])
  BY Onward, Progress DEF EventsInv
<1>3. /\ \A entry \in Entries(work) : entry.invoice \in Invoices
      /\ Entries(db) \subseteq Entries(work)
  BY EntriesKept DEF Entries, Entry, TypeInv, TypeOK, DatabaseTypeOK, Tables, TransferRow
<1>4. ASSUME NEW entry \in Entries(work')
      PROVE  Paid(bankInvoices'[entry.invoice]) /\ CountedIn(work', entry.invoice)
  <2>1. CASE work' = db
    BY <1>2, <1>3, <1>4, <2>1 DEF CountInv
  <2>2. ASSUME entry \in Entries(work), Counts(work')
        PROVE  Paid(bankInvoices'[entry.invoice]) /\ CountedIn(work', entry.invoice)
    BY <1>2, <1>3, <2>2 DEF CountInv, Counts
  <2>3. CASE Counts(work') /\ StartsCounted
    BY <1>2, <1>4, <2>2, <2>3 DEF StartsCounted
  <2>4. CASE Counts(work') /\ lastRow' = lastRow
    <3>1. ~(\E p \in Requests \cup Reconcilers : Starts(p))
      BY <2>4 DEF Starts, TypeInv, TypeOK, TransferTypeOK
    <3>2. CASE Entries(work') = Entries(work)
      BY <1>4, <2>2, <2>4, <3>2
    <3>3. CASE Undone
      BY <2>1, <3>3 DEF Undone
    <3>4. QED BY <3>1, <3>2, <3>3, EntryMoves
  <2>5. QED BY <2>1, <2>3, <2>4, CountSteps DEF CountStep
<1>5. \A entry \in Entries(work') : CountedIn(work', entry.invoice)
  BY <1>4
<1>6. ASSUME NEW entry \in Entries(db')
      PROVE  CountedIn(db', entry.invoice)
  <2>1. PICK tables : tables = db'
    OBVIOUS
  <2>2. tables = db \/ tables = work'
    BY <2>1, EntryMoves DEF Undone, Starts
  <2>3. \A e2 \in Entries(tables) : CountedIn(tables, e2.invoice)
    BY <1>5, <2>2 DEF CountInv
  <2>4. QED BY <1>6, <2>1, <2>3
<1>7. \A b \in Batches : pc'[b] = "issued" => LotOf[b] \cap RecordedIn(work') = {}
  BY <1>1, NextIssued
<1>8. \A p \in Reconcilers : Loads(p)'
  BY NextLoads DEF CountInv
<1>9. overdue \subseteq overdue'
  BY Onward DEF GoesOn
<1>10. QED BY <1>4, <1>6, <1>7, <1>8, <1>9
           DEF CountInv, CountedIn, PutBackIn, Entries, RecordedIn, Paid

(* At the start nothing is written down. *)
LEMMA InitCount == Init => CountInv
<1> SUFFICES ASSUME Init PROVE CountInv
  OBVIOUS
<1>1. /\ db = EmptyTables /\ work = EmptyTables /\ pc = [p \in Processes |-> "idle"]
      /\ loaded = [p \in Reconcilers |-> {}] /\ changes = [p \in Reconcilers |-> {}]
  BY DEF Init, DatabaseInit, TransferInit, ReconcileInit
<1>2. Entries(EmptyTables) = {}
  BY DEF EmptyTables, Entries
<1>3. \A p \in Processes : pc[p] = "idle"
  BY <1>1
<1>4. QED BY <1>1, <1>2, <1>3 DEF CountInv, Loads, Processes

(* A payout is only ever written down together with the news that its        *)
(* invoice was paid, and only an older event, stored with it, or the news    *)
(* that it was overdue can overwrite that: webhook, reconciliation and       *)
(* batch, committed or not yet.                                              *)
THEOREM PaidOutIsCounted == Spec => []CountInv
<1>1. /\ TypeInv /\ TypeInv' /\ LockPositions /\ LockPositions' /\ BooksInv /\ DraftInv
      /\ EventsInv /\ StatusInv /\ CountInv /\ [Next]_vars
      => CountInv'
  BY NextCount
<1>2. QED BY <1>1, InitCount, TypeInvariant, LockInvariant, BooksInvariant, DraftInvariant,
             EventsInvariant, StatusInvariant, PTL DEF Spec

-----------------------------------------------------------------------------
(***************************************************************************)
(* The two sums of the summary.                                            *)
(***************************************************************************)

\* What the library's folds are the g of.
NetFolds(g, S) ==
  g = [T \in SUBSET S |-> IF T = {} THEN 0 ELSE Net(Any(T).invoice) + g[T \ {Any(T)}]]
SurchargeFolds(g, S) ==
  g = [T \in SUBSET S |-> IF T = {} THEN 0 ELSE Surcharge(Any(T).invoice) + g[T \ {Any(T)}]]
NetOn(S) == [row \in S |-> Net(row.invoice)]
SurchargeOn(S) == [row \in S |-> Surcharge(row.invoice)]

(* IssuedOf sums up the amounts. *)
LEMMA IssuedSums ==
  ASSUME NEW S \in SUBSET Invoices
  PROVE  \E g : Sums(g, Issued, S) /\ IssuedOf(S) = g[S]
<1>1. IsFiniteSet(S)
  BY InvoicesAssumption, FS_Subset
<1>2. PICK h : Sums(h, Issued, S)
  BY <1>1, SumExists
<1>3. QED BY <1>2 DEF IssuedOf, MapThenSumSet, MapThenFoldSet, Sums, Any

(* NetOf sums up what the rows' invoices are worth. *)
LEMMA NetSums ==
  ASSUME NEW S, IsFiniteSet(S)
  PROVE  \E g : Sums(g, NetOn(S), S) /\ NetOf(S) = g[S]
<1> DEFINE w == NetOn(S)
<1>1. ASSUME NEW T \in SUBSET S, T # {}
      PROVE  w[Any(T)] = Net(Any(T).invoice)
  <2>1. Any(T) \in S
    BY <1>1 DEF Any
  <2>2. QED BY <2>1 DEF NetOn
<1> HIDE DEF w
<1>2. \A g : Sums(g, w, S) <=> NetFolds(g, S)
  <2> SUFFICES ASSUME NEW g PROVE Sums(g, w, S) <=> NetFolds(g, S)
    OBVIOUS
  <2> DEFINE A == [T \in SUBSET S |-> IF T = {} THEN 0 ELSE w[Any(T)] + g[T \ {Any(T)}]]
             B == [T \in SUBSET S |->
                     IF T = {} THEN 0 ELSE Net(Any(T).invoice) + g[T \ {Any(T)}]]
  <2>1. A = B
    BY <1>1
  <2>2. QED BY <2>1 DEF Sums, NetFolds
<1>3. PICK h : NetFolds(h, S)
  BY <1>2, SumExists
<1>4. \E g : NetFolds(g, S) /\ NetOf(S) = g[S]
  BY <1>3 DEF NetOf, MapThenSumSet, MapThenFoldSet, NetFolds, Any
<1>5. QED BY <1>2, <1>4 DEF w

(* SurchargeOf sums up what their payers were charged besides. *)
LEMMA SurchargeSums ==
  ASSUME NEW S, IsFiniteSet(S)
  PROVE  \E g : Sums(g, SurchargeOn(S), S) /\ SurchargeOf(S) = g[S]
<1> DEFINE w == SurchargeOn(S)
<1>1. ASSUME NEW T \in SUBSET S, T # {}
      PROVE  w[Any(T)] = Surcharge(Any(T).invoice)
  <2>1. Any(T) \in S
    BY <1>1 DEF Any
  <2>2. QED BY <2>1 DEF SurchargeOn
<1> HIDE DEF w
<1>2. \A g : Sums(g, w, S) <=> SurchargeFolds(g, S)
  <2> SUFFICES ASSUME NEW g PROVE Sums(g, w, S) <=> SurchargeFolds(g, S)
    OBVIOUS
  <2> DEFINE A == [T \in SUBSET S |-> IF T = {} THEN 0 ELSE w[Any(T)] + g[T \ {Any(T)}]]
             B == [T \in SUBSET S |->
                     IF T = {} THEN 0 ELSE Surcharge(Any(T).invoice) + g[T \ {Any(T)}]]
  <2>1. A = B
    BY <1>1
  <2>2. QED BY <2>1 DEF Sums, SurchargeFolds
<1>3. PICK h : SurchargeFolds(h, S)
  BY <1>2, SumExists
<1>4. \E g : SurchargeFolds(g, S) /\ SurchargeOf(S) = g[S]
  BY <1>3 DEF SurchargeOf, MapThenSumSet, MapThenFoldSet, SurchargeFolds, Any
<1>5. QED BY <1>2, <1>4 DEF w

-----------------------------------------------------------------------------
(***************************************************************************)
(* What the first query has seen stays in the tables: the rows it could    *)
(* have counted are of invoices that it did count, or that an event has    *)
(* put back by now.                                                        *)
(***************************************************************************)

UniqueIds == \A a, b \in Entries(db) : a.id = b.id => a = b

\* C is what the sums of a summary s are over, k the rows it could have counted.
Fits(s, k, tables, C) ==
  /\ s.credited = IssuedOf(C) /\ s.creditedCount = Cardinality(C)
  /\ \A entry \in Entries(tables) :
       entry.id \in k => entry.invoice \in C \/ PutBackIn(tables, entry.invoice)
Good(s, k, tables) ==
  s # None => k \subseteq Ids(tables) /\ \E C \in SUBSET Invoices : Fits(s, k, tables, C)
SumsInv ==
  /\ DOMAIN sums = Readers /\ DOMAIN known = Readers
  /\ \A d \in Readers : Good(sums[d], known[d], db)

(* Nothing that is committed is ever taken back. *)
LEMMA CommittedStays ==
  ASSUME TypeInv, LockPositions, BooksInv, DraftInv, EventsInv, [Next]_vars
  PROVE  /\ Entries(db) \subseteq Entries(db') /\ db.events \subseteq db'.events
         /\ overdue \subseteq overdue'
<1>1. db.events \subseteq db'.events
  BY EventsStay
<1>2. Entries(db) \subseteq Entries(work)
  BY EntriesKept
<1>3. PICK tables : tables = db'
  OBVIOUS
<1>4. tables = db \/ Entries(tables) = Entries(work)
  BY <1>3, EntryMoves DEF Undone, Starts
<1>5. overdue \subseteq overdue'
  BY Onward DEF GoesOn
<1>6. QED BY <1>1, <1>2, <1>3, <1>4, <1>5

(* The queries and the commits between them. *)
LEMMA NextSums ==
  ASSUME TypeInv, LockPositions, BooksInv, DraftInv, EventsInv, CountInv, UniqueIds',
         SumsInv, [DashboardNext]_allVars
  PROVE  SumsInv'
<1>1. /\ DOMAIN sums = Readers /\ DOMAIN known = Readers
      /\ \A d \in Readers : Good(sums[d], known[d], db)
  BY DEF SumsInv
<1>0. ASSUME NEW tables, tables = db', DOMAIN sums' = Readers, DOMAIN known' = Readers,
             \A d \in Readers : Good(sums'[d], known'[d], tables), overdue \subseteq overdue'
      PROVE  SumsInv'
  <2>1. \A i : PutBackIn(tables, i) => PutBackIn(db, i)'
    BY <1>0 DEF PutBackIn
  <2>2. ASSUME NEW d \in Readers
        PROVE  Good(sums[d], known[d], db)'
    <3>1. SUFFICES ASSUME sums'[d] # None
                   PROVE  /\ known'[d] \subseteq Ids(db')
                          /\ \E C \in SUBSET Invoices : Fits(sums[d], known[d], db, C)'
      BY DEF Good, Ids, Entries
    <3>2. PICK C \in SUBSET Invoices : Fits(sums'[d], known'[d], tables, C)
      BY <1>0, <3>1 DEF Good
    <3>3. Fits(sums[d], known[d], db, C)'
      <4>1. /\ sums'[d].credited = IssuedOf(C) /\ sums'[d].creditedCount = Cardinality(C)
            /\ \A entry \in Entries(tables) : entry.id \in known'[d]
                 => entry.invoice \in C \/ PutBackIn(tables, entry.invoice)
        BY <3>2 DEF Fits
      <4>2. \A entry \in Entries(tables) : entry.id \in known'[d]
              => entry.invoice \in C \/ PutBackIn(db, entry.invoice)'
        BY <2>1, <4>1
      <4>3. Entries(tables) = Entries(db)'
        BY <1>0 DEF Entries, Entry
      <4>4. QED BY <4>1, <4>2, <4>3 DEF Fits, PutBackIn
    <3>4. known'[d] \subseteq Ids(tables)
      BY <1>0, <3>1 DEF Good
    <3>5. QED BY <1>0, <3>3, <3>4
  <2>3. QED BY <1>0, <2>2 DEF SumsInv
<1>2. CASE [Next]_vars /\ UNCHANGED dashboardVars
  <2>1. /\ Entries(db) \subseteq Entries(db') /\ db.events \subseteq db'.events
        /\ overdue \subseteq overdue'
    BY <1>2, CommittedStays
  <2>2. PICK tables : tables = db'
    OBVIOUS
  <2>3. /\ Entries(db) \subseteq Entries(tables)
        /\ \A i : PutBackIn(db, i) => PutBackIn(tables, i)
        /\ \A a, b \in Entries(tables) : a.id = b.id => a = b
    BY <2>1, <2>2 DEF PutBackIn, UniqueIds
  <2>4. ASSUME NEW d \in Readers
        PROVE  Good(sums[d], known[d], tables)
    <3>1. SUFFICES ASSUME sums[d] # None
                   PROVE  /\ known[d] \subseteq Ids(tables)
                          /\ \E C \in SUBSET Invoices : Fits(sums[d], known[d], tables, C)
      BY DEF Good
    <3>2. PICK C \in SUBSET Invoices : Fits(sums[d], known[d], db, C)
      BY <1>1, <3>1 DEF Good
    <3>3. known[d] \subseteq Ids(db)
      BY <1>1, <3>1 DEF Good
    <3>4. \A entry \in Entries(tables) : entry.id \in known[d] => entry \in Entries(db)
      BY <2>3, <3>3 DEF Ids
    <3>5. Fits(sums[d], known[d], tables, C)
      BY <2>3, <3>2, <3>4 DEF Fits
    <3>6. known[d] \subseteq Ids(tables)
      BY <2>3, <3>3 DEF Ids
    <3>7. QED BY <3>5, <3>6
  <2>5. sums' = sums /\ known' = known
    BY <1>2 DEF dashboardVars
  <2>6. QED BY <1>0, <1>1, <2>1, <2>2, <2>4, <2>5
<1>3. ASSUME NEW d \in Readers, AggregateInvoices(d)
      PROVE  SumsInv'
  <2> DEFINE s == sums'[d]
             k == {row.id : row \in db.transfers}
  <2>1. db' = db /\ overdue' = overdue
    BY <1>3 DEF AggregateInvoices, vars, dbVars, bankVars
  <2>2. /\ DOMAIN sums' = Readers /\ DOMAIN known' = Readers /\ known'[d] = k
        /\ \A e \in Readers \ {d} : sums'[e] = sums[e] /\ known'[e] = known[e]
        /\ s.credited = IssuedOf(CountedAsCredited)
        /\ s.creditedCount = Cardinality(CountedAsCredited)
    BY <1>1, <1>3 DEF AggregateInvoices
  <2>3. k \subseteq Ids(db)
    <3>1. ASSUME NEW row \in db.transfers
          PROVE  row.id \in Ids(db)
      <4>1. Entry(row) \in Entries(db) /\ Entry(row).id = row.id
        BY DEF Entries, Entry
      <4>2. QED BY <4>1 DEF Ids
    <3>2. QED BY <3>1
  <2>4. CountedAsCredited \in SUBSET Invoices
    BY DEF CountedAsCredited, Recorded
  <2>5. ASSUME NEW entry \in Entries(db)
        PROVE  entry.invoice \in CountedAsCredited \/ PutBackIn(db, entry.invoice)
    <3>1. CountedIn(db, entry.invoice) /\ entry.invoice \in Invoices
      BY <2>5 DEF CountInv, Entries, Entry, TypeInv, TypeOK, DatabaseTypeOK, Tables, TransferRow
    <3>2. QED BY <3>1, NoneAssumption
              DEF CountedIn, Paid, CountedAsCredited, Recorded, InvoiceStatus
  <2>6. Good(s, k, db)
    <3>1. Fits(s, k, db, CountedAsCredited)
      BY <2>2, <2>5 DEF Fits
    <3>2. QED BY <2>3, <2>4, <3>1 DEF Good
  <2>7. \A e \in Readers : Good(sums'[e], known'[e], db)
    BY <1>1, <2>2, <2>6
  <2>8. QED BY <1>0, <2>1, <2>2, <2>7
<1>4. ASSUME NEW d \in Readers, AggregateTransfers(d)
      PROVE  SumsInv'
  <2>1. db' = db /\ overdue' = overdue
    BY <1>4 DEF AggregateTransfers, vars, dbVars, bankVars
  <2>2. /\ DOMAIN sums' = Readers /\ DOMAIN known' = Readers /\ sums'[d] = None
        /\ \A e \in Readers \ {d} : sums'[e] = sums[e] /\ known'[e] = known[e]
    BY <1>1, <1>4 DEF AggregateTransfers
  <2>3. \A e \in Readers : Good(sums'[e], known'[e], db)
    BY <1>1, <2>2 DEF Good
  <2>4. QED BY <1>0, <2>1, <2>2, <2>3
<1>5. CASE UNCHANGED allVars
  BY <1>2, <1>5 DEF allVars
<1>6. QED BY <1>2, <1>3, <1>4, <1>5 DEF DashboardNext

-----------------------------------------------------------------------------
(***************************************************************************)
(* The summary.                                                            *)
(***************************************************************************)

(* No row before the first query. *)
LEMMA InitSums == DashboardInit => SumsInv
<1> SUFFICES ASSUME DashboardInit PROVE SumsInv
  OBVIOUS
<1>1. sums = [d \in Readers |-> None] /\ known = [d \in Readers |-> {}]
  BY DEF DashboardInit
<1>2. \A d \in Readers : sums[d] = None
  BY <1>1
<1>3. QED BY <1>1, <1>2 DEF SumsInv, Good

(* The dashboard writes to no table. *)
LEMMA DashboardOnlyReads == DashboardSpec => Spec
<1>1. DashboardInit => Init
  BY DEF DashboardInit
<1>2. [DashboardNext]_allVars => [Next]_vars
  BY DEF DashboardNext, allVars, AggregateInvoices, AggregateTransfers
<1>3. QED BY <1>1, <1>2, PTL DEF DashboardSpec, Spec

(* An id is of one payout. *)
LEMMA IdsAreUnique == Spec => []UniqueIds
<1>1. TypeInv /\ LockPositions /\ DraftInv /\ FaultInv => UniqueIds
  BY EntriesKept DEF FaultInv, IdsInv, RowIds, UniqueIds
<1>2. QED BY <1>1, TypeInvariant, LockInvariant, DraftInvariant, FaultInvariant, PTL

(* While a summary waits for its second query, every row its first one could *)
(* have known is of an invoice that it counted, or that was put back.        *)
THEOREM SumsStayGood == DashboardSpec => []SumsInv
<1>1. /\ TypeInv /\ LockPositions /\ BooksInv /\ DraftInv /\ EventsInv /\ CountInv
      /\ UniqueIds' /\ SumsInv /\ [DashboardNext]_allVars
      => SumsInv'
  BY NextSums
<1>2. QED BY <1>1, InitSums, DashboardOnlyReads, TypeInvariant, LockInvariant, BooksInvariant,
             DraftInvariant, EventsInvariant, PaidOutIsCounted, IdsAreUnique, PTL
          DEF DashboardSpec

(* Rows of one id are one row, and their number is bounded. *)
LEMMA LiquidatedRows ==
  ASSUME TypeInv, LockPositions, BooksInv, DraftInv, RowIds
  PROVE  /\ IsFiniteSet(Liquidated)
         /\ \A a, b \in Liquidated : a.id = b.id => a = b
         /\ \A row \in Liquidated : row.id \in Nat /\ row.invoice \in Invoices
<1>1. Liquidated \subseteq db.transfers
  BY DEF Liquidated
<1>2. \A row \in db.transfers : row.id \in Nat /\ row.invoice \in Invoices
  BY DEF TypeInv, TypeOK, DatabaseTypeOK, Tables, TransferRow
<1>3. \A row \in db.transfers : Entry(row) \in Entries(work)
  <2>1. \A row \in db.transfers : Entry(row) \in Entries(db)
    BY DEF Entries
  <2>2. QED BY <2>1, EntriesKept
<1>4. ASSUME NEW a \in db.transfers, NEW b \in db.transfers, a.id = b.id
      PROVE  a = b
  <2>1. Entry(a).id = a.id /\ Entry(b).id = b.id /\ Entry(a).cause = a.event
        /\ Entry(b).cause = b.event
    BY DEF Entry
  <2>2. Entry(a) = Entry(b)
    BY <1>3, <1>4, <2>1 DEF RowIds
  <2>3. a.event = b.event
    BY <2>1, <2>2
  <2>4. QED BY <2>3 DEF BooksInv, Books, UniqueCauses
<1>5. lastRow \in Nat
  BY EntriesTyped
<1>6. \A row \in db.transfers : row.id \in 0..lastRow
  <2> SUFFICES ASSUME NEW row \in db.transfers PROVE row.id \in 0..lastRow
    OBVIOUS
  <2>1. Entry(row).id = row.id
    BY DEF Entry
  <2>2. QED BY <1>2, <1>3, <1>5, <2>1 DEF RowIds
<1>7. AtMost(0..lastRow, Cardinality(0..lastRow)) /\ Cardinality(0..lastRow) \in Nat
  <2>1. IsFiniteSet(0..lastRow)
    BY <1>5, FS_Interval
  <2>2. QED BY <2>1, FS_CardinalityType DEF AtMost
<1>8. IsFiniteSet(Liquidated)
  <2> DEFINE f == [row \in Liquidated |-> row.id]
             S == 0..lastRow
             n == Cardinality(S)
  <2>1. \A row \in Liquidated : f[row] \in S
    BY <1>1, <1>6
  <2>2. \A a, b \in Liquidated : f[a] = f[b] => a = b
    BY <1>1, <1>4
  <2>3. n \in Nat /\ AtMost(S, n)
    BY <1>7
  <2> HIDE DEF f, S, n
  <2>4. AtMost(Liquidated, n)
    BY <2>1, <2>2, <2>3, OneEach
  <2>5. QED BY <2>4 DEF AtMost
<1>9. QED BY <1>1, <1>2, <1>4, <1>8

(* What one row of an invoice is worth is no more than the invoice and what  *)
(* its payer was charged besides.                                            *)
LEMMA MatchedIsCovered ==
  ASSUME NEW L, IsFiniteSet(L), \A row \in L : row.invoice \in Invoices,
         NEW U \in SUBSET L, NEW C \in SUBSET Invoices,
         \A row \in L \ U : row.invoice \in C,
         \A a, b \in L \ U : a.invoice = b.invoice => a = b
  PROVE  /\ NetOf(L) - NetOf(U) <= IssuedOf(C) + SurchargeOf(L \ U)
         /\ Cardinality(L) - Cardinality(U) <= Cardinality(C)
<1>0. PICK M : M = L \ U
  OBVIOUS
<1> DEFINE f == [row \in M |-> row.invoice]
           rest == [row \in M |-> Net(row.invoice) - Surcharge(row.invoice)]
<1>1. M \subseteq L /\ L \ U = M /\ IsFiniteSet(U) /\ IsFiniteSet(M) /\ IsFiniteSet(C)
  BY <1>0, InvoicesAssumption, FS_Subset
<1>2. \A row \in M : f[row] \in C
  BY <1>0
<1>3. \A a, b \in M : f[a] = f[b] => a = b
  BY <1>0
<1>4. \A row \in L : Net(row.invoice) \in Int
  BY ConstantsAssumption DEF Net
<1>5. \A row \in M : /\ Surcharge(row.invoice) \in Int /\ rest[row] \in Int
                     /\ rest[row] <= Issued[f[row]]
                     /\ Net(row.invoice) = rest[row] + Surcharge(row.invoice)
  BY <1>0, ConstantsAssumption DEF Net, Surcharge
<1>6. NaturalsOn(Issued, C)
  BY ConstantsAssumption DEF NaturalsOn
<1>7. /\ NetOn(L) = [row \in L |-> Net(row.invoice)]
      /\ NetOn(U) = [row \in U |-> Net(row.invoice)]
      /\ NetOn(M) = [row \in M |-> Net(row.invoice)]
      /\ SurchargeOn(M) = [row \in M |-> Surcharge(row.invoice)]
  BY DEF NetOn, SurchargeOn
<1> HIDE DEF f, rest
<1>8. /\ IntegersOn(NetOn(L), L) /\ IntegersOn(SurchargeOn(M), M) /\ IntegersOn(rest, M)
      /\ \A row \in M : NetOn(M)[row] = rest[row] + SurchargeOn(M)[row]
  BY <1>1, <1>4, <1>5, <1>7 DEF IntegersOn
<1>9. PICK g : Sums(g, NetOn(L), L) /\ NetOf(L) = g[L]
  BY NetSums
<1>10. ASSUME NEW T \in SUBSET L
       PROVE  NetOf(T) = g[T]
  <2>1. IsFiniteSet(T)
    BY FS_Subset
  <2>2. PICK k : Sums(k, NetOn(T), T) /\ NetOf(T) = k[T]
    BY <2>1, NetSums
  <2>3. \A row \in T : NetOn(T)[row] = NetOn(L)[row]
    BY DEF NetOn
  <2>4. \A R \in SUBSET T : k[R] = g[R]
    BY <1>9, <2>2, <2>3, SumSame
  <2>5. QED BY <2>2, <2>4
<1>11. PICK gm : Sums(gm, NetOn(M), M) /\ NetOf(M) = gm[M]
  BY <1>1, NetSums
<1>24. PICK gs : Sums(gs, SurchargeOn(M), M) /\ SurchargeOf(M) = gs[M]
  BY <1>1, SurchargeSums
<1>25. PICK gr : Sums(gr, rest, M)
  BY <1>1, SumExists
<1>26. gm[M] = gr[M] + gs[M] /\ gr[M] \in Int /\ gs[M] \in Int
  <2>1. \A T \in SUBSET M : gm[T] = gr[T] + gs[T]
    BY <1>1, <1>8, <1>11, <1>24, <1>25, SumPlus
  <2>2. \A T \in SUBSET M : gr[T] \in Int
    BY <1>1, <1>8, <1>25, SumIsInt
  <2>3. \A T \in SUBSET M : gs[T] \in Int
    BY <1>1, <1>8, <1>24, SumIsInt
  <2>4. QED BY <2>1, <2>2, <2>3
<1>12. PICK h : Sums(h, Issued, C) /\ IssuedOf(C) = h[C]
  BY IssuedSums
<1>13. g[L] = g[U] + g[M]
  <2>1. g[L] = g[U] + g[L \ U]
    BY <1>8, <1>9, SumSplit
  <2>2. QED BY <1>1, <2>1
<1>14. NetOf(U) = g[U]
  BY <1>10
<1>15. gm[M] = g[M]
  BY <1>1, <1>10, <1>11
<1>16. gr[M] <= h[C]
  <2>1. \A row \in M : f[row] \in C /\ rest[row] <= Issued[f[row]]
    BY <1>2, <1>5
  <2>2. QED BY <1>1, <1>3, <1>6, <1>8, <1>12, <1>25, <2>1, SumOneEach
<1>17. g[L] \in Int /\ g[U] \in Int /\ g[M] \in Int
  BY <1>1, <1>8, <1>9, SumIsInt
<1>18. h[C] \in Nat
  BY <1>1, <1>6, <1>12, SumNotNegative
<1>19. NetOf(L) - NetOf(U) <= IssuedOf(C) + SurchargeOf(L \ U)
  <2>1. NetOf(L) = g[L] /\ NetOf(U) = g[U] /\ g[M] = gr[M] + gs[M]
    BY <1>9, <1>11, <1>14, <1>15, <1>26
  <2>2. IssuedOf(C) = h[C] /\ SurchargeOf(L \ U) = gs[M]
    BY <1>1, <1>12, <1>24
  <2>3. QED BY ONLY <2>1, <2>2, <1>13, <1>16, <1>17, <1>18, <1>26
<1>20. Cardinality(C) \in Nat /\ Cardinality(M) \in Nat /\ Cardinality(U) \in Nat
  BY <1>1, FS_CardinalityType
<1>21. Cardinality(M) <= Cardinality(C)
  <2>1. AtMost(C, Cardinality(C))
    BY <1>1, <1>20 DEF AtMost
  <2>2. AtMost(M, Cardinality(C))
    BY <1>2, <1>3, <1>20, <2>1, OneEach
  <2>3. QED BY <2>2 DEF AtMost
<1>22. Cardinality(L) = Cardinality(U) + Cardinality(M)
  <2>1. U \cup M = L /\ U \cap M = {}
    BY <1>0
  <2>2. Cardinality(U \cup M) = Cardinality(U) + Cardinality(M) - Cardinality(U \cap M)
    BY <1>1, FS_Union
  <2>3. Cardinality(U \cap M) = 0 /\ Cardinality(U \cup M) = Cardinality(L)
    BY <2>1, FS_EmptySet
  <2>4. QED BY <1>20, <2>2, <2>3
<1>23. QED BY <1>19, <1>20, <1>21, <1>22

(* Whenever the second query runs, the summary shows no more liquidated than *)
(* credited, in number, and in money but for the surcharges of late payers,  *)
(* apart from payouts booked between the two queries, invoices whose status  *)
(* an older one has overwritten, and invoices paid twice.                    *)
THEOREM SummariesAreCovered == DashboardSpec => []LiquidatedIsCovered
<1>1. /\ TypeInv /\ LockPositions /\ BooksInv /\ DraftInv /\ FaultInv /\ SumsInv
      => LiquidatedIsCovered
  <2> SUFFICES ASSUME TypeInv, LockPositions, BooksInv, DraftInv, FaultInv, SumsInv,
                      NEW d \in Readers, sums[d] # None
               PROVE  /\ Summary(d).liquidated - NetOf(Unmatched(d))
                           <= Summary(d).credited + SurchargeOf(Liquidated \ Unmatched(d))
                      /\ Summary(d).liquidatedCount - Cardinality(Unmatched(d))
                           <= Summary(d).creditedCount
    BY DEF LiquidatedIsCovered
  <2>1. PICK C \in SUBSET Invoices : Fits(sums[d], known[d], db, C)
    BY DEF SumsInv, Good
  <2>2. /\ IsFiniteSet(Liquidated)
        /\ \A a, b \in Liquidated : a.id = b.id => a = b
        /\ \A row \in Liquidated : row.id \in Nat /\ row.invoice \in Invoices
    BY LiquidatedRows DEF FaultInv, IdsInv
  <2>3. Unmatched(d) \in SUBSET Liquidated
    BY DEF Unmatched
  <2>4. ASSUME NEW row \in Liquidated \ Unmatched(d)
        PROVE  row.id \in known[d] /\ ~PutBack(row.invoice) /\ ~Repeated(row)
    BY <2>4 DEF Unmatched
  <2>5. ASSUME NEW row \in Liquidated \ Unmatched(d)
        PROVE  row.invoice \in C
    <3>1. Entry(row) \in Entries(db) /\ Entry(row).id = row.id
          /\ Entry(row).invoice = row.invoice
      BY <2>5 DEF Liquidated, Entries, Entry
    <3>2. ~PutBackIn(db, row.invoice)
      BY <2>4, <2>5 DEF PutBack, PutBackIn
    <3>3. QED BY <2>1, <2>4, <2>5, <3>1, <3>2 DEF Fits
  <2>6. ASSUME NEW a \in Liquidated \ Unmatched(d), NEW b \in Liquidated \ Unmatched(d),
               a.invoice = b.invoice
        PROVE  a = b
    <3>1. ~(a.id < b.id) /\ ~(b.id < a.id)
      BY <2>4, <2>6 DEF Repeated
    <3>2. a.id = b.id
      BY <2>2, <3>1
    <3>3. QED BY <2>2, <3>2
  <2>7. /\ NetOf(Liquidated) - NetOf(Unmatched(d))
             <= IssuedOf(C) + SurchargeOf(Liquidated \ Unmatched(d))
        /\ Cardinality(Liquidated) - Cardinality(Unmatched(d)) <= Cardinality(C)
    BY <2>2, <2>3, <2>5, <2>6, MatchedIsCovered
  <2>8. /\ Summary(d).liquidated = NetOf(Liquidated)
        /\ Summary(d).liquidatedCount = Cardinality(Liquidated)
        /\ Summary(d).credited = IssuedOf(C) /\ Summary(d).creditedCount = Cardinality(C)
    BY <2>1 DEF Summary, Fits
  <2>9. QED BY <2>7, <2>8
<1>2. QED BY <1>1, SumsStayGood, DashboardOnlyReads, TypeInvariant, LockInvariant,
             BooksInvariant, DraftInvariant, FaultInvariant, PTL
=============================================================================
