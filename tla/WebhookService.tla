--------------------------- MODULE WebhookService ---------------------------
(***************************************************************************)
(* WebhookService.process_webhook, one action per step between two points  *)
(* at which another request, job or worker can run.  A worker handles one  *)
(* webhook at a time (_webhook_lock); workers meet at the database only.   *)
(***************************************************************************)
EXTENDS TransferService

VARIABLES
  event,        \* the event a request slot is handling
  answer,       \* what a request was answered, until the bank learns it
  lookups,      \* lookups of an event's transfer that found nothing so far
  webhookLock   \* the request holding _webhook_lock, per worker

webhookVars == <<event, answer, lookups, webhookLock>>

MaxLookups == 3

WebhookTypeOK ==
  /\ event \in [Requests -> EventIds \cup {None}]
  /\ answer \in [Requests -> Answers \cup {None}]
  /\ lookups \in [Requests -> 0..MaxLookups]
  /\ webhookLock \in [Workers -> Requests \cup {None}]

WebhookInit ==
  /\ event = [r \in Requests |-> None]
  /\ answer = [r \in Requests |-> None]
  /\ lookups = [r \in Requests |-> 0]
  /\ webhookLock = [w \in Workers |-> None]

\* A delivery of e arrives: the bank repeats it until it sees a 2xx.
Deliver(r, e) ==
  /\ pc[r] = "idle"
  /\ e \in Emitted \ acked
  /\ event' = [event EXCEPT ![r] = e]
  /\ Goto(r, "parsing")
  /\ UNCHANGED <<dbVars, bankVars, order, lastRow, faults, answer, lookups, webhookLock>>

\* The signature is verified and the payload parsed, in a thread.
Parse(r) ==
  /\ pc[r] = "parsing"
  /\ Goto(r, "waiting")
  /\ UNCHANGED <<dbVars, bankVars, order, lastRow, faults, webhookVars>>

\* No or bad signature, or the public key cannot be fetched: 400.
ParseFails(r) ==
  /\ pc[r] = "parsing"
  /\ Fault("parse")
  /\ answer' = [answer EXCEPT ![r] = "WebhookSignatureError"]
  /\ Goto(r, "answered")
  /\ UNCHANGED <<dbVars, bankVars, order, lastRow, event, lookups, webhookLock>>

AcquireWebhookLock(r) ==
  /\ pc[r] = "waiting"
  /\ webhookLock[Host[r]] = None
  /\ webhookLock' = [webhookLock EXCEPT ![Host[r]] = r]
  /\ Goto(r, "checking")
  /\ UNCHANGED <<dbVars, bankVars, order, lastRow, faults, event, answer, lookups>>

\* r leaves the locked section with answer a.
Respond(r, a) ==
  /\ answer' = [answer EXCEPT ![r] = a]
  /\ webhookLock' = [webhookLock EXCEPT ![Host[r]] = None]
  /\ Goto(r, "answered")
  /\ UNCHANGED <<event, lookups>>

\* The event is looked up in the committed table: no transaction is open yet.
CheckDuplicate(r) ==
  /\ pc[r] = "checking"
  /\ IF event[r] \in db.events
       THEN Respond(r, "DuplicateEventError")
       ELSE Goto(r, "inserting") /\ UNCHANGED webhookVars
  /\ UNCHANGED <<dbVars, bankVars, order, lastRow, faults>>

\* Mutation: event_id is not UNIQUE.
InsertEventTwice(r) ==
  /\ pc[r] = "inserting"
  /\ Flush(r, [work EXCEPT !.events = @ \cup {event[r]}])
  /\ Goto(r, event[r].kind)
  /\ UNCHANGED <<bankVars, order, lastRow, faults, webhookVars>>

\* The event row is flushed, which takes the write lock.
InsertEvent(r) ==
  /\ pc[r] = "inserting"
  /\ event[r] \notin db.events
  /\ Flush(r, [work EXCEPT !.events = @ \cup {event[r]}])
  /\ Goto(r, event[r].kind)
  /\ UNCHANGED <<bankVars, order, lastRow, faults, webhookVars>>

\* Another worker has committed the event since the check: IntegrityError.
InsertCollides(r) ==
  /\ pc[r] = "inserting"
  /\ writer = None
  /\ event[r] \in db.events
  /\ Respond(r, "DuplicateEventError")
  /\ UNCHANGED <<dbVars, bankVars, order, lastRow, faults>>

\* "database is locked" is a DBAPIError: it is answered like a duplicate.
InsertTimesOut(r) ==
  /\ pc[r] = "inserting"
  /\ LockedOut(r)
  /\ Fault("busy")
  /\ Respond(r, "DuplicateEventError")
  /\ UNCHANGED <<dbVars, bankVars, order, lastRow>>

\* The tables after the log type of an invoice event became the local status.
WithInvoiceStatus(tables, i, status) ==
  IF tables.invoices[i] = None
    THEN tables
    ELSE [tables EXCEPT !.invoices[i] = status]

Credited(e) == e.type = "credited"
\* Mutation: an invoice need not be one of ours.
KnownToAnyone(i) == TRUE
Known(i) == work.invoices[i] # None

\* An invoice event that pays nothing out: not credited, or not our invoice.
RecordInvoiceEvent(r) ==
  /\ pc[r] = "invoice"
  /\ ~Credited(event[r]) \/ ~Known(event[r].id)
  /\ Flush(r, WithInvoiceStatus(work, event[r].id, event[r].type))
  /\ Goto(r, "recorded")
  /\ UNCHANGED <<bankVars, order, lastRow, faults, webhookVars>>

\* A credited invoice of ours: its payout starts, whatever was paid before.
DispatchCredited(r) ==
  /\ pc[r] = "invoice"
  /\ Credited(event[r]) /\ Known(event[r].id)
  /\ StartTransfer(r, event[r].id, event[r],
                   WithInvoiceStatus(work, event[r].id, event[r].type))
  /\ UNCHANGED <<bankVars, faults, webhookVars>>

\* Mutation: what the request flushed stays.
FailRequestKeeps(r, a) ==
  /\ Commit(r, work)
  /\ Respond(r, a)

\* Mutation: the session of a failed request stays open.
FailRequestLeaks(r, a) ==
  /\ UNCHANGED dbVars
  /\ Respond(r, a)

\* The request fails with exception a: everything it flushed is undone.
FailRequest(r, a) ==
  /\ Rollback(r)
  /\ Respond(r, a)

\* The net amount is not positive.
RefuseCredited(r) ==
  /\ pc[r] = "invoice"
  /\ Credited(event[r]) /\ Known(event[r].id) /\ ~Payable(event[r].id)
  /\ FailRequest(r, "BusinessRuleViolationError")
  /\ UNCHANGED <<bankVars, order, lastRow, faults>>

\* The payout's call failed: the error mapped from the bank's.
AbandonCredited(r) ==
  /\ pc[r] = "transferFailed"
  /\ \E err \in BankErrors : FailRequest(r, Mapped(err))
  /\ UNCHANGED <<bankVars, order, lastRow, faults>>

RowsOf(e) == {row \in work.transfers : row.stark = e.id}

\* The status of the transfer in the event's payload: that of the time of the
\* log, or a later one if the bank made up the payload later.
SnapshotOf(e) ==
  {s \in TransferStatus :
     \E t \in bankTransfers :
       /\ t.id = e.id
       /\ s \in TransferHistory[t.status]
       /\ e.type \in TransferHistory[s]}

\* A transfer event: the status of its row, if there is one, is overwritten.
UpdateTransfer(r) ==
  /\ pc[r] = "transfer"
  /\ \E row \in RowsOf(event[r]), status \in SnapshotOf(event[r]) :
       Flush(r, [work EXCEPT !.transfers =
                   (@ \ {row}) \cup {[row EXCEPT !.status = status]}])
  /\ lookups' = [lookups EXCEPT ![r] = 0]
  /\ Goto(r, "recorded")
  /\ UNCHANGED <<bankVars, order, lastRow, faults, event, answer, webhookLock>>

\* Mutation: the lookup is never given up.
MissTransferForever(r) ==
  /\ pc[r] = "transfer"
  /\ RowsOf(event[r]) = {}
  /\ lookups' = [lookups EXCEPT ![r] = @ + 1]
  /\ UNCHANGED <<dbVars, bankVars, pc, order, lastRow, faults, event, answer, webhookLock>>

\* No row: the lookup is repeated after 0.2 s, and given up after the third.
MissTransfer(r) ==
  /\ pc[r] = "transfer"
  /\ RowsOf(event[r]) = {}
  /\ IF lookups[r] + 1 < MaxLookups
       THEN lookups' = [lookups EXCEPT ![r] = @ + 1] /\ pc' = pc
       ELSE lookups' = [lookups EXCEPT ![r] = 0] /\ Goto(r, "recorded")
  /\ UNCHANGED <<dbVars, bankVars, order, lastRow, faults, event, answer, webhookLock>>

\* Event, invoice status and transfer row become permanent together.
CommitEvent(r) ==
  /\ pc[r] \in {"other", "recorded", "transferred"}
  /\ Commit(r, work)
  /\ Respond(r, "success")
  /\ UNCHANGED <<bankVars, order, lastRow, faults>>

\* What the bank takes for an acknowledgement: any 2xx.
Accepted(a) == HttpStatus[a] \in 200..299

\* The slot is free again; the bank learnt the answer or did not.
ReleaseSlot(r) ==
  /\ pc[r] = "answered"
  /\ event' = [event EXCEPT ![r] = None]
  /\ answer' = [answer EXCEPT ![r] = None]
  /\ Goto(r, "idle")
  /\ UNCHANGED <<dbVars, bankInvoices, overdue, bankTransfers, order, lastRow, lookups,
                 webhookLock>>

AnswerArrives(r) ==
  /\ ReleaseSlot(r)
  /\ acked' = IF Accepted(answer[r]) THEN acked \cup {event[r]} ELSE acked
  /\ UNCHANGED faults

AnswerLost(r) ==
  /\ Fault("answer")
  /\ ReleaseSlot(r)
  /\ UNCHANGED acked

\* What a request does between its delivery and its answer.
WebhookStep(r) ==
  \/ Parse(r) \/ ParseFails(r) \/ AcquireWebhookLock(r)
  \/ CheckDuplicate(r) \/ InsertEvent(r) \/ InsertCollides(r) \/ InsertTimesOut(r)
  \/ RecordInvoiceEvent(r) \/ DispatchCredited(r) \/ RefuseCredited(r) \/ AbandonCredited(r)
  \/ UpdateTransfer(r) \/ MissTransfer(r) \/ CommitEvent(r)
  \/ AnswerArrives(r) \/ AnswerLost(r)

WebhookNext ==
  \E r \in Requests : WebhookStep(r) \/ \E e \in Emitted \ acked : Deliver(r, e)
=============================================================================
