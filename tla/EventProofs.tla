---------------------------- MODULE EventProofs -----------------------------
(***************************************************************************)
(* What PayoutSystem makes of the news of the bank: the events it stores,  *)
(* and the statuses it writes down.                                        *)
(***************************************************************************)
EXTENDS PayoutProofs

-----------------------------------------------------------------------------
(***************************************************************************)
(* Events and what becomes of them.  The events at hand and in the tables  *)
(* are of objects the bank has (Real), and the bank has an invoice of ours *)
(* only once its batch holds the write lock, a transfer only once its      *)
(* payout does.  So the event of an invoice cannot be stored before the    *)
(* invoice is, nor that of a transfer before the transfer's row is, other  *)
(* than for good; and what is paid out was paid.                           *)
(***************************************************************************)

CreditOf(i) == InvoiceEvent(i, "credited")
\* What the tables know: our invoices, and the transfers by their bank's id.
RecordedIn(tables) == {i \in Invoices : tables.invoices[i] # None}
Numbers(tables) == {row.stark : row \in tables.transfers}
\* Invoices of ours whose credited event is stored, but no transfer for it.
Owed(tables) ==
  {i \in RecordedIn(tables) : /\ CreditOf(i) \in tables.events
                            /\ \A entry \in Entries(tables) : entry.cause # CreditOf(i)}

AtBank(p) == pc[p] \in {"sending", "executed"}
\* The bank has what the event is about, and it went through the status told.
Real(e) ==
  /\ e.kind = "invoice" => e.type \in Reached(e.id)
  /\ e.kind = "transfer" => e.id <= lastRow
Due(i) == i \in RecordedIn(db) /\ Paid(bankInvoices[i]) /\ Payable(i)

RealEvents ==
  /\ \A r \in Requests : pc[r] # "idle" => Real(event[r])
  /\ \A e \in work.events : Real(e)
\* Executed transfers, and those about to be, are numbered and owed.
RealTransfers ==
  /\ \A t \in bankTransfers : t.id <= lastRow /\ Due(t.invoice)
  /\ \A p \in Processes : AtBank(p) => order[p].id <= lastRow /\ Due(order[p].invoice)
\* The invoices of a batch come into being while it holds the write lock.
Lots ==
  \A b \in Batches : \A i \in LotOf[b] :
    /\ pc[b] \in {"idle", "issuing"} => bankInvoices[i] = None
    /\ pc[b] = "issued" => CreditOf(i) \notin work.events
Ours == RecordedIn(db) = RecordedIn(work) /\ RecordedIn(work) \cap External = {}
\* The invoices a run is looking at are recorded, and those it may pay are paid.
JobItems ==
  \A p \in Reconcilers :
    /\ pc[p] \in InTransaction.job =>
         \A x \in loaded[p] \cup changes[p] : x.id \in RecordedIn(db)
    /\ pc[p] = "checking" => item[p] \in RecordedIn(db) /\ Paid(bankInvoices[item[p]])
\* Only a request that has just stored the credited event owes a transfer.
Owing ==
  /\ Owed(db) = {}
  /\ \A i \in Owed(work) :
       \E r \in Requests : writer = r /\ pc[r] = "invoice" /\ event[r] = CreditOf(i)
\* No transfer that was told of gets its row later.
Naming ==
  /\ \A e \in db.events :
       e.kind = "transfer" /\ e.id \notin Numbers(db) => e.id \notin Numbers(work)
  /\ \A p \in Processes : AtBank(p) =>
       \A e \in work.events : e.kind = "transfer" => e.id # order[p].id

EventsInv ==
  RealEvents /\ RealTransfers /\ Lots /\ Ours /\ JobItems /\ Owing /\ Naming

-----------------------------------------------------------------------------
\* What a step does to the tables, as far as the invariant is concerned.

NoneStarts == \A q \in Processes : AtBank(q)' => AtBank(q) /\ order'[q] = order[q]
Keeps ==
  /\ work'.events = work.events /\ Entries(work') = Entries(work)
  /\ RecordedIn(work') = RecordedIn(work) /\ Numbers(work') = Numbers(work)
\* r has stored its event and has not looked at it yet.
Owes(r) == writer = r /\ pc[r] = "invoice"

Still ==
  /\ UNCHANGED dbVars /\ NoneStarts
  /\ \A r \in Requests : Owes(r) => Owes(r)' /\ event'[r] = event[r]
\* A request fails in its transaction, or a worker dies.
Undone ==
  /\ work' = db /\ db' = db /\ NoneStarts
  /\ \/ \E r \in Requests : writer = r /\ pc[r] \in {"invoice", "transferFailed"}
     \/ \E w \in Workers : Crash(w)
\* Statuses are written, or what was written is committed.
Rewrites ==
  /\ Keeps /\ db' \in {db, work'} /\ NoneStarts
  /\ \A r \in Requests : Owes(r) => ~Credited(event[r]) \/ event[r].id \notin RecordedIn(work)
Inserts(r) ==
  /\ pc[r] = "inserting" /\ writer = None /\ db' = db /\ NoneStarts
  /\ work'.events = work.events \cup {event[r]} /\ Entries(work') = Entries(work)
  /\ RecordedIn(work') = RecordedIn(work) /\ Numbers(work') = Numbers(work)
  /\ event'[r] = event[r] /\ (event[r].kind = "invoice" => Owes(r)')
Starts(p) ==
  /\ db' = db /\ work'.events = work.events /\ lastRow' = lastRow + 1
  /\ RecordedIn(work') = RecordedIn(work) /\ Numbers(work') = Numbers(work) \cup {None}
  /\ \A q \in Processes \ {p} : AtBank(q)' => AtBank(q) /\ order'[q] = order[q]
  /\ \E i \in RecordedIn(work), cause \in Causes :
       /\ Due(i) /\ order'[p] = NewRow(i, cause)
       /\ Entries(work') = Entries(work) \cup {Entry(NewRow(i, cause))}
       /\ \A r \in Requests : Owes(r) => cause = event[r]
Replies(p) ==
  /\ AtBank(p) /\ writer = p /\ db' = db /\ NoneStarts
  /\ work'.events = work.events /\ Entries(work') = Entries(work)
  /\ RecordedIn(work') = RecordedIn(work)
  /\ Numbers(work') \subseteq Numbers(work) \cup {order[p].id}
Records(b) ==
  /\ pc[b] = "issued" /\ writer = b /\ writer' = None /\ db' = work' /\ NoneStarts
  /\ work'.events = work.events /\ Entries(work') = Entries(work)
  /\ RecordedIn(work') = RecordedIn(work) \cup LotOf[b] /\ Numbers(work') = Numbers(work)

Deed ==
  \/ Still \/ Undone \/ Rewrites
  \/ \E r \in Requests : Inserts(r)
  \/ \E p \in Requests \cup Reconcilers : Starts(p) \/ Replies(p)
  \/ \E b \in Batches : Records(b)

(* A process that goes somewhere else than to the bank starts no payout.     *)
LEMMA Elsewhere ==
  ASSUME TypeInv, NEW p \in Processes, NEW label \in Places \ {"sending", "executed"},
         Goto(p, label), \A q \in Processes \ {p} : order'[q] = order[q]
  PROVE  NoneStarts
BY GotoTyped DEF NoneStarts, AtBank, TypeInv

(* Nor does a step in which nobody moves. *)
LEMMA NobodyMoves ==
  ASSUME UNCHANGED <<pc, order>>
  PROVE  NoneStarts
BY DEF NoneStarts, AtBank

(* Only the process that writes can owe a transfer. *)
LEMMA OwesAlone ==
  ASSUME LockPositions, NEW p \in Processes, writer \in {None, p}, NEW r \in Requests, Owes(r)
  PROVE  r = p /\ pc[p] = "invoice" /\ p \in Requests
BY NoneIsNoStatus DEF Owes, Processes

(* A session writes tables that know as much as before. *)
LEMMA Rewritten ==
  ASSUME LockPositions, NEW p \in Processes, NEW tables, Flush(p, tables) \/ Commit(p, tables),
         tables.events = work.events, Entries(tables) = Entries(work),
         RecordedIn(tables) = RecordedIn(work), Numbers(tables) = Numbers(work),
         NoneStarts,
         p \in Requests /\ pc[p] = "invoice"
           => ~Credited(event[p]) \/ event[p].id \notin RecordedIn(work)
  PROVE  Deed
<1>1. /\ writer \in {None, p} /\ work' = tables /\ db' \in {db, work'}
  BY DEF Flush, Commit
<1>2. Rewrites
  BY <1>1, OwesAlone DEF Rewrites, Keeps
<1>3. QED BY <1>2 DEF Deed

(* A row gets another content, but keeps its number, cause and bank id.      *)
LEMMA NumbersReplace ==
  ASSUME NEW tables, NEW tables2, NEW old \in tables.transfers, NEW new,
         tables2.transfers = (tables.transfers \ {old}) \cup {new}, new.stark = old.stark
  PROVE  Numbers(tables2) = Numbers(tables)
BY DEF Numbers

(* Tables with the same invoices and transfers know the same of them. *)
LEMMA KnowSame ==
  ASSUME NEW tables, NEW tables2
  PROVE  /\ tables2.transfers = tables.transfers
              => Entries(tables2) = Entries(tables) /\ Numbers(tables2) = Numbers(tables)
         /\ tables2.invoices = tables.invoices => RecordedIn(tables2) = RecordedIn(tables)
BY DEF Entries, Numbers, RecordedIn

(* A payout at the bank: the transfer's id comes back, or a status is set.   *)
LEMMA TransferDeed ==
  ASSUME TypeInv, LockPositions, BooksInv, NEW p \in Requests \cup Reconcilers, TransferStep(p)
  PROVE  Deed
<1> p \in Processes
  BY DEF Processes
<1>1. writer = p /\ AtBank(p)
  BY DEF TransferStep, BankExecutes, BankReplies, BankRepliesEmpty, CallFails, LockPositions,
         LockAt, InPayout, AtBank
<1>2. order[p] \in work.transfers /\ order[p] \in TransferRow /\ work \in Tables
  BY <1>1 DEF BooksInv, BooksAt, TypeInv, TypeOK, DatabaseTypeOK, Positions, OrderAt, AtBank
<1>3. \A r \in Requests : ~Owes(r)
  BY <1>1 DEF Owes, AtBank
<1>4. CASE BankExecutes(p)
  <2>1. NoneStarts
    BY <1>1, <1>4, GotoTyped DEF BankExecutes, NoneStarts, AtBank, Places, TypeInv
  <2>2. QED BY <1>3, <1>4, <2>1 DEF BankExecutes, Deed, Still
<1>5. ASSUME NEW row, NEW label \in {"transferred", "transferFailed"}, SettleRow(p, row, label),
             Entry(row) = Entry(order[p])
      PROVE  /\ work'.events = work.events /\ Entries(work') = Entries(work)
             /\ RecordedIn(work') = RecordedIn(work) /\ db' = db /\ NoneStarts
             /\ work'.transfers = (work.transfers \ {order[p]}) \cup {row}
  <2>1. /\ work'.events = work.events /\ work'.invoices = work.invoices
        /\ work'.transfers = (work.transfers \ {order[p]}) \cup {row}
    BY <1>2, <1>5 DEF SettleRow, Tables
  <2>2. \A q \in Processes \ {p} : order'[q] = order[q]
    BY <1>5 DEF SettleRow, TypeInv, TypeOK, TransferTypeOK
  <2>3. NoneStarts
    BY <1>5, <2>2, Elsewhere DEF SettleRow, Places
  <2>4. Entries(work') = Entries(work)
    BY <1>2, <1>5, <2>1, EntriesReplace
  <2>5. RecordedIn(work') = RecordedIn(work)
    BY <2>1 DEF RecordedIn
  <2>6. QED BY <1>5, <2>1, <2>3, <2>4, <2>5 DEF SettleRow
<1>6. CASE BankReplies(p)
  <2> DEFINE row == [order[p] EXCEPT !.stark = order[p].id, !.status = "created"]
  <2>1. Entry(row) = Entry(order[p]) /\ row.stark = order[p].id
    BY <1>2 DEF TransferRow, Entry
  <2>2. SettleRow(p, row, "transferred")
    BY <1>6 DEF BankReplies
  <2> HIDE DEF row
  <2>3. Replies(p)
    BY <1>1, <1>5, <2>1, <2>2 DEF Replies, Numbers
  <2>4. QED BY <2>3 DEF Deed
<1>7. ASSUME NEW status, NEW label \in {"transferred", "transferFailed"},
             SettleRow(p, [order[p] EXCEPT !.status = status], label)
      PROVE  Deed
  <2> DEFINE row == [order[p] EXCEPT !.status = status]
  <2>1. Entry(row) = Entry(order[p]) /\ row.stark = order[p].stark
    BY <1>2 DEF TransferRow, Entry
  <2>2. SettleRow(p, row, label)
    BY <1>7
  <2> HIDE DEF row
  <2>3. work'.transfers = (work.transfers \ {order[p]}) \cup {row}
    BY <1>5, <2>1, <2>2
  <2>4. Numbers(work') = Numbers(work)
    BY <1>2, <2>1, <2>3, NumbersReplace
  <2>5. Rewrites
    BY <1>3, <1>5, <2>1, <2>2, <2>4 DEF Rewrites, Keeps
  <2>6. QED BY <2>5 DEF Deed
<1>8. CASE BankRepliesEmpty(p)
  BY <1>7, <1>8 DEF BankRepliesEmpty
<1>9. CASE CallFails(p)
  BY <1>7, <1>9 DEF CallFails
<1>10. QED BY <1>4, <1>6, <1>8, <1>9 DEF TransferStep

(* A batch takes the lock, asks the bank, and records its lot or fails.      *)
LEMMA IssueDeed ==
  ASSUME TypeInv, LockPositions, IssueNext, UNCHANGED webhookVars
  PROVE  Deed
<1>1. PICK b \in Batches : OpenBatch(b) \/ OpenBatchTimesOut(b) \/ BankIssues(b)
                             \/ RecordBatch(b) \/ FailBatch(b)
  BY DEF IssueNext
<1> b \in Processes /\ b \notin Requests
  BY ProcessesAssumption DEF Processes
<1>2. work \in Tables
  BY DEF TypeInv, TypeOK, DatabaseTypeOK
<1>3. PICK label \in {"issuing", "issued", "done"} : Goto(b, label)
  BY <1>1 DEF OpenBatch, OpenBatchTimesOut, BankIssues, RecordBatch, FailBatch
<1>4. UNCHANGED order /\ NoneStarts
  <2>1. UNCHANGED order
    BY <1>1 DEF OpenBatch, OpenBatchTimesOut, BankIssues, RecordBatch, FailBatch
  <2>2. QED BY <1>3, <2>1, Elsewhere DEF Places
<1>5. ASSUME NEW s, Flush(b, [work EXCEPT !.batches[b] = s])
                      \/ Commit(b, [work EXCEPT !.batches[b] = s])
      PROVE  Deed
  <2> DEFINE tables == [work EXCEPT !.batches[b] = s]
  <2>1. /\ tables.events = work.events /\ tables.transfers = work.transfers
        /\ tables.invoices = work.invoices
    BY <1>2 DEF Tables
  <2> HIDE DEF tables
  <2>2. Entries(tables) = Entries(work) /\ Numbers(tables) = Numbers(work)
        /\ RecordedIn(tables) = RecordedIn(work)
    BY <2>1, KnowSame
  <2>3. Flush(b, tables) \/ Commit(b, tables)
    BY <1>5 DEF tables
  <2>4. QED BY <1>4, <2>1, <2>2, <2>3, Rewritten
<1>6. CASE OpenBatchTimesOut(b) \/ BankIssues(b)
  <2>1. \A r \in Requests : pc'[r] = pc[r]
    BY <1>3, GotoTyped DEF Places, TypeInv, Processes
  <2>2. QED BY <1>4, <1>6, <2>1 DEF OpenBatchTimesOut, BankIssues, Deed, Still, Owes, dbVars,
               webhookVars
<1>7. CASE OpenBatch(b)
  BY <1>5, <1>7 DEF OpenBatch
<1>8. CASE FailBatch(b)
  BY <1>5, <1>8 DEF FailBatch
<1>9. CASE RecordBatch(b)
  <2> DEFINE tables == WithLot(work, b)
  <2>1. /\ tables.events = work.events /\ tables.transfers = work.transfers
        /\ \A i \in Invoices :
             tables.invoices[i] = IF i \in LotOf[b] THEN "created" ELSE work.invoices[i]
    BY <1>2 DEF WithLot, Tables
  <2>2. LotOf[b] \subseteq Invoices
    BY ConstantsAssumption
  <2>3. Commit(b, tables) /\ pc[b] = "issued"
    BY <1>9 DEF RecordBatch, BatchAt
  <2> HIDE DEF tables
  <2>4. RecordedIn(tables) = RecordedIn(work) \cup LotOf[b]
    BY <2>1, <2>2, NoneIsNoStatus DEF RecordedIn, InvoiceStatus
  <2>5. writer = b
    BY <2>3 DEF LockPositions, LockAt, InTransaction
  <2>6. Records(b)
    BY <1>4, <2>1, <2>3, <2>4, <2>5, KnowSame DEF Records, Commit
  <2>7. QED BY <2>6 DEF Deed
<1>10. QED BY <1>1, <1>6, <1>7, <1>8, <1>9

(* A payout of an invoice of ours that was paid starts. *)
LEMMA StartDeed ==
  ASSUME TypeInv, LockPositions, NEW p \in Requests \cup Reconcilers, NEW i \in RecordedIn(work),
         NEW cause \in Causes, NEW tables \in Tables, StartTransfer(p, i, cause, tables),
         tables.events = work.events, tables.transfers = work.transfers,
         RecordedIn(tables) = RecordedIn(work), i \in RecordedIn(db), Paid(bankInvoices[i]),
         p \in Requests => cause = event[p]
  PROVE  Deed
<1> p \in Processes
  BY DEF Processes
<1>1. i \in Invoices
  BY DEF RecordedIn
<1>2. /\ writer \in {None, p} /\ db' = db /\ work'.events = work.events
      /\ Entries(work') = Entries(work) \cup {Entry(NewRow(i, cause))}
  BY <1>1, StartEntry
<1>3. Numbers(work') = Numbers(work) \cup {None} /\ RecordedIn(work') = RecordedIn(work)
  <2> DEFINE row == NewRow(i, cause)
  <2>1. PICK tables2 : /\ tables2 = [tables EXCEPT !.transfers = tables.transfers \cup {row}]
                       /\ Flush(p, tables2)
    BY DEF StartTransfer
  <2>2. row.stark = None
    BY DEF NewRow
  <2> HIDE DEF row
  <2>3. /\ work'.transfers = work.transfers \cup {row}
        /\ work'.invoices = tables.invoices
    BY <2>1 DEF Flush, Tables
  <2>4. RecordedIn(work') = RecordedIn(tables)
    BY <2>3 DEF RecordedIn
  <2>5. Numbers(work') = Numbers(work) \cup {None}
    BY <2>2, <2>3 DEF Numbers
  <2>6. QED BY <2>4, <2>5
<1>4. /\ \A q \in Processes \ {p} : AtBank(q)' => AtBank(q) /\ order'[q] = order[q]
      /\ order'[p] = NewRow(i, cause) /\ lastRow' = lastRow + 1 /\ Due(i)
  BY GotoTyped DEF StartTransfer, AtBank, Places, TypeInv, TypeOK, TransferTypeOK, Due
<1>5. \A r \in Requests : Owes(r) => cause = event[r]
  BY <1>2, OwesAlone
<1>6. Starts(p)
  BY <1>2, <1>3, <1>4, <1>5 DEF Starts
<1>7. QED BY <1>6 DEF Deed

(* The log type of an event is written for an invoice of ours only. *)
LEMMA RecordedStatus ==
  ASSUME NEW tables \in Tables, NEW i \in Invoices, NEW s \in InvoiceStatus
  PROVE  /\ RecordedIn(WithInvoiceStatus(tables, i, s)) = RecordedIn(tables)
         /\ WithInvoiceStatus(tables, i, s).events = tables.events
         /\ WithInvoiceStatus(tables, i, s).transfers = tables.transfers
<1>1. CASE tables.invoices[i] = None
  BY <1>1 DEF WithInvoiceStatus
<1>2. CASE tables.invoices[i] # None
  <2> DEFINE new == [tables EXCEPT !.invoices[i] = s]
  <2>1. /\ new.events = tables.events /\ new.transfers = tables.transfers
        /\ \A j \in Invoices : new.invoices[j] = IF j = i THEN s ELSE tables.invoices[j]
    BY DEF Tables
  <2>2. WithInvoiceStatus(tables, i, s) = new
    BY <1>2 DEF WithInvoiceStatus
  <2> HIDE DEF new
  <2>3. RecordedIn(new) = RecordedIn(tables)
    BY <1>2, <2>1, NoneIsNoStatus DEF RecordedIn
  <2>4. QED BY <2>1, <2>2, <2>3
<1>3. QED BY <1>1, <1>2

(* The statuses of a run are those of invoices of ours. *)
LEMMA RecordedFlush ==
  ASSUME NEW tables \in Tables, NEW ch \in SUBSET InvoiceItem,
         \A x \in ch : x.id \in RecordedIn(tables)
  PROVE  /\ RecordedIn(FlushInvoices(tables, ch)) = RecordedIn(tables)
         /\ FlushInvoices(tables, ch).events = tables.events
         /\ FlushInvoices(tables, ch).transfers = tables.transfers
<1> DEFINE F == FlushInvoices(tables, ch)
<1>1. /\ F.events = tables.events /\ F.transfers = tables.transfers
      /\ \A i \in Invoices : F.invoices[i] = StatusFrom(ch, i, tables.invoices[i])
  BY DEF FlushInvoices, Tables
<1>2. ASSUME NEW i \in Invoices
      PROVE  F.invoices[i] # None <=> tables.invoices[i] # None
  <2>1. CASE \E c \in ch : c.id = i
    <3>1. StatusFrom(ch, i, tables.invoices[i]) \in InvoiceStatus
      BY <2>1 DEF StatusFrom, InvoiceItem
    <3>2. i \in RecordedIn(tables)
      BY <2>1
    <3>3. QED BY <1>1, <3>1, <3>2, NoneIsNoStatus DEF RecordedIn
  <2>2. CASE ~ \E c \in ch : c.id = i
    BY <1>1, <2>2 DEF StatusFrom
  <2>3. QED BY <2>1, <2>2
<1> HIDE DEF F
<1>3. RecordedIn(F) = RecordedIn(tables)
  BY <1>2 DEF RecordedIn
<1>4. QED BY <1>1, <1>3 DEF F

(* A transfer's status is written for the row it is, which keeps its bank id.*)
LEMMA NumbersFlush ==
  ASSUME NEW tables \in Tables, NEW ch
  PROVE  /\ Numbers(FlushTransfers(tables, ch)) = Numbers(tables)
         /\ RecordedIn(FlushTransfers(tables, ch)) = RecordedIn(tables)
<1> DEFINE F == FlushTransfers(tables, ch)
           New(row) == [row EXCEPT !.status = StatusFrom(ch, row.id, row.status)]
<1>1. F.invoices = tables.invoices /\ F.transfers = {New(row) : row \in tables.transfers}
  BY DEF FlushTransfers, Tables
<1>2. \A row \in tables.transfers : New(row).stark = row.stark
  <2>1. tables.transfers \subseteq TransferRow
    BY TablesUpdate
  <2>2. QED BY <2>1 DEF TransferRow
<1> HIDE DEF F, New
<1>3. Numbers(F) = Numbers(tables)
  BY <1>1, <1>2 DEF Numbers
<1>4. QED BY <1>1, <1>3, KnowSame DEF F

(* What went through a status is in it or beyond it. *)
LEMMA CreditedIsPaid ==
  ASSUME NEW s \in InvoiceStatus, "credited" \in InvoiceHistory[s]
  PROVE  Paid(s)
BY DEF InvoiceStatus, InvoiceHistory, Paid

(* A request stores its event, writes a status, starts a payout for what the *)
(* bank credited, commits, or undoes all of it.                              *)
LEMMA WebhookDeed ==
  ASSUME TypeInv, LockPositions, RealEvents, Ours, NEW r \in Requests,
         WebhookStep(r) \/ \E e \in Emitted \ acked : Deliver(r, e)
  PROVE  Deed
<1> r \in Processes /\ r # None
  BY NoneIsNoStatus DEF Processes
<1>1. work \in Tables /\ LockAt(r)
  BY DEF TypeInv, TypeOK, DatabaseTypeOK, LockPositions
<1>2. \A q \in Requests \ {r} : Owes(q) /\ UNCHANGED dbVars => Owes(q)' /\ event'[q] = event[q]
  BY WebhookOther DEF Undisturbed, Owes, dbVars
<1>3. ASSUME NEW label \in Places \ {"sending", "executed"}, Goto(r, label), UNCHANGED order
      PROVE  NoneStarts
  BY <1>3, Elsewhere
<1>4. ASSUME UNCHANGED dbVars, ~Owes(r), NoneStarts
      PROVE  Deed
  BY <1>2, <1>4 DEF Deed, Still
<1>5. CASE \E e \in Emitted \ acked : Deliver(r, e)
  BY <1>3, <1>4, <1>5 DEF Deliver, Owes, Places
<1>6. CASE Parse(r) \/ ParseFails(r) \/ AcquireWebhookLock(r)
  BY <1>3, <1>4, <1>6 DEF Parse, ParseFails, AcquireWebhookLock, Owes, Places
<1>7. CASE CheckDuplicate(r)
  BY <1>3, <1>4, <1>7 DEF CheckDuplicate, Respond, Owes, Places
<1>8. CASE InsertCollides(r) \/ InsertTimesOut(r)
  BY <1>3, <1>4, <1>8 DEF InsertCollides, InsertTimesOut, Respond, Owes, Places
<1>9. CASE AnswerArrives(r) \/ AnswerLost(r)
  BY <1>3, <1>4, <1>9 DEF AnswerArrives, AnswerLost, ReleaseSlot, Owes, Places
<1>10. CASE MissTransfer(r)
  <2>1. NoneStarts
    BY <1>3, <1>10, NobodyMoves DEF MissTransfer, Places
  <2>2. QED BY <1>4, <1>10, <2>1 DEF MissTransfer, Owes
<1>11. CASE InsertEvent(r)
  <2> DEFINE e == event[r]
  <2>1. e.kind \in {"invoice", "transfer", "other"} /\ pc[r] = "inserting"
    BY <1>11, EventKinds DEF InsertEvent, TypeInv, Positions, RequestAt
  <2>2. PICK tables : tables = [work EXCEPT !.events = work.events \cup {e}] /\ Flush(r, tables)
    BY <1>11 DEF InsertEvent
  <2>3. /\ tables.events = work.events \cup {e} /\ tables.transfers = work.transfers
        /\ tables.invoices = work.invoices
    BY <1>1, <2>2 DEF Tables
  <2>4. writer = None /\ work' = tables /\ writer' = r /\ db' = db
    BY <1>1, <2>1, <2>2 DEF Flush, LockAt, InTransaction, InPayout
  <2>5. NoneStarts /\ event'[r] = e /\ pc'[r] = e.kind
    <3>1. Goto(r, e.kind) /\ UNCHANGED <<order, event>>
      BY <1>11 DEF InsertEvent, webhookVars
    <3>2. QED BY <1>3, <2>1, <3>1, GotoTyped DEF Places, TypeInv
  <2>6. Inserts(r)
    BY <2>1, <2>3, <2>4, <2>5, KnowSame DEF Inserts, Owes
  <2>7. QED BY <2>6 DEF Deed
<1>12. CASE RecordInvoiceEvent(r)
  <2> DEFINE e == event[r]
             tables == WithInvoiceStatus(work, e.id, e.type)
  <2>1. e.id \in Invoices /\ e.type \in InvoiceStatus
    BY <1>12, EventKinds DEF RecordInvoiceEvent, TypeInv, Positions, RequestAt
  <2>2. /\ tables.events = work.events /\ tables.transfers = work.transfers
        /\ RecordedIn(tables) = RecordedIn(work)
    BY <1>1, <2>1, RecordedStatus
  <2>3. Flush(r, tables) /\ NoneStarts
    BY <1>3, <1>12 DEF RecordInvoiceEvent, Places
  <2>4. ~Credited(e) \/ e.id \notin RecordedIn(work)
    BY <1>12 DEF RecordInvoiceEvent, Known, RecordedIn
  <2> HIDE DEF tables, e
  <2>5. Entries(tables) = Entries(work) /\ Numbers(tables) = Numbers(work)
    BY <2>2, KnowSame
  <2>6. QED BY <2>2, <2>3, <2>4, <2>5, Rewritten DEF e
<1>13. CASE DispatchCredited(r)
  <2> DEFINE e == event[r]
             tables == WithInvoiceStatus(work, e.id, e.type)
  <2>1. e \in EventIds /\ e.kind = "invoice" /\ e.type = "credited" /\ pc[r] = "invoice"
    BY <1>13 DEF DispatchCredited, Credited, TypeInv, Positions, RequestAt
  <2>2. e.id \in Invoices /\ e.type \in InvoiceStatus /\ tables \in Tables /\ e \in Causes
    BY <1>1, <2>1, EventKinds, WithInvoiceStatusTyped DEF Causes
  <2>3. e.id \in RecordedIn(work) /\ StartTransfer(r, e.id, e, tables)
    BY <1>13, <2>2 DEF DispatchCredited, Known, RecordedIn
  <2>4. /\ tables.events = work.events /\ tables.transfers = work.transfers
        /\ RecordedIn(tables) = RecordedIn(work)
    BY <1>1, <2>2, RecordedStatus
  <2>5. e.id \in RecordedIn(db)
    BY <2>3 DEF Ours
  <2>6. "credited" \in Reached(e.id)
    BY <2>1 DEF RealEvents, Real
  <2>7. bankInvoices[e.id] \in InvoiceStatus
    BY <2>2, <2>6 DEF Reached, TypeInv, TypeOK, BankTypeOK
  <2>8. Paid(bankInvoices[e.id])
    BY <2>6, <2>7, CreditedIsPaid DEF Reached
  <2> HIDE DEF tables
  <2>9. QED BY <2>2, <2>3, <2>4, <2>5, <2>8, StartDeed
<1>14. ASSUME NEW a, FailRequest(r, a), UNCHANGED order, pc[r] \in {"invoice", "transferFailed"}
       PROVE  Deed
  <2>1. NoneStarts
    BY <1>3, <1>14 DEF FailRequest, Respond, Places
  <2>2. Undone
    BY <1>1, <1>14, <2>1 DEF FailRequest, Rollback, LockAt, Undone, InTransaction, InPayout
  <2>3. QED BY <2>2 DEF Deed
<1>15. CASE RefuseCredited(r) \/ AbandonCredited(r)
  BY <1>14, <1>15 DEF RefuseCredited, AbandonCredited
<1>16. CASE UpdateTransfer(r)
  <2>1. PICK row \in RowsOf(event[r]), s \in SnapshotOf(event[r]) :
          Flush(r, [work EXCEPT !.transfers =
                      (work.transfers \ {row}) \cup {[row EXCEPT !.status = s]}])
    BY <1>16 DEF UpdateTransfer
  <2> DEFINE new == [row EXCEPT !.status = s]
             tables == [work EXCEPT !.transfers = (work.transfers \ {row}) \cup {new}]
  <2>2. row \in work.transfers /\ work.transfers \subseteq TransferRow
    BY <1>1, TablesUpdate DEF RowsOf
  <2>3. Entry(new) = Entry(row) /\ new.stark = row.stark
    BY <2>2 DEF TransferRow, Entry
  <2>4. /\ tables.events = work.events /\ tables.invoices = work.invoices
        /\ tables.transfers = (work.transfers \ {row}) \cup {new}
    BY <1>1 DEF Tables
  <2>5. Flush(r, tables) /\ NoneStarts /\ pc[r] = "transfer"
    BY <1>3, <1>16, <2>1 DEF UpdateTransfer, Places
  <2> HIDE DEF tables, new
  <2>6. Entries(tables) = Entries(work) /\ Numbers(tables) = Numbers(work)
    BY <2>2, <2>3, <2>4, EntriesReplace, NumbersReplace
  <2>7. QED BY <2>4, <2>5, <2>6, KnowSame, Rewritten
<1>17. CASE CommitEvent(r)
  <2>1. Commit(r, work) /\ NoneStarts /\ pc[r] # "invoice"
    BY <1>3, <1>17 DEF CommitEvent, Respond, Places
  <2>2. QED BY <2>1, Rewritten
<1>18. QED BY <1>5, <1>6, <1>7, <1>8, <1>9, <1>10, <1>11, <1>12, <1>13, <1>15, <1>16, <1>17
           DEF WebhookStep

(* A reconciliation writes statuses of our invoices, starts payouts for      *)
(* those the bank says are paid, and commits.                                *)
LEMMA ReconcileDeed ==
  ASSUME TypeInv, LockPositions, Ours, JobItems, NEW p \in Reconcilers,
         LoadInvoices(p) \/ ReconcileStep(p), UNCHANGED webhookVars
  PROVE  Deed
<1> p \in Processes /\ p \notin Requests
  BY ProcessesAssumption DEF Processes
<1>1. work \in Tables
  BY DEF TypeInv, TypeOK, DatabaseTypeOK
<1>2. ASSUME UNCHANGED dbVars, NoneStarts
      PROVE  Deed
  BY <1>2, ReconcileOther DEF Undisturbed, Owes, dbVars, Deed, Still
<1>3. ASSUME NEW label \in Places \ {"sending", "executed"}, Goto(p, label), UNCHANGED order
      PROVE  NoneStarts
  BY <1>3, Elsewhere
<1>4. ASSUME NEW x \in loaded[p], FetchInvoice(p, x) \/ FetchFails(p, x) \/ FetchTransfer(p, x)
      PROVE  Deed
  <2>1. UNCHANGED <<dbVars, order>> /\ (UNCHANGED pc \/ Goto(p, "checking"))
    BY <1>4 DEF FetchInvoice, FetchFails, FetchTransfer
  <2>2. NoneStarts
    BY <1>3, <2>1, NobodyMoves DEF Places
  <2>3. QED BY <1>2, <2>1, <2>2
<1>5. CASE LoadInvoices(p) \/ NextInvoice(p) \/ LoadTransfers(p) \/ AbortJob(p)
  BY <1>2, <1>3, <1>5 DEF LoadInvoices, NextInvoice, LoadTransfers, AbortJob, Places
<1>6. ASSUME pc[p] \in {"invoices", "checking"}
      PROVE  /\ Flushed(p).events = work.events /\ Flushed(p).transfers = work.transfers
             /\ RecordedIn(Flushed(p)) = RecordedIn(work)
             /\ Entries(Flushed(p)) = Entries(work) /\ Numbers(Flushed(p)) = Numbers(work)
             /\ Flushed(p) \in Tables
  <2>1. changes[p] \in SUBSET InvoiceItem
    BY <1>6 DEF TypeInv, Positions, JobAt
  <2>2. \A x \in changes[p] : x.id \in RecordedIn(work)
    BY <1>6 DEF JobItems, InTransaction, Ours
  <2>3. QED BY <1>1, <2>1, <2>2, RecordedFlush, FlushInvoicesTyped, KnowSame DEF Flushed
<1>7. CASE PayMissing(p)
  <2> DEFINE i == item[p]
             tables == Flushed(p)
  <2>1. i \in RecordedIn(work) /\ pc[p] = "checking" /\ Paid(bankInvoices[i])
    BY <1>7 DEF PayMissing, JobItems, Ours
  <2>2. i \in Invoices /\ i \in RecordedIn(db) /\ ReconcileId(i) \in Causes
    BY <2>1 DEF Ours, RecordedIn, Causes
  <2>3. StartTransfer(p, i, ReconcileId(i), tables)
    BY <1>7 DEF PayMissing
  <2>4. /\ tables.events = work.events /\ tables.transfers = work.transfers
        /\ RecordedIn(tables) = RecordedIn(work) /\ tables \in Tables
    BY <1>6, <2>1
  <2> HIDE DEF tables, i
  <2>5. QED BY <2>1, <2>2, <2>3, <2>4, StartDeed
<1>8. CASE SkipPayout(p)
  <2>1. Flush(p, Flushed(p)) /\ NoneStarts /\ pc[p] = "checking"
    BY <1>3, <1>8 DEF SkipPayout, Places
  <2>2. QED BY <1>6, <2>1, Rewritten
<1>9. CASE EndInvoices(p)
  <2>1. NoneStarts /\ pc[p] = "invoices" /\ (Commit(p, Flushed(p)) \/ UNCHANGED dbVars)
    BY <1>3, <1>9 DEF EndInvoices, EndPhase, Places
  <2>2. QED BY <1>2, <1>6, <2>1, Rewritten
<1>10. CASE EndTransfers(p)
  <2> DEFINE tables == FlushTransfers(work, changes[p])
  <2>1. NoneStarts /\ (Commit(p, tables) \/ UNCHANGED dbVars)
    BY <1>3, <1>10 DEF EndTransfers, EndPhase, Places
  <2>2. /\ tables.events = work.events /\ Entries(tables) = Entries(work)
        /\ RecordedIn(tables) = RecordedIn(work) /\ Numbers(tables) = Numbers(work)
    BY <1>1, EntriesFlush, NumbersFlush
  <2> HIDE DEF tables
  <2>3. QED BY <1>2, <2>1, <2>2, Rewritten
<1>11. QED BY <1>4, <1>5, <1>7, <1>8, <1>9, <1>10 DEF ReconcileStep

(* A crash undoes what its worker wrote, and leaves the other workers alone. *)
LEMMA CrashDeed ==
  ASSUME LockPositions, TypeInv, NEW w \in Workers, Crash(w)
  PROVE  Deed
<1>1. NoneStarts
  <2> SUFFICES ASSUME NEW q \in Processes, AtBank(q)'
               PROVE  AtBank(q) /\ order'[q] = order[q]
    BY DEF NoneStarts
  <2>1. pc'[q] = CASE ~On(w, q) -> pc[q]
                   [] On(w, q) /\ q \in Batches /\ pc[q] # "idle" -> "done"
                   [] OTHER -> "idle"
    BY DEF Crash
  <2>2. ~On(w, q) /\ pc'[q] = pc[q]
    BY <2>1 DEF AtBank
  <2>3. order'[q] = order[q]
    BY <2>2 DEF Crash
  <2>4. QED BY <2>2, <2>3 DEF AtBank
<1>2. CASE writer # None /\ On(w, writer)
  BY <1>1, <1>2 DEF Crash, Rollback, Undone, Deed
<1>3. CASE ~(writer # None /\ On(w, writer))
  <2>1. UNCHANGED dbVars
    BY <1>3 DEF Crash
  <2>2. ASSUME NEW r \in Requests, Owes(r)
        PROVE  Owes(r)' /\ event'[r] = event[r]
    <3>1. ~On(w, r) /\ r \in Processes
      BY <1>3, <2>2, NoneIsNoStatus DEF Owes, Processes
    <3>2. QED BY <2>1, <2>2, <3>1 DEF Crash, Owes, dbVars
  <2>3. QED BY <1>1, <2>1, <2>2 DEF Deed, Still
<1>4. QED BY <1>2, <1>3

(* Every step is one of these deeds. *)
LEMMA Deeds ==
  ASSUME TypeInv, LockPositions, BooksInv, EventsInv, [Next]_vars
  PROVE  Deed
<1> USE DEF EventsInv
<1>1. ASSUME UNCHANGED <<dbVars, pc, order, event>>
      PROVE  Deed
  BY <1>1, NobodyMoves DEF Deed, Still, Owes, dbVars
<1>2. CASE TransferNext
  BY <1>2, TransferDeed DEF TransferNext
<1>3. CASE WebhookNext
  BY <1>3, WebhookDeed DEF WebhookNext
<1>4. CASE ReconcileNext /\ UNCHANGED webhookVars
  BY <1>1, <1>4, ReconcileDeed DEF ReconcileNext, AgeOut, webhookVars
<1>5. CASE IssueNext /\ UNCHANGED webhookVars
  BY <1>5, IssueDeed
<1>6. CASE UNCHANGED <<dbVars, transferVars, webhookVars>>
  BY <1>1, <1>6 DEF transferVars, webhookVars
<1>7. QED BY <1>2, <1>3, <1>4, <1>5, <1>6, CrashDeed DEF Next, vars

-----------------------------------------------------------------------------
\* What a step does at the bank.

\* An invoice is untouched, goes on, or is created for the batch it is of.
InvoiceGoesOn(i) ==
  \/ bankInvoices'[i] = bankInvoices[i]
  \/ /\ bankInvoices[i] \in InvoiceStatus /\ bankInvoices'[i] \in InvoiceStatus
     /\ Reached(i) \subseteq Reached(i)'
     /\ Paid(bankInvoices[i]) => Paid(bankInvoices'[i])
  \/ \E b \in Batches : i \in LotOf[b] /\ pc[b] = "issuing" /\ pc'[b] = "issued"
\* A transfer is one that was there, or the one a process has asked for.
TransferWasDue(t) ==
  \/ \E old \in bankTransfers : old.id = t.id /\ old.invoice = t.invoice
  \/ \E p \in Processes : AtBank(p) /\ order[p].id = t.id /\ order[p].invoice = t.invoice
BatchGoesOn(b) ==
  /\ pc'[b] \in {"idle", "issuing"} => pc[b] \in {"idle", "issuing"}
  /\ pc'[b] = "issued" => pc[b] \in {"issuing", "issued"}

GoesOn ==
  /\ lastRow' \in Nat /\ lastRow <= lastRow'
  /\ overdue \subseteq overdue'
  /\ \A i \in Invoices : InvoiceGoesOn(i)
  /\ \A t \in bankTransfers' : TransferWasDue(t)
  /\ \A b \in Batches : BatchGoesOn(b)

(* A step that does nothing at the bank, by a process that is no batch.      *)
LEMMA AwayFromBank ==
  ASSUME lastRow \in Nat, lastRow' \in {lastRow, lastRow + 1},
         UNCHANGED <<bankInvoices, overdue, bankTransfers>>, \A b \in Batches : pc'[b] = pc[b]
  PROVE  GoesOn
BY DEF GoesOn, InvoiceGoesOn, TransferWasDue, BatchGoesOn

(* The bank's own steps lead an invoice or a transfer from status to status. *)
LEMMA BankGoesOn ==
  ASSUME TypeInv, BankNext, UNCHANGED transferVars
  PROVE  GoesOn
<1> USE DEF transferVars
<1>1. /\ bankInvoices \in [Invoices -> InvoiceStatus \cup {None}]
      /\ bankTransfers \subseteq BankTransfer /\ lastRow \in Nat
  BY DEF TypeInv, TypeOK, BankTypeOK, TransferTypeOK
<1>2. /\ lastRow' \in Nat /\ lastRow <= lastRow'
      /\ \A b \in Batches : BatchGoesOn(b)
  BY <1>1 DEF BatchGoesOn
<1>3. ASSUME NEW i \in Invoices, NEW from \in SUBSET InvoiceStatus, NEW to \in InvoiceStatus,
             InvoiceMoves(i, from, to),
             \A s \in from : InvoiceHistory[s] \ {"overdue"} \subseteq InvoiceHistory[to],
             \A s \in from : Paid(s) => Paid(to)
      PROVE  GoesOn
  <2>1. bankInvoices[i] \in from /\ bankInvoices'[i] = to
    BY <1>1, <1>3 DEF InvoiceMoves
  <2>6. overdue \subseteq overdue' /\ (bankInvoices[i] = "overdue" => i \in overdue')
    BY <1>3 DEF InvoiceMoves
  <2>7. Reached(i) \subseteq Reached(i)'
    <3>1. \A s \in InvoiceStatus \ {"overdue"} : "overdue" \notin InvoiceHistory[s]
      BY DEF InvoiceStatus, InvoiceHistory
    <3>2. bankInvoices[i] \in InvoiceStatus /\ bankInvoices'[i] # None
      BY <1>3, <2>1, NoneIsNoStatus
    <3>3. QED BY <1>3, <2>1, <2>6, <3>1, <3>2 DEF Reached
  <2>2. \A j \in Invoices \ {i} : bankInvoices'[j] = bankInvoices[j]
    BY <1>1, <1>3 DEF InvoiceMoves
  <2>3. \A j \in Invoices : InvoiceGoesOn(j)
    BY <1>3, <2>1, <2>2, <2>7 DEF InvoiceGoesOn
  <2>4. \A t \in bankTransfers' : TransferWasDue(t)
    BY <1>3 DEF InvoiceMoves, TransferWasDue
  <2>5. QED BY <1>2, <2>3, <2>4, <2>6 DEF GoesOn
<1>4. /\ "created" \in InvoiceStatus /\ "paid" \in InvoiceStatus
      /\ "credited" \in InvoiceStatus /\ "canceled" \in InvoiceStatus
      /\ "overdue" \in InvoiceStatus
      /\ ~Paid("created") /\ ~Paid("overdue") /\ Paid("credited")
      /\ \A s \in {"paid", "canceled"} :
           InvoiceHistory["overdue"] \ {"overdue"} \subseteq InvoiceHistory[s]
      /\ \A s \in {"overdue", "paid", "canceled"} :
           InvoiceHistory["created"] \subseteq InvoiceHistory[s]
      /\ InvoiceHistory["paid"] \subseteq InvoiceHistory["credited"]
  BY DEF InvoiceStatus, InvoiceHistory, Paid
<1>5. ASSUME NEW i \in Invoices,
             OverdueInvoice(i) \/ PayInvoice(i) \/ CreditInvoice(i) \/ CancelInvoice(i)
      PROVE  GoesOn
  BY <1>3, <1>4, <1>5 DEF OverdueInvoice, PayInvoice, CreditInvoice, CancelInvoice
<1>6. ASSUME NEW t \in bankTransfers, NEW from, NEW to, TransferMoves(t, from, to)
      PROVE  GoesOn
  <2>1. \A i \in Invoices : InvoiceGoesOn(i)
    BY <1>6 DEF TransferMoves, InvoiceGoesOn
  <2> DEFINE new == [t EXCEPT !.status = to]
  <2>2. new.id = t.id /\ new.invoice = t.invoice
    BY <1>1 DEF BankTransfer
  <2>3. bankTransfers' = (bankTransfers \ {t}) \cup {new}
    BY <1>6 DEF TransferMoves
  <2> HIDE DEF new
  <2>4. \A u \in bankTransfers' : TransferWasDue(u)
    BY <2>2, <2>3 DEF TransferWasDue
  <2>5. overdue' = overdue
    BY <1>6 DEF TransferMoves
  <2>6. QED BY <1>2, <2>1, <2>4, <2>5 DEF GoesOn
<1>7. QED BY <1>5, <1>6 DEF BankNext, ProcessTransfer, FinishTransfer, FailTransfer

(* A payout's own steps: the bank executes what the row asks for.            *)
LEMMA TransferGoesOn ==
  ASSUME TypeInv, NEW p \in Requests \cup Reconcilers, TransferStep(p)
  PROVE  GoesOn
<1> p \in Processes /\ p \notin Batches
  BY ProcessesAssumption DEF Processes
<1>1. lastRow \in Nat /\ lastRow' = lastRow
  BY DEF TypeInv, TypeOK, TransferTypeOK, TransferStep, BankExecutes, BankReplies,
     BankRepliesEmpty, CallFails, SettleRow
<1>2. PICK label \in {"executed", "transferred", "transferFailed"} : Goto(p, label)
  BY DEF TransferStep, BankExecutes, BankReplies, BankRepliesEmpty, CallFails, SettleRow
<1>3. \A b \in Batches : pc'[b] = pc[b]
  BY <1>2, GotoTyped DEF Places, TypeInv, Processes
<1>4. CASE BankExecutes(p)
  <2>1. \A t \in bankTransfers' : TransferWasDue(t)
    BY <1>4 DEF BankExecutes, ExecuteTransfer, TransferWasDue, AtBank
  <2>2. \A i \in Invoices : InvoiceGoesOn(i)
    BY <1>4 DEF BankExecutes, ExecuteTransfer, InvoiceGoesOn
  <2>3. overdue' = overdue
    BY <1>4 DEF BankExecutes, ExecuteTransfer
  <2>4. QED BY <1>1, <1>3, <2>1, <2>2, <2>3 DEF GoesOn, BatchGoesOn
<1>5. CASE BankReplies(p) \/ BankRepliesEmpty(p) \/ CallFails(p)
  <2>1. UNCHANGED <<bankInvoices, overdue, bankTransfers>>
    BY <1>5 DEF BankReplies, BankRepliesEmpty, CallFails, bankVars
  <2>2. QED BY <1>1, <1>3, <2>1, AwayFromBank
<1>6. QED BY <1>4, <1>5 DEF TransferStep

(* A batch's steps: the bank creates its lot.                                *)
LEMMA IssueGoesOn ==
  ASSUME TypeInv, IssueNext
  PROVE  GoesOn
<1>1. PICK b \in Batches : OpenBatch(b) \/ OpenBatchTimesOut(b) \/ BankIssues(b)
                             \/ RecordBatch(b) \/ FailBatch(b)
  BY DEF IssueNext
<1> b \in Processes
  BY DEF Processes
<1>2. lastRow \in Nat /\ lastRow' = lastRow
  BY <1>1 DEF TypeInv, TypeOK, TransferTypeOK, OpenBatch, OpenBatchTimesOut, BankIssues,
     RecordBatch, FailBatch
<1>3. PICK label \in {"issuing", "issued", "done"} :
        /\ Goto(b, label)
        /\ label = "issuing" => pc[b] = "idle"
        /\ label = "issued" => pc[b] = "issuing"
  BY <1>1 DEF OpenBatch, OpenBatchTimesOut, BankIssues, RecordBatch, FailBatch, BatchAt
<1>4. /\ pc'[b] = label /\ \A c \in Processes \ {b} : pc'[c] = pc[c]
  BY <1>3, GotoTyped DEF Places, TypeInv
<1>5. \A c \in Batches : BatchGoesOn(c)
  BY <1>3, <1>4 DEF BatchGoesOn, Processes
<1>6. CASE BankIssues(b)
  <2>1. \A t \in bankTransfers' : TransferWasDue(t)
    BY <1>6 DEF BankIssues, CreateInvoices, TransferWasDue
  <2>2. pc[b] = "issuing" /\ pc'[b] = "issued"
    BY <1>6, GotoTyped DEF BankIssues, BatchAt, Places, TypeInv
  <2>3. \A i \in Invoices :
          bankInvoices'[i] = IF i \in LotOf[b] THEN "created" ELSE bankInvoices[i]
    BY <1>6 DEF BankIssues, CreateInvoices
  <2>4. \A i \in Invoices : InvoiceGoesOn(i)
    BY <2>2, <2>3 DEF InvoiceGoesOn
  <2>5. overdue' = overdue
    BY <1>6 DEF BankIssues, CreateInvoices
  <2>6. QED BY <1>2, <1>5, <2>1, <2>4, <2>5 DEF GoesOn
<1>7. CASE OpenBatch(b) \/ OpenBatchTimesOut(b) \/ RecordBatch(b) \/ FailBatch(b)
  <2>1. UNCHANGED <<bankInvoices, overdue, bankTransfers>>
    BY <1>7 DEF OpenBatch, OpenBatchTimesOut, RecordBatch, FailBatch, bankVars
  <2>2. (\A i \in Invoices : InvoiceGoesOn(i)) /\ (\A t \in bankTransfers' : TransferWasDue(t))
    BY <2>1 DEF InvoiceGoesOn, TransferWasDue
  <2>3. QED BY <1>2, <1>5, <2>1, <2>2 DEF GoesOn
<1>8. QED BY <1>1, <1>6, <1>7

(* A request's own steps change nothing at the bank. *)
LEMMA WebhookGoesOn ==
  ASSUME TypeInv, NEW r \in Requests,
         WebhookStep(r) \/ \E e \in Emitted \ acked : Deliver(r, e)
  PROVE  GoesOn
<1> r \in Processes /\ r \notin Batches
  BY ProcessesAssumption DEF Processes
<1> USE DEF TypeInv, TypeOK, TransferTypeOK, Goto, bankVars
<1>1. lastRow \in Nat
  OBVIOUS
<1>2. /\ \A b \in Batches : pc'[b] = pc[b]
      /\ lastRow' \in {lastRow, lastRow + 1} /\ UNCHANGED <<bankInvoices, overdue, bankTransfers>>
  <2> USE DEF Processes
  <2>1. CASE \E e \in Emitted \ acked : Deliver(r, e)
    BY <2>1 DEF Deliver
  <2>2. CASE Parse(r) \/ ParseFails(r) \/ AcquireWebhookLock(r)
    BY <2>2 DEF Parse, ParseFails, AcquireWebhookLock
  <2>3. CASE CheckDuplicate(r) \/ InsertCollides(r) \/ InsertTimesOut(r)
    BY <2>3 DEF CheckDuplicate, InsertCollides, InsertTimesOut, Respond
  <2>4. CASE InsertEvent(r) \/ RecordInvoiceEvent(r)
    BY <2>4 DEF InsertEvent, RecordInvoiceEvent
  <2>5. CASE DispatchCredited(r)
    BY <2>5 DEF DispatchCredited, StartTransfer
  <2>6. CASE RefuseCredited(r) \/ AbandonCredited(r)
    BY <2>6 DEF RefuseCredited, AbandonCredited, FailRequest, Respond
  <2>7. CASE UpdateTransfer(r) \/ MissTransfer(r) \/ CommitEvent(r)
    BY <2>7 DEF UpdateTransfer, MissTransfer, CommitEvent, Respond
  <2>8. CASE AnswerArrives(r) \/ AnswerLost(r)
    BY <2>8 DEF AnswerArrives, AnswerLost, ReleaseSlot
  <2>9. QED BY <2>1, <2>2, <2>3, <2>4, <2>5, <2>6, <2>7, <2>8 DEF WebhookStep
<1>3. QED BY <1>1, <1>2, AwayFromBank

(* Nor do those of a reconciliation. *)
LEMMA ReconcileGoesOn ==
  ASSUME TypeInv, NEW p \in Reconcilers, LoadInvoices(p) \/ ReconcileStep(p)
  PROVE  GoesOn
<1> p \in Processes /\ p \notin Batches
  BY ProcessesAssumption DEF Processes
<1> USE DEF TypeInv, TypeOK, TransferTypeOK, Goto, bankVars
<1>1. lastRow \in Nat
  OBVIOUS
<1>2. /\ \A b \in Batches : pc'[b] = pc[b]
      /\ lastRow' \in {lastRow, lastRow + 1} /\ UNCHANGED <<bankInvoices, overdue, bankTransfers>>
  <2> USE DEF Processes
  <2>1. ASSUME NEW x \in loaded[p], FetchInvoice(p, x) \/ FetchFails(p, x) \/ FetchTransfer(p, x)
        PROVE  /\ \A b \in Batches : pc'[b] = pc[b]
               /\ lastRow' \in {lastRow, lastRow + 1}
               /\ UNCHANGED <<bankInvoices, overdue, bankTransfers>>
    BY <2>1 DEF FetchInvoice, FetchFails, FetchTransfer
  <2>2. CASE LoadInvoices(p) \/ NextInvoice(p) \/ LoadTransfers(p) \/ AbortJob(p)
    BY <2>2 DEF LoadInvoices, NextInvoice, LoadTransfers, AbortJob
  <2>3. CASE PayMissing(p)
    BY <2>3 DEF PayMissing, StartTransfer
  <2>4. CASE SkipPayout(p) \/ EndInvoices(p) \/ EndTransfers(p)
    BY <2>4 DEF SkipPayout, EndInvoices, EndTransfers, EndPhase
  <2>5. QED BY <2>1, <2>2, <2>3, <2>4 DEF ReconcileStep
<1>3. QED BY <1>1, <1>2, AwayFromBank

(* No step takes anything back at the bank.                                  *)
LEMMA Onward ==
  ASSUME TypeInv, [Next]_vars
  PROVE  GoesOn
<1>1. lastRow \in Nat
  BY DEF TypeInv, TypeOK, TransferTypeOK
<1>2. ASSUME UNCHANGED <<bankInvoices, overdue, bankTransfers, pc, lastRow>>
      PROVE  GoesOn
  BY <1>1, <1>2, AwayFromBank
<1>3. CASE TransferNext
  BY <1>3, TransferGoesOn DEF TransferNext
<1>4. CASE WebhookNext
  BY <1>4, WebhookGoesOn DEF WebhookNext
<1>5. CASE ReconcileNext
  BY <1>2, <1>5, ReconcileGoesOn DEF ReconcileNext, AgeOut, bankVars
<1>6. CASE IssueNext
  BY <1>6, IssueGoesOn
<1>7. CASE BankNext /\ UNCHANGED transferVars
  BY <1>7, BankGoesOn
<1>8. ASSUME NEW w \in Workers, Crash(w)
      PROVE  GoesOn
  <2>1. UNCHANGED <<bankInvoices, overdue, bankTransfers, lastRow>>
    BY <1>8 DEF Crash, bankVars
  <2>2. ASSUME NEW b \in Batches
        PROVE  BatchGoesOn(b)
    <3>1. /\ ~On(w, b) => pc'[b] = pc[b]
          /\ On(w, b) => pc'[b] = "done" \/ (pc[b] = "idle" /\ pc'[b] = "idle")
      BY <1>8 DEF Crash, Processes
    <3>2. QED BY <3>1 DEF BatchGoesOn
  <2>3. QED BY <1>1, <2>1, <2>2 DEF GoesOn, InvoiceGoesOn, TransferWasDue
<1>9. CASE UNCHANGED <<bankVars, transferVars>>
  BY <1>2, <1>9 DEF bankVars, transferVars
<1>10. QED BY <1>3, <1>4, <1>5, <1>6, <1>7, <1>8, <1>9 DEF Next, vars

(* So what was there to tell is there to tell, and what was due is due.      *)
LEMMA Progress ==
  ASSUME TypeInv, Lots, GoesOn
  PROVE  /\ \A e \in EventIds : Real(e) => Real(e)'
         /\ RecordedIn(db) \subseteq RecordedIn(db)' => \A i \in Invoices : Due(i) => Due(i)'
         /\ \A i \in Invoices : Paid(bankInvoices[i]) => Paid(bankInvoices'[i])
<1>1. ASSUME NEW i \in Invoices, bankInvoices[i] # None
      PROVE  /\ bankInvoices'[i] # None
             /\ Reached(i) \subseteq Reached(i)'
             /\ Paid(bankInvoices[i]) => Paid(bankInvoices'[i])
  <2>1. InvoiceGoesOn(i) /\ overdue \subseteq overdue'
    BY DEF GoesOn
  <2>2. CASE bankInvoices'[i] = bankInvoices[i]
    BY <1>1, <2>1, <2>2 DEF Reached
  <2>3. CASE \E b \in Batches : i \in LotOf[b] /\ pc[b] = "issuing" /\ pc'[b] = "issued"
    BY <1>1, <2>3 DEF Lots
  <2>4. QED BY <1>1, <2>1, <2>2, <2>3, NoneIsNoStatus DEF InvoiceGoesOn
<1>2. ASSUME NEW i \in Invoices, Paid(bankInvoices[i])
      PROVE  Paid(bankInvoices'[i])
  BY <1>1, <1>2, NoneIsNoStatus DEF Paid, InvoiceStatus
<1>3. ASSUME NEW e \in EventIds, Real(e)
      PROVE  Real(e)'
  <2>1. /\ e.kind = "invoice" => e.id \in Invoices
        /\ e.kind = "transfer" => e.id \in Nat
    BY EventKinds
  <2>2. lastRow \in Nat /\ lastRow' \in Nat /\ lastRow <= lastRow'
    BY DEF TypeInv, TypeOK, TransferTypeOK, GoesOn
  <2>3. e.kind = "transfer" => e.id <= lastRow'
    BY <1>3, <2>1, <2>2 DEF Real
  <2>4. e.kind = "invoice" => e.type \in Reached(e.id)'
    BY <1>1, <1>3, <2>1 DEF Real, Reached
  <2>5. QED BY <2>3, <2>4 DEF Real
<1>4. QED BY <1>2, <1>3 DEF Due, Payable

-----------------------------------------------------------------------------
\* The invariant, part by part.

(* What is committed is not lost to the writer. *)
LEMMA EventsKept ==
  ASSUME TypeInv, LockPositions, DraftInv
  PROVE  db.events \subseteq work.events
<1>1. writer = None => work = db
  BY DEF LockPositions
<1>2. writer \in Requests \cup Reconcilers \cup Batches \cup {None}
  BY DEF TypeInv, TypeOK, DatabaseTypeOK, Processes
<1>3. QED BY <1>1, <1>2 DEF DraftInv, RequestDraft, JobDraft, BatchDraft

(* Events come to the tables by their request's insertion only. *)
LEMMA EventsCome ==
  ASSUME TypeInv, LockPositions, DraftInv, Deed
  PROVE  \/ work'.events \subseteq work.events
         \/ \E r \in Requests : Inserts(r)
BY EventsKept DEF Deed, Still, Undone, Rewrites, Keeps, Starts, Replies, Records, dbVars

(* The bank only tells what is. *)
LEMMA EmittedReal ==
  ASSUME RealTransfers, NEW e \in Emitted
  PROVE  Real(e)
<1>1. CASE /\ e \in {InvoiceEvent(i, s) : i \in Invoices, s \in InvoiceStatus}
           /\ e.type \in Reached(e.id)
  BY <1>1 DEF Real, InvoiceEvent
<1>2. ASSUME NEW t \in bankTransfers, NEW s, e = TransferEvent(t.id, s)
      PROVE  Real(e)
  BY <1>2 DEF Real, TransferEvent, RealTransfers
<1>3. CASE e = OtherEvent
  BY <1>3 DEF Real, OtherEvent
<1>4. CASE e \in UNION {{TransferEvent(t.id, s) :
                           s \in {x \in TransferHistory[t.status] :
                                   <<"transfer", x>> \in Subscribed}} : t \in bankTransfers}
  <2> DEFINE EventsOf(t) ==
        {TransferEvent(t.id, s) : s \in {x \in TransferHistory[t.status] :
                                           <<"transfer", x>> \in Subscribed}}
  <2>1. \A t \in bankTransfers : \A d \in EventsOf(t) : \E s : d = TransferEvent(t.id, s)
    OBVIOUS
  <2>2. e \in UNION {EventsOf(t) : t \in bankTransfers}
    BY <1>4
  <2> HIDE DEF EventsOf
  <2>3. QED BY <1>2, <2>1, <2>2
<1>5. QED BY <1>1, <1>3, <1>4 DEF Emitted

(* The event of a request at work is the one it had, or has just arrived.    *)
LEMMA EventAtHand ==
  ASSUME TypeInv, LockPositions, [Next]_vars, NEW r \in Requests, pc'[r] # "idle"
  PROVE  (pc[r] # "idle" /\ event'[r] = event[r]) \/ event'[r] \in Emitted
<1>1. CASE Undisturbed(r)
  BY <1>1 DEF Undisturbed
<1>2. CASE TransferStep(r) /\ UNCHANGED webhookVars
  BY <1>2 DEF TransferStep, BankExecutes, BankReplies, BankRepliesEmpty, CallFails, webhookVars
<1>3. CASE \E d \in Emitted \ acked : Deliver(r, d)
  BY <1>3 DEF Deliver, TypeInv, TypeOK, WebhookTypeOK
<1>4. CASE WebhookStep(r)
  <2>1. CASE AnswerArrives(r) \/ AnswerLost(r)
    <3>1. Goto(r, "idle") /\ r \in Processes
      BY <2>1 DEF AnswerArrives, AnswerLost, ReleaseSlot, Processes
    <3>2. QED BY <3>1, GotoTyped DEF Places, TypeInv
  <2>2. CASE ~(AnswerArrives(r) \/ AnswerLost(r))
    BY <1>4, <2>2 DEF WebhookStep, Parse, ParseFails, AcquireWebhookLock, CheckDuplicate,
       InsertEvent, InsertCollides, InsertTimesOut, RecordInvoiceEvent, DispatchCredited,
       RefuseCredited, AbandonCredited, FailRequest, UpdateTransfer, MissTransfer,
       CommitEvent, Respond, webhookVars
  <2>3. QED BY <2>1, <2>2
<1>5. QED BY <1>1, <1>2, <1>3, <1>4, Turns DEF Gone

(* The events at hand stay real, and those that arrive are. *)
LEMMA NextRealEvents ==
  ASSUME TypeInv, TypeInv', LockPositions, DraftInv, EventsInv, Deed, [Next]_vars
  PROVE  RealEvents'
<1> USE DEF EventsInv
<1>1. \A e \in EventIds : Real(e) => Real(e)'
  BY Onward, Progress
<1>2. ASSUME NEW r \in Requests, pc'[r] # "idle"
      PROVE  Real(event[r])'
  <2>1. PICK e \in EventIds : e = event'[r]
    BY <1>2 DEF TypeInv, Positions, RequestAt
  <2>2. Real(e)
    BY <1>2, <2>1, EventAtHand, EmittedReal DEF RealEvents
  <2>3. Real(e)'
    BY <1>1, <2>2
  <2>4. QED BY <2>1, <2>3 DEF Real
<1>3. ASSUME NEW e \in work'.events
      PROVE  Real(e)'
  <2>1. e \in EventIds
    BY DEF TypeInv, TypeOK, DatabaseTypeOK, Tables
  <2>2. Real(e)
    <3>1. CASE e \in work.events
      BY <3>1 DEF RealEvents
    <3>2. CASE \E r \in Requests : Inserts(r) /\ e = event[r]
      BY <3>2 DEF Inserts, RealEvents
    <3>3. QED BY <3>1, <3>2, EventsCome DEF Inserts
  <2>3. QED BY <1>1, <2>1, <2>2
<1>4. QED BY <1>2, <1>3 DEF RealEvents

(* The committed invoices only become more, and all are ours. *)
LEMMA NextOurs ==
  ASSUME Ours, Deed
  PROVE  Ours' /\ RecordedIn(db) \subseteq RecordedIn(db')
<1>1. \A b \in Batches : LotOf[b] \cap External = {}
  BY ConstantsAssumption
<1>2. /\ RecordedIn(db') = RecordedIn(work') /\ RecordedIn(work') \cap External = {}
      /\ RecordedIn(db) \subseteq RecordedIn(db')
  BY <1>1 DEF Ours, Deed, Still, Undone, Rewrites, Keeps, Inserts, Starts, Replies, Records, dbVars
<1>3. QED BY <1>2 DEF Ours, RecordedIn

(* Payouts at the bank, and those about to be there, stay due. *)
LEMMA NextRealTransfers ==
  ASSUME TypeInv, TypeInv', EventsInv, Deed, [Next]_vars
  PROVE  RealTransfers'
<1> USE DEF EventsInv
<1>1. GoesOn /\ \A i \in Invoices : Due(i) => Due(i)'
  <2>1. RecordedIn(db) \subseteq RecordedIn(db)'
    BY NextOurs DEF RecordedIn
  <2>2. QED BY <2>1, Onward, Progress
<1>2. lastRow \in Nat /\ lastRow' \in Nat /\ lastRow <= lastRow'
  BY <1>1 DEF GoesOn, TypeInv, TypeOK, TransferTypeOK
<1>3. ASSUME NEW p \in Processes, AtBank(p)
      PROVE  \E n \in Nat, i \in Invoices :
               /\ order[p].id = n /\ order[p].invoice = i
               /\ n <= lastRow' /\ Due(i)'
  <2>1. order[p].id \in Nat /\ order[p].invoice \in Invoices
    BY <1>3 DEF TypeInv, Positions, OrderAt, AtBank, TransferRow
  <2>2. PICK n \in Nat, i \in Invoices : order[p].id = n /\ order[p].invoice = i
    BY <2>1
  <2>3. n <= lastRow /\ Due(i)
    BY <1>3, <2>2 DEF RealTransfers
  <2>4. n <= lastRow' /\ Due(i)'
    BY <1>1, <1>2, <2>3
  <2>5. QED BY <2>2, <2>4
<1>4. ASSUME NEW t \in bankTransfers'
      PROVE  t.id <= lastRow' /\ Due(t.invoice)'
  <2>1. CASE \E old \in bankTransfers : old.id = t.id /\ old.invoice = t.invoice
    <3>1. t.id \in Nat /\ t.invoice \in Invoices
      BY DEF TypeInv, TypeOK, BankTypeOK, BankTransfer
    <3>2. t.id <= lastRow /\ Due(t.invoice)
      BY <2>1 DEF RealTransfers
    <3>3. QED BY <1>1, <1>2, <3>1, <3>2
  <2>2. CASE \E p \in Processes :
               AtBank(p) /\ order[p].id = t.id /\ order[p].invoice = t.invoice
    BY <1>3, <2>2
  <2>3. QED BY <1>1, <2>1, <2>2 DEF GoesOn, TransferWasDue
<1>5. ASSUME NEW p \in Processes, AtBank(p)'
      PROVE  (order[p].id <= lastRow /\ Due(order[p].invoice))'
  <2>1. ASSUME NEW n \in Nat, NEW i \in Invoices, order'[p].id = n, order'[p].invoice = i,
               n <= lastRow', Due(i)'
        PROVE  (order[p].id <= lastRow /\ Due(order[p].invoice))'
    BY <2>1 DEF Due
  <2>2. CASE AtBank(p) /\ order'[p] = order[p]
    BY <1>3, <2>1, <2>2
  <2>3. CASE Starts(p)
    <3>1. PICK i \in RecordedIn(work), cause \in Causes :
            lastRow' = lastRow + 1 /\ Due(i) /\ order'[p] = NewRow(i, cause)
      BY <2>3 DEF Starts
    <3>2. i \in Invoices /\ order'[p].id = lastRow' /\ order'[p].invoice = i
      BY <3>1 DEF RecordedIn, NewRow
    <3>3. lastRow' <= lastRow' /\ Due(i)'
      BY <1>1, <1>2, <3>1, <3>2
    <3>4. QED BY <1>2, <2>1, <3>2, <3>3
  <2>4. QED BY <1>5, <2>2, <2>3 DEF Deed, Still, Undone, Rewrites, Inserts, Starts, Replies,
               Records, NoneStarts
<1>6. QED BY <1>4, <1>5 DEF RealTransfers

(* A lot comes into being once, under its batch's lock. *)
LEMMA NextLots ==
  ASSUME TypeInv, LockPositions, DraftInv, EventsInv, Deed, [Next]_vars
  PROVE  Lots'
<1> USE DEF EventsInv
<1>1. GoesOn
  BY Onward
<1>2. SUFFICES ASSUME NEW b \in Batches, NEW i \in LotOf[b]
               PROVE  /\ pc'[b] \in {"idle", "issuing"} => bankInvoices'[i] = None
                      /\ pc'[b] = "issued" => CreditOf(i) \notin work'.events
  BY DEF Lots, CreditOf, InvoiceEvent
<1>3. i \in Invoices /\ \A c \in Batches : i \in LotOf[c] => c = b
  BY ConstantsAssumption
<1>4. BatchGoesOn(b) /\ InvoiceGoesOn(i)
  BY <1>1, <1>3 DEF GoesOn
<1>5. ASSUME pc'[b] \in {"idle", "issuing"}
      PROVE  bankInvoices'[i] = None
  <2>1. pc[b] \in {"idle", "issuing"}
    BY <1>4, <1>5 DEF BatchGoesOn
  <2>2. bankInvoices[i] = None
    BY <2>1 DEF Lots
  <2>3. QED BY <1>3, <1>4, <1>5, <2>2, NoneIsNoStatus DEF InvoiceGoesOn
<1>6. ASSUME pc'[b] = "issued"
      PROVE  CreditOf(i) \notin work'.events
  <2>1. pc[b] \in {"issuing", "issued"}
    BY <1>4, <1>6 DEF BatchGoesOn
  <2>2. writer = b /\ b # None
    BY <2>1, NoneIsNoStatus DEF LockPositions, LockAt, InTransaction, Processes
  <2>3. CreditOf(i) \notin work.events
    <3>1. CASE pc[b] = "issued"
      BY <3>1 DEF Lots
    <3>2. CASE pc[b] = "issuing"
      <4>1. bankInvoices[i] = None
        BY <3>2 DEF Lots
      <4>2. ~Real(CreditOf(i))
        BY <4>1 DEF Real, Reached, CreditOf, InvoiceEvent
      <4>3. QED BY <4>2 DEF RealEvents
    <3>3. QED BY <2>1, <3>1, <3>2
  <2>4. QED BY <2>2, <2>3, EventsCome DEF Inserts
<1>7. QED BY <1>5, <1>6

(* A step of a reconciliation, another's, or its end. *)
LEMMA JobTurns ==
  ASSUME TypeInv, [Next]_vars, NEW p \in Reconcilers
  PROVE  \/ /\ pc'[p] = pc[p] /\ loaded'[p] = loaded[p]
            /\ changes'[p] = changes[p] /\ item'[p] = item[p]
         \/ pc'[p] = "idle"
         \/ TransferStep(p) /\ UNCHANGED reconcileVars
         \/ LoadInvoices(p) \/ ReconcileStep(p)
<1> DEFINE Alone == /\ pc'[p] = pc[p] /\ loaded'[p] = loaded[p]
                    /\ changes'[p] = changes[p] /\ item'[p] = item[p]
<1> p \in Processes
  BY DEF Processes
<1> USE DEF TypeInv, TypeOK, TransferTypeOK, ReconcileTypeOK, reconcileVars
<1>1. ASSUME NEW q \in Processes \ {p}, NEW label, Goto(q, label), UNCHANGED reconcileVars
      PROVE  Alone
  BY <1>1 DEF Goto
<1>2. CASE TransferNext /\ UNCHANGED reconcileVars
  <2>1. PICK q \in Requests \cup Reconcilers : TransferStep(q)
    BY <1>2 DEF TransferNext
  <2>2. PICK label : Goto(q, label)
    BY <2>1 DEF TransferStep, BankExecutes, BankReplies, BankRepliesEmpty, CallFails, SettleRow
  <2>3. QED BY <1>1, <1>2, <2>1, <2>2 DEF Processes
<1>3. CASE WebhookNext /\ UNCHANGED reconcileVars
  <2>1. PICK r \in Requests : WebhookStep(r) \/ \E e \in Emitted \ acked : Deliver(r, e)
    BY <1>3 DEF WebhookNext
  <2>2. (\E label : Goto(r, label)) \/ UNCHANGED pc
    BY <2>1 DEF WebhookStep, Deliver, Parse, ParseFails, AcquireWebhookLock, CheckDuplicate,
       InsertEvent, InsertCollides, InsertTimesOut, RecordInvoiceEvent, DispatchCredited,
       StartTransfer, RefuseCredited, AbandonCredited, FailRequest, UpdateTransfer, MissTransfer,
       CommitEvent, AnswerArrives, AnswerLost, ReleaseSlot, Respond
  <2>3. r \in Processes \ {p}
    BY ProcessesAssumption DEF Processes
  <2>4. QED BY <1>1, <1>3, <2>2, <2>3
<1>4. CASE ReconcileNext
  <2>1. ASSUME NEW q \in Reconcilers \ {p}, LoadInvoices(q) \/ ReconcileStep(q)
        PROVE  Alone
    <3> USE DEF Goto
    <3>1. ASSUME NEW x \in loaded[q],
                 FetchInvoice(q, x) \/ FetchFails(q, x) \/ FetchTransfer(q, x)
          PROVE  Alone
      BY <3>1 DEF FetchInvoice, FetchFails, FetchTransfer, Advance
    <3>2. CASE LoadInvoices(q) \/ NextInvoice(q) \/ LoadTransfers(q) \/ AbortJob(q)
      BY <3>2 DEF LoadInvoices, NextInvoice, LoadTransfers, AbortJob
    <3>3. CASE PayMissing(q) \/ SkipPayout(q)
      BY <3>3 DEF PayMissing, StartTransfer, SkipPayout
    <3>4. CASE EndInvoices(q) \/ EndTransfers(q)
      BY <3>4 DEF EndInvoices, EndTransfers, EndPhase
    <3>5. QED BY <2>1, <3>1, <3>2, <3>3, <3>4 DEF ReconcileStep
  <2>2. ASSUME NEW x, AgeOut(x)
        PROVE  Alone
    BY <2>2 DEF AgeOut
  <2>3. QED BY <1>4, <2>1, <2>2 DEF ReconcileNext
<1>5. CASE IssueNext /\ UNCHANGED reconcileVars
  <2>1. PICK b \in Batches : \E label : Goto(b, label)
    BY <1>5 DEF IssueNext, OpenBatch, OpenBatchTimesOut, BankIssues, RecordBatch, FailBatch
  <2>2. b \in Processes \ {p}
    BY ProcessesAssumption DEF Processes
  <2>3. QED BY <1>1, <1>5, <2>1, <2>2
<1>6. ASSUME NEW w \in Workers, Crash(w)
      PROVE  Alone \/ pc'[p] = "idle"
  BY <1>6, ProcessesAssumption DEF Crash
<1>7. CASE UNCHANGED <<transferVars, reconcileVars>>
  BY <1>7 DEF transferVars
<1>8. QED BY <1>2, <1>3, <1>4, <1>5, <1>6, <1>7 DEF Next, vars

(* What a run looks at stays recorded, and what it may pay stays paid. *)
LEMMA NextJobItems ==
  ASSUME TypeInv, EventsInv, Deed, [Next]_vars
  PROVE  JobItems'
<1> USE DEF EventsInv
<1>1. SUFFICES ASSUME NEW p \in Reconcilers
               PROVE  /\ pc'[p] \in InTransaction.job =>
                           \A x \in loaded'[p] \cup changes'[p] : x.id \in RecordedIn(db')
                      /\ pc'[p] = "checking" =>
                           item'[p] \in RecordedIn(db') /\ Paid(bankInvoices'[item'[p]])
  BY DEF JobItems, InTransaction, InPayout, RecordedIn, Paid
<1> p \in Processes
  BY DEF Processes
<1>2. RecordedIn(db) \subseteq RecordedIn(db') /\ RecordedIn(db) \subseteq Invoices
  BY NextOurs DEF RecordedIn
<1>3. \A i \in Invoices : Paid(bankInvoices[i]) => Paid(bankInvoices'[i])
  BY Onward, Progress
<1>4. /\ pc[p] \in InTransaction.job =>
           \A x \in loaded[p] \cup changes[p] : x.id \in RecordedIn(db')
      /\ pc[p] = "checking" => item[p] \in RecordedIn(db') /\ Paid(bankInvoices'[item[p]])
  BY <1>2, <1>3 DEF JobItems
<1>5. "idle" \notin InTransaction.job /\ "loading" \notin InTransaction.job
      /\ "transfers" \notin InTransaction.job
  BY DEF InTransaction, InPayout
<1>6. ASSUME NEW label \in Places, Goto(p, label)
      PROVE  pc'[p] = label
  BY <1>6, GotoTyped DEF TypeInv
<1> USE DEF TypeInv, TypeOK, ReconcileTypeOK, reconcileVars
<1>7. CASE TransferStep(p) /\ UNCHANGED reconcileVars
  <2>1. pc[p] \in InPayout
    BY <1>7 DEF TransferStep, BankExecutes, BankReplies, BankRepliesEmpty, CallFails, InPayout
  <2>2. PICK label \in {"executed", "transferred", "transferFailed"} : Goto(p, label)
    BY <1>7 DEF TransferStep, BankExecutes, BankReplies, BankRepliesEmpty, CallFails, SettleRow
  <2>3. QED BY <1>4, <1>6, <1>7, <2>1, <2>2 DEF InTransaction, Places
<1>8. CASE LoadInvoices(p)
  <2>1. pc[p] = "idle" /\ changes[p] = {}
    BY <1>8 DEF LoadInvoices, Positions, JobAt
  <2>2. \A x \in PendingInvoices : x.id \in RecordedIn(db)
    BY NoneAssumption DEF PendingInvoices, PendingInvoiceStatus, TransferStatus, InvoiceStatus,
       RecordedIn
  <2>3. loaded'[p] = PendingInvoices /\ changes'[p] = {} /\ pc'[p] = "invoices"
    BY <1>6, <1>8, <2>1 DEF LoadInvoices, Places
  <2>4. QED BY <1>2, <2>2, <2>3
<1>9. ASSUME NEW x \in loaded[p], FetchInvoice(p, x)
      PROVE  /\ pc'[p] \in InTransaction.job =>
                  \A y \in loaded'[p] \cup changes'[p] : y.id \in RecordedIn(db')
             /\ pc'[p] = "checking" =>
                  item'[p] \in RecordedIn(db') /\ Paid(bankInvoices'[item'[p]])
  <2>1. pc[p] = "invoices" /\ bankInvoices' = bankInvoices
    BY <1>9 DEF FetchInvoice, bankVars
  <2>2. x.id \in RecordedIn(db') /\ \A y \in loaded[p] \cup changes[p] : y.id \in RecordedIn(db')
    BY <1>4, <2>1 DEF InTransaction
  <2> DEFINE ch == Change(x, bankInvoices[x.id])
  <2>3. \A y \in ch : y.id = x.id
    BY DEF Change
  <2>4. loaded'[p] \subseteq loaded[p] /\ changes'[p] = changes[p] \cup ch
    BY <1>9 DEF FetchInvoice, Advance
  <2> HIDE DEF ch
  <2>5. \A y \in loaded'[p] \cup changes'[p] : y.id \in RecordedIn(db')
    BY <2>2, <2>3, <2>4
  <2>6. CASE Paid(bankInvoices[x.id])
    <3>1. item'[p] = x.id
      BY <1>9, <2>6 DEF FetchInvoice
    <3>2. QED BY <2>1, <2>2, <2>5, <2>6, <3>1
  <2>7. CASE ~Paid(bankInvoices[x.id])
    BY <1>9, <2>1, <2>5, <2>7 DEF FetchInvoice
  <2>8. QED BY <2>6, <2>7
<1>10. ASSUME NEW x \in loaded[p], FetchFails(p, x)
       PROVE  /\ pc'[p] \in InTransaction.job =>
                   \A y \in loaded'[p] \cup changes'[p] : y.id \in RecordedIn(db')
              /\ pc'[p] # "checking"
  <2>1. pc'[p] = pc[p] /\ pc[p] \in {"invoices", "transfers"}
    BY <1>10 DEF FetchFails
  <2>2. loaded'[p] \subseteq loaded[p] /\ changes'[p] = changes[p]
    BY <1>10 DEF FetchFails, Advance
  <2>3. QED BY <1>4, <2>1, <2>2
<1>11. CASE PayMissing(p) \/ SkipPayout(p)
  <2>1. /\ pc[p] = "checking" /\ loaded' = loaded /\ changes'[p] = {}
        /\ Goto(p, "sending") \/ Goto(p, "invoices")
    BY <1>11 DEF PayMissing, StartTransfer, SkipPayout
  <2>2. pc'[p] # "checking"
    BY <1>6, <2>1 DEF Places
  <2>3. QED BY <1>4, <2>1, <2>2 DEF InTransaction
<1>12. CASE NextInvoice(p)
  <2>1. pc[p] \in InPayout /\ pc'[p] = "invoices" /\ UNCHANGED reconcileVars
    BY <1>6, <1>12 DEF NextInvoice, InPayout, Places
  <2>2. QED BY <1>4, <2>1 DEF InTransaction
<1>13. CASE EndInvoices(p) \/ LoadTransfers(p) \/ EndTransfers(p) \/ AbortJob(p)
  <2>1. pc'[p] \in {"idle", "loading", "transfers"}
    BY <1>6, <1>13 DEF EndInvoices, LoadTransfers, EndTransfers, AbortJob, Places
  <2>2. QED BY <1>5, <2>1
<1>14. ASSUME NEW x \in loaded[p], FetchTransfer(p, x)
       PROVE  pc'[p] = "transfers"
  BY <1>14 DEF FetchTransfer
<1>15. CASE ReconcileStep(p)
  BY <1>5, <1>9, <1>10, <1>11, <1>12, <1>13, <1>14, <1>15 DEF ReconcileStep
<1>16. QED BY <1>4, <1>5, <1>7, <1>8, <1>15, JobTurns

(* Equal knowledge owes equally. *)
LEMMA OwedSame ==
  ASSUME NEW tables, NEW tables2, tables2.events = tables.events,
         Entries(tables2) = Entries(tables), RecordedIn(tables2) = RecordedIn(tables)
  PROVE  Owed(tables2) = Owed(tables)
BY DEF Owed

(* Only who has stored a credited event owes, and only until it commits. *)
LEMMA NextOwing ==
  ASSUME TypeInv, LockPositions, EventsInv, Deed
  PROVE  Owing'
<1> USE DEF EventsInv
<1>1. SUFFICES /\ Owed(db') = {}
               /\ \A i \in Owed(work') :
                    \E r \in Requests : Owes(r)' /\ event'[r] = CreditOf(i)
  BY DEF Owing, Owed, RecordedIn, Entries, CreditOf, InvoiceEvent, Owes
<1>2. Owed(db) = {} /\ \A i \in Owed(work) : \E r \in Requests : Owes(r) /\ event[r] = CreditOf(i)
  BY DEF Owing, Owes
<1>3. CASE Still
  BY <1>2, <1>3 DEF Still, dbVars
<1>4. CASE Undone
  BY <1>2, <1>4 DEF Undone
<1>5. CASE Rewrites
  <2>1. Owed(work') = Owed(work)
    BY <1>5, OwedSame DEF Rewrites, Keeps
  <2>2. Owed(work) = {}
    <3> SUFFICES ASSUME NEW i \in Owed(work) PROVE FALSE
      OBVIOUS
    <3>1. PICK r \in Requests : Owes(r) /\ event[r] = CreditOf(i)
      BY <1>2
    <3>2. Credited(event[r]) /\ event[r].id = i /\ i \in RecordedIn(work)
      BY <3>1 DEF Credited, CreditOf, InvoiceEvent, Owed
    <3>3. QED BY <1>5, <3>1, <3>2 DEF Rewrites
  <2>3. QED BY <1>2, <1>5, <2>1, <2>2 DEF Rewrites
<1>6. ASSUME NEW r \in Requests, Inserts(r)
      PROVE  Owed(db') = {} /\ \A i \in Owed(work') : Owes(r)' /\ event'[r] = CreditOf(i)
  <2>1. Owed(db') = {} /\ Owed(work) = {}
    BY <1>2, <1>6 DEF Inserts, LockPositions
  <2>2. ASSUME NEW i \in Owed(work')
        PROVE  event[r] = CreditOf(i)
    BY <1>6, <2>1, <2>2 DEF Inserts, Owed
  <2>3. \A i : CreditOf(i).kind = "invoice"
    BY DEF CreditOf, InvoiceEvent
  <2>4. QED BY <1>6, <2>1, <2>2, <2>3 DEF Inserts
<1>7. ASSUME NEW p, Starts(p)
      PROVE  Owed(db') = {} /\ Owed(work') = {}
  <2>1. PICK i \in RecordedIn(work), cause \in Causes :
          /\ Entries(work') = Entries(work) \cup {Entry(NewRow(i, cause))}
          /\ \A r \in Requests : Owes(r) => cause = event[r]
    BY <1>7 DEF Starts
  <2>2. Entry(NewRow(i, cause)).cause = cause
    BY DEF Entry, NewRow
  <2>3. Owed(work') \subseteq Owed(work)
    BY <1>7, <2>1 DEF Starts, Owed
  <2>4. ASSUME NEW j \in Owed(work')
        PROVE  FALSE
    <3>1. cause = CreditOf(j)
      BY <1>2, <2>1, <2>3, <2>4
    <3>2. QED BY <2>1, <2>2, <2>4, <3>1 DEF Owed
  <2>5. QED BY <1>2, <1>7, <2>4 DEF Starts
<1>8. ASSUME NEW p \in Processes, writer = p, pc[p] # "invoice"
      PROVE  Owed(work) = {}
  BY <1>2, <1>8 DEF Owes
<1>9. ASSUME NEW p \in Requests \cup Reconcilers, Replies(p)
      PROVE  Owed(db') = {} /\ Owed(work') = {}
  <2>1. writer = p /\ pc[p] # "invoice" /\ p \in Processes
    BY <1>9 DEF Replies, AtBank, Processes
  <2>2. QED BY <1>2, <1>8, <1>9, <2>1, OwedSame DEF Replies
<1>10. ASSUME NEW b \in Batches, Records(b)
       PROVE  Owed(db') = {} /\ Owed(work') = {}
  <2>1. Owed(work) = {}
    BY <1>8, <1>10 DEF Records, Processes
  <2>2. \A i \in LotOf[b] : CreditOf(i) \notin work.events
    BY <1>10 DEF Records, Lots
  <2>3. Owed(work') = {}
    BY <1>10, <2>1, <2>2 DEF Records, Owed
  <2>4. QED BY <1>10, <2>3 DEF Records
<1>11. QED BY <1>3, <1>4, <1>5, <1>6, <1>7, <1>9, <1>10 DEF Deed

(* No number that was told of is given to a row any more. *)
LEMMA NextNaming ==
  ASSUME TypeInv, TypeInv', LockPositions, DraftInv, EventsInv, Deed
  PROVE  Naming'
<1> USE DEF EventsInv
<1>1. SUFFICES /\ \A e \in db'.events :
                    e.kind = "transfer" /\ e.id \notin Numbers(db') => e.id \notin Numbers(work')
               /\ \A p \in Processes : AtBank(p)' =>
                    \A e \in work'.events : e.kind = "transfer" => e.id # order'[p].id
  BY DEF Naming, Numbers
<1>2. ASSUME NEW e \in EventIds, e.kind = "transfer"
      PROVE  e.id \in Nat /\ e.id # None
  BY <1>2, EventKinds, NoneAssumption
<1>3. db.events \subseteq work.events /\ work.events \subseteq EventIds
  BY EventsKept DEF TypeInv, TypeOK, DatabaseTypeOK, Tables
<1>4. \A e \in db.events :
        e.kind = "transfer" /\ e.id \notin Numbers(db) => e.id \notin Numbers(work)
  BY DEF Naming
<1>5. ASSUME NEW e \in db'.events, e.kind = "transfer", e.id \notin Numbers(db')
      PROVE  e.id \notin Numbers(work')
  <2>1. CASE db' = work'
    BY <1>5, <2>1
  <2>2. CASE db' = db /\ Numbers(work') \subseteq Numbers(work) \cup {None}
    BY <1>2, <1>3, <1>4, <1>5, <2>2
  <2>3. ASSUME NEW p \in Requests \cup Reconcilers, Replies(p)
        PROVE  e.id \notin Numbers(work')
    <3>1. p \in Processes /\ AtBank(p) /\ db' = db
      BY <2>3 DEF Replies, Processes
    <3>2. e.id # order[p].id /\ e.id \notin Numbers(work)
      BY <1>3, <1>4, <1>5, <3>1 DEF Naming
    <3>3. QED BY <2>3, <3>2 DEF Replies
  <2>4. QED BY <2>1, <2>2, <2>3 DEF Deed, Still, Undone, Rewrites, Keeps, Inserts, Starts,
               Records, dbVars
<1>6. ASSUME NEW p \in Processes, AtBank(p)', NEW e \in work'.events, e.kind = "transfer"
      PROVE  e.id # order'[p].id
  <2>1. CASE AtBank(p) /\ order'[p] = order[p]
    <3>1. writer # None
      BY <2>1, NoneIsNoStatus DEF AtBank, LockPositions, LockAt, InPayout
    <3>2. e \in work.events
      BY <3>1, EventsCome DEF Inserts
    <3>3. QED BY <1>6, <2>1, <3>2 DEF Naming
  <2>2. CASE Starts(p)
    <3>1. order'[p].id = lastRow + 1 /\ e \in work.events
      BY <2>2 DEF Starts, NewRow
    <3>2. e.id <= lastRow /\ e.id \in Nat /\ lastRow \in Nat
      BY <1>2, <1>3, <1>6, <3>1 DEF RealEvents, Real, TypeInv, TypeOK, TransferTypeOK
    <3>3. QED BY <3>1, <3>2
  <2>3. QED BY <1>6, <2>1, <2>2 DEF Deed, Still, Undone, Rewrites, Inserts, Starts, Replies,
               Records, NoneStarts
<1>7. QED BY <1>5, <1>6

-----------------------------------------------------------------------------
(* At the start there is nothing but the invoices of others.                 *)
LEMMA InitEvents == Init => EventsInv
<1> SUFFICES ASSUME Init PROVE EventsInv
  OBVIOUS
<1>1. /\ db = EmptyTables /\ work = EmptyTables /\ bankTransfers = {}
      /\ pc = [p \in Processes |-> "idle"]
  BY DEF Init, DatabaseInit, BankInit, TransferInit
<1>2. /\ EmptyTables.events = {} /\ RecordedIn(EmptyTables) = {}
      /\ Entries(EmptyTables) = {} /\ Numbers(EmptyTables) = {}
  BY DEF EmptyTables, RecordedIn, Entries, Numbers
<1>3. RealEvents /\ RealTransfers /\ Naming
  BY <1>1, <1>2 DEF RealEvents, RealTransfers, Naming, AtBank, Processes
<1>4. Ours /\ Owing
  BY <1>1, <1>2 DEF Ours, Owing, Owed
<1>5. Lots
  <2>1. \A b \in Batches : \A i \in LotOf[b] : i \in Invoices /\ i \notin External
    BY ConstantsAssumption
  <2>2. bankInvoices = [i \in Invoices |-> IF i \in External THEN "created" ELSE None]
    BY DEF Init, BankInit
  <2>3. QED BY <1>1, <1>2, <2>1, <2>2 DEF Lots, Processes
<1>6. JobItems
  BY <1>1 DEF JobItems, InTransaction, InPayout, Processes
<1>7. QED BY <1>3, <1>4, <1>5, <1>6 DEF EventsInv

(* The invariant of this module: what is told, paid and known is real, and   *)
(* owed or named by whom it may be.                                          *)
THEOREM EventsInvariant == Spec => []EventsInv
<1>1. TypeInv /\ LockPositions /\ BooksInv /\ DraftInv /\ EventsInv /\ [Next]_vars => EventsInv'
  <2> SUFFICES ASSUME TypeInv, LockPositions, BooksInv, DraftInv, EventsInv, [Next]_vars
               PROVE  EventsInv'
    OBVIOUS
  <2>1. Deed /\ TypeInv'
    BY Deeds, NextTypes
  <2>2. RealEvents' /\ RealTransfers'
    BY <2>1, NextRealEvents, NextRealTransfers
  <2>3. Lots' /\ Ours' /\ JobItems'
    BY <2>1, NextLots, NextOurs, NextJobItems DEF EventsInv
  <2>4. Owing' /\ Naming'
    BY <2>1, NextOwing, NextNaming
  <2>5. QED BY <2>2, <2>3, <2>4 DEF EventsInv
<1>2. QED BY <1>1, InitEvents, TypeInvariant, LockInvariant, BooksInvariant, DraftInvariant, PTL
          DEF Spec

(* An event and its transfer row become permanent together, in whatever      *)
(* order the events, the batch that records their invoice, and the workers   *)
(* come: no credited event of an invoice of ours is ever committed without   *)
(* a row for it.                                                             *)
THEOREM EventsHaveRows == Spec => []EventWithRow
<1>1. BooksInv /\ EventsInv => EventWithRow
  <2> SUFFICES ASSUME BooksInv, EventsInv PROVE EventWithRow
    OBVIOUS
  <2>1. \A row \in db.transfers : row.event.kind = "invoice" => row.event \in db.events
    BY DEF BooksInv, Books
  <2>2. ASSUME NEW i \in Invoices, CreditOf(i) \in db.events, db.invoices[i] # None
        PROVE  \E row \in db.transfers : row.event = CreditOf(i)
    <3>1. i \notin Owed(db)
      BY DEF EventsInv, Owing
    <3>2. PICK entry \in Entries(db) : entry.cause = CreditOf(i)
      BY <2>2, <3>1 DEF Owed, RecordedIn
    <3>3. QED BY <3>2 DEF Entries, Entry
  <2>3. QED BY <2>1, <2>2 DEF EventWithRow, CreditOf
<1>2. QED BY <1>1, BooksInvariant, EventsInvariant, PTL

(* Money only ever leaves for an invoice this service has on record, that    *)
(* the bank says was paid, and that is worth more than its fee.              *)
THEOREM PayoutsAreJustified == Spec => []PayoutJustified
<1>1. EventsInv => PayoutJustified
  BY DEF EventsInv, RealTransfers, Due, RecordedIn, Payable, PayoutJustified
<1>2. QED BY <1>1, EventsInvariant, PTL

\* The step of SkippedForGood.
SkipStep ==
  \A e \in db.events : e.kind = "transfer" /\ ~Named(e.id, db) => ~Named(e.id, db')

(* Only a commit can name a transfer, and then its row was in the draft.     *)
LEMMA StepSkips ==
  ASSUME TypeInv, LockPositions, BooksInv, EventsInv, [Next]_vars
  PROVE  SkipStep
<1>1. \A n, tables : Named(n, tables) <=> n \in Numbers(tables)
  BY DEF Named, Numbers
<1>2. Numbers(db') \in {Numbers(db), Numbers(work)}
  BY Deeds DEF Deed, Still, Undone, Rewrites, Keeps, Inserts, Starts, Replies, Records, dbVars
<1>3. QED BY <1>1, <1>2 DEF SkipStep, EventsInv, Naming

(* A transfer event for which no row was found is skipped for good reason:   *)
(* the row of its transfer was undone, and none is ever named like it again. *)
THEOREM SkipsAreFinal == Spec => SkippedForGood
<1>1. TypeInv /\ LockPositions /\ BooksInv /\ EventsInv /\ [Next]_vars => [SkipStep]_vars
  BY StepSkips
<1>2. [SkipStep]_vars
        <=> [\A e \in db.events :
               e.kind = "transfer" /\ ~Named(e.id, db) => ~Named(e.id, db')]_vars
  BY DEF SkipStep
<1>3. QED BY <1>1, <1>2, TypeInvariant, LockInvariant, BooksInvariant, EventsInvariant, PTL
          DEF Spec, SkippedForGood

-----------------------------------------------------------------------------
(***************************************************************************)
(* Statuses.  Three writers set them, each from news of its own age: the   *)
(* answer to a payout, the event of a delivery, and what a reconciliation  *)
(* fetched.  The bank's objects only go on, so news stays true however     *)
(* late it is written down - if it was true when it came, and if it is     *)
(* written to the row of the object it is about.                           *)
(***************************************************************************)

\* The bank's object has been through status s.
InvoiceReached(i, s) == s \in Reached(i)
TransferReached(n, s) == \E t \in bankTransfers : t.id = n /\ s \in TransferHistory[t.status]

InvoicesReached(tables) ==
  \A i \in Invoices : tables.invoices[i] # None => InvoiceReached(i, tables.invoices[i])
\* A row that knows the bank's id of its transfer: it is the one it asked for.
RowReached(row) == row.stark # None => row.stark = row.id /\ TransferReached(row.id, row.status)
TablesReached(tables) ==
  InvoicesReached(tables) /\ \A row \in tables.transfers : RowReached(row)

EventsReached ==
  \A r \in Requests :
    pc[r] # "idle" /\ event[r].kind = "transfer" => TransferReached(event[r].id, event[r].type)
OrdersReached ==
  \A p \in Processes :
    /\ AtBank(p) => order[p].stark = None
    /\ pc[p] = "executed" => TransferReached(order[p].id, "created")
LotsReached ==
  \A b \in Batches : pc[b] = "issued" => \A i \in LotOf[b] : InvoiceReached(i, "created")
ChangesReached ==
  \A p \in Reconcilers :
    /\ pc[p] \in InTransaction.job => \A x \in changes[p] : InvoiceReached(x.id, x.status)
    /\ pc[p] = "transfers" => \A x \in changes[p] : TransferReached(x.id, x.status)

StatusInv ==
  /\ TablesReached(db) /\ TablesReached(work)
  /\ EventsReached /\ OrdersReached /\ LotsReached /\ ChangesReached

-----------------------------------------------------------------------------
\* What a step does to the bank's transfers.

PayoutMoves(t, new) ==
  /\ new.id = t.id /\ new.invoice = t.invoice
  /\ TransferHistory[t.status] \subseteq TransferHistory[new.status]
BankMoves ==
  \/ UNCHANGED bankTransfers
  \/ \E t \in bankTransfers : \E new :
       /\ PayoutMoves(t, new)
       /\ bankTransfers' = (bankTransfers \ {t}) \cup {new}
       /\ UNCHANGED <<dbVars, transferVars>>
  \/ \E p \in Requests \cup Reconcilers : BankExecutes(p)

(* Nothing at the bank is the doing of the service but the payouts it asks   *)
(* for and the invoices it issues.                                           *)
LEMMA BankSteps ==
  ASSUME TypeInv, [Next]_vars
  PROVE  BankMoves
<1>1. CASE TransferNext
  BY <1>1 DEF TransferNext, TransferStep, BankReplies, BankRepliesEmpty, CallFails, bankVars,
              BankMoves
<1>2. CASE WebhookNext
  <2>1. PICK r \in Requests : WebhookStep(r) \/ \E e \in Emitted \ acked : Deliver(r, e)
    BY <1>2 DEF WebhookNext
  <2>2. CASE \E e \in Emitted \ acked : Deliver(r, e)
    BY <2>2 DEF Deliver, bankVars, BankMoves
  <2>3. CASE AnswerArrives(r) \/ AnswerLost(r)
    BY <2>3 DEF AnswerArrives, AnswerLost, ReleaseSlot, BankMoves
  <2>4. CASE WebhookStep(r) /\ ~(AnswerArrives(r) \/ AnswerLost(r))
    <3>1. UNCHANGED bankVars
      BY <2>4 DEF WebhookStep, Parse, ParseFails, AcquireWebhookLock, CheckDuplicate, InsertEvent,
         InsertCollides, InsertTimesOut, RecordInvoiceEvent, DispatchCredited, RefuseCredited,
         AbandonCredited, UpdateTransfer, MissTransfer, CommitEvent
    <3>2. QED BY <3>1 DEF bankVars, BankMoves
  <2>5. QED BY <2>1, <2>2, <2>3, <2>4
<1>3. CASE ReconcileNext
  <2>1. UNCHANGED bankVars
    BY <1>3 DEF ReconcileNext, ReconcileStep, LoadInvoices, FetchInvoice, FetchFails,
       FetchTransfer, PayMissing, SkipPayout, NextInvoice, EndInvoices, LoadTransfers,
       EndTransfers, EndPhase, AbortJob, AgeOut
  <2>2. QED BY <2>1 DEF bankVars, BankMoves
<1>4. CASE IssueNext
  BY <1>4 DEF IssueNext, OpenBatch, OpenBatchTimesOut, BankIssues, CreateInvoices, RecordBatch,
              FailBatch, bankVars, BankMoves
<1>5. CASE BankNext /\ UNCHANGED <<dbVars, transferVars>>
  <2>1. CASE \E i \in Invoices :
               OverdueInvoice(i) \/ PayInvoice(i) \/ CreditInvoice(i) \/ CancelInvoice(i)
    BY <2>1 DEF OverdueInvoice, PayInvoice, CreditInvoice, CancelInvoice, InvoiceMoves, BankMoves
  <2>2. ASSUME NEW t \in bankTransfers, NEW from, NEW to, TransferMoves(t, from, to),
               TransferHistory[from] \subseteq TransferHistory[to]
        PROVE  BankMoves
    <3> DEFINE new == [t EXCEPT !.status = to]
    <3>1. PayoutMoves(t, new)
      BY <2>2 DEF TypeInv, TypeOK, BankTypeOK, BankTransfer, TransferMoves, PayoutMoves
    <3>2. bankTransfers' = (bankTransfers \ {t}) \cup {new}
      BY <2>2 DEF TransferMoves
    <3> HIDE DEF new
    <3>3. QED BY <1>5, <3>1, <3>2 DEF BankMoves
  <2>3. /\ TransferHistory["created"] \subseteq TransferHistory["processing"]
        /\ TransferHistory["processing"] \subseteq TransferHistory["success"]
        /\ TransferHistory["processing"] \subseteq TransferHistory["failed"]
    BY DEF TransferHistory
  <2>4. QED BY <1>5, <2>1, <2>2, <2>3 DEF BankNext, ProcessTransfer, FinishTransfer, FailTransfer
<1>6. ASSUME NEW w \in Workers, Crash(w)
      PROVE  BankMoves
  BY <1>6 DEF Crash, bankVars, BankMoves
<1>7. CASE UNCHANGED vars
  BY <1>7 DEF vars, bankVars, BankMoves
<1>8. QED BY <1>1, <1>2, <1>3, <1>4, <1>5, <1>6, <1>7 DEF Next

(* So what was reached stays reached. *)
LEMMA ReachedStays ==
  ASSUME TypeInv, Lots, [Next]_vars
  PROVE  /\ \A i \in Invoices : \A s : InvoiceReached(i, s) => InvoiceReached(i, s)'
         /\ \A n, s : TransferReached(n, s) => TransferReached(n, s)'
<1>1. ASSUME NEW i \in Invoices, NEW s, InvoiceReached(i, s)
      PROVE  InvoiceReached(i, s)'
  <2>1. bankInvoices[i] # None
    BY <1>1 DEF InvoiceReached, Reached
  <2>2. InvoiceGoesOn(i) /\ overdue \subseteq overdue'
    BY Onward DEF GoesOn
  <2>3. CASE bankInvoices'[i] = bankInvoices[i]
    BY <1>1, <2>2, <2>3 DEF InvoiceReached, Reached
  <2>4. CASE \E b \in Batches : i \in LotOf[b] /\ pc[b] = "issuing" /\ pc'[b] = "issued"
    BY <2>1, <2>4 DEF Lots
  <2>5. QED BY <1>1, <2>2, <2>3, <2>4 DEF InvoiceGoesOn, InvoiceReached
<1>2. ASSUME NEW n, NEW s, TransferReached(n, s)
      PROVE  TransferReached(n, s)'
  BY <1>2, BankSteps DEF BankMoves, PayoutMoves, BankExecutes, ExecuteTransfer, TransferReached
<1>3. QED BY <1>1, <1>2

-----------------------------------------------------------------------------
\* What a step does to the rows, and to the local statuses of invoices.

\* The rows whose payout is at the bank.
AtHand == {order[p] : p \in {q \in Processes : AtBank(q)}}

Kept(row) == row \in work.transfers /\ (row \in AtHand => row \in AtHand')
\* A status that the bank's transfer has been through was written to its row.
Told(row) ==
  /\ \E old \in work.transfers : old.id = row.id /\ old.stark = row.stark
  /\ TransferReached(row.id, row.status)
Asked(row) == row.stark = None /\ row \in AtHand'
Answered(row) ==
  \E p \in Processes :
    pc[p] = "executed" /\ row.id = order[p].id /\ row.stark = row.id /\ row.status = "created"
Failed(row) == row.stark = None /\ row.status = "failed"
\* An empty answer was taken for a success.
Assumed(row) ==
  /\ row.stark = None
  /\ \E p \in Processes : AtBank(p) /\ row = [order[p] EXCEPT !.status = "success"]
  /\ faults'["empty"] = faults["empty"] + 1
Story(row) ==
  Kept(row) \/ Told(row) \/ Asked(row) \/ Answered(row) \/ Failed(row) \/ Assumed(row)

InvoicesTold(tables) ==
  \A i \in Invoices :
    tables.invoices[i] \in {None, work.invoices[i]} \/ InvoiceReached(i, tables.invoices[i])

Writes ==
  \E tables :
    /\ work' = tables /\ db' \in {db, tables}
    /\ db' # db => \A p \in Processes : ~AtBank(p)
    /\ InvoicesTold(tables) /\ \A row \in tables.transfers : Story(row)
Rewinds == work' = db /\ db' = db

(* A step of a process that is not at the bank takes no payout from another. *)
LEMMA HandsKept ==
  ASSUME TypeInv, NEW p \in Processes, ~AtBank(p), UNCHANGED pc \/ \E label : Goto(p, label),
         \A q \in Processes \ {p} : order'[q] = order[q]
  PROVE  AtHand \subseteq AtHand'
<1>1. \A q \in Processes \ {p} : pc'[q] = pc[q]
  BY DEF TypeInv, TypeOK, TransferTypeOK, Goto
<1>2. \A q \in Processes : AtBank(q) => AtBank(q)' /\ order'[q] = order[q]
  BY <1>1 DEF AtBank
<1>3. QED BY <1>2 DEF AtHand

(* A step that touches no table. *)
LEMMA QuietWrites ==
  ASSUME UNCHANGED dbVars, AtHand \subseteq AtHand'
  PROVE  Writes
<1>1. InvoicesTold(work) /\ \A row \in work.transfers : Story(row)
  BY DEF InvoicesTold, Story, Kept
<1>2. work' = work /\ db' = db
  BY DEF dbVars
<1>3. QED BY <1>1, <1>2 DEF Writes

(* A session writes rows and statuses with stories of their own. *)
LEMMA SessionWrites ==
  ASSUME LockPositions, NEW p \in Processes, ~AtBank(p), NEW tables,
         Flush(p, tables) \/ Commit(p, tables),
         InvoicesTold(tables), \A row \in tables.transfers : Story(row)
  PROVE  Writes
<1>1. work' = tables /\ db' \in {db, tables} /\ writer \in {None, p}
  BY DEF Flush, Commit
<1>2. \A q \in Processes : ~AtBank(q)
  BY <1>1, NoneIsNoStatus DEF AtBank, LockPositions, LockAt, InPayout
<1>3. QED BY <1>1, <1>2 DEF Writes

(* The row of a payout gets its answer, and the other rows stay.             *)
LEMMA TransferWrites ==
  ASSUME TypeInv, LockPositions, BooksInv, StatusInv,
         NEW p \in Requests \cup Reconcilers, TransferStep(p)
  PROVE  Writes
<1> p \in Processes
  BY DEF Processes
<1>1. writer = p /\ AtBank(p)
  BY DEF TransferStep, BankExecutes, BankReplies, BankRepliesEmpty, CallFails, LockPositions,
         LockAt, InPayout, AtBank
<1>2. order[p] \in TransferRow /\ work \in Tables /\ order[p].stark = None
  BY <1>1 DEF TypeInv, TypeOK, DatabaseTypeOK, Positions, OrderAt, AtBank, StatusInv,
              OrdersReached
<1>3. CASE BankExecutes(p)
  <2>1. pc' = [pc EXCEPT ![p] = "executed"] /\ UNCHANGED <<dbVars, order>>
    BY <1>3 DEF BankExecutes, Goto
  <2>2. \A q \in Processes : AtBank(q) => AtBank(q)'
    BY <2>1 DEF AtBank, TypeInv, TypeOK, TransferTypeOK
  <2>3. AtHand \subseteq AtHand'
    BY <2>1, <2>2 DEF AtHand
  <2>4. QED BY <2>1, <2>3, QuietWrites
<1>4. ASSUME NEW row, NEW label, SettleRow(p, row, label), Story(row)
      PROVE  Writes
  <2>1. PICK tables : tables = [work EXCEPT !.transfers = (work.transfers \ {order[p]}) \cup {row}]
    OBVIOUS
  <2>2. work' = tables /\ db' = db
    BY <1>4, <2>1 DEF SettleRow
  <2>3. /\ tables.invoices = work.invoices
        /\ tables.transfers = (work.transfers \ {order[p]}) \cup {row}
    BY <1>2, <2>1 DEF Tables
  <2>4. AtHand \subseteq {order[p]}
    BY <1>1 DEF AtHand, AtBank, LockPositions, LockAt, InPayout
  <2>5. \A r \in tables.transfers : Story(r)
    BY <1>4, <2>3, <2>4 DEF Story, Kept
  <2>6. InvoicesTold(tables)
    BY <2>3 DEF InvoicesTold
  <2>7. QED BY <2>2, <2>5, <2>6 DEF Writes
<1>5. CASE BankReplies(p)
  <2> DEFINE row == [order[p] EXCEPT !.stark = order[p].id, !.status = "created"]
  <2>1. row.id = order[p].id /\ row.stark = row.id /\ row.status = "created"
    BY <1>2 DEF TransferRow
  <2>2. SettleRow(p, row, "transferred") /\ pc[p] = "executed"
    BY <1>5 DEF BankReplies
  <2> HIDE DEF row
  <2>3. QED BY <1>4, <2>1, <2>2 DEF Story, Answered
<1>6. CASE BankRepliesEmpty(p)
  <2> DEFINE row == [order[p] EXCEPT !.status = "success"]
  <2>1. row.stark = None
    BY <1>2 DEF TransferRow
  <2>2. SettleRow(p, row, "transferred")
    BY <1>6 DEF BankRepliesEmpty
  <2>3. faults'["empty"] = faults["empty"] + 1
    BY <1>6 DEF BankRepliesEmpty, Fault, TypeInv, TypeOK, TransferTypeOK, FaultKinds
  <2>4. Story(row)
    BY <1>1, <2>1, <2>3 DEF Story, Assumed
  <2> HIDE DEF row
  <2>5. QED BY <1>4, <2>2, <2>4
<1>7. CASE CallFails(p)
  <2> DEFINE row == [order[p] EXCEPT !.status = "failed"]
  <2>1. row.stark = None /\ row.status = "failed"
    BY <1>2 DEF TransferRow
  <2>2. SettleRow(p, row, "transferFailed")
    BY <1>7 DEF CallFails
  <2> HIDE DEF row
  <2>3. QED BY <1>4, <2>1, <2>2 DEF Story, Failed
<1>8. QED BY <1>3, <1>5, <1>6, <1>7 DEF TransferStep

(* A batch records what the bank has created. *)
LEMMA IssueWrites ==
  ASSUME TypeInv, LockPositions, StatusInv, IssueNext
  PROVE  Writes
<1>1. PICK b \in Batches : OpenBatch(b) \/ OpenBatchTimesOut(b) \/ BankIssues(b)
                             \/ RecordBatch(b) \/ FailBatch(b)
  BY DEF IssueNext
<1> b \in Processes
  BY DEF Processes
<1>2. work \in Tables
  BY DEF TypeInv, TypeOK, DatabaseTypeOK
<1>3. AtHand \subseteq AtHand' /\ ~AtBank(b)
  <2>1. (\E label : Goto(b, label)) /\ UNCHANGED order
    BY <1>1 DEF OpenBatch, OpenBatchTimesOut, BankIssues, RecordBatch, FailBatch
  <2>2. ~AtBank(b)
    BY <1>1 DEF OpenBatch, OpenBatchTimesOut, BankIssues, RecordBatch, FailBatch, BatchAt, AtBank
  <2>3. QED BY <2>1, <2>2, HandsKept
<1>4. ASSUME NEW tables, Flush(b, tables) \/ Commit(b, tables),
             tables.transfers = work.transfers, InvoicesTold(tables)
      PROVE  Writes
  BY <1>3, <1>4, SessionWrites DEF Story, Kept
<1>5. ASSUME NEW s, Flush(b, [work EXCEPT !.batches[b] = s])
                      \/ Commit(b, [work EXCEPT !.batches[b] = s])
      PROVE  Writes
  <2> DEFINE tables == [work EXCEPT !.batches[b] = s]
  <2>1. tables.transfers = work.transfers /\ tables.invoices = work.invoices
    BY <1>2 DEF Tables
  <2>2. InvoicesTold(tables)
    BY <2>1 DEF InvoicesTold
  <2>3. QED BY <1>4, <1>5, <2>1, <2>2
<1>6. CASE OpenBatchTimesOut(b) \/ BankIssues(b)
  BY <1>3, <1>6, QuietWrites DEF OpenBatchTimesOut, BankIssues
<1>7. CASE OpenBatch(b) \/ FailBatch(b)
  BY <1>5, <1>7 DEF OpenBatch, FailBatch
<1>8. CASE RecordBatch(b)
  <2> DEFINE tables == WithLot(work, b)
  <2>1. /\ tables.transfers = work.transfers
        /\ \A i \in Invoices :
             tables.invoices[i] = IF i \in LotOf[b] THEN "created" ELSE work.invoices[i]
    BY <1>2 DEF WithLot, Tables
  <2>2. Commit(b, tables) /\ pc[b] = "issued"
    BY <1>8 DEF RecordBatch, BatchAt
  <2>3. \A i \in LotOf[b] : InvoiceReached(i, "created")
    BY <2>2 DEF StatusInv, LotsReached
  <2> HIDE DEF tables
  <2>4. InvoicesTold(tables)
    BY <2>1, <2>3 DEF InvoicesTold
  <2>5. QED BY <1>4, <2>1, <2>2, <2>4
<1>9. QED BY <1>1, <1>6, <1>7, <1>8

(* The row of a payout that starts has no bank id yet.                       *)
LEMMA StartWrites ==
  ASSUME TypeInv, LockPositions, NEW p \in Requests \cup Reconcilers, ~AtBank(p),
         NEW i, NEW cause, NEW tables \in Tables, StartTransfer(p, i, cause, tables),
         tables.transfers = work.transfers, InvoicesTold(tables)
  PROVE  Writes
<1> p \in Processes
  BY DEF Processes
<1> DEFINE row == NewRow(i, cause)
           tables2 == [tables EXCEPT !.transfers = tables.transfers \cup {row}]
<1>1. row.stark = None
  BY DEF NewRow
<1>2. /\ tables2.invoices = tables.invoices
      /\ tables2.transfers = work.transfers \cup {row}
  BY DEF Tables
<1>3. /\ Flush(p, tables2) /\ Goto(p, "sending")
      /\ order' = [order EXCEPT ![p] = row]
  BY DEF StartTransfer
<1> HIDE DEF row, tables2
<1>4. /\ order'[p] = row /\ \A q \in Processes \ {p} : order'[q] = order[q]
      /\ AtBank(p)'
  BY <1>3, GotoTyped DEF TypeInv, TypeOK, TransferTypeOK, AtBank, Places
<1>5. AtHand \subseteq AtHand' /\ row \in AtHand'
  BY <1>3, <1>4, HandsKept DEF AtHand
<1>6. \A r \in tables2.transfers : Story(r)
  BY <1>1, <1>2, <1>5 DEF Story, Kept, Asked
<1>7. InvoicesTold(tables2)
  BY <1>2 DEF InvoicesTold
<1>8. QED BY <1>3, <1>6, <1>7, SessionWrites

(* The log type of an event becomes the status of its invoice, if it is ours.*)
LEMMA InvoiceTold ==
  ASSUME work \in Tables, NEW i \in Invoices, NEW s, InvoiceReached(i, s)
  PROVE  /\ WithInvoiceStatus(work, i, s).transfers = work.transfers
         /\ InvoicesTold(WithInvoiceStatus(work, i, s))
<1>1. CASE work.invoices[i] = None
  BY <1>1 DEF WithInvoiceStatus, InvoicesTold
<1>2. CASE work.invoices[i] # None
  <2> DEFINE new == [work EXCEPT !.invoices[i] = s]
  <2>1. /\ new.transfers = work.transfers
        /\ \A j \in Invoices : new.invoices[j] = IF j = i THEN s ELSE work.invoices[j]
    BY DEF Tables
  <2>2. WithInvoiceStatus(work, i, s) = new
    BY <1>2 DEF WithInvoiceStatus
  <2> HIDE DEF new
  <2>3. QED BY <2>1, <2>2 DEF InvoicesTold
<1>3. QED BY <1>1, <1>2

(* A request writes what its event tells.                                    *)
LEMMA WebhookWrites ==
  ASSUME TypeInv, LockPositions, RealEvents, StatusInv, NEW r \in Requests,
         WebhookStep(r) \/ \E e \in Emitted \ acked : Deliver(r, e)
  PROVE  Writes \/ Rewinds
<1> r \in Processes /\ r # None
  BY NoneIsNoStatus DEF Processes
<1>1. work \in Tables /\ LockAt(r)
  BY DEF TypeInv, TypeOK, DatabaseTypeOK, LockPositions
<1>2. ASSUME ~AtBank(r), UNCHANGED pc \/ \E label : Goto(r, label), UNCHANGED order
      PROVE  AtHand \subseteq AtHand'
  BY <1>2, HandsKept
<1>3. ASSUME NEW tables, Flush(r, tables) \/ Commit(r, tables), ~AtBank(r),
             AtHand \subseteq AtHand', tables.transfers = work.transfers, InvoicesTold(tables)
      PROVE  Writes
  BY <1>3, SessionWrites DEF Story, Kept
<1>4. CASE \E e \in Emitted \ acked : Deliver(r, e)
  BY <1>2, <1>4, QuietWrites DEF Deliver, AtBank
<1>5. CASE Parse(r) \/ ParseFails(r) \/ AcquireWebhookLock(r)
  BY <1>2, <1>5, QuietWrites DEF Parse, ParseFails, AcquireWebhookLock, AtBank
<1>6. CASE CheckDuplicate(r) \/ InsertCollides(r) \/ InsertTimesOut(r)
  BY <1>2, <1>6, QuietWrites DEF CheckDuplicate, InsertCollides, InsertTimesOut, Respond, AtBank
<1>7. CASE AnswerArrives(r) \/ AnswerLost(r)
  BY <1>2, <1>7, QuietWrites DEF AnswerArrives, AnswerLost, ReleaseSlot, AtBank
<1>8. CASE MissTransfer(r)
  BY <1>2, <1>8, QuietWrites DEF MissTransfer, AtBank
<1>9. CASE InsertEvent(r)
  <2>1. PICK tables : /\ tables = [work EXCEPT !.events = work.events \cup {event[r]}]
                      /\ Flush(r, tables)
    BY <1>9 DEF InsertEvent
  <2>2. tables.transfers = work.transfers /\ tables.invoices = work.invoices
    BY <1>1, <2>1 DEF Tables
  <2>3. ~AtBank(r) /\ AtHand \subseteq AtHand'
    BY <1>2, <1>9 DEF InsertEvent, AtBank
  <2>4. QED BY <1>3, <2>1, <2>2, <2>3 DEF InvoicesTold
<1>10. ASSUME pc[r] = "invoice"
       PROVE  /\ event[r].id \in Invoices /\ event[r].type \in InvoiceStatus
              /\ InvoiceReached(event[r].id, event[r].type)
  <2>1. event[r] \in EventIds /\ event[r].kind = "invoice"
    BY <1>10 DEF TypeInv, Positions, RequestAt
  <2>2. Real(event[r])
    BY <1>10 DEF RealEvents
  <2>3. QED BY <2>1, <2>2, EventKinds DEF Real, InvoiceReached
<1>11. CASE RecordInvoiceEvent(r)
  <2> DEFINE tables == WithInvoiceStatus(work, event[r].id, event[r].type)
  <2>1. tables.transfers = work.transfers /\ InvoicesTold(tables)
    BY <1>1, <1>10, <1>11, InvoiceTold DEF RecordInvoiceEvent
  <2>2. Flush(r, tables) /\ ~AtBank(r) /\ AtHand \subseteq AtHand'
    BY <1>2, <1>11 DEF RecordInvoiceEvent, AtBank
  <2> HIDE DEF tables
  <2>3. QED BY <1>3, <2>1, <2>2
<1>12. CASE DispatchCredited(r)
  <2> DEFINE tables == WithInvoiceStatus(work, event[r].id, event[r].type)
  <2>1. tables.transfers = work.transfers /\ InvoicesTold(tables) /\ tables \in Tables
    BY <1>1, <1>10, <1>12, InvoiceTold, WithInvoiceStatusTyped DEF DispatchCredited
  <2>2. StartTransfer(r, event[r].id, event[r], tables) /\ ~AtBank(r)
    BY <1>12 DEF DispatchCredited, AtBank
  <2> HIDE DEF tables
  <2>3. QED BY <2>1, <2>2, StartWrites
<1>13. ASSUME NEW a, FailRequest(r, a), pc[r] \in InTransaction.request
       PROVE  Rewinds
  BY <1>1, <1>13 DEF FailRequest, Rollback, LockAt, Rewinds
<1>14. CASE RefuseCredited(r) \/ AbandonCredited(r)
  BY <1>13, <1>14 DEF RefuseCredited, AbandonCredited, InTransaction, InPayout
<1>15. CASE UpdateTransfer(r)
  <2> DEFINE e == event[r]
  <2>1. PICK row \in RowsOf(e), s \in SnapshotOf(e) :
          Flush(r, [work EXCEPT !.transfers =
                      (work.transfers \ {row}) \cup {[row EXCEPT !.status = s]}])
    BY <1>15 DEF UpdateTransfer
  <2> DEFINE new == [row EXCEPT !.status = s]
             tables == [work EXCEPT !.transfers = (work.transfers \ {row}) \cup {new}]
  <2>2. pc[r] = "transfer" /\ e \in EventIds /\ e.kind = "transfer"
    BY <1>15 DEF UpdateTransfer, TypeInv, Positions, RequestAt
  <2>3. e.id # None /\ TransferReached(e.id, s)
    BY <2>2, EventKinds, NoneAssumption DEF SnapshotOf, TransferReached
  <2>4. row \in work.transfers /\ row.stark = e.id /\ row.id = e.id
    BY <2>3 DEF RowsOf, StatusInv, TablesReached, RowReached
  <2>5. new.id = row.id /\ new.stark = row.stark /\ new.status = s
    BY <1>1, <2>4, TablesUpdate DEF TransferRow
  <2>6. /\ tables.transfers = (work.transfers \ {row}) \cup {new}
        /\ tables.invoices = work.invoices
    BY <1>1 DEF Tables
  <2>7. Flush(r, tables) /\ ~AtBank(r) /\ AtHand \subseteq AtHand'
    BY <1>2, <1>15, <2>1 DEF UpdateTransfer, AtBank
  <2> HIDE DEF tables, new, e
  <2>8. Told(new)
    BY <2>3, <2>4, <2>5 DEF Told
  <2>9. \A x \in tables.transfers : Story(x)
    BY <2>6, <2>7, <2>8 DEF Story, Kept
  <2>10. InvoicesTold(tables)
    BY <2>6 DEF InvoicesTold
  <2>11. QED BY <2>7, <2>9, <2>10, SessionWrites
<1>16. CASE CommitEvent(r)
  <2>1. Commit(r, work) /\ ~AtBank(r) /\ AtHand \subseteq AtHand'
    BY <1>2, <1>16 DEF CommitEvent, Respond, AtBank
  <2>2. QED BY <1>3, <2>1 DEF InvoicesTold
<1>17. QED BY <1>4, <1>5, <1>6, <1>7, <1>8, <1>9, <1>11, <1>12, <1>14, <1>15, <1>16
           DEF WebhookStep

(* What a run wrote of invoices was reached when it was fetched. *)
LEMMA FlushTold ==
  ASSUME work \in Tables, NEW ch, \A x \in ch : InvoiceReached(x.id, x.status)
  PROVE  /\ FlushInvoices(work, ch).transfers = work.transfers
         /\ InvoicesTold(FlushInvoices(work, ch))
<1> DEFINE F == FlushInvoices(work, ch)
<1>1. /\ F.transfers = work.transfers
      /\ \A i \in Invoices : F.invoices[i] = StatusFrom(ch, i, work.invoices[i])
  BY DEF FlushInvoices, Tables
<1>2. ASSUME NEW i \in Invoices
      PROVE  \/ StatusFrom(ch, i, work.invoices[i]) = work.invoices[i]
             \/ InvoiceReached(i, StatusFrom(ch, i, work.invoices[i]))
  <2>1. CASE \E c \in ch : c.id = i
    <3>1. PICK c \in ch : c.id = i /\ StatusFrom(ch, i, work.invoices[i]) = c.status
      BY <2>1 DEF StatusFrom
    <3>2. QED BY <3>1
  <2>2. CASE ~ \E c \in ch : c.id = i
    BY <2>2 DEF StatusFrom
  <2>3. QED BY <2>1, <2>2
<1> HIDE DEF F
<1>3. InvoicesTold(F)
  BY <1>1, <1>2 DEF InvoicesTold
<1>4. QED BY <1>1, <1>3 DEF F

(* And so was what it wrote of transfers. *)
LEMMA RowsTold ==
  ASSUME work \in Tables, AtHand \subseteq AtHand', NEW ch,
         \A x \in ch : TransferReached(x.id, x.status)
  PROVE  /\ FlushTransfers(work, ch).invoices = work.invoices
         /\ \A row \in FlushTransfers(work, ch).transfers : Story(row)
<1> DEFINE F == FlushTransfers(work, ch)
           New(row) == [row EXCEPT !.status = StatusFrom(ch, row.id, row.status)]
<1>1. F.invoices = work.invoices /\ F.transfers = {New(row) : row \in work.transfers}
  BY DEF FlushTransfers, Tables
<1>2. ASSUME NEW row \in work.transfers
      PROVE  Story(New(row))
  <2>1. row \in TransferRow
    BY TablesUpdate
  <2>2. CASE \E c \in ch : c.id = row.id
    <3>1. PICK c \in ch : c.id = row.id /\ StatusFrom(ch, row.id, row.status) = c.status
      BY <2>2 DEF StatusFrom
    <3>2. New(row).id = row.id /\ New(row).stark = row.stark /\ New(row).status = c.status
      BY <2>1, <3>1 DEF TransferRow
    <3> HIDE DEF New
    <3>3. QED BY <3>1, <3>2 DEF Story, Told
  <2>3. CASE ~ \E c \in ch : c.id = row.id
    <3>1. New(row) = row
      BY <2>1, <2>3 DEF StatusFrom, TransferRow
    <3> HIDE DEF New
    <3>2. QED BY <3>1 DEF Story, Kept
  <2>4. QED BY <2>2, <2>3
<1> HIDE DEF F, New
<1>3. \A row \in F.transfers : Story(row)
  BY <1>1, <1>2
<1>4. QED BY <1>1, <1>3 DEF F

(* A reconciliation writes what it fetched, and starts payouts.              *)
LEMMA ReconcileWrites ==
  ASSUME TypeInv, LockPositions, StatusInv, NEW p \in Reconcilers,
         LoadInvoices(p) \/ ReconcileStep(p)
  PROVE  Writes
<1> p \in Processes
  BY DEF Processes
<1>1. work \in Tables
  BY DEF TypeInv, TypeOK, DatabaseTypeOK
<1>2. ASSUME ~AtBank(p), UNCHANGED pc \/ \E label : Goto(p, label), UNCHANGED order
      PROVE  AtHand \subseteq AtHand'
  BY <1>2, HandsKept
<1>3. ASSUME NEW tables, Flush(p, tables) \/ Commit(p, tables), ~AtBank(p),
             AtHand \subseteq AtHand', tables.transfers = work.transfers, InvoicesTold(tables)
      PROVE  Writes
  BY <1>3, SessionWrites DEF Story, Kept
<1>4. ASSUME NEW x \in loaded[p], FetchInvoice(p, x) \/ FetchFails(p, x) \/ FetchTransfer(p, x)
      PROVE  Writes
  <2>1. UNCHANGED <<dbVars, order>> /\ (UNCHANGED pc \/ Goto(p, "checking")) /\ ~AtBank(p)
    BY <1>4 DEF FetchInvoice, FetchFails, FetchTransfer, AtBank
  <2>2. QED BY <1>2, <2>1, QuietWrites
<1>5. CASE LoadInvoices(p) \/ NextInvoice(p) \/ LoadTransfers(p) \/ AbortJob(p)
  <2>1. UNCHANGED <<dbVars, order>> /\ (\E label : Goto(p, label)) /\ ~AtBank(p)
    BY <1>5 DEF LoadInvoices, NextInvoice, LoadTransfers, AbortJob, AtBank
  <2>2. QED BY <1>2, <2>1, QuietWrites
<1>6. ASSUME pc[p] \in {"invoices", "checking"}
      PROVE  /\ Flushed(p).transfers = work.transfers /\ InvoicesTold(Flushed(p))
             /\ Flushed(p) \in Tables /\ ~AtBank(p)
  <2>1. \A x \in changes[p] : InvoiceReached(x.id, x.status)
    BY <1>6 DEF StatusInv, ChangesReached, InTransaction
  <2>2. changes[p] \in SUBSET InvoiceItem
    BY <1>6 DEF TypeInv, Positions, JobAt
  <2>3. QED BY <1>1, <1>6, <2>1, <2>2, FlushTold, FlushInvoicesTyped DEF Flushed, AtBank
<1>7. CASE PayMissing(p)
  BY <1>6, <1>7, StartWrites DEF PayMissing
<1>8. CASE SkipPayout(p)
  <2>1. Flush(p, Flushed(p)) /\ pc[p] = "checking" /\ UNCHANGED order /\ Goto(p, "invoices")
    BY <1>8 DEF SkipPayout
  <2>2. QED BY <1>2, <1>3, <1>6, <2>1
<1>9. CASE EndInvoices(p)
  <2>1. /\ pc[p] = "invoices" /\ UNCHANGED order /\ Goto(p, "loading")
        /\ Commit(p, Flushed(p)) \/ UNCHANGED dbVars
    BY <1>9 DEF EndInvoices, EndPhase
  <2>2. QED BY <1>2, <1>3, <1>6, <2>1, QuietWrites
<1>10. CASE EndTransfers(p)
  <2> DEFINE tables == FlushTransfers(work, changes[p])
  <2>1. /\ pc[p] = "transfers" /\ UNCHANGED order /\ Goto(p, "idle")
        /\ Commit(p, tables) \/ UNCHANGED dbVars
    BY <1>10 DEF EndTransfers, EndPhase
  <2>2. ~AtBank(p) /\ AtHand \subseteq AtHand'
    BY <1>2, <2>1 DEF AtBank
  <2>3. \A x \in changes[p] : TransferReached(x.id, x.status)
    BY <2>1 DEF StatusInv, ChangesReached
  <2>4. tables.invoices = work.invoices /\ \A row \in tables.transfers : Story(row)
    BY <1>1, <2>2, <2>3, RowsTold
  <2>5. InvoicesTold(tables)
    BY <2>4 DEF InvoicesTold
  <2> HIDE DEF tables
  <2>6. QED BY <2>1, <2>2, <2>4, <2>5, SessionWrites, QuietWrites
<1>11. QED BY <1>4, <1>5, <1>7, <1>8, <1>9, <1>10 DEF ReconcileStep

(* A crash undoes the payouts of its worker, or touches none. *)
LEMMA CrashWrites ==
  ASSUME TypeInv, LockPositions, NEW w \in Workers, Crash(w)
  PROVE  Writes \/ Rewinds
<1>1. CASE writer # None /\ On(w, writer)
  BY <1>1 DEF Crash, Rollback, Rewinds
<1>2. CASE ~(writer # None /\ On(w, writer))
  <2>1. UNCHANGED dbVars
    BY <1>2 DEF Crash
  <2>2. ASSUME NEW q \in Processes, AtBank(q)
        PROVE  AtBank(q)' /\ order'[q] = order[q]
    <3>1. writer = q /\ q # None
      BY <2>2, NoneIsNoStatus DEF AtBank, LockPositions, LockAt, InPayout
    <3>2. ~On(w, q)
      BY <1>2, <3>1
    <3>3. QED BY <2>2, <3>2 DEF Crash, AtBank
  <2>3. AtHand \subseteq AtHand'
    BY <2>2 DEF AtHand
  <2>4. QED BY <2>1, <2>3, QuietWrites
<1>3. QED BY <1>1, <1>2

(* Every row and status has one of these stories. *)
LEMMA Stories ==
  ASSUME TypeInv, LockPositions, BooksInv, EventsInv, StatusInv, [Next]_vars
  PROVE  Writes \/ Rewinds
<1>1. CASE UNCHANGED <<dbVars, pc, order>>
  BY <1>1, QuietWrites DEF AtHand, AtBank
<1>2. CASE TransferNext
  BY <1>2, TransferWrites DEF TransferNext
<1>3. CASE WebhookNext
  BY <1>3, WebhookWrites DEF WebhookNext, EventsInv
<1>4. CASE ReconcileNext
  BY <1>1, <1>4, ReconcileWrites DEF ReconcileNext, AgeOut
<1>5. CASE IssueNext
  BY <1>5, IssueWrites
<1>6. CASE UNCHANGED <<dbVars, transferVars>>
  BY <1>1, <1>6 DEF transferVars
<1>7. QED BY <1>2, <1>3, <1>4, <1>5, <1>6, CrashWrites DEF Next, vars

-----------------------------------------------------------------------------
\* The invariant, part by part.

(* What is written was reached, and stays so. *)
LEMMA NextTablesReached ==
  ASSUME TypeInv, LockPositions, BooksInv, EventsInv, StatusInv, [Next]_vars
  PROVE  TablesReached(db)' /\ TablesReached(work)'
<1>1. /\ \A i \in Invoices : \A s : InvoiceReached(i, s) => InvoiceReached(i, s)'
      /\ \A n, s : TransferReached(n, s) => TransferReached(n, s)'
  BY ReachedStays DEF EventsInv
<1>2. ASSUME NEW tables, TablesReached(tables)
      PROVE  TablesReached(tables)'
  BY <1>1, <1>2 DEF TablesReached, InvoicesReached, RowReached
<1>3. CASE Rewinds
  <2>1. TablesReached(db)
    BY DEF StatusInv
  <2>2. QED BY <1>2, <1>3, <2>1 DEF Rewinds, TablesReached, InvoicesReached
<1>4. CASE Writes
  <2>1. PICK tables : /\ work' = tables /\ db' \in {db, tables}
                      /\ InvoicesTold(tables) /\ \A row \in tables.transfers : Story(row)
    BY <1>4 DEF Writes
  <2>2. InvoicesReached(tables)'
    <3>1. \A i \in Invoices : work.invoices[i] # None => InvoiceReached(i, work.invoices[i])
      BY DEF StatusInv, TablesReached, InvoicesReached
    <3>2. QED BY <1>1, <2>1, <3>1 DEF InvoicesTold, InvoicesReached
  <2>3. ASSUME NEW row \in tables.transfers
        PROVE  RowReached(row)'
    <3>1. \A old \in work.transfers : RowReached(old)
      BY DEF StatusInv, TablesReached
    <3>2. CASE Kept(row)
      BY <1>1, <3>1, <3>2 DEF Kept, RowReached
    <3>3. CASE Told(row)
      BY <1>1, <3>1, <3>3 DEF Told, RowReached
    <3>4. CASE Answered(row)
      <4>1. TransferReached(row.id, "created") /\ row.stark = row.id /\ row.status = "created"
        BY <3>4 DEF Answered, StatusInv, OrdersReached
      <4>2. QED BY <1>1, <4>1 DEF RowReached
    <3>5. CASE row.stark = None
      BY <3>5 DEF RowReached
    <3>6. QED BY <2>1, <3>2, <3>3, <3>4, <3>5 DEF Story, Asked, Failed, Assumed
  <2>4. TablesReached(tables)'
    BY <2>2, <2>3 DEF TablesReached
  <2>5. TablesReached(db)
    BY DEF StatusInv
  <2>6. TablesReached(work)'
    BY <2>1, <2>4 DEF TablesReached, InvoicesReached
  <2>7. CASE db' = db
    BY <1>2, <2>5, <2>6, <2>7 DEF TablesReached, InvoicesReached
  <2>8. CASE db' = tables
    BY <2>4, <2>6, <2>8 DEF TablesReached, InvoicesReached
  <2>9. QED BY <2>1, <2>6, <2>7, <2>8
<1>5. QED BY <1>3, <1>4, Stories

(* A process is where its transfer was executed because it was, or because   *)
(* the bank has just done so.                                                *)
LEMMA Executing ==
  ASSUME TypeInv, [Next]_vars, NEW p \in Processes, pc'[p] = "executed"
  PROVE  \/ pc[p] = "executed" /\ order'[p] = order[p]
         \/ BankExecutes(p) /\ p \in Requests \cup Reconcilers
<1> USE DEF TypeInv, TypeOK, TransferTypeOK
<1>1. ASSUME NEW q \in Processes, NEW label \in Places \ {"executed"}, Goto(q, label),
             \A x \in Processes \ {q} : order'[x] = order[x]
      PROVE  pc[p] = "executed" /\ order'[p] = order[p]
  BY <1>1, GotoTyped
<1>2. CASE UNCHANGED <<pc, order>>
  BY <1>2
<1>3. CASE TransferNext
  <2>1. PICK q \in Requests \cup Reconcilers : TransferStep(q)
    BY <1>3 DEF TransferNext
  <2>2. CASE BankExecutes(q)
    BY <2>2 DEF BankExecutes, Goto
  <2>3. CASE BankReplies(q) \/ BankRepliesEmpty(q) \/ CallFails(q)
    <3>1. /\ Goto(q, "transferred") \/ Goto(q, "transferFailed")
          /\ \A x \in Processes \ {q} : order'[x] = order[x]
      BY <2>3 DEF BankReplies, BankRepliesEmpty, CallFails, SettleRow
    <3>2. QED BY <1>1, <3>1 DEF Places, Processes
  <2>4. QED BY <2>1, <2>2, <2>3 DEF TransferStep
<1>4. CASE WebhookNext
  <2>1. PICK r \in Requests : WebhookStep(r) \/ \E e \in Emitted \ acked : Deliver(r, e)
    BY <1>4 DEF WebhookNext
  <2>2. r \in Processes
    BY DEF Processes
  <2>3. CASE InsertEvent(r)
    <3>1. event[r].kind \in Places \ {"executed"}
      BY <2>3, EventKinds DEF InsertEvent, Positions, RequestAt, Places
    <3>2. QED BY <1>1, <2>2, <2>3, <3>1 DEF InsertEvent
  <2>4. CASE DispatchCredited(r)
    BY <1>1, <2>2, <2>4 DEF DispatchCredited, StartTransfer, Places
  <2>5. CASE MissTransfer(r)
    BY <1>1, <1>2, <2>2, <2>5 DEF MissTransfer, Places
  <2>6. CASE ~(InsertEvent(r) \/ DispatchCredited(r) \/ MissTransfer(r))
    <3>1. /\ UNCHANGED order
          /\ \E label \in {"parsing", "answered", "waiting", "checking", "inserting", "recorded",
                           "idle"} : Goto(r, label)
      BY <2>1, <2>6 DEF Deliver, WebhookStep, Parse, ParseFails, AcquireWebhookLock,
         CheckDuplicate, InsertCollides, InsertTimesOut, RecordInvoiceEvent, RefuseCredited,
         AbandonCredited, FailRequest, UpdateTransfer, CommitEvent, AnswerArrives, AnswerLost,
         ReleaseSlot, Respond
    <3>2. QED BY <1>1, <2>2, <3>1 DEF Places
  <2>7. QED BY <2>3, <2>4, <2>5, <2>6
<1>5. CASE ReconcileNext
  <2>1. ASSUME NEW q \in Reconcilers, LoadInvoices(q) \/ ReconcileStep(q)
        PROVE  pc[p] = "executed" /\ order'[p] = order[p]
    <3>1. q \in Processes
      BY DEF Processes
    <3>2. CASE PayMissing(q)
      BY <1>1, <3>1, <3>2 DEF PayMissing, StartTransfer, Places
    <3>3. CASE ~PayMissing(q)
      <4>1. /\ UNCHANGED order
            /\ \/ UNCHANGED pc
               \/ \E label \in {"invoices", "checking", "loading", "transfers", "idle"} :
                    Goto(q, label)
        BY <2>1, <3>3 DEF LoadInvoices, ReconcileStep, FetchInvoice, FetchFails, FetchTransfer,
           SkipPayout, NextInvoice, EndInvoices, LoadTransfers, EndTransfers, EndPhase, AbortJob
      <4>2. QED BY <1>1, <1>2, <3>1, <4>1 DEF Places
    <3>4. QED BY <3>2, <3>3
  <2>2. QED BY <1>2, <1>5, <2>1 DEF ReconcileNext, AgeOut
<1>6. CASE IssueNext
  <2>1. PICK b \in Batches : /\ UNCHANGED order
                             /\ \E label \in {"issuing", "issued", "done"} : Goto(b, label)
    BY <1>6 DEF IssueNext, OpenBatch, OpenBatchTimesOut, BankIssues, RecordBatch, FailBatch
  <2>2. QED BY <1>1, <2>1 DEF Places, Processes
<1>7. ASSUME NEW w \in Workers, Crash(w)
      PROVE  pc[p] = "executed" /\ order'[p] = order[p]
  <2>1. pc'[p] = CASE ~On(w, p) -> pc[p]
                   [] On(w, p) /\ p \in Batches /\ pc[p] # "idle" -> "done"
                   [] OTHER -> "idle"
    BY <1>7 DEF Crash
  <2>2. QED BY <1>7, <2>1 DEF Crash
<1>8. CASE UNCHANGED transferVars
  BY <1>2, <1>8 DEF transferVars
<1>9. QED BY <1>3, <1>4, <1>5, <1>6, <1>7, <1>8 DEF Next, vars

(* A payout asked for has no bank id yet; an executed one is at the bank.    *)
LEMMA NextOrdersReached ==
  ASSUME TypeInv, LockPositions, BooksInv, EventsInv, StatusInv, [Next]_vars
  PROVE  OrdersReached'
<1>1. \A n, s : TransferReached(n, s) => TransferReached(n, s)'
  BY ReachedStays DEF EventsInv
<1>2. ASSUME NEW p \in Processes, AtBank(p)'
      PROVE  order'[p].stark = None
  <2>1. CASE AtBank(p) /\ order'[p] = order[p]
    BY <2>1 DEF StatusInv, OrdersReached
  <2>2. CASE Starts(p)
    BY <2>2 DEF Starts, NewRow
  <2>3. QED BY <1>2, <2>1, <2>2, Deeds DEF Deed, Still, Undone, Rewrites, Inserts, Starts,
               Replies, Records, NoneStarts
<1>3. ASSUME NEW p \in Processes, pc'[p] = "executed"
      PROVE  TransferReached(order[p].id, "created")'
  <2>1. PICK n : n = order'[p].id
    OBVIOUS
  <2>2. TransferReached(n, "created")'
    <3>1. CASE pc[p] = "executed" /\ order'[p] = order[p]
      BY <1>1, <2>1, <3>1 DEF StatusInv, OrdersReached
    <3>2. CASE BankExecutes(p)
      <4>1. order' = order
        BY <3>2 DEF BankExecutes
      <4>2. [id |-> n, invoice |-> order[p].invoice, status |-> "created"] \in bankTransfers'
        BY <2>1, <3>2, <4>1 DEF BankExecutes, ExecuteTransfer
      <4>3. "created" \in TransferHistory["created"]
        BY DEF TransferHistory
      <4>4. QED BY <4>2, <4>3 DEF TransferReached
    <3>3. QED BY <1>3, <3>1, <3>2, Executing
  <2>3. QED BY <2>1, <2>2 DEF TransferReached
<1>4. QED BY <1>2, <1>3 DEF OrdersReached, AtBank

(* The events at hand are of transfers the bank has. *)
LEMMA NextEventsReached ==
  ASSUME TypeInv, LockPositions, EventsInv, StatusInv, [Next]_vars
  PROVE  EventsReached'
<1>1. \A n, s : TransferReached(n, s) => TransferReached(n, s)'
  BY ReachedStays DEF EventsInv
<1>2. ASSUME NEW e \in Emitted, e.kind = "transfer"
      PROVE  TransferReached(e.id, e.type)
  <2>1. ASSUME NEW t \in bankTransfers, NEW s \in TransferHistory[t.status],
               e = TransferEvent(t.id, s)
        PROVE  TransferReached(e.id, e.type)
    BY <2>1 DEF TransferEvent, TransferReached
  <2> DEFINE EventsOf(t) ==
        {TransferEvent(t.id, s) : s \in {x \in TransferHistory[t.status] :
                                           <<"transfer", x>> \in Subscribed}}
  <2>2. \A t \in bankTransfers : \A d \in EventsOf(t) :
          \E s \in TransferHistory[t.status] : d = TransferEvent(t.id, s)
    OBVIOUS
  <2>3. e \in UNION {EventsOf(t) : t \in bankTransfers}
    <3>1. e \notin {InvoiceEvent(i, s) : i \in Invoices, s \in InvoiceStatus}
      BY <1>2 DEF InvoiceEvent
    <3>2. e # OtherEvent
      BY <1>2 DEF OtherEvent
    <3>3. e \in UNION {{TransferEvent(t.id, s) :
                           s \in {x \in TransferHistory[t.status] :
                                   <<"transfer", x>> \in Subscribed}} : t \in bankTransfers}
      BY <1>2, <3>1, <3>2 DEF Emitted
    <3>4. QED BY <3>3
  <2> HIDE DEF EventsOf
  <2>4. QED BY <2>1, <2>2, <2>3
<1>3. ASSUME NEW r \in Requests, pc'[r] # "idle", event'[r].kind = "transfer"
      PROVE  TransferReached(event[r].id, event[r].type)'
  <2>1. PICK e : e = event'[r]
    OBVIOUS
  <2>2. TransferReached(e.id, e.type)
    BY <1>2, <1>3, <2>1, EventAtHand DEF StatusInv, EventsReached
  <2>3. TransferReached(e.id, e.type)'
    BY <1>1, <2>2
  <2>4. QED BY <2>1, <2>3 DEF TransferReached
<1>4. QED BY <1>3 DEF EventsReached, TransferReached

(* Only the bank's answer takes a batch on from its call. *)
LEMMA Issuing ==
  ASSUME TypeInv, [Next]_vars, NEW b \in Batches, pc[b] = "issuing", pc'[b] = "issued"
  PROVE  BankIssues(b)
<1> b \in Processes
  BY DEF Processes
<1> USE DEF TypeInv, TypeOK, TransferTypeOK
<1>1. ASSUME NEW q \in Processes \ {b}, NEW label, Goto(q, label)
      PROVE  FALSE
  BY <1>1 DEF Goto
<1>2. ASSUME UNCHANGED pc
      PROVE  FALSE
  BY <1>2
<1>3. Requests \cup Reconcilers \subseteq Processes \ {b}
  BY ProcessesAssumption DEF Processes
<1>4. ASSUME TransferNext
      PROVE  FALSE
  BY <1>1, <1>3, <1>4 DEF TransferNext, TransferStep, BankExecutes, BankReplies,
     BankRepliesEmpty, CallFails, SettleRow
<1>5. ASSUME WebhookNext
      PROVE  FALSE
  <2>1. PICK r \in Requests : WebhookStep(r) \/ \E e \in Emitted \ acked : Deliver(r, e)
    BY <1>5 DEF WebhookNext
  <2>2. (\E label : Goto(r, label)) \/ UNCHANGED pc
    BY <2>1 DEF WebhookStep, Deliver, Parse, ParseFails, AcquireWebhookLock, CheckDuplicate,
       InsertEvent, InsertCollides, InsertTimesOut, RecordInvoiceEvent, DispatchCredited,
       StartTransfer, RefuseCredited, AbandonCredited, FailRequest, UpdateTransfer, MissTransfer,
       CommitEvent, AnswerArrives, AnswerLost, ReleaseSlot, Respond
  <2>3. QED BY <1>1, <1>2, <1>3, <2>2
<1>6. ASSUME ReconcileNext
      PROVE  FALSE
  <2>1. ASSUME NEW p \in Reconcilers, LoadInvoices(p) \/ ReconcileStep(p)
        PROVE  FALSE
    <3>1. (\E label : Goto(p, label)) \/ UNCHANGED pc
      BY <2>1 DEF LoadInvoices, ReconcileStep, FetchInvoice, FetchFails, FetchTransfer,
         PayMissing, StartTransfer, SkipPayout, NextInvoice, EndInvoices, LoadTransfers,
         EndTransfers, EndPhase, AbortJob
    <3>2. QED BY <1>1, <1>2, <1>3, <3>1
  <2>2. QED BY <1>2, <1>6, <2>1 DEF ReconcileNext, AgeOut
<1>7. CASE IssueNext
  <2>1. PICK c \in Batches : OpenBatch(c) \/ OpenBatchTimesOut(c) \/ BankIssues(c)
                               \/ RecordBatch(c) \/ FailBatch(c)
    BY <1>7 DEF IssueNext
  <2>2. \E label : Goto(c, label)
    BY <2>1 DEF OpenBatch, OpenBatchTimesOut, BankIssues, RecordBatch, FailBatch
  <2>3. c = b
    BY <1>1, <2>2 DEF Processes
  <2>4. ~(OpenBatch(b) \/ OpenBatchTimesOut(b) \/ RecordBatch(b) \/ FailBatch(b))
    BY DEF OpenBatch, OpenBatchTimesOut, RecordBatch, FailBatch, Goto, BatchAt
  <2>5. QED BY <2>1, <2>3, <2>4
<1>8. ASSUME NEW w \in Workers, Crash(w)
      PROVE  FALSE
  BY <1>8 DEF Crash
<1>9. ASSUME UNCHANGED transferVars
      PROVE  FALSE
  BY <1>2, <1>9 DEF transferVars
<1>10. QED BY <1>4, <1>5, <1>6, <1>7, <1>8, <1>9 DEF Next, vars

(* The bank creates the lot before its batch can record it. *)
LEMMA NextLotsReached ==
  ASSUME TypeInv, LockPositions, EventsInv, StatusInv, [Next]_vars
  PROVE  LotsReached'
<1> SUFFICES ASSUME NEW b \in Batches, pc'[b] = "issued", NEW i \in LotOf[b]
             PROVE  InvoiceReached(i, "created")'
  BY DEF LotsReached
<1>1. i \in Invoices /\ \A c \in Batches : i \in LotOf[c] => c = b
  BY ConstantsAssumption
<1>2. CASE pc[b] = "issued"
  BY <1>1, <1>2, ReachedStays DEF EventsInv, StatusInv, LotsReached
<1>3. CASE pc[b] = "issuing"
  <2>1. BankIssues(b)
    BY <1>3, Issuing
  <2>2. bankInvoices'[i] = "created"
    BY <1>1, <2>1 DEF BankIssues, CreateInvoices
  <2>3. "created" \in InvoiceHistory["created"] /\ "created" \in InvoiceStatus /\ "created" # None
    BY NoneIsNoStatus DEF InvoiceHistory, InvoiceStatus
  <2>4. QED BY <2>2, <2>3 DEF InvoiceReached, Reached
<1>4. BatchGoesOn(b)
  BY Onward DEF GoesOn
<1>5. QED BY <1>2, <1>3, <1>4 DEF BatchGoesOn


(* What a reconciliation is to write down comes from the bank. *)
LEMMA NextChangesReached ==
  ASSUME TypeInv, EventsInv, StatusInv, [Next]_vars
  PROVE  ChangesReached'
<1> DEFINE InvoicesTrue(ch) == \A x \in ch : InvoiceReached(x.id, x.status)'
           TransfersTrue(ch) == \A x \in ch : TransferReached(x.id, x.status)'
<1> SUFFICES ASSUME NEW p \in Reconcilers
             PROVE  /\ pc'[p] \in InTransaction.job => InvoicesTrue(changes'[p])
                    /\ pc'[p] = "transfers" => TransfersTrue(changes'[p])
  BY DEF ChangesReached, InvoiceReached, TransferReached
<1> p \in Processes
  BY DEF Processes
<1>1. /\ \A i \in Invoices : \A s : InvoiceReached(i, s) => InvoiceReached(i, s)'
      /\ \A n, s : TransferReached(n, s) => TransferReached(n, s)'
  BY ReachedStays DEF EventsInv
<1>2. /\ pc[p] \in InTransaction.job =>
           /\ \A x \in loaded[p] \cup changes[p] : x.id \in Invoices
           /\ \A x \in changes[p] : InvoiceReached(x.id, x.status)
      /\ pc[p] = "transfers" => \A x \in changes[p] : TransferReached(x.id, x.status)
      /\ pc[p] \in {"idle", "loading"} => changes[p] = {}
  BY DEF TypeInv, Positions, JobAt, InvoiceItem, StatusInv, ChangesReached, InTransaction
<1>3. /\ pc[p] \in InTransaction.job => InvoicesTrue(changes[p])
      /\ pc[p] = "transfers" => TransfersTrue(changes[p])
  BY <1>1, <1>2
<1>4. InvoicesTrue({}) /\ TransfersTrue({})
  OBVIOUS
<1>5. "idle" \notin InTransaction.job /\ "loading" \notin InTransaction.job
      /\ "transfers" \notin InTransaction.job
  BY DEF InTransaction, InPayout
<1>6. ASSUME NEW label \in Places, Goto(p, label)
      PROVE  pc'[p] = label
  BY <1>6, GotoTyped DEF TypeInv
<1> HIDE DEF InvoicesTrue, TransfersTrue
<1> USE DEF TypeInv, TypeOK, ReconcileTypeOK, reconcileVars
<1>7. CASE TransferStep(p) /\ UNCHANGED reconcileVars
  <2>1. pc[p] \in InPayout
    BY <1>7 DEF TransferStep, BankExecutes, BankReplies, BankRepliesEmpty, CallFails, InPayout
  <2>2. PICK label \in {"executed", "transferred", "transferFailed"} : Goto(p, label)
    BY <1>7 DEF TransferStep, BankExecutes, BankReplies, BankRepliesEmpty, CallFails, SettleRow
  <2>3. QED BY <1>3, <1>6, <1>7, <2>1, <2>2 DEF InTransaction, Places
<1>8. CASE LoadInvoices(p) \/ LoadTransfers(p)
  <2>1. changes'[p] = {}
    BY <1>2, <1>8 DEF LoadInvoices, LoadTransfers
  <2>2. QED BY <1>4, <2>1
<1>9. ASSUME NEW x \in loaded[p], FetchInvoice(p, x)
      PROVE  /\ pc'[p] \in InTransaction.job => InvoicesTrue(changes'[p])
             /\ pc'[p] # "transfers"
  <2>1. pc[p] = "invoices" /\ x.id \in Invoices
    BY <1>2, <1>9 DEF FetchInvoice, InTransaction
  <2> DEFINE ch == Change(x, bankInvoices[x.id])
  <2>2. \A y \in ch : y.id = x.id /\ y.status = bankInvoices[x.id] /\ y.status # None
    BY DEF Change
  <2>3. \A s \in InvoiceStatus : s \in InvoiceHistory[s]
    BY DEF InvoiceStatus, InvoiceHistory
  <2>4. bankInvoices[x.id] \in InvoiceStatus \cup {None}
    BY <2>1 DEF BankTypeOK
  <2>5. changes'[p] = changes[p] \cup ch
    BY <1>9 DEF FetchInvoice, Advance
  <2> HIDE DEF ch
  <2>6. \A y \in ch : InvoiceReached(y.id, y.status)'
    <3>1. \A y \in ch : InvoiceReached(y.id, y.status)
      BY <2>1, <2>2, <2>3, <2>4 DEF InvoiceReached, Reached
    <3>2. QED BY <1>1, <2>1, <2>2, <3>1
  <2>7. pc'[p] \in {"invoices", "checking"}
    <3>1. Goto(p, "checking") \/ pc' = pc
      BY <1>9 DEF FetchInvoice
    <3>2. QED BY <1>6, <2>1, <3>1 DEF Places
  <2>8. QED BY <1>3, <2>1, <2>5, <2>6, <2>7 DEF InTransaction, InvoicesTrue
<1>10. ASSUME NEW x \in loaded[p], FetchTransfer(p, x)
       PROVE  pc'[p] = "transfers" /\ TransfersTrue(changes'[p])
  <2>1. pc[p] = "transfers" /\ pc'[p] = pc[p]
    BY <1>10 DEF FetchTransfer
  <2>2. PICK t \in bankTransfers : t.id = x.id /\ Advance(p, x, Change(x, t.status))
    BY <1>10 DEF FetchTransfer
  <2> DEFINE ch == Change(x, t.status)
  <2>3. \A y \in ch : y.id = t.id /\ y.status = t.status
    BY <2>2 DEF Change
  <2>4. t.status \in TransferHistory[t.status]
    BY DEF BankTypeOK, BankTransfer, TransferHistory
  <2>5. changes'[p] = changes[p] \cup ch
    BY <2>2 DEF Advance
  <2> HIDE DEF ch
  <2>6. \A y \in ch : TransferReached(y.id, y.status)'
    BY <1>1, <2>3, <2>4 DEF TransferReached
  <2>7. QED BY <1>3, <2>1, <2>5, <2>6 DEF TransfersTrue
<1>11. ASSUME NEW x \in loaded[p], FetchFails(p, x)
       PROVE  pc'[p] = pc[p] /\ changes'[p] = changes[p]
  BY <1>11 DEF FetchFails, Advance
<1>12. CASE PayMissing(p) \/ SkipPayout(p) \/ EndInvoices(p) \/ EndTransfers(p) \/ AbortJob(p)
  <2>1. changes'[p] = {}
    BY <1>12 DEF PayMissing, SkipPayout, EndInvoices, EndTransfers, EndPhase, AbortJob
  <2>2. QED BY <1>4, <2>1
<1>13. CASE NextInvoice(p)
  <2>1. pc[p] \in InPayout /\ pc'[p] = "invoices" /\ UNCHANGED reconcileVars
    BY <1>6, <1>13 DEF NextInvoice, InPayout, Places
  <2>2. QED BY <1>3, <2>1 DEF InTransaction
<1>14. CASE ReconcileStep(p)
  BY <1>3, <1>5, <1>8, <1>9, <1>10, <1>11, <1>12, <1>13, <1>14 DEF ReconcileStep
<1>15. QED BY <1>3, <1>5, <1>7, <1>8, <1>14, JobTurns

(* Nothing is written, and nothing is at hand, at the start. *)
LEMMA InitStatus == Init => StatusInv
<1> SUFFICES ASSUME Init PROVE StatusInv
  OBVIOUS
<1>1. /\ db = EmptyTables /\ work = EmptyTables /\ pc = [p \in Processes |-> "idle"]
  BY DEF Init, DatabaseInit, TransferInit
<1>2. TablesReached(EmptyTables)
  BY DEF EmptyTables, TablesReached, InvoicesReached
<1>3. EventsReached /\ OrdersReached /\ LotsReached
  BY <1>1 DEF EventsReached, OrdersReached, LotsReached, AtBank, Processes
<1>4. ChangesReached
  BY <1>1 DEF ChangesReached, InTransaction, InPayout, Processes
<1>5. QED BY <1>1, <1>2, <1>3, <1>4 DEF StatusInv

(* The invariant of this module: whatever is written down, or on its way to  *)
(* be, is true of the bank's object.                                         *)
THEOREM StatusInvariant == Spec => []StatusInv
<1>1. TypeInv /\ LockPositions /\ BooksInv /\ EventsInv /\ StatusInv /\ [Next]_vars => StatusInv'
  <2> SUFFICES ASSUME TypeInv, LockPositions, BooksInv, EventsInv, StatusInv, [Next]_vars
               PROVE  StatusInv'
    OBVIOUS
  <2>1. TablesReached(db)' /\ TablesReached(work)'
    BY NextTablesReached
  <2>2. EventsReached' /\ OrdersReached'
    BY NextEventsReached, NextOrdersReached
  <2>3. LotsReached' /\ ChangesReached'
    BY NextLotsReached, NextChangesReached
  <2>4. QED BY <2>1, <2>2, <2>3 DEF StatusInv
<1>2. QED BY <1>1, InitStatus, TypeInvariant, LockInvariant, BooksInvariant, EventsInvariant, PTL
          DEF Spec

(* However late an event is handled or a reconciliation writes what it       *)
(* fetched, and whichever of them comes last: a committed status is one that *)
(* the bank's object has really been through.                                *)
THEOREM StatusesWereReached == Spec => []StatusWasReached
<1>1. StatusInv => StatusWasReached
  BY DEF StatusInv, TablesReached, InvoicesReached, InvoiceReached, RowReached, TransferReached,
         StatusWasReached
<1>2. QED BY <1>1, StatusInvariant, PTL
=============================================================================
