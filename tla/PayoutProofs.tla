---------------------------- MODULE PayoutProofs ----------------------------
(***************************************************************************)
(* Types, locks and books of PayoutSystem: what the place of a process     *)
(* says of what it holds and of the database's write lock, that every      *)
(* cause has one transfer row at most, and that what is committed is what  *)
(* PayoutLedger, the abstract specification, allows.                       *)
(***************************************************************************)
EXTENDS PayoutSystem, TLAPS

-----------------------------------------------------------------------------
(***************************************************************************)
(* Type correctness of PayoutSystem.  The inductive invariant adds to      *)
(* TypeOK what the place of a process says of its event, row and items.    *)
(***************************************************************************)

TypeInv == TypeOK /\ Positions

-----------------------------------------------------------------------------
(* The answers by name. *)
LEMMA AnswersAre ==
  Answers = {"success", "DuplicateEventError", "WebhookSignatureError",
             "BusinessRuleViolationError", "StarkBankAuthenticationError",
             "StarkBankValidationError", "StarkBankServerError", "StarkBankNetworkError",
             "StarkBankIntegrationError"}
BY DEF Answers, HttpStatus

(* Every error of the bank's SDK becomes an exception with a handler. *)
LEMMA MappedIsAnswer ==
  ASSUME NEW err \in BankErrors
  PROVE  Mapped(err) \in Answers
<1>1. err \in SdkError
  BY ConstantsAssumption
<1>2. Mapped(err) \in {"StarkBankAuthenticationError", "StarkBankValidationError",
                      "StarkBankServerError", "StarkBankNetworkError",
                      "StarkBankIntegrationError"}
  BY DEF Mapped
<1>3. QED BY <1>2, AnswersAre

-----------------------------------------------------------------------------
\* Typing of the updates that the actions make to tables and rows.

(* A row started by a payout is a row of transfer_records. *)
LEMMA NewRowTyped ==
  ASSUME NEW i \in Invoices, NEW cause \in Causes, lastRow \in Nat
  PROVE  NewRow(i, cause) \in TransferRow
BY DEF NewRow, TransferRow, TransferStatus

(* Replacing one table by a well-typed one leaves the tables well typed. *)
LEMMA TablesUpdate ==
  ASSUME NEW tables \in Tables
  PROVE  /\ \A S \in SUBSET EventIds : [tables EXCEPT !.events = S] \in Tables
         /\ \A S \in SUBSET TransferRow : [tables EXCEPT !.transfers = S] \in Tables
         /\ \A f \in [Invoices -> InvoiceStatus \cup {None}] :
              [tables EXCEPT !.invoices = f] \in Tables
         /\ \A f \in [Batches -> BatchStatus \cup {None}] :
              [tables EXCEPT !.batches = f] \in Tables
         /\ tables.events \subseteq EventIds
         /\ tables.transfers \subseteq TransferRow
         /\ tables.invoices \in [Invoices -> InvoiceStatus \cup {None}]
         /\ tables.batches \in [Batches -> BatchStatus \cup {None}]
BY DEF Tables

(* An update of a transfer's status or bank id gives a row again. *)
LEMMA RowUpdate ==
  ASSUME NEW row \in TransferRow, NEW status \in TransferStatus, NEW n \in Nat
  PROVE  /\ [row EXCEPT !.status = status] \in TransferRow
         /\ [row EXCEPT !.stark = n, !.status = status] \in TransferRow
         /\ row.id \in Nat /\ row.invoice \in Invoices /\ row.event \in Causes
         /\ row.status \in TransferStatus
BY DEF TransferRow

(* The status flushed for an item is a status of the changes, or its old one. *)
LEMMA StatusFromTyped ==
  ASSUME NEW S, NEW id, NEW old \in S, NEW ch,
         \A c \in ch : c.status \in S
  PROVE  StatusFrom(ch, id, old) \in S
<1>1. CASE \E c \in ch : c.id = id
  <2>1. (CHOOSE c \in ch : c.id = id) \in ch
    BY <1>1
  <2>2. QED BY <1>1, <2>1 DEF StatusFrom
<1>2. CASE ~ \E c \in ch : c.id = id
  BY <1>2 DEF StatusFrom
<1>3. QED BY <1>1, <1>2

(* What the reconciliation flushes is well typed. *)
LEMMA FlushInvoicesTyped ==
  ASSUME NEW tables \in Tables, NEW ch \in SUBSET InvoiceItem
  PROVE  FlushInvoices(tables, ch) \in Tables
<1>1. tables.invoices \in [Invoices -> InvoiceStatus \cup {None}]
  BY TablesUpdate
<1>2. \A c \in ch : c.status \in InvoiceStatus \cup {None}
  BY DEF InvoiceItem
<1>3. \A i \in Invoices : StatusFrom(ch, i, tables.invoices[i]) \in InvoiceStatus \cup {None}
  BY <1>1, <1>2, StatusFromTyped
<1>4. QED BY <1>3, TablesUpdate DEF FlushInvoices

(* Flushing transfer statuses leaves tables of their type. *)
LEMMA FlushTransfersTyped ==
  ASSUME NEW tables \in Tables, NEW ch \in SUBSET TransferItem
  PROVE  FlushTransfers(tables, ch) \in Tables
<1>1. tables.transfers \subseteq TransferRow
  BY TablesUpdate
<1>2. \A c \in ch : c.status \in TransferStatus
  BY DEF TransferItem
<1>3. \A row \in tables.transfers : StatusFrom(ch, row.id, row.status) \in TransferStatus
  <2>1. \A row \in tables.transfers : row.status \in TransferStatus
    BY <1>1 DEF TransferRow
  <2>2. QED BY <2>1, <1>2, StatusFromTyped
<1>4. \A row \in tables.transfers :
        [row EXCEPT !.status = StatusFrom(ch, row.id, row.status)] \in TransferRow
  BY <1>1, <1>3, RowUpdate
<1>5. QED BY <1>4, TablesUpdate DEF FlushTransfers

(* The tables written for an invoice event, and for a batch, are well typed. *)
LEMMA WithInvoiceStatusTyped ==
  ASSUME NEW tables \in Tables, NEW i \in Invoices, NEW s \in InvoiceStatus
  PROVE  WithInvoiceStatus(tables, i, s) \in Tables
<1>1. [tables.invoices EXCEPT ![i] = s] \in [Invoices -> InvoiceStatus \cup {None}]
  BY TablesUpdate
<1>2. [tables EXCEPT !.invoices[i] = s] = [tables EXCEPT !.invoices = [tables.invoices EXCEPT ![i] = s]]
  BY DEF Tables
<1>3. QED BY <1>1, <1>2, TablesUpdate DEF WithInvoiceStatus

(* So does recording a batch. *)
LEMMA WithLotTyped ==
  ASSUME NEW tables \in Tables, NEW b
  PROVE  WithLot(tables, b) \in Tables
<1>1. [i \in Invoices |-> IF i \in LotOf[b] THEN "created" ELSE tables.invoices[i]]
         \in [Invoices -> InvoiceStatus \cup {None}]
  BY TablesUpdate DEF InvoiceStatus
<1>2. QED BY <1>1, TablesUpdate DEF WithLot

(* None is no status and no process. *)
LEMMA NoneIsNoStatus == None \notin InvoiceStatus \cup TransferStatus \cup BatchStatus \cup Processes
BY NoneAssumption

(* Every event delivered is an event id, typed by its kind. *)
LEMMA EmittedTyped ==
  ASSUME TypeOK
  PROVE  Emitted \subseteq EventIds
<1>1. \A i \in Invoices, s \in InvoiceStatus : InvoiceEvent(i, s) \in EventIds
  BY DEF EventIds, InvoiceEvent
<1>2. \A n \in Nat, s \in TransferStatus : TransferEvent(n, s) \in EventIds
  BY DEF EventIds, TransferEvent
<1>3. \A t \in bankTransfers : t.id \in Nat /\ TransferHistory[t.status] \subseteq TransferStatus
  BY DEF TypeOK, BankTypeOK, BankTransfer, TransferHistory, TransferStatus
<1>4. OtherEvent \in EventIds
  BY DEF EventIds
<1>5. {e \in {InvoiceEvent(i, s) : i \in Invoices, s \in InvoiceStatus} :
         /\ <<e.kind, e.type>> \in Subscribed
         /\ e.type \in Reached(e.id)} \subseteq EventIds
  BY <1>1
<1>6. UNION {{TransferEvent(t.id, s) : s \in {x \in TransferHistory[t.status] :
                                             <<"transfer", x>> \in Subscribed}} :
             t \in bankTransfers} \subseteq EventIds
  <2> DEFINE Logs(t) == {x \in TransferHistory[t.status] : <<"transfer", x>> \in Subscribed}
             EventsOf(t) == {TransferEvent(t.id, s) : s \in Logs(t)}
  <2>1. ASSUME NEW t \in bankTransfers
        PROVE  EventsOf(t) \subseteq EventIds
    <3>1. \A s \in Logs(t) : s \in TransferStatus
      BY <1>3
    <3>2. \A s \in Logs(t) : TransferEvent(t.id, s) \in EventIds
      BY <1>2, <1>3, <3>1
    <3>3. QED BY <3>2
  <2> HIDE DEF EventsOf
  <2>2. UNION {EventsOf(t) : t \in bankTransfers} \subseteq EventIds
    BY <2>1
  <2>3. QED BY <2>2 DEF EventsOf
<1>7. QED BY ONLY <1>4, <1>5, <1>6 DEF Emitted

(* What an event is about is of the kind it says. *)
LEMMA EventKinds ==
  ASSUME NEW e \in EventIds
  PROVE  /\ e.kind = "invoice" => e.id \in Invoices /\ e.type \in InvoiceStatus
         /\ e.kind = "transfer" => e.id \in Nat /\ e.type \in TransferStatus
         /\ e.kind \in {"invoice", "transfer", "other"}
         /\ e \in Causes
BY DEF EventIds, OtherEvent, Causes

(* Steps that leave a component's variables alone keep them well typed. *)
LEMMA UntouchedTyped ==
  ASSUME TypeOK
  PROVE  /\ UNCHANGED dbVars => DatabaseTypeOK'
         /\ UNCHANGED bankVars => BankTypeOK'
         /\ UNCHANGED webhookVars => WebhookTypeOK'
         /\ UNCHANGED reconcileVars => ReconcileTypeOK'
BY DEF TypeOK, DatabaseTypeOK, BankTypeOK, WebhookTypeOK, ReconcileTypeOK, dbVars, bankVars,
       webhookVars, reconcileVars

(* What a session does to the database keeps it well typed. *)
LEMMA SessionTyped ==
  ASSUME TypeOK, NEW p \in Processes, NEW tables \in Tables,
         \/ Flush(p, tables) \/ Commit(p, tables) \/ Rollback(p) \/ UNCHANGED dbVars
  PROVE  DatabaseTypeOK'
BY DEF TypeOK, DatabaseTypeOK, Flush, Commit, Rollback, dbVars

(* A process goes to another place, and a fault is counted. *)
LEMMA GotoTyped ==
  ASSUME TypeOK, NEW p \in Processes, NEW label \in Places, Goto(p, label)
  PROVE  /\ pc' \in [Processes -> Places] /\ pc'[p] = label
         /\ \A q \in Processes \ {p} : pc'[q] = pc[q]
BY DEF TypeOK, TransferTypeOK, Goto

(* Faults are counted by natural numbers. *)
LEMMA FaultTyped ==
  ASSUME TypeOK, NEW k \in FaultKinds, Fault(k)
  PROVE  faults' \in [FaultKinds -> Nat]
BY DEF TypeOK, TransferTypeOK, Fault

(* A step of p disturbs the position of p only. *)
LEMMA StepPositions ==
  ASSUME Positions, NEW p \in Processes,
         \A q \in Processes \ {p} : pc'[q] = pc[q] /\ order'[q] = order[q],
         \A r \in Requests \ {p} : event'[r] = event[r],
         \A q \in Reconcilers \ {p} :
           loaded'[q] = loaded[q] /\ changes'[q] = changes[q] /\ item'[q] = item[q],
         p \in Requests => RequestAt(p)', OrderAt(p)', p \in Reconcilers => JobAt(p)'
  PROVE  Positions'
<1>1. \A r \in Requests : RequestAt(r)'
  BY DEF Positions, RequestAt, Processes
<1>2. \A q \in Processes : OrderAt(q)'
  BY DEF Positions, OrderAt
<1>3. \A q \in Reconcilers : JobAt(q)'
  BY DEF Positions, JobAt, Processes
<1>4. QED BY <1>1, <1>2, <1>3 DEF Positions

-----------------------------------------------------------------------------
\* The initial state, and one lemma per component for its steps.

(* Everything has its type at the start. *)
LEMMA InitTypes == Init => TypeInv
<1> SUFFICES ASSUME Init PROVE TypeInv
  OBVIOUS
<1>1. EmptyTables \in Tables
  BY DEF EmptyTables, Tables
<1>2. DatabaseTypeOK
  BY <1>1 DEF Init, DatabaseInit, DatabaseTypeOK
<1>3. BankTypeOK
  BY DEF Init, BankInit, BankTypeOK, InvoiceStatus
<1>4. TransferTypeOK
  BY DEF Init, TransferInit, TransferTypeOK, Places
<1>5. WebhookTypeOK
  BY DEF Init, WebhookInit, WebhookTypeOK, MaxLookups
<1>6. ReconcileTypeOK
  BY DEF Init, ReconcileInit, ReconcileTypeOK
<1>7. Positions
  BY DEF Init, TransferInit, ReconcileInit, Positions, RequestAt, OrderAt, JobAt, Processes,
         InPayout
<1>8. QED BY <1>2, <1>3, <1>4, <1>5, <1>6, <1>7 DEF TypeInv, TypeOK

(* The payout: the call, and the ways it comes back. *)
LEMMA TransferTypes ==
  ASSUME TypeInv, NEW p \in Requests \cup Reconcilers, TransferStep(p),
         UNCHANGED <<webhookVars, reconcileVars>>
  PROVE  TypeInv'
<1> p \in Processes
  BY DEF Processes
<1>1. WebhookTypeOK' /\ ReconcileTypeOK'
  BY UntouchedTyped DEF TypeInv
<1>2. ASSUME NEW row \in TransferRow, NEW label \in {"transferred", "transferFailed"},
             SettleRow(p, row, label), pc[p] \in {"sending", "executed"},
             UNCHANGED bankVars, faults' \in [FaultKinds -> Nat]
      PROVE  TypeInv'
  <2>1. work' \in Tables
    <3>1. (work.transfers \ {order[p]}) \cup {row} \in SUBSET TransferRow
      BY TablesUpdate DEF TypeInv, TypeOK, DatabaseTypeOK
    <3>2. QED BY <1>2, <3>1, TablesUpdate DEF TypeInv, TypeOK, DatabaseTypeOK, SettleRow
  <2>2. DatabaseTypeOK'
    BY <1>2, <2>1 DEF TypeInv, TypeOK, DatabaseTypeOK, SettleRow
  <2>3. BankTypeOK'
    BY <1>2, UntouchedTyped DEF TypeInv
  <2>4. TransferTypeOK'
    BY <1>2 DEF TypeInv, TypeOK, TransferTypeOK, SettleRow, Goto, Places
  <2>5. Positions'
    <3>1. pc' = [pc EXCEPT ![p] = label]
      BY <1>2 DEF SettleRow, Goto
    <3>2. (p \in Requests => RequestAt(p)') /\ OrderAt(p)' /\ (p \in Reconcilers => JobAt(p)')
      BY <1>2, <3>1 DEF TypeInv, TypeOK, TransferTypeOK, Positions, RequestAt, OrderAt, JobAt,
                        InPayout, webhookVars, reconcileVars
    <3>3. QED BY <1>2, <3>1, <3>2, StepPositions DEF TypeInv, TypeOK, TransferTypeOK,
                        SettleRow, webhookVars, reconcileVars
  <2>6. QED BY <1>1, <2>2, <2>3, <2>4, <2>5 DEF TypeInv, TypeOK
<1>3. ASSUME NEW k \in FaultKinds, Fault(k)
      PROVE  faults' \in [FaultKinds -> Nat]
  BY <1>3 DEF TypeInv, TypeOK, TransferTypeOK, Fault
<1>4. CASE BankExecutes(p)
  <2>1. order[p] \in TransferRow
    BY <1>4 DEF TypeInv, Positions, OrderAt, BankExecutes
  <2>2. BankTypeOK'
    BY <1>4, <2>1 DEF TypeInv, TypeOK, BankTypeOK, BankExecutes, ExecuteTransfer, BankTransfer,
                      TransferRow
  <2>3. DatabaseTypeOK'
    BY <1>4, UntouchedTyped DEF TypeInv, BankExecutes
  <2>4. TransferTypeOK'
    BY <1>4 DEF TypeInv, TypeOK, TransferTypeOK, BankExecutes, Goto, Places
  <2>5. Positions'
    <3>1. pc[p] = "sending" /\ pc' = [pc EXCEPT ![p] = "executed"]
      BY <1>4 DEF BankExecutes, Goto
    <3>2. (p \in Requests => RequestAt(p)') /\ OrderAt(p)' /\ (p \in Reconcilers => JobAt(p)')
      BY <1>4, <2>1, <3>1 DEF BankExecutes, TypeInv, TypeOK, TransferTypeOK, Positions,
                              RequestAt, OrderAt, JobAt, InPayout, webhookVars, reconcileVars
    <3>3. QED BY <1>4, <3>1, <3>2, StepPositions DEF BankExecutes, TypeInv, TypeOK,
                              TransferTypeOK, webhookVars, reconcileVars
  <2>6. QED BY <1>1, <2>2, <2>3, <2>4, <2>5 DEF TypeInv, TypeOK
<1>5. ASSUME pc[p] \in {"sending", "executed"}
      PROVE  /\ order[p] \in TransferRow
             /\ \A s \in TransferStatus : [order[p] EXCEPT !.status = s] \in TransferRow
             /\ [order[p] EXCEPT !.stark = order[p].id, !.status = "created"] \in TransferRow
  BY <1>5 DEF TypeInv, Positions, OrderAt, TransferRow, TransferStatus
<1>6. CASE BankReplies(p)
  BY <1>2, <1>5, <1>6 DEF BankReplies, TypeInv, TypeOK, TransferTypeOK
<1>7. CASE BankRepliesEmpty(p)
  BY <1>2, <1>3, <1>5, <1>7 DEF BankRepliesEmpty, FaultKinds, TransferStatus
<1>8. CASE CallFails(p)
  BY <1>2, <1>3, <1>5, <1>8 DEF CallFails, FaultKinds, TransferStatus
<1>9. QED BY <1>4, <1>6, <1>7, <1>8 DEF TransferStep

(* The bank's own moves. *)
LEMMA BankTypes ==
  ASSUME TypeInv, BankNext, UNCHANGED <<dbVars, transferVars, webhookVars, reconcileVars>>
  PROVE  TypeInv'
<1>1. DatabaseTypeOK' /\ WebhookTypeOK' /\ ReconcileTypeOK'
  BY UntouchedTyped DEF TypeInv
<1>2. TransferTypeOK'
  BY DEF TypeInv, TypeOK, TransferTypeOK, transferVars
<1>3. Positions'
  BY DEF TypeInv, Positions, RequestAt, OrderAt, JobAt, transferVars, webhookVars, reconcileVars
<1>4. BankTypeOK'
  <2>1. ASSUME NEW i \in Invoices, NEW from, NEW to \in InvoiceStatus, InvoiceMoves(i, from, to)
        PROVE  BankTypeOK'
    BY <2>1 DEF TypeInv, TypeOK, BankTypeOK, InvoiceMoves
  <2>2. ASSUME NEW t \in bankTransfers, NEW from, NEW to \in {"processing", "success", "failed"},
               TransferMoves(t, from, to)
        PROVE  BankTypeOK'
    <3>1. [t EXCEPT !.status = to] \in BankTransfer
      BY DEF TypeInv, TypeOK, BankTypeOK, BankTransfer
    <3>2. QED BY <2>2, <3>1 DEF TypeInv, TypeOK, BankTypeOK, TransferMoves
  <2>3. QED BY <2>1, <2>2 DEF BankNext, OverdueInvoice, PayInvoice, CreditInvoice, CancelInvoice,
                              ProcessTransfer, FinishTransfer, FailTransfer, InvoiceStatus
<1>5. QED BY <1>1, <1>2, <1>3, <1>4 DEF TypeInv, TypeOK

(* A crash sets the processes of one worker back. *)
LEMMA CrashTypes ==
  ASSUME TypeInv, NEW w \in Workers, Crash(w)
  PROVE  TypeInv'
<1>1. DatabaseTypeOK'
  <2>1. Rollback(writer) \/ UNCHANGED dbVars
    BY DEF Crash
  <2>2. QED BY <2>1 DEF TypeInv, TypeOK, DatabaseTypeOK, Rollback, dbVars
<1>2. BankTypeOK'
  BY UntouchedTyped DEF TypeInv, Crash
<1>3. TransferTypeOK'
  <2>1. faults' \in [FaultKinds -> Nat]
    BY FaultTyped DEF TypeInv, Crash, FaultKinds
  <2>2. pc' \in [Processes -> Places]
    BY DEF TypeInv, TypeOK, TransferTypeOK, Crash, Places
  <2>3. order' \in [Processes -> TransferRow \cup {None}]
    BY DEF TypeInv, TypeOK, TransferTypeOK, Crash
  <2>4. QED BY <2>1, <2>2, <2>3 DEF TypeInv, TypeOK, TransferTypeOK, Crash
<1>4. WebhookTypeOK'
  BY DEF TypeInv, TypeOK, WebhookTypeOK, Crash, MaxLookups
<1>5. ReconcileTypeOK'
  BY DEF TypeInv, TypeOK, ReconcileTypeOK, Crash
<1>6. Positions'
  <2>1. \A p \in Processes : \/ pc'[p] = pc[p] /\ order'[p] = order[p] /\ ~On(w, p)
                             \/ pc'[p] \in {"idle", "done"} /\ On(w, p)
    BY DEF Crash
  <2>2. \A p \in Processes \ Batches : On(w, p) => pc'[p] = "idle"
    BY DEF Crash
  <2>3. \A r \in Requests : RequestAt(r)'
    BY <2>1, <2>2, ProcessesAssumption DEF TypeInv, Positions, RequestAt, Crash, Processes
  <2>4. \A p \in Processes : OrderAt(p)'
    BY <2>1 DEF TypeInv, Positions, OrderAt
  <2>5. \A p \in Reconcilers : JobAt(p)'
    BY <2>1, <2>2, ProcessesAssumption DEF TypeInv, Positions, JobAt, Crash, Processes, InPayout
  <2>6. QED BY <2>3, <2>4, <2>5 DEF Positions
<1>7. QED BY <1>1, <1>2, <1>3, <1>4, <1>5, <1>6 DEF TypeInv, TypeOK

(* The batches. *)
LEMMA IssueTypes ==
  ASSUME TypeInv, IssueNext, UNCHANGED <<webhookVars, reconcileVars>>
  PROVE  TypeInv'
<1>1. WebhookTypeOK' /\ ReconcileTypeOK'
  BY UntouchedTyped DEF TypeInv
<1>2. PICK b \in Batches : OpenBatch(b) \/ OpenBatchTimesOut(b) \/ BankIssues(b)
                             \/ RecordBatch(b) \/ FailBatch(b)
  BY DEF IssueNext
<1> b \in Processes /\ b \notin Requests /\ b \notin Reconcilers
  BY ProcessesAssumption DEF Processes
<1>3. ASSUME NEW label \in {"issuing", "issued", "done"}, Goto(b, label), UNCHANGED <<order, lastRow>>,
             faults' \in [FaultKinds -> Nat], DatabaseTypeOK', BankTypeOK'
      PROVE  TypeInv'
  <2>1. TransferTypeOK'
    BY <1>3, GotoTyped DEF TypeInv, TypeOK, TransferTypeOK, Places
  <2>2. Positions'
    <3>1. OrderAt(b)' /\ \A q \in Processes \ {b} : pc'[q] = pc[q]
      BY <1>3, GotoTyped DEF TypeInv, OrderAt, Places
    <3>2. QED BY <1>3, <3>1, StepPositions DEF TypeInv, webhookVars, reconcileVars
  <2>3. QED BY <1>1, <1>3, <2>1, <2>2 DEF TypeInv, TypeOK
<1>4. faults \in [FaultKinds -> Nat]
  BY DEF TypeInv, TypeOK, TransferTypeOK
<1>5. \A s \in BatchStatus : [work EXCEPT !.batches[b] = s] \in Tables
  <2>1. work \in Tables
    BY DEF TypeInv, TypeOK, DatabaseTypeOK
  <2>2. \A s \in BatchStatus : [work.batches EXCEPT ![b] = s] \in [Batches -> BatchStatus \cup {None}]
    BY <2>1, TablesUpdate
  <2>3. \A s : [work EXCEPT !.batches[b] = s] = [work EXCEPT !.batches = [work.batches EXCEPT ![b] = s]]
    BY <2>1 DEF Tables
  <2>4. QED BY <2>1, <2>2, <2>3, TablesUpdate
<1>6. CASE OpenBatch(b)
  <2>1. DatabaseTypeOK'
    BY <1>5, <1>6, SessionTyped DEF OpenBatch, BatchStatus, TypeInv
  <2>2. QED BY <1>3, <1>4, <1>6, <2>1, UntouchedTyped DEF OpenBatch, TypeInv
<1>7. CASE OpenBatchTimesOut(b)
  BY <1>3, <1>7, FaultTyped, UntouchedTyped DEF OpenBatchTimesOut, TypeInv, FaultKinds
<1>8. CASE BankIssues(b)
  <2>1. BankTypeOK'
    BY <1>8 DEF BankIssues, CreateInvoices, TypeInv, TypeOK, BankTypeOK, InvoiceStatus
  <2>2. QED BY <1>3, <1>4, <1>8, <2>1, UntouchedTyped DEF BankIssues, TypeInv
<1>9. CASE RecordBatch(b)
  <2>1. WithLot(work, b) \in Tables
    BY WithLotTyped DEF TypeInv, TypeOK, DatabaseTypeOK
  <2>2. DatabaseTypeOK'
    BY <1>9, <2>1, SessionTyped DEF RecordBatch, TypeInv
  <2>3. QED BY <1>3, <1>4, <1>9, <2>2, UntouchedTyped DEF RecordBatch, TypeInv
<1>10. CASE FailBatch(b)
  <2>1. DatabaseTypeOK'
    BY <1>5, <1>10, SessionTyped DEF FailBatch, BatchStatus, TypeInv
  <2>2. QED BY <1>3, <1>10, <2>1, FaultTyped, UntouchedTyped DEF FailBatch, TypeInv, FaultKinds
<1>11. QED BY <1>2, <1>6, <1>7, <1>8, <1>9, <1>10

(* The start of a payout. *)
LEMMA StartTyped ==
  ASSUME TypeInv, NEW p \in Processes, NEW i \in Invoices, NEW cause \in Causes,
         NEW tables \in Tables, StartTransfer(p, i, cause, tables), UNCHANGED faults
  PROVE  /\ DatabaseTypeOK' /\ TransferTypeOK'
         /\ order'[p] \in TransferRow
         /\ pc'[p] = "sending"
         /\ \A q \in Processes \ {p} : pc'[q] = pc[q] /\ order'[q] = order[q]
<1> lastRow \in Nat
  BY DEF TypeInv, TypeOK, TransferTypeOK
<1>1. NewRow(i, cause) \in TransferRow
  BY NewRowTyped
<1>2. [tables EXCEPT !.transfers = tables.transfers \cup {NewRow(i, cause)}] \in Tables
  <2>1. tables.transfers \cup {NewRow(i, cause)} \in SUBSET TransferRow
    BY <1>1, TablesUpdate
  <2>2. QED BY <2>1, TablesUpdate
<1>3. DatabaseTypeOK'
  BY <1>2, SessionTyped DEF StartTransfer, TypeInv
<1>4. order' = [order EXCEPT ![p] = NewRow(i, cause)] /\ lastRow' = lastRow + 1 /\ Goto(p, "sending")
  BY DEF StartTransfer
<1>5. TransferTypeOK'
  BY <1>1, <1>4, GotoTyped DEF TypeInv, TypeOK, TransferTypeOK, Places
<1>6. QED BY <1>1, <1>3, <1>4, <1>5, GotoTyped DEF TypeInv, TypeOK, TransferTypeOK, Places

(* A request that answers. *)
LEMMA RespondTyped ==
  ASSUME TypeOK, NEW r \in Requests, NEW a \in Answers, Respond(r, a)
  PROVE  WebhookTypeOK' /\ Goto(r, "answered") /\ UNCHANGED event
BY DEF TypeOK, WebhookTypeOK, Respond

(* The requests. *)
LEMMA WebhookTypes ==
  ASSUME TypeInv, NEW r \in Requests,
         WebhookStep(r) \/ \E e \in Emitted \ acked : Deliver(r, e),
         UNCHANGED reconcileVars
  PROVE  TypeInv'
<1> r \in Processes /\ r \notin Reconcilers
  BY ProcessesAssumption DEF Processes
<1>1. ReconcileTypeOK'
  BY UntouchedTyped DEF TypeInv
<1>2. work \in Tables /\ faults \in [FaultKinds -> Nat]
  BY DEF TypeInv, TypeOK, DatabaseTypeOK, TransferTypeOK
<1>3. ASSUME pc[r] # "idle"
      PROVE  event[r] \in EventIds
  BY <1>3 DEF TypeInv, Positions, RequestAt
<1>4. ASSUME NEW label \in Places \ {"sending", "executed"}, Goto(r, label),
             UNCHANGED <<order, lastRow>>,
             faults' \in [FaultKinds -> Nat], DatabaseTypeOK', BankTypeOK', WebhookTypeOK',
             \A q \in Requests \ {r} : event'[q] = event[q],
             label # "idle" => event'[r] \in EventIds,
             label \in {"invoice", "transfer", "other"} => event'[r].kind = label
      PROVE  TypeInv'
  <2>1. TransferTypeOK'
    BY <1>4, GotoTyped DEF TypeInv, TypeOK, TransferTypeOK
  <2>2. pc'[r] = label /\ \A q \in Processes \ {r} : pc'[q] = pc[q]
    BY <1>4, GotoTyped DEF TypeInv
  <2>3. RequestAt(r)' /\ OrderAt(r)'
    BY <1>4, <2>2 DEF RequestAt, OrderAt
  <2>4. Positions'
    BY <1>4, <2>2, <2>3, StepPositions DEF TypeInv, reconcileVars
  <2>5. QED BY <1>1, <1>4, <2>1, <2>4 DEF TypeInv, TypeOK
<1>5. ASSUME NEW a \in Answers, Respond(r, a), pc[r] # "idle", UNCHANGED <<order, lastRow, bankVars>>,
             faults' \in [FaultKinds -> Nat], DatabaseTypeOK'
      PROVE  TypeInv'
  BY <1>3, <1>4, <1>5, RespondTyped, UntouchedTyped DEF TypeInv, Places
<1>6. ASSUME NEW e \in Emitted \ acked, Deliver(r, e)
      PROVE  TypeInv'
  <2>1. e \in EventIds
    BY EmittedTyped DEF TypeInv
  <2>2. WebhookTypeOK' /\ event'[r] = e /\ \A q \in Requests \ {r} : event'[q] = event[q]
    BY <1>6, <2>1 DEF Deliver, TypeInv, TypeOK, WebhookTypeOK
  <2>3. QED BY <1>2, <1>4, <1>6, <2>1, <2>2, UntouchedTyped DEF Deliver, TypeInv, Places
<1>7. CASE Parse(r)
  BY <1>2, <1>3, <1>4, <1>7, UntouchedTyped DEF Parse, TypeInv, Places, webhookVars
<1>8. CASE ParseFails(r)
  <2>1. WebhookTypeOK'
    BY <1>8, AnswersAre DEF ParseFails, TypeInv, TypeOK, WebhookTypeOK
  <2>2. QED BY <1>3, <1>4, <1>8, <2>1, FaultTyped, UntouchedTyped
     DEF ParseFails, TypeInv, Places, FaultKinds
<1>9. CASE AcquireWebhookLock(r)
  <2>1. WebhookTypeOK'
    BY <1>9 DEF AcquireWebhookLock, TypeInv, TypeOK, WebhookTypeOK
  <2>2. QED BY <1>2, <1>3, <1>4, <1>9, <2>1, UntouchedTyped DEF AcquireWebhookLock, TypeInv, Places
<1>10. CASE CheckDuplicate(r)
  <2>1. CASE Respond(r, "DuplicateEventError")
    BY <1>2, <1>5, <1>10, <2>1, AnswersAre, UntouchedTyped DEF CheckDuplicate, TypeInv
  <2>2. CASE Goto(r, "inserting") /\ UNCHANGED webhookVars
    BY <1>2, <1>3, <1>4, <1>10, <2>2, UntouchedTyped DEF CheckDuplicate, TypeInv, Places, webhookVars
  <2>3. QED BY <1>10, <2>1, <2>2 DEF CheckDuplicate
<1>11. CASE InsertEvent(r)
  <2>1. event[r] \in EventIds
    BY <1>3, <1>11 DEF InsertEvent
  <2>2. [work EXCEPT !.events = work.events \cup {event[r]}] \in Tables
    BY <1>2, <2>1, TablesUpdate
  <2>3. DatabaseTypeOK'
    BY <1>11, <2>2, SessionTyped DEF InsertEvent, TypeInv
  <2>4. event[r].kind \in {"invoice", "transfer", "other"}
    BY <2>1, EventKinds
  <2>5. QED BY <1>2, <1>4, <1>11, <2>1, <2>3, <2>4, UntouchedTyped
        DEF InsertEvent, TypeInv, Places, webhookVars
<1>12. CASE InsertCollides(r)
  BY <1>2, <1>5, <1>12, AnswersAre, UntouchedTyped DEF InsertCollides, TypeInv
<1>13. CASE InsertTimesOut(r)
  BY <1>5, <1>13, AnswersAre, FaultTyped, UntouchedTyped DEF InsertTimesOut, TypeInv, FaultKinds
<1>14. ASSUME pc[r] = "invoice"
       PROVE  /\ event[r].id \in Invoices /\ event[r].type \in InvoiceStatus
              /\ event[r] \in Causes
              /\ WithInvoiceStatus(work, event[r].id, event[r].type) \in Tables
  <2>1. event[r] \in EventIds /\ event[r].kind = "invoice"
    BY <1>14 DEF TypeInv, Positions, RequestAt
  <2>2. event[r].id \in Invoices /\ event[r].type \in InvoiceStatus /\ event[r] \in Causes
    BY <2>1, EventKinds
  <2>3. QED BY <1>2, <2>2, WithInvoiceStatusTyped
<1>15. CASE RecordInvoiceEvent(r)
  <2>1. DatabaseTypeOK'
    BY <1>14, <1>15, SessionTyped DEF RecordInvoiceEvent, TypeInv
  <2>2. QED BY <1>2, <1>3, <1>4, <1>15, <2>1, UntouchedTyped
        DEF RecordInvoiceEvent, TypeInv, Places, webhookVars
<1>16. CASE DispatchCredited(r)
  <2>1. /\ DatabaseTypeOK' /\ TransferTypeOK' /\ order'[r] \in TransferRow /\ pc'[r] = "sending"
        /\ \A q \in Processes \ {r} : pc'[q] = pc[q] /\ order'[q] = order[q]
    BY <1>14, <1>16, StartTyped DEF DispatchCredited
  <2>2. RequestAt(r)' /\ OrderAt(r)'
    BY <1>3, <1>16, <2>1 DEF RequestAt, OrderAt, DispatchCredited, webhookVars
  <2>3. Positions'
    BY <1>16, <2>1, <2>2, StepPositions DEF DispatchCredited, TypeInv, webhookVars, reconcileVars
  <2>4. QED BY <1>1, <1>16, <2>1, <2>3, UntouchedTyped DEF DispatchCredited, TypeInv, TypeOK
<1>17. ASSUME NEW a \in Answers, FailRequest(r, a), pc[r] # "idle",
              UNCHANGED <<bankVars, order, lastRow, faults>>
       PROVE  TypeInv'
  <2>1. DatabaseTypeOK'
    BY <1>2, <1>17, SessionTyped DEF FailRequest, TypeInv
  <2>2. QED BY <1>2, <1>5, <1>17, <2>1 DEF FailRequest
<1>18. CASE RefuseCredited(r)
  BY <1>17, <1>18, AnswersAre DEF RefuseCredited
<1>19. CASE AbandonCredited(r)
  BY <1>17, <1>19, MappedIsAnswer DEF AbandonCredited
<1>20. CASE UpdateTransfer(r)
  <2>1. SnapshotOf(event[r]) \subseteq TransferStatus
    BY DEF SnapshotOf
  <2>2. PICK row \in RowsOf(event[r]), s \in SnapshotOf(event[r]) :
          Flush(r, [work EXCEPT !.transfers =
                      (work.transfers \ {row}) \cup {[row EXCEPT !.status = s]}])
    BY <1>20 DEF UpdateTransfer
  <2>3. work.transfers \subseteq TransferRow
    BY <1>2, TablesUpdate
  <2>4. [row EXCEPT !.status = s] \in TransferRow
    BY <2>1, <2>3 DEF RowsOf, TransferRow
  <2>5. (work.transfers \ {row}) \cup {[row EXCEPT !.status = s]} \in SUBSET TransferRow
    BY <2>3, <2>4
  <2>6. DatabaseTypeOK'
    BY <1>2, <2>2, <2>5, TablesUpdate, SessionTyped DEF TypeInv
  <2>7. WebhookTypeOK'
    BY <1>20 DEF UpdateTransfer, TypeInv, TypeOK, WebhookTypeOK, MaxLookups
  <2>8. Goto(r, "recorded") /\ UNCHANGED <<bankVars, order, lastRow, faults, event, answer>>
    BY <1>20 DEF UpdateTransfer
  <2>9. event[r] \in EventIds /\ pc[r] # "idle"
    BY <1>20 DEF UpdateTransfer, TypeInv, Positions, RequestAt
  <2>10. QED BY <1>2, <1>4, <2>6, <2>7, <2>8, <2>9, UntouchedTyped DEF TypeInv, Places
<1>21. CASE MissTransfer(r)
  <2>1. WebhookTypeOK'
    BY <1>21 DEF MissTransfer, TypeInv, TypeOK, WebhookTypeOK, MaxLookups
  <2>2. event[r] \in EventIds /\ event[r].kind = "transfer" /\ pc[r] = "transfer"
    BY <1>21 DEF MissTransfer, TypeInv, Positions, RequestAt
  <2>3. Goto(r, "transfer") \/ Goto(r, "recorded")
    BY <1>21 DEF MissTransfer, Goto, TypeInv, TypeOK, TransferTypeOK
  <2>4. QED BY <1>2, <1>4, <1>21, <2>1, <2>2, <2>3, UntouchedTyped DEF MissTransfer, TypeInv, Places
<1>22. CASE CommitEvent(r)
  <2>1. DatabaseTypeOK'
    BY <1>2, <1>22, SessionTyped DEF CommitEvent, TypeInv
  <2>2. QED BY <1>2, <1>5, <1>22, <2>1, AnswersAre DEF CommitEvent
<1>23. ASSUME ReleaseSlot(r), acked' \in SUBSET EventIds, faults' \in [FaultKinds -> Nat]
       PROVE  TypeInv'
  <2>1. WebhookTypeOK'
    BY <1>23 DEF ReleaseSlot, TypeInv, TypeOK, WebhookTypeOK
  <2>2. BankTypeOK'
    BY <1>23 DEF ReleaseSlot, TypeInv, TypeOK, BankTypeOK
  <2>3. \A q \in Requests \ {r} : event'[q] = event[q]
    BY <1>23 DEF ReleaseSlot, TypeInv, TypeOK, WebhookTypeOK
  <2>4. QED BY <1>4, <1>23, <2>1, <2>2, <2>3, UntouchedTyped DEF ReleaseSlot, TypeInv, Places
<1>24. CASE AnswerArrives(r)
  <2>1. acked \cup {event[r]} \in SUBSET EventIds /\ acked \in SUBSET EventIds
    BY <1>3, <1>24 DEF AnswerArrives, ReleaseSlot, TypeInv, TypeOK, BankTypeOK
  <2>2. QED BY <1>2, <1>23, <1>24, <2>1 DEF AnswerArrives
<1>25. CASE AnswerLost(r)
  BY <1>23, <1>25, FaultTyped DEF AnswerLost, TypeInv, TypeOK, BankTypeOK, FaultKinds
<1>26. QED BY <1>6, <1>7, <1>8, <1>9, <1>10, <1>11, <1>12, <1>13, <1>15, <1>16, <1>18, <1>19,
              <1>20, <1>21, <1>22, <1>24, <1>25 DEF WebhookStep

(* The rows a reconciliation loads. *)
LEMMA PendingTyped ==
  ASSUME TypeOK
  PROVE  PendingInvoices \subseteq InvoiceItem /\ PendingTransfers \subseteq TransferItem
<1>1. db.transfers \subseteq TransferRow
  BY TablesUpdate DEF TypeOK, DatabaseTypeOK
<1>2. PendingInvoices \subseteq InvoiceItem
  <2>1. \A i \in Invoices :
          db.invoices[i] \in PendingInvoiceStatus =>
            [id |-> i, status |-> db.invoices[i]] \in InvoiceItem
    <3>1. db.invoices \in [Invoices -> InvoiceStatus \cup {None}]
      BY TablesUpdate DEF TypeOK, DatabaseTypeOK
    <3>2. \A i \in Invoices : db.invoices[i] \in PendingInvoiceStatus => db.invoices[i] \in InvoiceStatus
      BY <3>1, NoneIsNoStatus DEF PendingInvoiceStatus, TransferStatus, InvoiceStatus
    <3>3. QED BY <3>2 DEF InvoiceItem
  <2>2. QED BY <2>1 DEF PendingInvoices
<1>3. PendingTransfers \subseteq TransferItem
  <2>1. \A row \in db.transfers : [id |-> row.id, status |-> row.status] \in TransferItem
    BY <1>1 DEF TransferRow, TransferItem
  <2>2. QED BY <2>1 DEF PendingTransfers
<1>4. QED BY <1>2, <1>3

(* The reconciliation. *)
LEMMA ReconcileTypes ==
  ASSUME TypeInv, NEW p \in Reconcilers, LoadInvoices(p) \/ ReconcileStep(p),
         UNCHANGED webhookVars
  PROVE  TypeInv'
<1> p \in Processes /\ p \notin Requests
  BY ProcessesAssumption DEF Processes
<1>1. WebhookTypeOK'
  BY UntouchedTyped DEF TypeInv
<1>2. work \in Tables /\ faults \in [FaultKinds -> Nat] /\ TypeOK
  BY DEF TypeInv, TypeOK, DatabaseTypeOK, TransferTypeOK
<1> DEFINE OnlyAt(f, g) == g = [f EXCEPT ![p] = g[p]]
<1>3. ASSUME NEW label \in Places \ {"sending", "executed"}, Goto(p, label),
             UNCHANGED <<order, lastRow, aged>>,
             faults' \in [FaultKinds -> Nat], DatabaseTypeOK', BankTypeOK',
             OnlyAt(loaded, loaded'), OnlyAt(changes, changes'), OnlyAt(item, item'),
             item'[p] \in Invoices \cup {None}, label = "checking" => item'[p] \in Invoices,
             \/ /\ label \in {"invoices", "checking"}
                /\ loaded'[p] \subseteq InvoiceItem /\ changes'[p] \subseteq InvoiceItem
             \/ /\ label = "transfers"
                /\ loaded'[p] \subseteq TransferItem /\ changes'[p] \subseteq TransferItem
             \/ /\ label \in {"idle", "loading"}
                /\ loaded'[p] \subseteq StatusOf /\ changes'[p] = {}
      PROVE  TypeInv'
  <2>1. TransferTypeOK'
    BY <1>2, <1>3, GotoTyped DEF TypeOK, TransferTypeOK
  <2>2. loaded'[p] \subseteq StatusOf /\ changes'[p] \subseteq StatusOf
    BY <1>3 DEF StatusOf, InvoiceItem, TransferItem
  <2>3. ReconcileTypeOK'
    BY <1>2, <1>3, <2>2 DEF TypeOK, ReconcileTypeOK
  <2>4. pc'[p] = label /\ \A q \in Processes \ {p} : pc'[q] = pc[q]
    BY <1>2, <1>3, GotoTyped
  <2>5. \A q \in Reconcilers \ {p} :
          loaded'[q] = loaded[q] /\ changes'[q] = changes[q] /\ item'[q] = item[q]
    BY <1>2, <1>3 DEF TypeOK, ReconcileTypeOK
  <2>6. JobAt(p)' /\ OrderAt(p)'
    BY <1>3, <2>4 DEF JobAt, OrderAt, InPayout
  <2>7. Positions'
    BY <1>3, <2>4, <2>5, <2>6, StepPositions DEF TypeInv, webhookVars
  <2>8. QED BY <1>1, <1>3, <2>1, <2>3, <2>7 DEF TypeInv, TypeOK
<1> DEFINE Job(L, C, I) == /\ OnlyAt(loaded, loaded') /\ loaded'[p] = L
                           /\ OnlyAt(changes, changes') /\ changes'[p] = C
                           /\ OnlyAt(item, item') /\ item'[p] = I
<1>4. /\ loaded \in [Reconcilers -> SUBSET StatusOf] /\ loaded[p] \subseteq StatusOf
      /\ changes \in [Reconcilers -> SUBSET StatusOf]
      /\ item \in [Reconcilers -> Invoices \cup {None}] /\ item[p] \in Invoices \cup {None}
      /\ pc = [pc EXCEPT ![p] = pc[p]]
  BY <1>2 DEF TypeOK, ReconcileTypeOK, TransferTypeOK
<1>5. JobAt(p)
  BY DEF TypeInv, Positions
<1>6. ASSUME pc[p] \in {"invoices", "checking"}
      PROVE  /\ loaded[p] \subseteq InvoiceItem /\ changes[p] \subseteq InvoiceItem
             /\ Flushed(p) \in Tables
  BY <1>2, <1>5, <1>6, FlushInvoicesTyped DEF JobAt, Flushed
<1>7. CASE LoadInvoices(p)
  <2>1. PendingInvoices \subseteq InvoiceItem /\ changes[p] = {}
    BY <1>2, <1>5, <1>7, PendingTyped DEF LoadInvoices, JobAt
  <2>2. Job(PendingInvoices, {}, item[p])
    BY <1>4, <1>7, <2>1 DEF LoadInvoices
  <2>3. QED BY <1>2, <1>3, <1>4, <1>7, <2>1, <2>2, UntouchedTyped DEF LoadInvoices, Places
<1>8. ASSUME NEW x \in loaded[p], FetchInvoice(p, x)
      PROVE  TypeInv'
  <2>1. loaded[p] \ {x} \subseteq InvoiceItem /\ x.id \in Invoices
    BY <1>6, <1>8 DEF FetchInvoice, InvoiceItem
  <2>2. changes[p] \cup Change(x, bankInvoices[x.id]) \subseteq InvoiceItem
    <3>1. bankInvoices[x.id] \in InvoiceStatus \cup {None}
      BY <1>2, <2>1 DEF TypeOK, BankTypeOK
    <3>2. Change(x, bankInvoices[x.id]) \subseteq InvoiceItem
      BY <2>1, <3>1 DEF Change, InvoiceItem
    <3>3. QED BY <1>6, <1>8, <3>2 DEF FetchInvoice
  <2>3. CASE Paid(bankInvoices[x.id])
    <3>1. Job(loaded[p] \ {x}, changes[p] \cup Change(x, bankInvoices[x.id]), x.id)
      BY <1>4, <1>8, <2>3 DEF FetchInvoice, Advance
    <3>2. Goto(p, "checking")
      BY <1>8, <2>3 DEF FetchInvoice
    <3>3. QED BY <1>2, <1>3, <1>8, <2>1, <2>2, <3>1, <3>2, UntouchedTyped DEF FetchInvoice, Places
  <2>4. CASE ~Paid(bankInvoices[x.id])
    <3>1. Job(loaded[p] \ {x}, changes[p] \cup Change(x, bankInvoices[x.id]), item[p])
      BY <1>4, <1>8, <2>4 DEF FetchInvoice, Advance
    <3>2. Goto(p, "invoices")
      BY <1>4, <1>8, <2>4 DEF FetchInvoice, Goto
    <3>3. QED BY <1>2, <1>3, <1>4, <1>8, <2>1, <2>2, <3>1, <3>2, UntouchedTyped
          DEF FetchInvoice, Places
  <2>5. QED BY <2>3, <2>4
<1>9. ASSUME NEW x \in loaded[p], FetchFails(p, x)
      PROVE  TypeInv'
  <2>1. Job(loaded[p] \ {x}, changes[p], item[p]) /\ Goto(p, pc[p])
    BY <1>4, <1>9 DEF FetchFails, Advance, Goto
  <2>2. faults' \in [FaultKinds -> Nat]
    BY <1>2, <1>9, FaultTyped DEF FetchFails, FaultKinds
  <2>3. CASE pc[p] = "invoices"
    <3>1. loaded[p] \ {x} \subseteq InvoiceItem /\ changes[p] \subseteq InvoiceItem
      BY <1>6, <2>3
    <3>2. QED BY <1>2, <1>3, <1>4, <1>9, <2>1, <2>2, <2>3, <3>1, UntouchedTyped
          DEF FetchFails, Places
  <2>4. CASE pc[p] = "transfers"
    <3>1. loaded[p] \ {x} \subseteq TransferItem /\ changes[p] \subseteq TransferItem
      BY <1>5, <2>4 DEF JobAt
    <3>2. QED BY <1>2, <1>3, <1>4, <1>9, <2>1, <2>2, <2>4, <3>1, UntouchedTyped
          DEF FetchFails, Places
  <2>5. QED BY <1>9, <2>3, <2>4 DEF FetchFails
<1>10. ASSUME NEW x \in loaded[p], FetchTransfer(p, x)
       PROVE  TypeInv'
  <2>1. PICK t \in bankTransfers : t.id = x.id /\ Advance(p, x, Change(x, t.status))
    BY <1>10 DEF FetchTransfer
  <2>2. loaded[p] \ {x} \subseteq TransferItem /\ x.id \in Nat /\ changes[p] \subseteq TransferItem
    BY <1>5, <1>10 DEF FetchTransfer, JobAt, TransferItem
  <2>3. Change(x, t.status) \subseteq TransferItem
    BY <1>2, <2>2 DEF Change, TransferItem, TypeOK, BankTypeOK, BankTransfer, TransferStatus
  <2>4. Job(loaded[p] \ {x}, changes[p] \cup Change(x, t.status), item[p]) /\ Goto(p, "transfers")
    BY <1>4, <1>10, <2>1 DEF FetchTransfer, Advance, Goto
  <2>5. QED BY <1>2, <1>3, <1>4, <1>10, <2>2, <2>3, <2>4, UntouchedTyped DEF FetchTransfer, Places
<1>11. CASE PayMissing(p)
  <2>1. pc[p] = "checking" /\ item[p] \in Invoices
    BY <1>5, <1>11 DEF PayMissing, JobAt
  <2>2. ReconcileId(item[p]) \in Causes
    BY <2>1 DEF Causes
  <2>3. /\ DatabaseTypeOK' /\ TransferTypeOK' /\ order'[p] \in TransferRow /\ pc'[p] = "sending"
        /\ \A q \in Processes \ {p} : pc'[q] = pc[q] /\ order'[q] = order[q]
    BY <1>6, <1>11, <2>1, <2>2, StartTyped DEF PayMissing
  <2>4. ReconcileTypeOK'
    BY <1>2, <1>11 DEF PayMissing, TypeOK, ReconcileTypeOK
  <2>5. loaded'[p] = loaded[p] /\ changes'[p] = {}
    BY <1>2, <1>11 DEF PayMissing, TypeOK, ReconcileTypeOK
  <2>6. JobAt(p)' /\ OrderAt(p)'
    BY <1>6, <2>1, <2>3, <2>5 DEF JobAt, OrderAt, InPayout
  <2>7. Positions'
    BY <1>2, <1>11, <2>3, <2>6, StepPositions DEF PayMissing, TypeInv, webhookVars, TypeOK,
                                                  ReconcileTypeOK
  <2>8. QED BY <1>1, <1>11, <2>3, <2>4, <2>7, <1>2, UntouchedTyped DEF PayMissing, TypeInv, TypeOK
<1>12. CASE SkipPayout(p)
  <2>1. DatabaseTypeOK'
    BY <1>2, <1>6, <1>12, SessionTyped DEF SkipPayout
  <2>2. Job(loaded[p], {}, None) /\ loaded[p] \subseteq InvoiceItem
    BY <1>4, <1>6, <1>12 DEF SkipPayout
  <2>3. QED BY <1>2, <1>3, <1>12, <2>1, <2>2, UntouchedTyped DEF SkipPayout, Places
<1>13. CASE NextInvoice(p)
  <2>1. loaded[p] \subseteq InvoiceItem /\ changes[p] \subseteq InvoiceItem
    BY <1>5, <1>13 DEF NextInvoice, JobAt, InPayout
  <2>2. Job(loaded[p], changes[p], item[p])
    BY <1>4, <1>13 DEF NextInvoice, reconcileVars
  <2>3. QED BY <1>2, <1>3, <1>4, <1>13, <2>1, <2>2, UntouchedTyped
        DEF NextInvoice, Places, reconcileVars
<1>14. ASSUME NEW tables \in Tables, EndPhase(p, tables)
       PROVE  DatabaseTypeOK'
  BY <1>2, <1>14, SessionTyped DEF EndPhase
<1>15. CASE EndInvoices(p)
  <2>1. DatabaseTypeOK'
    BY <1>6, <1>14, <1>15 DEF EndInvoices
  <2>2. Job(loaded[p], {}, item[p])
    BY <1>4, <1>15 DEF EndInvoices, EndPhase
  <2>3. UNCHANGED <<bankVars, order, lastRow, faults, aged>>
    BY <1>15 DEF EndInvoices, EndPhase
  <2>4. QED BY <1>2, <1>3, <1>4, <1>15, <2>1, <2>2, <2>3, UntouchedTyped DEF EndInvoices, Places
<1>16. CASE LoadTransfers(p)
  <2>1. PendingTransfers \subseteq TransferItem /\ changes[p] = {}
    BY <1>2, <1>5, <1>16, PendingTyped DEF LoadTransfers, JobAt
  <2>2. Job(PendingTransfers, {}, item[p])
    BY <1>4, <1>16, <2>1 DEF LoadTransfers
  <2>3. QED BY <1>2, <1>3, <1>4, <1>16, <2>1, <2>2, UntouchedTyped DEF LoadTransfers, Places
<1>17. CASE EndTransfers(p)
  <2>1. FlushTransfers(work, changes[p]) \in Tables
    BY <1>2, <1>5, <1>17, FlushTransfersTyped DEF EndTransfers, JobAt
  <2>2. DatabaseTypeOK'
    BY <1>14, <1>17, <2>1 DEF EndTransfers
  <2>3. Job(loaded[p], {}, item[p])
    BY <1>4, <1>17 DEF EndTransfers, EndPhase
  <2>4. UNCHANGED <<bankVars, order, lastRow, faults, aged>>
    BY <1>17 DEF EndTransfers, EndPhase
  <2>5. QED BY <1>2, <1>3, <1>4, <1>17, <2>2, <2>3, <2>4, UntouchedTyped DEF EndTransfers, Places
<1>18. CASE AbortJob(p)
  <2>1. Job({}, {}, None)
    BY <1>4, <1>18 DEF AbortJob
  <2>2. faults' \in [FaultKinds -> Nat]
    BY <1>2, <1>18, FaultTyped DEF AbortJob, FaultKinds
  <2>3. QED BY <1>2, <1>3, <1>18, <2>1, <2>2, UntouchedTyped DEF AbortJob, Places
<1>19. QED BY <1>7, <1>8, <1>9, <1>10, <1>11, <1>12, <1>13, <1>15, <1>16, <1>17, <1>18
           DEF ReconcileStep

(* An item leaves the window. *)
LEMMA AgeTypes ==
  ASSUME TypeInv, NEW x \in Invoices \cup 1..lastRow, AgeOut(x), UNCHANGED webhookVars
  PROVE  TypeInv'
<1>1. x \in Invoices \cup Nat
  BY DEF TypeInv, TypeOK, TransferTypeOK
<1>2. ReconcileTypeOK'
  BY <1>1 DEF TypeInv, TypeOK, ReconcileTypeOK, AgeOut
<1>3. TransferTypeOK'
  BY FaultTyped DEF TypeInv, TypeOK, TransferTypeOK, AgeOut, FaultKinds
<1>4. Positions'
  BY DEF TypeInv, Positions, RequestAt, OrderAt, JobAt, AgeOut, webhookVars
<1>5. QED BY <1>2, <1>3, <1>4, UntouchedTyped DEF TypeInv, TypeOK, AgeOut

-----------------------------------------------------------------------------
(* Every step keeps the types. *)
LEMMA NextTypes ==
  ASSUME TypeInv, [Next]_vars
  PROVE  TypeInv'
<1>1. CASE TransferNext /\ UNCHANGED <<webhookVars, reconcileVars>>
  BY <1>1, TransferTypes DEF TransferNext
<1>2. CASE WebhookNext /\ UNCHANGED reconcileVars
  BY <1>2, WebhookTypes DEF WebhookNext
<1>3. CASE ReconcileNext /\ UNCHANGED webhookVars
  BY <1>3, ReconcileTypes, AgeTypes DEF ReconcileNext
<1>4. CASE IssueNext /\ UNCHANGED <<webhookVars, reconcileVars>>
  BY <1>4, IssueTypes
<1>5. CASE BankNext /\ UNCHANGED <<dbVars, transferVars, webhookVars, reconcileVars>>
  BY <1>5, BankTypes
<1>6. CASE \E w \in Workers : Crash(w)
  BY <1>6, CrashTypes
<1>7. CASE UNCHANGED vars
  BY <1>7, UntouchedTyped DEF TypeInv, TypeOK, TransferTypeOK, Positions, RequestAt, OrderAt,
       JobAt, vars, transferVars, webhookVars, reconcileVars
<1>8. QED BY <1>1, <1>2, <1>3, <1>4, <1>5, <1>6, <1>7 DEF Next

(* In every reachable state the variables of the money path have their       *)
(* types, and what a request or a job works on fits the place it is at.      *)
THEOREM TypeInvariant == Spec => []TypeInv
<1>1. Init => TypeInv
  BY InitTypes
<1>2. TypeInv /\ [Next]_vars => TypeInv'
  BY NextTypes
<1>3. QED BY <1>1, <1>2, PTL DEF Spec

(* Tables, rows and the places of the processes stay within their types.     *)
THEOREM TypeCorrect == Spec => []TypeOK
<1>1. TypeInv => TypeOK
  BY DEF TypeInv
<1>2. QED BY <1>1, TypeInvariant, PTL

-----------------------------------------------------------------------------
(***************************************************************************)
(* The write lock of the database.  Where a process is decides whether it  *)
(* holds the lock; so payouts exclude each other across all workers, and   *)
(* nobody keeps the lock when the transaction is over.  Then what that     *)
(* means for a request: once it has inserted its event no other process    *)
(* changes a table before it is answered, so what it did not find it will  *)
(* not find, and when it fails, all it wrote is undone.                    *)
(***************************************************************************)

(* A step of p that takes or gives back nobody else's lock.                *)
LEMMA StepLocks ==
  ASSUME LockPositions, NEW p \in Processes,
         \A q \in Processes \ {p} : pc'[q] = pc[q],
         writer' = writer \/ (writer \in {None, p} /\ writer' \in {None, p}),
         LockAt(p)', writer' = None => work' = db'
  PROVE  LockPositions'
<1>1. \A q \in Processes \ {p} : LockAt(q)'
  BY NoneIsNoStatus DEF LockPositions, LockAt
<1>2. QED BY <1>1 DEF LockPositions

(* The three ways in which a session ends a step. *)
LEMMA SessionLocks ==
  ASSUME LockPositions, NEW p \in Processes, NEW tables
  PROVE  /\ Flush(p, tables) => writer \in {None, p} /\ writer' = p
         /\ Commit(p, tables) => writer \in {None, p} /\ writer' = None /\ work' = db'
         /\ Rollback(p) => /\ writer' # p
                           /\ writer' = writer \/ (writer = p /\ writer' = None)
                           /\ writer' = None => work' = db'
         /\ UNCHANGED dbVars => writer' = writer /\ (writer' = None => work' = db')
         /\ p # None
BY NoneIsNoStatus DEF LockPositions, Flush, Commit, Rollback, dbVars

(* At the start nobody writes and nobody is in a transaction. *)
LEMMA InitLocks == Init => LockPositions
BY NoneIsNoStatus DEF Init, DatabaseInit, TransferInit, LockPositions, LockAt, InTransaction,
   InPayout, Processes

(* A payout keeps the lock of the session it is in. *)
LEMMA TransferLocks ==
  ASSUME TypeInv, LockPositions, NEW p \in Requests \cup Reconcilers, TransferStep(p)
  PROVE  LockPositions'
<1> p \in Processes /\ p \notin Batches /\ p # None
  BY ProcessesAssumption, NoneIsNoStatus DEF Processes
<1>1. writer = p
  BY DEF TransferStep, BankExecutes, BankReplies, BankRepliesEmpty, CallFails, LockPositions,
         LockAt, InPayout
<1>2. UNCHANGED writer
  BY DEF TransferStep, BankExecutes, BankReplies, BankRepliesEmpty, CallFails, SettleRow, dbVars
<1>3. PICK label \in {"executed", "transferred", "transferFailed"} : Goto(p, label)
  BY DEF TransferStep, BankExecutes, BankReplies, BankRepliesEmpty, CallFails, SettleRow
<1>4. pc'[p] = label /\ \A q \in Processes \ {p} : pc'[q] = pc[q]
  BY <1>3, GotoTyped DEF Places, TypeInv
<1>5. LockAt(p)'
  BY <1>1, <1>2, <1>4 DEF LockAt, InTransaction, InPayout
<1>6. QED BY <1>1, <1>2, <1>4, <1>5, StepLocks

(* A batch holds the lock while it talks to the bank, and only then. *)
LEMMA IssueLocks ==
  ASSUME TypeInv, LockPositions, IssueNext
  PROVE  LockPositions'
<1>1. PICK b \in Batches : OpenBatch(b) \/ OpenBatchTimesOut(b) \/ BankIssues(b)
                             \/ RecordBatch(b) \/ FailBatch(b)
  BY DEF IssueNext
<1> b \in Processes /\ b \notin Requests /\ b \notin Reconcilers
  BY ProcessesAssumption DEF Processes
<1>2. ASSUME NEW label \in {"issuing", "issued", "done"}, Goto(b, label),
             writer' = writer \/ (writer \in {None, b} /\ writer' \in {None, b}),
             writer' = b <=> label \in InTransaction.batch, writer' = None => work' = db'
      PROVE  LockPositions'
  <2>1. pc'[b] = label /\ \A q \in Processes \ {b} : pc'[q] = pc[q]
    BY <1>2, GotoTyped DEF Places, TypeInv
  <2>2. LockAt(b)'
    BY <1>2, <2>1 DEF LockAt, InPayout
  <2>3. QED BY <1>2, <2>1, <2>2, StepLocks
<1>3. LockAt(b)
  BY DEF LockPositions
<1>4. CASE OpenBatch(b)
  BY <1>2, <1>4, SessionLocks DEF OpenBatch, InTransaction
<1>5. CASE OpenBatchTimesOut(b)
  BY <1>2, <1>3, <1>5, SessionLocks DEF OpenBatchTimesOut, BatchAt, InTransaction, LockAt
<1>6. CASE BankIssues(b)
  BY <1>2, <1>3, <1>6, SessionLocks DEF BankIssues, BatchAt, InTransaction, LockAt
<1>7. CASE RecordBatch(b)
  BY <1>2, <1>7, SessionLocks DEF RecordBatch, InTransaction
<1>8. CASE FailBatch(b)
  BY <1>2, <1>8, SessionLocks DEF FailBatch, InTransaction
<1>9. QED BY <1>1, <1>4, <1>5, <1>6, <1>7, <1>8

(* A request takes the lock with its event and gives it back at its end. *)
LEMMA WebhookLocks ==
  ASSUME TypeInv, LockPositions, NEW r \in Requests,
         WebhookStep(r) \/ \E e \in Emitted \ acked : Deliver(r, e)
  PROVE  LockPositions'
<1> r \in Processes /\ r \notin Reconcilers /\ r \notin Batches
  BY ProcessesAssumption DEF Processes
<1>1. LockAt(r)
  BY DEF LockPositions
<1>2. ASSUME NEW label \in Places, Goto(r, label),
             writer' = writer \/ (writer \in {None, r} /\ writer' \in {None, r}),
             writer' = r <=> label \in InTransaction.request, writer' = None => work' = db'
      PROVE  LockPositions'
  <2>1. pc'[r] = label /\ \A q \in Processes \ {r} : pc'[q] = pc[q]
    BY <1>2, GotoTyped DEF TypeInv
  <2>2. LockAt(r)'
    BY <1>2, <2>1 DEF LockAt, InPayout, InTransaction
  <2>3. QED BY <1>2, <2>1, <2>2, StepLocks
<1>3. ASSUME NEW label \in Places \ InTransaction.request, Goto(r, label),
             pc[r] \notin InTransaction.request, UNCHANGED dbVars
      PROVE  LockPositions'
  BY <1>1, <1>2, <1>3, SessionLocks DEF LockAt
<1>4. ASSUME NEW label \in {"recorded", "sending"}, Goto(r, label), NEW tables, Flush(r, tables)
      PROVE  LockPositions'
  BY <1>2, <1>4, SessionLocks DEF InTransaction, InPayout, Places
<1>5. ASSUME NEW a, Respond(r, a)
      PROVE  Goto(r, "answered")
  BY <1>5 DEF Respond
<1>6. ASSUME NEW e \in Emitted \ acked, Deliver(r, e)
      PROVE  LockPositions'
  BY <1>3, <1>6 DEF Deliver, InTransaction, InPayout, Places
<1>7. CASE Parse(r) \/ ParseFails(r) \/ AcquireWebhookLock(r)
  BY <1>3, <1>7 DEF Parse, ParseFails, AcquireWebhookLock, InTransaction, InPayout, Places
<1>8. CASE CheckDuplicate(r) \/ InsertCollides(r) \/ InsertTimesOut(r)
  <2>1. Goto(r, "answered") \/ Goto(r, "inserting")
    BY <1>5, <1>8 DEF CheckDuplicate, InsertCollides, InsertTimesOut
  <2>2. pc[r] \in {"checking", "inserting"} /\ UNCHANGED dbVars
    BY <1>8 DEF CheckDuplicate, InsertCollides, InsertTimesOut
  <2>3. QED BY <1>3, <2>1, <2>2 DEF InTransaction, InPayout, Places
<1>9. CASE InsertEvent(r)
  <2>1. event[r].kind \in {"invoice", "transfer", "other"}
    BY <1>9, EventKinds DEF InsertEvent, TypeInv, Positions, RequestAt
  <2>2. Goto(r, event[r].kind) /\ writer \in {None, r} /\ writer' = r
    BY <1>9, SessionLocks DEF InsertEvent
  <2>3. QED BY <1>2, <2>1, <2>2, SessionLocks DEF InTransaction, InPayout, Places
<1>10. CASE RecordInvoiceEvent(r)
  BY <1>4, <1>10 DEF RecordInvoiceEvent
<1>11. CASE DispatchCredited(r)
  BY <1>4, <1>11 DEF DispatchCredited, StartTransfer
<1>12. ASSUME NEW a, FailRequest(r, a)
       PROVE  LockPositions'
  <2>1. Goto(r, "answered") /\ writer' # r /\ (writer' = None => work' = db')
        /\ (writer' = writer \/ (writer = r /\ writer' = None))
    BY <1>5, <1>12, SessionLocks DEF FailRequest
  <2>2. QED BY <1>2, <2>1 DEF InTransaction, InPayout, Places
<1>13. CASE RefuseCredited(r) \/ AbandonCredited(r)
  BY <1>12, <1>13 DEF RefuseCredited, AbandonCredited
<1>14. CASE UpdateTransfer(r)
  BY <1>4, <1>14 DEF UpdateTransfer
<1>15. CASE MissTransfer(r)
  <2>1. pc[r] = "transfer" /\ writer = r /\ UNCHANGED dbVars
    BY <1>1, <1>15 DEF MissTransfer, LockAt, InTransaction
  <2>2. Goto(r, "transfer") \/ Goto(r, "recorded")
    BY <1>15 DEF MissTransfer, Goto, TypeInv, TypeOK, TransferTypeOK
  <2>3. QED BY <1>2, <2>1, <2>2, SessionLocks DEF InTransaction, InPayout, Places
<1>16. CASE CommitEvent(r)
  <2>1. Goto(r, "answered") /\ writer \in {None, r} /\ writer' = None /\ work' = db'
    BY <1>5, <1>16, SessionLocks DEF CommitEvent
  <2>2. QED BY <1>2, <2>1, SessionLocks DEF InTransaction, InPayout, Places
<1>17. CASE AnswerArrives(r) \/ AnswerLost(r)
  BY <1>3, <1>17 DEF AnswerArrives, AnswerLost, ReleaseSlot, InTransaction, InPayout, Places
<1>18. QED BY <1>6, <1>7, <1>8, <1>9, <1>10, <1>11, <1>13, <1>14, <1>15, <1>16, <1>17
           DEF WebhookStep

(* A reconciliation takes the lock when it first writes. *)
LEMMA ReconcileLocks ==
  ASSUME TypeInv, LockPositions, NEW p \in Reconcilers, LoadInvoices(p) \/ ReconcileStep(p)
  PROVE  LockPositions'
<1> p \in Processes /\ p \notin Requests /\ p \notin Batches
  BY ProcessesAssumption DEF Processes
<1>1. LockAt(p)
  BY DEF LockPositions
<1>2. ASSUME NEW label \in Places, Goto(p, label),
             writer' = writer \/ (writer \in {None, p} /\ writer' \in {None, p}),
             writer' = p => label \in InTransaction.job, label \in InPayout => writer' = p,
             writer' = None => work' = db'
      PROVE  LockPositions'
  <2>1. pc'[p] = label /\ \A q \in Processes \ {p} : pc'[q] = pc[q]
    BY <1>2, GotoTyped DEF TypeInv
  <2>2. LockAt(p)'
    BY <1>2, <2>1 DEF LockAt
  <2>3. QED BY <1>2, <2>1, <2>2, StepLocks
<1>3. ASSUME NEW label \in {"invoices", "checking"}, Goto(p, label), UNCHANGED dbVars
      PROVE  LockPositions'
  BY <1>2, <1>3, SessionLocks DEF InTransaction, InPayout, Places
<1>4. ASSUME NEW label \in {"idle", "loading", "transfers"}, Goto(p, label),
             pc[p] \notin InTransaction.job, UNCHANGED dbVars
      PROVE  LockPositions'
  BY <1>1, <1>2, <1>4, SessionLocks DEF LockAt, InTransaction, InPayout, Places
<1>5. ASSUME UNCHANGED <<dbVars, pc>>
      PROVE  LockPositions'
  BY <1>5 DEF dbVars, LockPositions, LockAt
<1>6. ASSUME NEW x \in loaded[p], FetchInvoice(p, x) \/ FetchFails(p, x) \/ FetchTransfer(p, x)
      PROVE  LockPositions'
  BY <1>3, <1>5, <1>6 DEF FetchInvoice, FetchFails, FetchTransfer
<1>7. CASE LoadInvoices(p) \/ NextInvoice(p)
  BY <1>3, <1>7 DEF LoadInvoices, NextInvoice
<1>8. CASE PayMissing(p)
  <2>1. Goto(p, "sending") /\ writer \in {None, p} /\ writer' = p
    BY <1>8, SessionLocks DEF PayMissing, StartTransfer
  <2>2. QED BY <1>2, <2>1, SessionLocks DEF InTransaction, InPayout, Places
<1>9. CASE SkipPayout(p)
  <2>1. Goto(p, "invoices") /\ writer \in {None, p} /\ writer' = p
    BY <1>9, SessionLocks DEF SkipPayout
  <2>2. QED BY <1>2, <2>1, SessionLocks DEF InTransaction, InPayout, Places
<1>10. ASSUME NEW tables, EndPhase(p, tables)
       PROVE  /\ writer' = writer \/ (writer \in {None, p} /\ writer' \in {None, p})
              /\ writer' # p /\ (writer' = None => work' = db')
  BY <1>10, SessionLocks DEF EndPhase, Updated
<1>11. CASE EndInvoices(p)
  <2>1. Goto(p, "loading") /\ EndPhase(p, Flushed(p))
    BY <1>11 DEF EndInvoices
  <2>2. QED BY <1>2, <1>10, <2>1 DEF InPayout, Places
<1>12. CASE EndTransfers(p)
  <2>1. Goto(p, "idle") /\ EndPhase(p, FlushTransfers(work, changes[p]))
    BY <1>12 DEF EndTransfers
  <2>2. QED BY <1>2, <1>10, <2>1 DEF InPayout, Places
<1>13. CASE LoadTransfers(p)
  BY <1>4, <1>13 DEF LoadTransfers, InTransaction, InPayout
<1>14. CASE AbortJob(p)
  <2>1. Goto(p, "idle") /\ writer # p /\ UNCHANGED dbVars
    BY <1>14 DEF AbortJob, LockedOut
  <2>2. QED BY <1>2, <2>1, SessionLocks DEF InPayout, Places, dbVars
<1>15. QED BY <1>6, <1>7, <1>8, <1>9, <1>11, <1>12, <1>13, <1>14 DEF ReconcileStep

(* A crash takes the lock only from a session that is gone. *)
LEMMA CrashLocks ==
  ASSUME TypeInv, LockPositions, NEW w \in Workers, Crash(w)
  PROVE  LockPositions'
<1>1. \A p \in Processes : \/ pc'[p] = pc[p] /\ ~On(w, p)
                           \/ pc'[p] \in {"idle", "done"} /\ On(w, p)
  BY DEF Crash
<1>2. \/ writer # None /\ On(w, writer) /\ writer' = None /\ work' = db'
      \/ (writer = None \/ ~On(w, writer)) /\ UNCHANGED dbVars
  BY DEF Crash, Rollback
<1>3. \A p \in Processes : LockAt(p)'
  BY <1>1, <1>2, NoneIsNoStatus DEF LockPositions, LockAt, InTransaction, InPayout, dbVars
<1>4. QED BY <1>2, <1>3 DEF LockPositions, dbVars

(* Every step keeps places and lock together. *)
LEMMA NextLocks ==
  ASSUME TypeInv, LockPositions, [Next]_vars
  PROVE  LockPositions'
<1>1. ASSUME UNCHANGED <<dbVars, pc>>
      PROVE  LockPositions'
  BY <1>1 DEF dbVars, LockPositions, LockAt
<1>2. CASE TransferNext
  BY <1>2, TransferLocks DEF TransferNext
<1>3. CASE WebhookNext
  BY <1>3, WebhookLocks DEF WebhookNext
<1>4. CASE ReconcileNext
  BY <1>1, <1>4, ReconcileLocks DEF ReconcileNext, AgeOut
<1>5. CASE IssueNext
  BY <1>5, IssueLocks
<1>6. CASE BankNext /\ UNCHANGED <<dbVars, transferVars, webhookVars, reconcileVars>>
  BY <1>1, <1>6 DEF transferVars
<1>7. CASE \E w \in Workers : Crash(w)
  BY <1>7, CrashLocks
<1>8. CASE UNCHANGED vars
  BY <1>1, <1>8 DEF vars, transferVars
<1>9. QED BY <1>2, <1>3, <1>4, <1>5, <1>6, <1>7, <1>8 DEF Next

(* Whether a process holds the write lock is decided by where it is, and the *)
(* writer's tables are the committed ones when nobody holds it.              *)
THEOREM LockInvariant == Spec => []LockPositions
<1>1. Init => LockPositions
  BY InitLocks
<1>2. TypeInv /\ LockPositions /\ [Next]_vars => LockPositions'
  BY NextLocks
<1>3. QED BY <1>1, <1>2, TypeInvariant, PTL DEF Spec

(* A process that talks to the bank about a payout holds the write lock, so  *)
(* payouts happen one at a time however many workers there are.              *)
THEOREM PayoutsExcludeEachOther == Spec => []PayoutHoldsLock
<1>1. LockPositions => PayoutHoldsLock
  BY DEF LockPositions, LockAt, PayoutHoldsLock
<1>2. QED BY <1>1, LockInvariant, PTL

-----------------------------------------------------------------------------
\* A lookup is only repeated when the one before found nothing, and the event
\* of a request that is writing is not committed.
RequestAtWork(r) ==
  /\ lookups[r] > 0 => pc[r] = "transfer" /\ RowsOf(event[r]) = {}
  /\ pc[r] \in InTransaction.request => event[r] \notin db.events
RequestsInv == \A r \in Requests : RequestAtWork(r)

\* The step is not one of r, and changes no table while r is writing.
Undisturbed(r) ==
  /\ pc'[r] = pc[r] /\ event'[r] = event[r]
  /\ lookups'[r] = lookups[r] /\ answer'[r] = answer[r]
  /\ writer = r => UNCHANGED dbVars

\* r is gone with its worker.
Gone(r) == pc'[r] = "idle" /\ lookups'[r] = 0 /\ answer'[r] = None

-----------------------------------------------------------------------------
\* Whose step it is.

(* A session of another process cannot write while r does. *)
LEMMA OtherSession ==
  ASSUME NEW r \in Requests, NEW p \in Processes \ {r}, NEW tables,
         \/ Flush(p, tables) \/ Commit(p, tables) \/ Rollback(p) \/ UNCHANGED dbVars
  PROVE  writer = r => UNCHANGED dbVars
BY NoneIsNoStatus DEF Flush, Commit, Rollback, dbVars, Processes

(* A payout at the bank is its process's own affair: it holds the lock.      *)
LEMMA TransferOther ==
  ASSUME TypeInv, LockPositions, NEW r \in Requests, NEW p \in (Requests \cup Reconcilers) \ {r},
         TransferStep(p), UNCHANGED webhookVars
  PROVE  Undisturbed(r)
<1> p \in Processes /\ r \in Processes
  BY DEF Processes
<1>1. writer = p
  BY DEF TransferStep, BankExecutes, BankReplies, BankRepliesEmpty, CallFails, LockPositions,
         LockAt, InPayout
<1>2. PICK label \in {"executed", "transferred", "transferFailed"} : Goto(p, label)
  BY DEF TransferStep, BankExecutes, BankReplies, BankRepliesEmpty, CallFails, SettleRow
<1>3. pc'[r] = pc[r]
  BY <1>2, GotoTyped DEF Places, TypeInv
<1>4. QED BY <1>1, <1>3 DEF Undisturbed, webhookVars

(* The steps of another request do not disturb r.                            *)
LEMMA WebhookOther ==
  ASSUME TypeInv, NEW r \in Requests, NEW q \in Requests \ {r},
         WebhookStep(q) \/ \E e \in Emitted \ acked : Deliver(q, e)
  PROVE  Undisturbed(r)
<1> q \in Processes /\ r \in Processes
  BY DEF Processes
<1> USE DEF TypeInv, TypeOK, TransferTypeOK, WebhookTypeOK, Undisturbed, webhookVars, Goto
<1>1. CASE \E e \in Emitted \ acked : Deliver(q, e)
  BY <1>1 DEF Deliver, dbVars
<1>2. CASE Parse(q) \/ ParseFails(q) \/ AcquireWebhookLock(q)
  BY <1>2 DEF Parse, ParseFails, AcquireWebhookLock, dbVars
<1>3. CASE CheckDuplicate(q) \/ InsertCollides(q) \/ InsertTimesOut(q)
  BY <1>3 DEF CheckDuplicate, InsertCollides, InsertTimesOut, Respond, dbVars
<1>4. CASE InsertEvent(q)
  BY <1>4, OtherSession DEF InsertEvent
<1>5. CASE RecordInvoiceEvent(q)
  BY <1>5, OtherSession DEF RecordInvoiceEvent
<1>6. CASE DispatchCredited(q)
  BY <1>6, OtherSession DEF DispatchCredited, StartTransfer
<1>7. CASE RefuseCredited(q) \/ AbandonCredited(q)
  BY <1>7, OtherSession DEF RefuseCredited, AbandonCredited, FailRequest, Respond
<1>8. CASE UpdateTransfer(q)
  BY <1>8, OtherSession DEF UpdateTransfer
<1>9. CASE MissTransfer(q)
  BY <1>9 DEF MissTransfer, dbVars
<1>10. CASE CommitEvent(q)
  BY <1>10, OtherSession DEF CommitEvent, Respond
<1>11. CASE AnswerArrives(q) \/ AnswerLost(q)
  BY <1>11 DEF AnswerArrives, AnswerLost, ReleaseSlot, dbVars
<1>12. QED BY <1>1, <1>2, <1>3, <1>4, <1>5, <1>6, <1>7, <1>8, <1>9, <1>10, <1>11
           DEF WebhookStep

(* Neither do those of a reconciliation.                                     *)
LEMMA ReconcileOther ==
  ASSUME TypeInv, NEW r \in Requests, NEW p \in Reconcilers,
         LoadInvoices(p) \/ ReconcileStep(p), UNCHANGED webhookVars
  PROVE  Undisturbed(r)
<1> p \in Processes \ {r} /\ r \in Processes
  BY ProcessesAssumption DEF Processes
<1> USE DEF TypeInv, TypeOK, TransferTypeOK, Undisturbed, webhookVars, Goto
<1>1. ASSUME NEW x \in loaded[p], FetchInvoice(p, x) \/ FetchFails(p, x) \/ FetchTransfer(p, x)
      PROVE  Undisturbed(r)
  BY <1>1 DEF FetchInvoice, FetchFails, FetchTransfer, dbVars
<1>2. CASE LoadInvoices(p) \/ NextInvoice(p) \/ LoadTransfers(p) \/ AbortJob(p)
  BY <1>2 DEF LoadInvoices, NextInvoice, LoadTransfers, AbortJob, dbVars
<1>3. CASE PayMissing(p)
  BY <1>3, OtherSession DEF PayMissing, StartTransfer
<1>4. CASE SkipPayout(p)
  BY <1>4, OtherSession DEF SkipPayout
<1>5. CASE EndInvoices(p)
  BY <1>5, OtherSession DEF EndInvoices, EndPhase
<1>6. CASE EndTransfers(p)
  BY <1>6, OtherSession DEF EndTransfers, EndPhase
<1>7. QED BY <1>1, <1>2, <1>3, <1>4, <1>5, <1>6 DEF ReconcileStep

(* Neither does the issuing of a batch.                                      *)
LEMMA IssueOther ==
  ASSUME TypeInv, NEW r \in Requests, IssueNext, UNCHANGED webhookVars
  PROVE  Undisturbed(r)
<1>1. PICK b \in Batches : OpenBatch(b) \/ OpenBatchTimesOut(b) \/ BankIssues(b)
                             \/ RecordBatch(b) \/ FailBatch(b)
  BY DEF IssueNext
<1> b \in Processes \ {r} /\ r \in Processes
  BY ProcessesAssumption DEF Processes
<1>2. PICK label \in {"issuing", "issued", "done"} : Goto(b, label)
  BY <1>1 DEF OpenBatch, OpenBatchTimesOut, BankIssues, RecordBatch, FailBatch
<1>3. pc'[r] = pc[r]
  BY <1>2, GotoTyped DEF Places, TypeInv
<1>4. writer = r => UNCHANGED dbVars
  <2>1. CASE OpenBatchTimesOut(b) \/ BankIssues(b)
    BY <2>1 DEF OpenBatchTimesOut, BankIssues
  <2>2. CASE OpenBatch(b)
    BY <2>2, OtherSession DEF OpenBatch
  <2>3. CASE RecordBatch(b)
    BY <2>3, OtherSession DEF RecordBatch
  <2>4. CASE FailBatch(b)
    BY <2>4, OtherSession DEF FailBatch
  <2>5. QED BY <1>1, <2>1, <2>2, <2>3, <2>4
<1>5. QED BY <1>3, <1>4 DEF Undisturbed, webhookVars

(* Every step is a step of r, one that leaves r alone, or the death of its   *)
(* worker.                                                                   *)
LEMMA Turns ==
  ASSUME TypeInv, LockPositions, [Next]_vars, NEW r \in Requests
  PROVE  \/ Undisturbed(r) \/ Gone(r)
         \/ TransferStep(r) /\ UNCHANGED webhookVars
         \/ WebhookStep(r)
         \/ \E e \in Emitted \ acked : Deliver(r, e)
<1> r \in Processes
  BY DEF Processes
<1>1. CASE TransferNext /\ UNCHANGED webhookVars
  BY <1>1, TransferOther DEF TransferNext
<1>2. CASE WebhookNext
  BY <1>2, WebhookOther DEF WebhookNext
<1>3. CASE ReconcileNext /\ UNCHANGED webhookVars
  <2>1. CASE \E x \in Invoices \cup 1..lastRow : AgeOut(x)
    BY <1>3, <2>1 DEF AgeOut, Undisturbed, webhookVars
  <2>2. QED BY <1>3, <2>1, ReconcileOther DEF ReconcileNext
<1>4. CASE IssueNext /\ UNCHANGED webhookVars
  BY <1>4, IssueOther
<1>5. CASE UNCHANGED <<dbVars, transferVars, webhookVars>>
  BY <1>5 DEF transferVars, webhookVars, Undisturbed
<1>6. ASSUME NEW w \in Workers, Crash(w)
      PROVE  Undisturbed(r) \/ Gone(r)
  <2>1. CASE On(w, r)
    BY <1>6, <2>1, ProcessesAssumption DEF Crash, Gone
  <2>2. CASE ~On(w, r)
    <3>1. /\ pc'[r] = pc[r] /\ event'[r] = event[r]
          /\ lookups'[r] = lookups[r] /\ answer'[r] = answer[r]
      BY <1>6, <2>2 DEF Crash
    <3>2. writer = r => UNCHANGED dbVars
      BY <1>6, <2>2 DEF Crash
    <3>3. QED BY <3>1, <3>2 DEF Undisturbed
  <2>3. QED BY <2>1, <2>2
<1>7. QED BY <1>1, <1>2, <1>3, <1>4, <1>5, <1>6 DEF Next, vars

-----------------------------------------------------------------------------
(* Nobody has looked up or is writing anything at the start.                 *)
LEMMA InitRequests == Init => RequestsInv
BY DEF Init, TransferInit, WebhookInit, RequestsInv, RequestAtWork, InTransaction, InPayout,
   Processes

(* r's own step, by where r is.                                              *)
LEMMA OwnStep ==
  ASSUME TypeInv, LockPositions, NEW r \in Requests, RequestAtWork(r),
         \/ TransferStep(r) /\ UNCHANGED webhookVars
         \/ WebhookStep(r)
         \/ \E e \in Emitted \ acked : Deliver(r, e)
  PROVE  RequestAtWork(r)'
<1> r \in Processes
  BY DEF Processes
<1>1. /\ lookups[r] \in Nat
      /\ pc[r] # "transfer" => lookups[r] = 0
  BY DEF RequestAtWork, TypeInv, TypeOK, WebhookTypeOK, MaxLookups
<1> DEFINE Writing == InTransaction.request
<1>2. Writing = {"invoice", "transfer", "other", "recorded", "sending", "executed",
                 "transferred", "transferFailed"}
  BY DEF InTransaction, InPayout
<1>3. ASSUME NEW label \in Places \ Writing, Goto(r, label), lookups'[r] = 0
      PROVE  RequestAtWork(r)'
  BY <1>3, GotoTyped DEF RequestAtWork, TypeInv, InTransaction
<1>4. ASSUME NEW label \in Places, Goto(r, label), lookups'[r] = 0, db' = db, event'[r] = event[r],
             event[r] \notin db.events
      PROVE  RequestAtWork(r)'
  BY <1>4, GotoTyped DEF RequestAtWork, TypeInv
<1>5. pc[r] \in Writing => event[r] \notin db.events
  BY DEF RequestAtWork
<1> HIDE DEF Writing
<1>6. CASE TransferStep(r) /\ UNCHANGED webhookVars
  <2>1. pc[r] \in Writing /\ db' = db /\ UNCHANGED <<lookups, event>> /\ pc[r] # "transfer"
    BY <1>2, <1>6 DEF TransferStep, BankExecutes, BankReplies, BankRepliesEmpty, CallFails,
       SettleRow, dbVars, webhookVars
  <2>2. PICK label \in {"executed", "transferred", "transferFailed"} : Goto(r, label)
    BY <1>6 DEF TransferStep, BankExecutes, BankReplies, BankRepliesEmpty, CallFails, SettleRow
  <2>3. QED BY <1>1, <1>4, <1>5, <2>1, <2>2 DEF Places
<1>7. CASE \E e \in Emitted \ acked : Deliver(r, e)
  BY <1>1, <1>2, <1>3, <1>7 DEF Deliver, Places
<1>8. CASE Parse(r) \/ ParseFails(r) \/ AcquireWebhookLock(r)
  BY <1>1, <1>2, <1>3, <1>8 DEF Parse, ParseFails, AcquireWebhookLock, webhookVars, Places
<1>9. CASE CheckDuplicate(r) \/ InsertCollides(r) \/ InsertTimesOut(r)
  BY <1>1, <1>2, <1>3, <1>9 DEF CheckDuplicate, InsertCollides, InsertTimesOut, Respond,
     webhookVars, Places
<1>10. CASE InsertEvent(r)
  <2>1. event[r].kind \in Places
    BY <1>10, EventKinds DEF InsertEvent, TypeInv, Positions, RequestAt, Places
  <2>2. QED BY <1>1, <1>4, <1>10, <2>1 DEF InsertEvent, Flush, webhookVars
<1>11. CASE RecordInvoiceEvent(r)
  BY <1>1, <1>2, <1>4, <1>5, <1>11 DEF RecordInvoiceEvent, Flush, webhookVars, Places
<1>12. CASE DispatchCredited(r)
  BY <1>1, <1>2, <1>4, <1>5, <1>12 DEF DispatchCredited, StartTransfer, Flush, webhookVars, Places
<1>13. CASE RefuseCredited(r) \/ AbandonCredited(r)
  BY <1>1, <1>2, <1>3, <1>13 DEF RefuseCredited, AbandonCredited, FailRequest, Respond, Places
<1>14. CASE UpdateTransfer(r)
  <2>1. lookups'[r] = 0
    BY <1>14 DEF UpdateTransfer, TypeInv, TypeOK, WebhookTypeOK
  <2>2. QED BY <1>2, <1>4, <1>5, <1>14, <2>1 DEF UpdateTransfer, Flush, Places
<1>15. CASE MissTransfer(r)
  <2>1. event' = event /\ UNCHANGED <<db, work>> /\ RowsOf(event[r]) = {} /\ pc[r] = "transfer"
    BY <1>15 DEF MissTransfer, dbVars
  <2>2. RowsOf(event[r])' = {}
    BY <2>1 DEF RowsOf
  <2>3. \/ pc'[r] = pc[r]
        \/ lookups'[r] = 0 /\ Goto(r, "recorded")
    BY <1>15 DEF MissTransfer, TypeInv, TypeOK, WebhookTypeOK
  <2>4. QED BY <1>2, <1>4, <1>5, <2>1, <2>2, <2>3 DEF RequestAtWork, Places
<1>16. CASE CommitEvent(r)
  BY <1>1, <1>2, <1>3, <1>16 DEF CommitEvent, Respond, Places
<1>17. CASE AnswerArrives(r) \/ AnswerLost(r)
  BY <1>1, <1>2, <1>3, <1>17 DEF AnswerArrives, AnswerLost, ReleaseSlot, Places
<1>18. QED BY <1>6, <1>7, <1>8, <1>9, <1>10, <1>11, <1>12, <1>13, <1>14, <1>15, <1>16, <1>17
           DEF WebhookStep

(* No step breaks what is known of a request: others leave it alone.         *)
LEMMA NextRequests ==
  ASSUME TypeInv, LockPositions, RequestsInv, [Next]_vars
  PROVE  RequestsInv'
<1> SUFFICES ASSUME NEW r \in Requests
             PROVE  RequestAtWork(r)'
  BY DEF RequestsInv
<1>1. RequestAtWork(r) /\ lookups[r] \in Nat
  BY DEF RequestsInv, TypeInv, TypeOK, WebhookTypeOK, MaxLookups
<1>2. CASE Undisturbed(r)
  <2>1. pc[r] \in InTransaction.request => UNCHANGED dbVars
    BY <1>2 DEF LockPositions, LockAt, Undisturbed, Processes
  <2>2. QED BY <1>1, <1>2, <2>1 DEF Undisturbed, RequestAtWork, InTransaction, RowsOf, dbVars
<1>3. CASE Gone(r)
  BY <1>3 DEF Gone, RequestAtWork, InTransaction, InPayout
<1>4. QED BY <1>1, <1>2, <1>3, Turns, OwnStep

(* What a request has looked for in vain is still not there when it looks    *)
(* again, and the event of a request that is writing is not committed.       *)
THEOREM RequestsInvariant == Spec => []RequestsInv
<1>1. Init => RequestsInv
  BY InitRequests
<1>2. TypeInv /\ LockPositions /\ RequestsInv /\ [Next]_vars => RequestsInv'
  BY NextRequests
<1>3. QED BY <1>1, <1>2, TypeInvariant, LockInvariant, PTL DEF Spec

(* The second and third lookup of a transfer event find nothing if the first *)
(* did not: they cannot outwait the commit of the transfer.                  *)
THEOREM RetriesAreInVain == Spec => []RetriesFindNothing
<1>1. RequestsInv => RetriesFindNothing
  BY DEF RequestsInv, RequestAtWork, RetriesFindNothing
<1>2. QED BY <1>1, RequestsInvariant, PTL

-----------------------------------------------------------------------------
\* An answer to a request outside of parsing is a 2xx, or the end of a
\* transaction that was undone.
FailsCleanly(r) ==
  pc[r] # "parsing" /\ answer[r] = None /\ answer'[r] # None /\ ~Accepted(answer'[r])
    => /\ db' = db /\ writer' = None
       /\ event[r] \notin db.events

(* The answers to a stored event and to a duplicate are both 2xx.            *)
LEMMA DuplicatesAccepted == Accepted("success") /\ Accepted("DuplicateEventError")
BY DEF Accepted, HttpStatus

(* Its own steps fail cleanly: an error is answered after a rollback.        *)
LEMMA OwnFailure ==
  ASSUME TypeInv, LockPositions, NEW r \in Requests, RequestAtWork(r),
         \/ TransferStep(r) /\ UNCHANGED webhookVars
         \/ WebhookStep(r)
         \/ \E e \in Emitted \ acked : Deliver(r, e)
  PROVE  FailsCleanly(r)
<1> r \in Processes
  BY DEF Processes
<1>1. ASSUME NEW a, Respond(r, a)
      PROVE  answer'[r] = a
  BY <1>1 DEF Respond, TypeInv, TypeOK, WebhookTypeOK
<1>2. ASSUME NEW a, Respond(r, a), Accepted(a)
      PROVE  FailsCleanly(r)
  BY <1>1, <1>2 DEF FailsCleanly
<1>3. ASSUME UNCHANGED answer
      PROVE  FailsCleanly(r)
  BY <1>3 DEF FailsCleanly
<1>4. ASSUME NEW a, FailRequest(r, a), pc[r] \in InTransaction.request
      PROVE  FailsCleanly(r)
  <2>1. writer = r
    BY <1>4 DEF LockPositions, LockAt
  <2>2. db' = db /\ writer' = None
    BY <1>4, <2>1 DEF FailRequest, Rollback
  <2>3. QED BY <1>4, <2>2 DEF RequestAtWork, FailsCleanly
<1>5. CASE RefuseCredited(r) \/ AbandonCredited(r)
  BY <1>4, <1>5 DEF RefuseCredited, AbandonCredited, InTransaction, InPayout
<1>6. CASE CheckDuplicate(r) \/ InsertCollides(r) \/ InsertTimesOut(r) \/ CommitEvent(r)
  BY <1>2, <1>3, <1>6, DuplicatesAccepted DEF CheckDuplicate, InsertCollides, InsertTimesOut,
     CommitEvent, webhookVars
<1>7. CASE ParseFails(r)
  BY <1>7 DEF ParseFails, FailsCleanly
<1>8. CASE AnswerArrives(r) \/ AnswerLost(r)
  BY <1>8 DEF AnswerArrives, AnswerLost, ReleaseSlot, FailsCleanly, TypeInv, TypeOK, WebhookTypeOK
<1>9. CASE \/ TransferStep(r) /\ UNCHANGED webhookVars
           \/ \E e \in Emitted \ acked : Deliver(r, e)
           \/ Parse(r) \/ AcquireWebhookLock(r) \/ InsertEvent(r) \/ RecordInvoiceEvent(r)
           \/ DispatchCredited(r) \/ UpdateTransfer(r) \/ MissTransfer(r)
  BY <1>3, <1>9 DEF Deliver, Parse, AcquireWebhookLock, InsertEvent, RecordInvoiceEvent,
     DispatchCredited, UpdateTransfer, MissTransfer, webhookVars
<1>10. QED BY <1>5, <1>6, <1>7, <1>8, <1>9 DEF WebhookStep

(* A delivery that is answered with an error has left nothing behind: its    *)
(* transaction is undone and its event is not stored, so the bank's next     *)
(* delivery of it starts afresh instead of being taken for a duplicate.      *)
THEOREM FailuresAreClean == Spec => FailedDeliveryIsClean
<1>1. TypeInv /\ LockPositions /\ RequestsInv /\ [Next]_vars
        => [\A r \in Requests : FailsCleanly(r)]_vars
  <2> SUFFICES ASSUME TypeInv, LockPositions, RequestsInv, [Next]_vars, NEW r \in Requests
               PROVE  FailsCleanly(r)
    OBVIOUS
  <2>1. Undisturbed(r) \/ Gone(r) => FailsCleanly(r)
    BY DEF Undisturbed, Gone, FailsCleanly
  <2>2. QED BY <2>1, Turns, OwnFailure DEF RequestsInv
<1>2. [\A r \in Requests : FailsCleanly(r)]_vars
        <=> [\A r \in Requests :
               pc[r] # "parsing" /\ answer[r] = None /\ answer'[r] # None /\ ~Accepted(answer'[r])
                 => /\ db' = db /\ writer' = None
                    /\ event[r] \notin db.events]_vars
  BY DEF FailsCleanly
<1>3. QED BY <1>1, <1>2, TypeInvariant, LockInvariant, RequestsInvariant, PTL
          DEF Spec, FailedDeliveryIsClean

-----------------------------------------------------------------------------
(***************************************************************************)
(* One transfer row per cause.  The committed tables and the writer's are  *)
(* both in order, the event at hand has no row yet, and the row at hand is *)
(* among the writer's: the write lock makes sure nobody else disturbs      *)
(* this.                                                                   *)
(***************************************************************************)

\* What keeps tables in order.

(* Only events and transfers matter. *)
LEMMA BooksFrame ==
  ASSUME NEW tables, NEW tables2, Books(tables),
         tables.events \subseteq tables2.events, tables2.transfers = tables.transfers
  PROVE  Books(tables2)
BY DEF Books, UniqueCauses

(* A row is added whose cause has none yet. *)
LEMMA BooksAdd ==
  ASSUME NEW tables, NEW tables2, Books(tables), NEW row,
         tables2.events = tables.events, tables2.transfers = tables.transfers \cup {row},
         \A old \in tables.transfers : old.event # row.event,
         row.event.id = row.invoice,
         row.event.kind # "reconcile" => row.event \in tables.events
  PROVE  Books(tables2)
BY DEF Books, UniqueCauses

(* A row gets another content, but keeps its invoice and its cause. *)
LEMMA BooksReplace ==
  ASSUME NEW tables, NEW tables2, Books(tables), NEW old \in tables.transfers, NEW new,
         tables2.events = tables.events,
         tables2.transfers = (tables.transfers \ {old}) \cup {new},
         new.event = old.event, new.invoice = old.invoice
  PROVE  Books(tables2)
BY DEF Books, UniqueCauses

(* What the reconciliation flushes. *)
LEMMA BooksFlush ==
  ASSUME NEW tables \in Tables, Books(tables), NEW ch
  PROVE  /\ Books(FlushInvoices(tables, ch)) /\ Books(FlushTransfers(tables, ch))
         /\ FlushInvoices(tables, ch).events = tables.events
         /\ FlushInvoices(tables, ch).transfers = tables.transfers
<1>1. /\ FlushInvoices(tables, ch).events = tables.events
      /\ FlushInvoices(tables, ch).transfers = tables.transfers
  BY DEF FlushInvoices, Tables
<1>2. Books(FlushInvoices(tables, ch))
  <2> DEFINE F == FlushInvoices(tables, ch)
  <2>1. F.events = tables.events /\ F.transfers = tables.transfers
    BY <1>1
  <2> HIDE DEF F
  <2>2. Books(F)
    BY <2>1, BooksFrame
  <2>3. QED BY <2>2 DEF F
<1>3. Books(FlushTransfers(tables, ch))
  <2> DEFINE F == FlushTransfers(tables, ch)
             New(row) == [row EXCEPT !.status = StatusFrom(ch, row.id, row.status)]
  <2>1. F.events = tables.events /\ F.transfers = {New(row) : row \in tables.transfers}
    BY DEF FlushTransfers, Tables
  <2>2. \A row \in tables.transfers : New(row).event = row.event /\ New(row).invoice = row.invoice
    <3>1. tables.transfers \subseteq TransferRow
      BY TablesUpdate
    <3>2. QED BY <3>1 DEF TransferRow
  <2> HIDE DEF F, New
  <2>3. Books(F)
    BY <2>1, <2>2 DEF Books, UniqueCauses
  <2>4. QED BY <2>3 DEF F
<1>4. QED BY <1>1, <1>2, <1>3

-----------------------------------------------------------------------------
(* A step of p that writes nothing into another's transaction. *)
LEMMA StepBooks ==
  ASSUME LockPositions, BooksInv, NEW p \in Processes,
         \A q \in Processes \ {p} : pc'[q] = pc[q] /\ order'[q] = order[q],
         \A r \in Requests \ {p} : event'[r] = event[r],
         UNCHANGED work \/ writer \in {None, p},
         Books(db)', Books(work)', BooksAt(p)'
  PROVE  BooksInv'
<1>1. ASSUME NEW q \in Processes \ {p}
      PROVE  BooksAt(q)'
  <2>1. CASE UNCHANGED work
    BY <2>1 DEF BooksInv, BooksAt
  <2>2. CASE writer \in {None, p}
    <3>1. writer # q
      BY <2>2, NoneIsNoStatus
    <3>2. pc[q] \notin {"sending", "executed"} /\ (q \in Requests => pc[q] # "invoice")
      BY <3>1 DEF LockPositions, LockAt, InTransaction, InPayout
    <3>3. QED BY <3>2 DEF BooksAt
  <2>3. QED BY <2>1, <2>2
<1>2. QED BY <1>1 DEF BooksInv

(* What a session leaves of the tables. *)
LEMMA SessionBooks ==
  ASSUME BooksInv, NEW p, NEW tables, Books(tables),
         Flush(p, tables) \/ Commit(p, tables)
  PROVE  Books(db)' /\ Books(work)' /\ work' = tables /\ writer \in {None, p}
BY DEF BooksInv, Books, UniqueCauses, Flush, Commit

(* The books are empty at the start. *)
LEMMA InitBooks == Init => BooksInv
<1>1. Books(EmptyTables)
  BY DEF Books, UniqueCauses, EmptyTables
<1>2. QED BY <1>1 DEF Init, DatabaseInit, TransferInit, BooksInv, BooksAt

(* A payout under way only changes its own row. *)
LEMMA TransferBooks ==
  ASSUME TypeInv, LockPositions, BooksInv, NEW p \in Requests \cup Reconcilers, TransferStep(p),
         UNCHANGED webhookVars
  PROVE  BooksInv'
<1> p \in Processes
  BY DEF Processes
<1>1. writer = p /\ pc[p] \in {"sending", "executed"}
  BY DEF TransferStep, BankExecutes, BankReplies, BankRepliesEmpty, CallFails, LockPositions,
         LockAt, InPayout
<1>2. order[p] \in work.transfers /\ order[p] \in TransferRow /\ work \in Tables
  BY <1>1 DEF BooksInv, BooksAt, TypeInv, TypeOK, DatabaseTypeOK, Positions, OrderAt
<1>3. CASE BankExecutes(p)
  <2>1. pc'[p] = "executed" /\ \A q \in Processes \ {p} : pc'[q] = pc[q]
    BY <1>3, GotoTyped DEF BankExecutes, Places, TypeInv
  <2>2. UNCHANGED <<db, work, order, event>>
    BY <1>3 DEF BankExecutes, dbVars, webhookVars
  <2>3. Books(db)' /\ Books(work)' /\ BooksAt(p)'
    BY <1>2, <2>1, <2>2 DEF BooksInv, BooksAt, Books, UniqueCauses
  <2>4. QED BY <2>1, <2>2, <2>3, StepBooks
<1>4. ASSUME NEW row, NEW label \in {"transferred", "transferFailed"}, SettleRow(p, row, label),
             row.event = order[p].event, row.invoice = order[p].invoice
      PROVE  BooksInv'
  <2>1. pc'[p] = label /\ \A q \in Processes \ {p} : pc'[q] = pc[q] /\ order'[q] = order[q]
    BY <1>4, GotoTyped DEF SettleRow, Places, TypeInv, TypeOK, TransferTypeOK
  <2>2. work'.events = work.events /\ work'.transfers = (work.transfers \ {order[p]}) \cup {row}
    BY <1>2, <1>4 DEF SettleRow, Tables
  <2>3. Books(work')
    BY <1>2, <1>4, <2>2, BooksReplace DEF BooksInv
  <2>4. Books(db)' /\ Books(work)'
    BY <1>4, <2>3 DEF SettleRow, BooksInv, Books, UniqueCauses
  <2>5. BooksAt(p)'
    BY <2>1 DEF BooksAt
  <2>6. QED BY <1>1, <2>1, <2>4, <2>5, StepBooks DEF webhookVars
<1>5. \A s : LET row == [order[p] EXCEPT !.status = s]
             IN  row.event = order[p].event /\ row.invoice = order[p].invoice
  BY <1>2 DEF TransferRow
<1>6. CASE BankReplies(p)
  <2> DEFINE row == [order[p] EXCEPT !.stark = order[p].id, !.status = "created"]
  <2>1. row.event = order[p].event /\ row.invoice = order[p].invoice
    BY <1>2 DEF TransferRow
  <2>2. SettleRow(p, row, "transferred")
    BY <1>6 DEF BankReplies
  <2> HIDE DEF row
  <2>3. QED BY <1>4, <2>1, <2>2
<1>7. CASE BankRepliesEmpty(p)
  BY <1>4, <1>5, <1>7 DEF BankRepliesEmpty
<1>8. CASE CallFails(p)
  BY <1>4, <1>5, <1>8 DEF CallFails
<1>9. QED BY <1>3, <1>6, <1>7, <1>8 DEF TransferStep

(* A batch writes no transfer row. *)
LEMMA IssueBooks ==
  ASSUME TypeInv, LockPositions, BooksInv, IssueNext, UNCHANGED webhookVars
  PROVE  BooksInv'
<1>1. PICK b \in Batches : OpenBatch(b) \/ OpenBatchTimesOut(b) \/ BankIssues(b)
                             \/ RecordBatch(b) \/ FailBatch(b)
  BY DEF IssueNext
<1> b \in Processes /\ b \notin Requests
  BY ProcessesAssumption DEF Processes
<1>2. PICK label \in {"issuing", "issued", "done"} : Goto(b, label) /\ UNCHANGED order
  BY <1>1 DEF OpenBatch, OpenBatchTimesOut, BankIssues, RecordBatch, FailBatch
<1>3. BooksAt(b)' /\ \A q \in Processes \ {b} : pc'[q] = pc[q] /\ order'[q] = order[q]
  BY <1>2, GotoTyped DEF Places, TypeInv, BooksAt
<1>4. CASE UNCHANGED dbVars
  <2>1. Books(db)' /\ Books(work)'
    BY <1>4 DEF dbVars, BooksInv, Books, UniqueCauses
  <2>2. QED BY <1>3, <1>4, <2>1, StepBooks DEF dbVars, webhookVars
<1>5. ASSUME NEW tables, Flush(b, tables) \/ Commit(b, tables),
             tables.events = work.events, tables.transfers = work.transfers
      PROVE  BooksInv'
  <2>1. Books(tables)
    BY <1>5, BooksFrame DEF BooksInv
  <2>2. Books(db)' /\ Books(work)' /\ writer \in {None, b}
    BY <1>5, <2>1, SessionBooks
  <2>3. QED BY <1>3, <2>2, StepBooks DEF webhookVars
<1>6. work \in Tables
  BY DEF TypeInv, TypeOK, DatabaseTypeOK
<1>7. \A s : /\ [work EXCEPT !.batches[b] = s].events = work.events
             /\ [work EXCEPT !.batches[b] = s].transfers = work.transfers
  BY <1>6 DEF Tables
<1>8. WithLot(work, b).events = work.events /\ WithLot(work, b).transfers = work.transfers
  BY <1>6 DEF WithLot, Tables
<1>9. CASE OpenBatchTimesOut(b) \/ BankIssues(b)
  BY <1>4, <1>9 DEF OpenBatchTimesOut, BankIssues
<1>10. CASE OpenBatch(b)
  BY <1>5, <1>7, <1>10 DEF OpenBatch
<1>11. CASE RecordBatch(b)
  BY <1>5, <1>8, <1>11 DEF RecordBatch
<1>12. CASE FailBatch(b)
  BY <1>5, <1>7, <1>12 DEF FailBatch
<1>13. QED BY <1>1, <1>9, <1>10, <1>11, <1>12

(* The row a payout starts with. *)
LEMMA StartBooks ==
  ASSUME TypeInv, LockPositions, BooksInv, NEW p \in Processes, NEW i \in Invoices,
         NEW cause \in Causes, NEW tables \in Tables, StartTransfer(p, i, cause, tables),
         Books(tables), \A old \in tables.transfers : old.event # cause,
         cause.id = i, cause.kind # "reconcile" => cause \in tables.events,
         \A r \in Requests \ {p} : event'[r] = event[r]
  PROVE  BooksInv'
<1> DEFINE row == NewRow(i, cause)
<1>1. row.event = cause /\ row.invoice = i
  BY DEF NewRow
<1>2. pc'[p] = "sending" /\ order'[p] = row
      /\ \A q \in Processes \ {p} : pc'[q] = pc[q] /\ order'[q] = order[q]
  BY GotoTyped DEF StartTransfer, Places, TypeInv, TypeOK, TransferTypeOK
<1> HIDE DEF row
<1>3. PICK tables2 : /\ tables2 = [tables EXCEPT !.transfers = tables.transfers \cup {row}]
                     /\ Flush(p, tables2)
  BY DEF StartTransfer, row
<1>4. tables2.events = tables.events /\ tables2.transfers = tables.transfers \cup {row}
  BY <1>3 DEF Tables
<1>5. Books(tables2)
  BY <1>1, <1>4, BooksAdd
<1>6. Books(db)' /\ Books(work)' /\ work' = tables2 /\ writer \in {None, p}
  BY <1>3, <1>5, SessionBooks
<1>7. BooksAt(p)'
  BY <1>2, <1>4, <1>6 DEF BooksAt
<1>8. QED BY <1>2, <1>6, <1>7, StepBooks

(* A request adds the row of the event it has just stored. *)
LEMMA WebhookBooks ==
  ASSUME TypeInv, LockPositions, BooksInv, NEW r \in Requests,
         WebhookStep(r) \/ \E e \in Emitted \ acked : Deliver(r, e)
  PROVE  BooksInv'
<1> r \in Processes
  BY DEF Processes
<1>1. work \in Tables /\ Books(work) /\ Books(db)
  BY DEF TypeInv, TypeOK, DatabaseTypeOK, BooksInv
<1>2. ASSUME NEW label \in Places \ {"invoice", "sending", "executed"}, Goto(r, label),
             UNCHANGED order, \A q \in Requests \ {r} : event'[q] = event[q],
             UNCHANGED work \/ writer \in {None, r}, Books(db)', Books(work)'
      PROVE  BooksInv'
  <2>1. pc'[r] = label /\ \A q \in Processes \ {r} : pc'[q] = pc[q] /\ order'[q] = order[q]
    BY <1>2, GotoTyped DEF TypeInv
  <2>2. BooksAt(r)'
    BY <1>2, <2>1 DEF BooksAt
  <2>3. QED BY <1>2, <2>1, <2>2, StepBooks
<1>3. ASSUME NEW label \in Places \ {"invoice", "sending", "executed"}, Goto(r, label),
             UNCHANGED <<order, dbVars>>, \A q \in Requests \ {r} : event'[q] = event[q]
      PROVE  BooksInv'
  <2>1. Books(db)' /\ Books(work)' /\ UNCHANGED work
    BY <1>1, <1>3 DEF dbVars, Books, UniqueCauses
  <2>2. QED BY <1>2, <1>3, <2>1
<1>4. ASSUME NEW label \in Places \ {"invoice", "sending", "executed"}, Goto(r, label),
             UNCHANGED <<order, event>>,
             NEW tables, Books(tables), Flush(r, tables) \/ Commit(r, tables)
      PROVE  BooksInv'
  BY <1>2, <1>4, SessionBooks
<1>5. ASSUME NEW a, Respond(r, a)
      PROVE  Goto(r, "answered") /\ UNCHANGED event
  BY <1>5 DEF Respond
<1>6. ASSUME NEW e \in Emitted \ acked, Deliver(r, e)
      PROVE  BooksInv'
  <2>1. \A q \in Requests \ {r} : event'[q] = event[q]
    BY <1>6 DEF Deliver, TypeInv, TypeOK, WebhookTypeOK
  <2>2. QED BY <1>3, <1>6, <2>1 DEF Deliver, Places
<1>7. CASE Parse(r) \/ ParseFails(r) \/ AcquireWebhookLock(r)
  BY <1>3, <1>7 DEF Parse, ParseFails, AcquireWebhookLock, webhookVars, Places
<1>8. CASE CheckDuplicate(r) \/ InsertCollides(r) \/ InsertTimesOut(r)
  <2>1. (Goto(r, "answered") \/ Goto(r, "inserting")) /\ UNCHANGED event
    BY <1>5, <1>8 DEF CheckDuplicate, InsertCollides, InsertTimesOut, webhookVars
  <2>2. UNCHANGED <<order, dbVars>>
    BY <1>8 DEF CheckDuplicate, InsertCollides, InsertTimesOut
  <2>3. QED BY <1>3, <2>1, <2>2 DEF Places
<1>9. CASE InsertEvent(r)
  <2> DEFINE e == event[r]
  <2>1. e \in EventIds /\ e.kind \in {"invoice", "transfer", "other"} /\ pc[r] = "inserting"
    BY <1>9, EventKinds DEF InsertEvent, TypeInv, Positions, RequestAt
  <2>2. writer = None /\ work = db
    <3>1. writer # r
      BY <2>1 DEF LockPositions, LockAt, InTransaction, InPayout
    <3>2. writer \in {None, r}
      BY <1>9, SessionLocks DEF InsertEvent
    <3>3. QED BY <3>1, <3>2 DEF LockPositions
  <2>3. \A row \in work.transfers : row.event # e
    BY <1>1, <1>9, <2>1, <2>2 DEF Books, InsertEvent
  <2>4. PICK tables : tables = [work EXCEPT !.events = work.events \cup {e}] /\ Flush(r, tables)
    BY <1>9 DEF InsertEvent
  <2>5. tables.events = work.events \cup {e} /\ tables.transfers = work.transfers
    BY <1>1, <2>4 DEF Tables
  <2>6. Books(tables)
    BY <1>1, <2>5, BooksFrame
  <2>7. Books(db)' /\ Books(work)' /\ work' = tables
    BY <2>4, <2>6, SessionBooks
  <2>8. /\ pc'[r] = e.kind /\ \A q \in Processes \ {r} : pc'[q] = pc[q]
        /\ UNCHANGED <<order, event>>
    BY <1>9, <2>1, GotoTyped DEF InsertEvent, webhookVars, Places, TypeInv
  <2>9. BooksAt(r)'
    BY <2>1, <2>3, <2>5, <2>7, <2>8 DEF BooksAt
  <2>10. QED BY <2>2, <2>7, <2>8, <2>9, StepBooks
<1>10. ASSUME NEW i, NEW s
       PROVE  /\ WithInvoiceStatus(work, i, s).events = work.events
              /\ WithInvoiceStatus(work, i, s).transfers = work.transfers
  BY <1>1 DEF WithInvoiceStatus, Tables
<1>11. CASE RecordInvoiceEvent(r)
  <2>1. Books(WithInvoiceStatus(work, event[r].id, event[r].type))
    BY <1>1, <1>10, BooksFrame
  <2>2. QED BY <1>4, <1>11, <2>1 DEF RecordInvoiceEvent, webhookVars, Places
<1>12. CASE DispatchCredited(r)
  <2> DEFINE e == event[r]
             tables == WithInvoiceStatus(work, e.id, e.type)
  <2>1. e \in EventIds /\ e.kind = "invoice" /\ pc[r] = "invoice"
    BY <1>12 DEF DispatchCredited, TypeInv, Positions, RequestAt
  <2>2. e.id \in Invoices /\ e \in Causes /\ tables \in Tables
    BY <1>1, <2>1, EventKinds, WithInvoiceStatusTyped
  <2>3. tables.events = work.events /\ tables.transfers = work.transfers
    BY <1>10
  <2>4. e \in work.events /\ \A row \in work.transfers : row.event # e
    BY <2>1 DEF BooksInv, BooksAt
  <2>5. StartTransfer(r, e.id, e, tables) /\ UNCHANGED event
    BY <1>12 DEF DispatchCredited, webhookVars
  <2> HIDE DEF tables, e
  <2>6. Books(tables)
    BY <1>1, <2>3, BooksFrame
  <2>7. QED BY <2>2, <2>3, <2>4, <2>5, <2>6, StartBooks
<1>13. ASSUME NEW a, FailRequest(r, a), UNCHANGED order
       PROVE  BooksInv'
  <2>1. Goto(r, "answered") /\ UNCHANGED event /\ Rollback(r)
    BY <1>5, <1>13 DEF FailRequest
  <2>2. Books(db)' /\ Books(work)' /\ (UNCHANGED work \/ writer \in {None, r})
    BY <1>1, <2>1 DEF Rollback, dbVars, Books, UniqueCauses
  <2>3. QED BY <1>2, <1>13, <2>1, <2>2 DEF Places
<1>14. CASE RefuseCredited(r) \/ AbandonCredited(r)
  BY <1>13, <1>14 DEF RefuseCredited, AbandonCredited
<1>15. CASE UpdateTransfer(r)
  <2>1. PICK row \in RowsOf(event[r]), s \in SnapshotOf(event[r]) :
          Flush(r, [work EXCEPT !.transfers =
                      (work.transfers \ {row}) \cup {[row EXCEPT !.status = s]}])
    BY <1>15 DEF UpdateTransfer
  <2> DEFINE new == [row EXCEPT !.status = s]
             tables == [work EXCEPT !.transfers = (work.transfers \ {row}) \cup {new}]
  <2>2. row \in work.transfers /\ work.transfers \subseteq TransferRow
    BY <1>1, TablesUpdate DEF RowsOf
  <2>3. new.event = row.event /\ new.invoice = row.invoice
    BY <2>2 DEF TransferRow
  <2>4. tables.events = work.events /\ tables.transfers = (work.transfers \ {row}) \cup {new}
    BY <1>1 DEF Tables
  <2>5. Flush(r, tables)
    BY <2>1
  <2>6. Goto(r, "recorded") /\ UNCHANGED <<order, event>>
    BY <1>15 DEF UpdateTransfer
  <2> HIDE DEF tables, new
  <2>7. Books(tables)
    BY <1>1, <2>2, <2>3, <2>4, BooksReplace
  <2>8. QED BY <1>4, <2>5, <2>6, <2>7 DEF Places
<1>16. CASE MissTransfer(r)
  <2>1. Goto(r, "transfer") \/ Goto(r, "recorded")
    BY <1>16 DEF MissTransfer, Goto, TypeInv, TypeOK, TransferTypeOK
  <2>2. QED BY <1>3, <1>16, <2>1 DEF MissTransfer, Places
<1>17. CASE CommitEvent(r)
  <2>1. Goto(r, "answered") /\ Commit(r, work) /\ UNCHANGED <<order, event>>
    BY <1>5, <1>17 DEF CommitEvent
  <2>2. QED BY <1>1, <1>4, <2>1 DEF Places
<1>18. CASE AnswerArrives(r) \/ AnswerLost(r)
  <2>1. \A q \in Requests \ {r} : event'[q] = event[q]
    BY <1>18 DEF AnswerArrives, AnswerLost, ReleaseSlot, TypeInv, TypeOK, WebhookTypeOK
  <2>2. QED BY <1>3, <1>18, <2>1 DEF AnswerArrives, AnswerLost, ReleaseSlot, Places
<1>19. QED BY <1>6, <1>7, <1>8, <1>9, <1>11, <1>12, <1>14, <1>15, <1>16, <1>17, <1>18
           DEF WebhookStep

(* A reconciliation adds rows of invoices that have none. *)
LEMMA ReconcileBooks ==
  ASSUME TypeInv, LockPositions, BooksInv, NEW p \in Reconcilers,
         LoadInvoices(p) \/ ReconcileStep(p), UNCHANGED webhookVars
  PROVE  BooksInv'
<1> p \in Processes /\ p \notin Requests
  BY ProcessesAssumption DEF Processes
<1>1. work \in Tables /\ Books(work) /\ Books(db)
  BY DEF TypeInv, TypeOK, DatabaseTypeOK, BooksInv
<1>2. ASSUME NEW label \in Places \ {"sending", "executed"}, Goto(p, label), UNCHANGED order,
             UNCHANGED work \/ writer \in {None, p}, Books(db)', Books(work)'
      PROVE  BooksInv'
  <2>1. pc'[p] = label /\ \A q \in Processes \ {p} : pc'[q] = pc[q] /\ order'[q] = order[q]
    BY <1>2, GotoTyped DEF TypeInv
  <2>2. BooksAt(p)'
    BY <1>2, <2>1 DEF BooksAt
  <2>3. QED BY <1>2, <2>1, <2>2, StepBooks DEF webhookVars
<1>3. ASSUME UNCHANGED dbVars
      PROVE  Books(db)' /\ Books(work)' /\ UNCHANGED work
  BY <1>1, <1>3 DEF dbVars, Books, UniqueCauses
<1>4. ASSUME NEW label \in Places \ {"sending", "executed"}, Goto(p, label),
             UNCHANGED <<order, dbVars>>
      PROVE  BooksInv'
  BY <1>2, <1>3, <1>4
<1>5. ASSUME UNCHANGED <<dbVars, pc, order>>
      PROVE  BooksInv'
  BY <1>1, <1>3, <1>5 DEF BooksInv, BooksAt, webhookVars
<1>6. ASSUME NEW x \in loaded[p], FetchInvoice(p, x) \/ FetchFails(p, x) \/ FetchTransfer(p, x)
      PROVE  BooksInv'
  BY <1>4, <1>5, <1>6 DEF FetchInvoice, FetchFails, FetchTransfer, Places
<1>7. CASE LoadInvoices(p) \/ NextInvoice(p) \/ LoadTransfers(p) \/ AbortJob(p)
  BY <1>4, <1>7 DEF LoadInvoices, NextInvoice, LoadTransfers, AbortJob, Places
<1>8. /\ Books(Flushed(p))
      /\ Flushed(p).events = work.events /\ Flushed(p).transfers = work.transfers
  BY <1>1, BooksFlush DEF Flushed
<1>9. CASE PayMissing(p)
  <2> DEFINE i == item[p]
             tables == Flushed(p)
  <2>1. i \in Invoices /\ pc[p] = "checking" /\ changes[p] \in SUBSET InvoiceItem
    BY <1>9 DEF PayMissing, TypeInv, Positions, JobAt
  <2>2. tables \in Tables
    BY <1>1, <2>1, FlushInvoicesTyped DEF Flushed
  <2>3. ReconcileId(i) \in Causes /\ ReconcileId(i).id = i /\ ReconcileId(i).kind = "reconcile"
    BY <2>1 DEF Causes, ReconcileId
  <2>4. \A old \in tables.transfers : old.event # ReconcileId(i)
    <3>1. \A old \in work.transfers : old.invoice # i
      BY <1>9 DEF PayMissing, HasTransfer
    <3>2. QED BY <1>1, <1>8, <2>3, <3>1 DEF Books
  <2>5. StartTransfer(p, i, ReconcileId(i), tables) /\ UNCHANGED event
    BY <1>9 DEF PayMissing, webhookVars
  <2>6. Books(tables)
    BY <1>8
  <2> HIDE DEF tables, i
  <2>7. QED BY <2>1, <2>2, <2>3, <2>4, <2>5, <2>6, StartBooks
<1>10. CASE SkipPayout(p)
  <2>1. Goto(p, "invoices") /\ Flush(p, Flushed(p)) /\ UNCHANGED order
    BY <1>10 DEF SkipPayout
  <2>2. QED BY <1>2, <1>8, <2>1, SessionBooks DEF Places
<1>11. ASSUME NEW tables, Books(tables), EndPhase(p, tables)
       PROVE  /\ UNCHANGED order /\ Books(db)' /\ Books(work)'
              /\ UNCHANGED work \/ writer \in {None, p}
  BY <1>3, <1>11, SessionBooks DEF EndPhase
<1>12. CASE EndInvoices(p)
  <2>1. Goto(p, "loading") /\ EndPhase(p, Flushed(p))
    BY <1>12 DEF EndInvoices
  <2>2. QED BY <1>2, <1>8, <1>11, <2>1 DEF Places
<1>13. CASE EndTransfers(p)
  <2>1. Goto(p, "idle") /\ EndPhase(p, FlushTransfers(work, changes[p]))
    BY <1>13 DEF EndTransfers
  <2>2. Books(FlushTransfers(work, changes[p]))
    BY <1>1, BooksFlush
  <2>3. QED BY <1>2, <1>11, <2>1, <2>2 DEF Places
<1>14. QED BY <1>6, <1>7, <1>9, <1>10, <1>12, <1>13 DEF ReconcileStep

(* What a crash undoes was not on the books. *)
LEMMA CrashBooks ==
  ASSUME LockPositions, BooksInv, NEW w \in Workers, Crash(w)
  PROVE  BooksInv'
<1>1. \A p \in Processes : \/ pc'[p] = pc[p] /\ order'[p] = order[p] /\ ~On(w, p)
                           \/ pc'[p] \in {"idle", "done"} /\ On(w, p)
  BY DEF Crash
<1>2. \A r \in Requests : ~On(w, r) => event'[r] = event[r]
  BY DEF Crash
<1>3. /\ db' = db /\ Books(db)' /\ Books(work)'
      /\ work' = work \/ (writer # None /\ On(w, writer))
  BY DEF Crash, Rollback, dbVars, BooksInv, Books, UniqueCauses
<1>4. ASSUME NEW p \in Processes
      PROVE  BooksAt(p)'
  <2>1. CASE pc'[p] \in {"idle", "done"}
    BY <2>1 DEF BooksAt
  <2>2. CASE pc'[p] = pc[p] /\ order'[p] = order[p] /\ ~On(w, p) /\ work' = work
    BY <1>2, <2>2 DEF BooksInv, BooksAt
  <2>3. CASE pc'[p] = pc[p] /\ ~On(w, p) /\ writer # None /\ On(w, writer)
    <3>1. writer # p
      BY <2>3
    <3>2. pc[p] \notin {"sending", "executed"} /\ (p \in Requests => pc[p] # "invoice")
      BY <3>1 DEF LockPositions, LockAt, InTransaction, InPayout
    <3>3. QED BY <2>3, <3>2 DEF BooksAt
  <2>4. QED BY <1>1, <1>3, <2>1, <2>2, <2>3
<1>5. QED BY <1>3, <1>4 DEF BooksInv

(* Every step keeps one row for each cause. *)
LEMMA NextBooks ==
  ASSUME TypeInv, LockPositions, BooksInv, [Next]_vars
  PROVE  BooksInv'
<1>1. ASSUME UNCHANGED <<dbVars, pc, order, event>>
      PROVE  BooksInv'
  BY <1>1 DEF dbVars, BooksInv, BooksAt, Books, UniqueCauses
<1>2. CASE TransferNext /\ UNCHANGED webhookVars
  BY <1>2, TransferBooks DEF TransferNext
<1>3. CASE WebhookNext
  BY <1>3, WebhookBooks DEF WebhookNext
<1>4. CASE ReconcileNext /\ UNCHANGED webhookVars
  BY <1>1, <1>4, ReconcileBooks DEF ReconcileNext, AgeOut, webhookVars
<1>5. CASE IssueNext /\ UNCHANGED webhookVars
  BY <1>5, IssueBooks
<1>6. CASE BankNext /\ UNCHANGED <<dbVars, transferVars, webhookVars, reconcileVars>>
  BY <1>1, <1>6 DEF transferVars, webhookVars
<1>7. CASE \E w \in Workers : Crash(w)
  BY <1>7, CrashBooks
<1>8. CASE UNCHANGED vars
  BY <1>1, <1>8 DEF vars, transferVars, webhookVars
<1>9. QED BY <1>2, <1>3, <1>4, <1>5, <1>6, <1>7, <1>8 DEF Next

(* The committed tables and the writer's are in order in every reachable     *)
(* state: causes are unique, and every row of an event has its event.        *)
THEOREM BooksInvariant == Spec => []BooksInv
<1>1. Init => BooksInv
  BY InitBooks
<1>2. TypeInv /\ LockPositions /\ BooksInv /\ [Next]_vars => BooksInv'
  BY NextBooks
<1>3. QED BY <1>1, <1>2, TypeInvariant, LockInvariant, PTL DEF Spec

(* One event never has two transfer rows and an invoice is never recovered   *)
(* twice, whatever the number of workers, requests and reconciliation jobs.  *)
THEOREM RowsHaveOwnCause == Spec => []OneRowPerCause
<1>1. BooksInv => OneRowPerCause
  BY DEF BooksInv, Books, OneRowPerCause
<1>2. QED BY <1>1, BooksInvariant, PTL

-----------------------------------------------------------------------------
(***************************************************************************)
(* PayoutSystem implements PayoutLedger.  The books change when somebody   *)
(* commits, and then they become what the writer's tables were.  So the    *)
(* proof is about the draft: by how much the writer's tables are ahead of  *)
(* the committed ones.  A request is ahead by its event and, from the      *)
(* start of its payout, by one transfer; a reconciliation by transfers of  *)
(* invoices that have none; a batch by nothing the ledger knows of.        *)
(***************************************************************************)

Entry(row) == [id |-> row.id, invoice |-> row.invoice, cause |-> row.event]
Entries(tables) == {Entry(row) : row \in tables.transfers}

RequestDraft(r) ==
  /\ work.events = db.events \cup {event[r]}
  /\ pc[r] \notin InPayout => Entries(work) = Entries(db)
  /\ pc[r] \in InPayout =>
       \E entry : /\ Entries(work) = Entries(db) \cup {entry}
                  /\ entry.invoice \in Invoices
                  /\ event[r] = InvoiceEvent(entry.invoice, "credited")
                  /\ entry.cause = event[r]
JobDraft ==
  /\ work.events = db.events
  /\ Entries(db) \subseteq Entries(work)
  /\ \A entry \in Entries(work) \ Entries(db) :
       /\ entry.cause = ReconcileId(entry.invoice)
       /\ \A old \in Entries(db) : old.invoice # entry.invoice
BatchDraft == work.events = db.events /\ Entries(work) = Entries(db)

DraftInv ==
  /\ \A r \in Requests : writer = r => RequestDraft(r)
  /\ \A p \in Reconcilers : writer = p => JobDraft
  /\ \A b \in Batches : writer = b => BatchDraft

-----------------------------------------------------------------------------
\* What a step can do to the books.

\* The payout of a request neither starts nor ends.
SameWork(r) == event'[r] = event[r] /\ (pc'[r] \in InPayout <=> pc[r] \in InPayout)

Nothing == UNCHANGED dbVars /\ \A r \in Requests : writer = r => SameWork(r)
\* p flushes what the ledger does not know of.
FlushesOther(p) ==
  /\ writer \in {None, p} /\ writer' = p /\ db' = db
  /\ work'.events = work.events /\ Entries(work') = Entries(work)
  /\ p \in Requests => writer = p /\ SameWork(p)
FlushesEvent(r) ==
  /\ writer = None /\ writer' = r /\ db' = db
  /\ work'.events = work.events \cup {event[r]} /\ Entries(work') = Entries(work)
  /\ event'[r] = event[r] /\ pc'[r] \notin InPayout
\* A payout starts, for a credited event or because an invoice has no transfer.
FlushesTransfer(p) ==
  /\ writer \in {None, p} /\ writer' = p /\ db' = db
  /\ work'.events = work.events
  /\ \E entry :
       /\ Entries(work') = Entries(work) \cup {entry}
       /\ entry.invoice \in Invoices
       /\ p \in Requests =>
            /\ writer = p /\ pc[p] \notin InPayout /\ pc'[p] \in InPayout
            /\ event'[p] = event[p]
            /\ event[p] = InvoiceEvent(entry.invoice, "credited") /\ entry.cause = event[p]
       /\ p \in Reconcilers =>
            /\ entry.cause = ReconcileId(entry.invoice)
            /\ \A old \in Entries(work) : old.invoice # entry.invoice
Undoes == writer' = None /\ db' = db
Settles(p) ==
  /\ writer \in {None, p} /\ writer' = None
  /\ db'.events = work.events /\ Entries(db') = Entries(work)

Effect ==
  \/ Nothing \/ Undoes
  \/ \E p \in Processes : FlushesOther(p) \/ Settles(p)
  \/ \E p \in Requests \cup Reconcilers : FlushesTransfer(p)
  \/ \E r \in Requests : FlushesEvent(r)

-----------------------------------------------------------------------------
\* What the ledger sees of tables.

(* A row gets another content, but keeps its number, invoice and cause. *)
LEMMA EntriesReplace ==
  ASSUME NEW tables, NEW tables2, NEW old \in tables.transfers, NEW new,
         tables2.transfers = (tables.transfers \ {old}) \cup {new}, Entry(new) = Entry(old)
  PROVE  Entries(tables2) = Entries(tables)
BY DEF Entries

(* What the reconciliation flushes of statuses. *)
LEMMA EntriesFlush ==
  ASSUME NEW tables \in Tables, NEW ch
  PROVE  /\ FlushTransfers(tables, ch).events = tables.events
         /\ Entries(FlushTransfers(tables, ch)) = Entries(tables)
<1> DEFINE F == FlushTransfers(tables, ch)
           New(row) == [row EXCEPT !.status = StatusFrom(ch, row.id, row.status)]
<1>1. F.events = tables.events /\ F.transfers = {New(row) : row \in tables.transfers}
  BY DEF FlushTransfers, Tables
<1>2. \A row \in tables.transfers : Entry(New(row)) = Entry(row)
  <2>1. tables.transfers \subseteq TransferRow
    BY TablesUpdate
  <2>2. QED BY <2>1 DEF TransferRow, Entry
<1> HIDE DEF F, New
<1>3. Entries(F) = Entries(tables)
  BY <1>1, <1>2 DEF Entries
<1>4. QED BY <1>1, <1>3 DEF F

(* The same transfers are the same entries. *)
LEMMA EntriesSame ==
  ASSUME NEW tables, NEW tables2, tables2.transfers = tables.transfers
  PROVE  Entries(tables2) = Entries(tables)
BY DEF Entries

-----------------------------------------------------------------------------
\* The effect of every step.

(* A step that touches no table and starts no payout is Nothing.             *)
LEMMA QuietEffect ==
  ASSUME UNCHANGED dbVars, \A r \in Requests : writer = r => SameWork(r)
  PROVE  Effect
BY DEF Effect, Nothing

(* Settling a row keeps its entry in the ledger.                             *)
LEMMA TransferEffect ==
  ASSUME TypeInv, LockPositions, BooksInv, NEW p \in Requests \cup Reconcilers, TransferStep(p),
         UNCHANGED webhookVars
  PROVE  Effect
<1> p \in Processes
  BY DEF Processes
<1>1. writer = p /\ pc[p] \in {"sending", "executed"}
  BY DEF TransferStep, BankExecutes, BankReplies, BankRepliesEmpty, CallFails, LockPositions,
         LockAt, InPayout
<1>2. order[p] \in work.transfers /\ order[p] \in TransferRow /\ work \in Tables
  BY <1>1 DEF BooksInv, BooksAt, TypeInv, TypeOK, DatabaseTypeOK, Positions, OrderAt
<1>3. PICK label \in {"executed", "transferred", "transferFailed"} : Goto(p, label)
  BY DEF TransferStep, BankExecutes, BankReplies, BankRepliesEmpty, CallFails, SettleRow
<1>4. pc'[p] \in InPayout /\ (p \in Requests => SameWork(p))
  BY <1>1, <1>3, GotoTyped DEF SameWork, webhookVars, InPayout, Places, TypeInv
<1>5. CASE BankExecutes(p)
  BY <1>1, <1>4, <1>5, QuietEffect DEF BankExecutes
<1>6. ASSUME NEW row, NEW l, SettleRow(p, row, l), Entry(row) = Entry(order[p])
      PROVE  Effect
  <2>1. work'.events = work.events /\ work'.transfers = (work.transfers \ {order[p]}) \cup {row}
    BY <1>2, <1>6 DEF SettleRow, Tables
  <2>2. Entries(work') = Entries(work)
    BY <1>2, <1>6, <2>1, EntriesReplace
  <2>3. FlushesOther(p)
    BY <1>1, <1>4, <1>6, <2>1, <2>2 DEF FlushesOther, SettleRow
  <2>4. QED BY <2>3 DEF Effect
<1>7. \A s : Entry([order[p] EXCEPT !.status = s]) = Entry(order[p])
  BY <1>2 DEF TransferRow, Entry
<1>8. CASE BankReplies(p)
  <2> DEFINE row == [order[p] EXCEPT !.stark = order[p].id, !.status = "created"]
  <2>1. Entry(row) = Entry(order[p])
    BY <1>2 DEF TransferRow, Entry
  <2>2. SettleRow(p, row, "transferred")
    BY <1>8 DEF BankReplies
  <2> HIDE DEF row
  <2>3. QED BY <1>6, <2>1, <2>2
<1>9. CASE BankRepliesEmpty(p)
  BY <1>6, <1>7, <1>9 DEF BankRepliesEmpty
<1>10. CASE CallFails(p)
  BY <1>6, <1>7, <1>10 DEF CallFails
<1>11. QED BY <1>5, <1>8, <1>9, <1>10 DEF TransferStep

(* Batches and invoices are not in the ledger.                               *)
LEMMA IssueEffect ==
  ASSUME TypeInv, LockPositions, IssueNext, UNCHANGED webhookVars
  PROVE  Effect
<1>1. PICK b \in Batches : OpenBatch(b) \/ OpenBatchTimesOut(b) \/ BankIssues(b)
                             \/ RecordBatch(b) \/ FailBatch(b)
  BY DEF IssueNext
<1> b \in Processes /\ b \notin Requests
  BY ProcessesAssumption DEF Processes
<1>2. work \in Tables
  BY DEF TypeInv, TypeOK, DatabaseTypeOK
<1>3. ASSUME NEW tables, Flush(b, tables) \/ Commit(b, tables),
             tables.events = work.events, tables.transfers = work.transfers
      PROVE  Effect
  <2>1. Entries(tables) = Entries(work)
    BY <1>3, EntriesSame
  <2>2. FlushesOther(b) \/ Settles(b)
    BY <1>3, <2>1 DEF Flush, Commit, FlushesOther, Settles
  <2>3. QED BY <2>2 DEF Effect
<1>4. \A s : /\ [work EXCEPT !.batches[b] = s].events = work.events
             /\ [work EXCEPT !.batches[b] = s].transfers = work.transfers
  BY <1>2 DEF Tables
<1>5. WithLot(work, b).events = work.events /\ WithLot(work, b).transfers = work.transfers
  BY <1>2 DEF WithLot, Tables
<1>6. CASE OpenBatchTimesOut(b) \/ BankIssues(b)
  <2>1. \A r \in Requests : Undisturbed(r)
    BY IssueOther
  <2>2. QED BY <1>6, <2>1, QuietEffect DEF OpenBatchTimesOut, BankIssues, Undisturbed, SameWork
<1>7. CASE OpenBatch(b)
  BY <1>3, <1>4, <1>7 DEF OpenBatch
<1>8. CASE RecordBatch(b)
  BY <1>3, <1>5, <1>8 DEF RecordBatch
<1>9. CASE FailBatch(b)
  BY <1>3, <1>4, <1>9 DEF FailBatch
<1>10. QED BY <1>1, <1>6, <1>7, <1>8, <1>9

(* The row a payout starts with is a new entry. *)
LEMMA StartEntry ==
  ASSUME NEW p, NEW i \in Invoices, NEW cause, NEW tables \in Tables,
         StartTransfer(p, i, cause, tables),
         tables.events = work.events, tables.transfers = work.transfers
  PROVE  /\ writer \in {None, p} /\ writer' = p /\ db' = db
         /\ work'.events = work.events
         /\ Entries(work') = Entries(work) \cup {Entry(NewRow(i, cause))}
         /\ Entry(NewRow(i, cause)).invoice = i /\ Entry(NewRow(i, cause)).cause = cause
<1> DEFINE row == NewRow(i, cause)
<1>1. Entry(row).invoice = i /\ Entry(row).cause = cause
  BY DEF NewRow, Entry
<1> HIDE DEF row
<1>2. PICK tables2 : /\ tables2 = [tables EXCEPT !.transfers = tables.transfers \cup {row}]
                     /\ Flush(p, tables2)
  BY DEF StartTransfer, row
<1>3. tables2.events = tables.events /\ tables2.transfers = tables.transfers \cup {row}
  BY <1>2 DEF Tables
<1>4. Entries(tables2) = Entries(work) \cup {Entry(row)}
  BY <1>3 DEF Entries
<1>5. QED BY <1>1, <1>2, <1>3, <1>4 DEF Flush, row

(* A request flushes its event, then a transfer; commits or undoes both.     *)
LEMMA WebhookEffect ==
  ASSUME TypeInv, LockPositions, NEW r \in Requests,
         WebhookStep(r) \/ \E e \in Emitted \ acked : Deliver(r, e)
  PROVE  Effect
<1> r \in Processes /\ r # None
  BY NoneIsNoStatus DEF Processes
<1>1. work \in Tables /\ LockAt(r)
  BY DEF TypeInv, TypeOK, DatabaseTypeOK, LockPositions
<1>2. \A q \in Requests \ {r} : SameWork(q)
  BY WebhookOther DEF Undisturbed, SameWork
<1>3. ASSUME UNCHANGED dbVars, writer # r
      PROVE  Effect
  BY <1>2, <1>3, QuietEffect
<1>4. ASSUME pc[r] \notin InTransaction.request
      PROVE  writer # r
  BY <1>1, <1>4 DEF LockAt
<1>5. CASE \E e \in Emitted \ acked : Deliver(r, e)
  BY <1>3, <1>4, <1>5 DEF Deliver, InTransaction, InPayout
<1>6. CASE Parse(r) \/ ParseFails(r) \/ AcquireWebhookLock(r)
  BY <1>3, <1>4, <1>6 DEF Parse, ParseFails, AcquireWebhookLock, InTransaction, InPayout
<1>7. CASE CheckDuplicate(r) \/ InsertCollides(r) \/ InsertTimesOut(r)
  BY <1>3, <1>4, <1>7 DEF CheckDuplicate, InsertCollides, InsertTimesOut, InTransaction, InPayout
<1>8. CASE AnswerArrives(r) \/ AnswerLost(r)
  BY <1>3, <1>4, <1>8 DEF AnswerArrives, AnswerLost, ReleaseSlot, InTransaction, InPayout
<1>9. CASE InsertEvent(r)
  <2> DEFINE e == event[r]
  <2>1. e.kind \in {"invoice", "transfer", "other"} /\ pc[r] = "inserting"
    BY <1>9, EventKinds DEF InsertEvent, TypeInv, Positions, RequestAt
  <2>2. writer # r
    BY <1>4, <2>1 DEF InTransaction, InPayout
  <2>3. PICK tables : tables = [work EXCEPT !.events = work.events \cup {e}] /\ Flush(r, tables)
    BY <1>9 DEF InsertEvent
  <2>4. tables.events = work.events \cup {e} /\ tables.transfers = work.transfers
    BY <1>1, <2>3 DEF Tables
  <2>5. Entries(tables) = Entries(work)
    BY <2>4, EntriesSame
  <2>6. pc'[r] \notin InPayout /\ event'[r] = event[r]
    BY <1>9, <2>1, GotoTyped DEF InsertEvent, webhookVars, InPayout, Places, TypeInv
  <2>7. FlushesEvent(r)
    BY <2>2, <2>3, <2>4, <2>5, <2>6 DEF Flush, FlushesEvent
  <2>8. QED BY <2>7 DEF Effect
<1>10. ASSUME NEW tables, Flush(r, tables), tables.events = work.events,
              Entries(tables) = Entries(work), Goto(r, "recorded"), event' = event,
              pc[r] \in {"invoice", "transfer"}
       PROVE  Effect
  <2>1. writer = r
    BY <1>1, <1>10 DEF LockAt, InTransaction
  <2>2. SameWork(r)
    BY <1>10, GotoTyped DEF SameWork, InPayout, Places, TypeInv
  <2>3. FlushesOther(r)
    BY <1>10, <2>1, <2>2 DEF Flush, FlushesOther
  <2>4. QED BY <2>3 DEF Effect
<1>11. ASSUME NEW i, NEW s
       PROVE  /\ WithInvoiceStatus(work, i, s).events = work.events
              /\ WithInvoiceStatus(work, i, s).transfers = work.transfers
  BY <1>1 DEF WithInvoiceStatus, Tables
<1>12. CASE RecordInvoiceEvent(r)
  <2>1. Entries(WithInvoiceStatus(work, event[r].id, event[r].type)) = Entries(work)
    BY <1>11, EntriesSame
  <2>2. QED BY <1>10, <1>11, <1>12, <2>1 DEF RecordInvoiceEvent, webhookVars
<1>13. CASE DispatchCredited(r)
  <2> DEFINE e == event[r]
             tables == WithInvoiceStatus(work, e.id, e.type)
             entry == Entry(NewRow(e.id, e))
  <2>1. e \in EventIds /\ e.kind = "invoice" /\ e.type = "credited" /\ pc[r] = "invoice"
    BY <1>13 DEF DispatchCredited, Credited, TypeInv, Positions, RequestAt
  <2>2. e.id \in Invoices /\ tables \in Tables
    BY <1>1, <2>1, EventKinds, WithInvoiceStatusTyped
  <2>3. e = InvoiceEvent(e.id, "credited")
    BY <2>1 DEF EventIds, InvoiceEvent, OtherEvent
  <2>4. StartTransfer(r, e.id, e, tables) /\ UNCHANGED event
    BY <1>13 DEF DispatchCredited, webhookVars
  <2>5. tables.events = work.events /\ tables.transfers = work.transfers
    BY <1>11
  <2> HIDE DEF tables
  <2>6. /\ writer \in {None, r} /\ writer' = r /\ db' = db /\ work'.events = work.events
        /\ Entries(work') = Entries(work) \cup {entry}
        /\ entry.invoice = e.id /\ entry.cause = e
    BY <2>2, <2>4, <2>5, StartEntry
  <2>7. writer = r /\ pc[r] \notin InPayout /\ pc'[r] \in InPayout
    BY <1>1, <2>1, <2>4, GotoTyped DEF StartTransfer, LockAt, InTransaction, InPayout, Places,
       TypeInv
  <2>8. r \notin Reconcilers
    BY ProcessesAssumption
  <2> HIDE DEF entry
  <2>9. FlushesTransfer(r)
    BY <2>2, <2>3, <2>4, <2>6, <2>7, <2>8 DEF FlushesTransfer
  <2>10. QED BY <2>9 DEF Effect
<1>14. ASSUME NEW a, FailRequest(r, a), pc[r] \in InTransaction.request
       PROVE  Effect
  BY <1>1, <1>14 DEF FailRequest, Rollback, LockAt, Effect, Undoes
<1>15. CASE RefuseCredited(r) \/ AbandonCredited(r)
  BY <1>14, <1>15 DEF RefuseCredited, AbandonCredited, InTransaction, InPayout
<1>16. CASE UpdateTransfer(r)
  <2>1. PICK row \in RowsOf(event[r]), s \in SnapshotOf(event[r]) :
          Flush(r, [work EXCEPT !.transfers =
                      (work.transfers \ {row}) \cup {[row EXCEPT !.status = s]}])
    BY <1>16 DEF UpdateTransfer
  <2> DEFINE new == [row EXCEPT !.status = s]
             tables == [work EXCEPT !.transfers = (work.transfers \ {row}) \cup {new}]
  <2>2. row \in work.transfers /\ work.transfers \subseteq TransferRow
    BY <1>1, TablesUpdate DEF RowsOf
  <2>3. Entry(new) = Entry(row)
    BY <2>2 DEF TransferRow, Entry
  <2>4. tables.events = work.events /\ tables.transfers = (work.transfers \ {row}) \cup {new}
    BY <1>1 DEF Tables
  <2>5. Flush(r, tables)
    BY <2>1
  <2> HIDE DEF tables, new
  <2>6. Entries(tables) = Entries(work)
    BY <2>2, <2>3, <2>4, EntriesReplace
  <2>7. QED BY <1>10, <1>16, <2>4, <2>5, <2>6 DEF UpdateTransfer
<1>17. CASE MissTransfer(r)
  <2>1. SameWork(r)
    BY <1>17, GotoTyped DEF MissTransfer, SameWork, InPayout, Places, TypeInv
  <2>2. QED BY <1>2, <1>17, <2>1, QuietEffect DEF MissTransfer
<1>18. CASE CommitEvent(r)
  <2>1. Settles(r)
    BY <1>18 DEF CommitEvent, Commit, Settles
  <2>2. QED BY <2>1 DEF Effect
<1>19. QED BY <1>5, <1>6, <1>7, <1>8, <1>9, <1>12, <1>13, <1>15, <1>16, <1>17, <1>18
           DEF WebhookStep

(* A reconciliation adds transfers of invoices that have none, and commits.  *)
LEMMA ReconcileEffect ==
  ASSUME TypeInv, LockPositions, NEW p \in Reconcilers, LoadInvoices(p) \/ ReconcileStep(p),
         UNCHANGED webhookVars
  PROVE  Effect
<1> p \in Processes /\ p \notin Requests
  BY ProcessesAssumption DEF Processes
<1>1. work \in Tables
  BY DEF TypeInv, TypeOK, DatabaseTypeOK
<1>2. ASSUME UNCHANGED dbVars
      PROVE  Effect
  BY <1>2, ReconcileOther, QuietEffect DEF Undisturbed, SameWork
<1>3. ASSUME NEW tables, Flush(p, tables) \/ Commit(p, tables),
             tables.events = work.events, Entries(tables) = Entries(work)
      PROVE  Effect
  <2>1. FlushesOther(p) \/ Settles(p)
    BY <1>3 DEF Flush, Commit, FlushesOther, Settles
  <2>2. QED BY <2>1 DEF Effect
<1>4. ASSUME NEW x \in loaded[p], FetchInvoice(p, x) \/ FetchFails(p, x) \/ FetchTransfer(p, x)
      PROVE  Effect
  BY <1>2, <1>4 DEF FetchInvoice, FetchFails, FetchTransfer
<1>5. CASE LoadInvoices(p) \/ NextInvoice(p) \/ LoadTransfers(p) \/ AbortJob(p)
  BY <1>2, <1>5 DEF LoadInvoices, NextInvoice, LoadTransfers, AbortJob
<1>6. Flushed(p).events = work.events /\ Flushed(p).transfers = work.transfers
  BY <1>1, BooksFlush DEF Flushed, FlushInvoices, Tables
<1>7. Entries(Flushed(p)) = Entries(work)
  BY <1>6, EntriesSame
<1>8. CASE PayMissing(p)
  <2> DEFINE i == item[p]
             tables == Flushed(p)
             entry == Entry(NewRow(i, ReconcileId(i)))
  <2>1. i \in Invoices /\ pc[p] = "checking" /\ changes[p] \in SUBSET InvoiceItem
    BY <1>8 DEF PayMissing, TypeInv, Positions, JobAt
  <2>2. tables \in Tables
    BY <1>1, <2>1, FlushInvoicesTyped DEF Flushed
  <2>3. StartTransfer(p, i, ReconcileId(i), tables)
    BY <1>8 DEF PayMissing
  <2>4. \A old \in Entries(work) : old.invoice # i
    BY <1>8 DEF PayMissing, HasTransfer, Entries, Entry
  <2>5. tables.events = work.events /\ tables.transfers = work.transfers
    BY <1>6
  <2> HIDE DEF tables, i
  <2>6. /\ writer \in {None, p} /\ writer' = p /\ db' = db /\ work'.events = work.events
        /\ Entries(work') = Entries(work) \cup {entry}
        /\ entry.invoice = i /\ entry.cause = ReconcileId(i)
    BY <2>1, <2>2, <2>3, <2>5, StartEntry
  <2> HIDE DEF entry
  <2>7. FlushesTransfer(p)
    BY <2>1, <2>4, <2>6 DEF FlushesTransfer
  <2>8. QED BY <2>7 DEF Effect
<1>9. CASE SkipPayout(p)
  BY <1>3, <1>6, <1>7, <1>9 DEF SkipPayout
<1>10. CASE EndInvoices(p)
  BY <1>2, <1>3, <1>6, <1>7, <1>10 DEF EndInvoices, EndPhase
<1>11. CASE EndTransfers(p)
  BY <1>1, <1>2, <1>3, <1>11, EntriesFlush DEF EndTransfers, EndPhase
<1>12. QED BY <1>4, <1>5, <1>8, <1>9, <1>10, <1>11 DEF ReconcileStep

(* Every step does one of six things to the books. *)
LEMMA Effects ==
  ASSUME TypeInv, LockPositions, BooksInv, [Next]_vars
  PROVE  Effect
<1>1. ASSUME UNCHANGED <<dbVars, pc, event>>
      PROVE  Effect
  BY <1>1, QuietEffect DEF SameWork
<1>2. CASE TransferNext /\ UNCHANGED webhookVars
  BY <1>2, TransferEffect DEF TransferNext
<1>3. CASE WebhookNext
  BY <1>3, WebhookEffect DEF WebhookNext
<1>4. CASE ReconcileNext /\ UNCHANGED webhookVars
  BY <1>1, <1>4, ReconcileEffect DEF ReconcileNext, AgeOut, webhookVars
<1>5. CASE IssueNext /\ UNCHANGED webhookVars
  BY <1>5, IssueEffect
<1>6. CASE UNCHANGED <<dbVars, transferVars, webhookVars>>
  BY <1>1, <1>6 DEF transferVars, webhookVars
<1>7. ASSUME NEW w \in Workers, Crash(w)
      PROVE  Effect
  <2>1. CASE writer # None /\ On(w, writer)
    BY <1>7, <2>1 DEF Crash, Rollback, Effect, Undoes
  <2>2. CASE ~(writer # None /\ On(w, writer))
    <3>1. UNCHANGED dbVars
      BY <1>7, <2>2 DEF Crash
    <3>2. \A r \in Requests : writer = r => ~On(w, r)
      BY <2>2, NoneIsNoStatus DEF Processes
    <3>3. \A r \in Requests : writer = r => SameWork(r)
      BY <1>7, <3>2 DEF Crash, SameWork, Processes
    <3>4. QED BY <3>1, <3>3, QuietEffect
  <2>3. QED BY <2>1, <2>2
<1>8. QED BY <1>2, <1>3, <1>4, <1>5, <1>6, <1>7 DEF Next, vars

-----------------------------------------------------------------------------
(* Nobody writes at the start.                                               *)
LEMMA InitDraft == Init => DraftInv
BY NoneIsNoStatus DEF Init, DatabaseInit, DraftInv, Processes

(* Each of the six effects keeps the draft what it has to be.                *)
LEMMA NextDraft ==
  ASSUME LockPositions, LockPositions', DraftInv, Effect
  PROVE  DraftInv'
<1> USE NoneIsNoStatus DEF Processes
<1>1. writer = None => work = db
  BY DEF LockPositions
<1>2. CASE writer' = None
  BY <1>2 DEF DraftInv
<1>3. CASE Nothing
  BY <1>3 DEF Nothing, DraftInv, RequestDraft, JobDraft, BatchDraft, SameWork, dbVars
<1>4. ASSUME NEW p \in Processes, FlushesOther(p)
      PROVE  DraftInv'
  <2>1. CASE p \in Requests
    BY <1>4, <2>1, ProcessesAssumption DEF FlushesOther, DraftInv, RequestDraft, SameWork
  <2>2. CASE p \in Reconcilers
    BY <1>1, <1>4, <2>2, ProcessesAssumption DEF FlushesOther, DraftInv, JobDraft
  <2>3. CASE p \in Batches
    BY <1>1, <1>4, <2>3, ProcessesAssumption DEF FlushesOther, DraftInv, BatchDraft
  <2>4. QED BY <2>1, <2>2, <2>3
<1>5. ASSUME NEW r \in Requests, FlushesEvent(r)
      PROVE  DraftInv'
  BY <1>1, <1>5, ProcessesAssumption DEF FlushesEvent, DraftInv, RequestDraft
<1>6. ASSUME NEW r \in Requests, FlushesTransfer(r)
      PROVE  DraftInv'
  <2>1. RequestDraft(r)
    BY <1>6 DEF FlushesTransfer, DraftInv
  <2>2. PICK entry : /\ Entries(work') = Entries(work) \cup {entry}
                     /\ entry.invoice \in Invoices
                     /\ event[r] = InvoiceEvent(entry.invoice, "credited")
                     /\ entry.cause = event[r]
    BY <1>6 DEF FlushesTransfer
  <2>3. /\ writer' = r /\ db' = db /\ work'.events = work.events
        /\ event'[r] = event[r] /\ pc[r] \notin InPayout /\ pc'[r] \in InPayout
    BY <1>6 DEF FlushesTransfer
  <2>4. Entries(db)' = Entries(db) /\ Entries(work)' = Entries(db) \cup {entry}
    BY <2>1, <2>2, <2>3 DEF Entries, RequestDraft
  <2>5. RequestDraft(r)'
    BY <2>1, <2>2, <2>3, <2>4 DEF RequestDraft
  <2>6. QED BY <2>3, <2>5, ProcessesAssumption DEF DraftInv
<1>7. ASSUME NEW p \in Reconcilers, FlushesTransfer(p)
      PROVE  DraftInv'
  <2>1. JobDraft
    BY <1>1, <1>7 DEF FlushesTransfer, DraftInv, JobDraft
  <2>2. PICK entry : /\ Entries(work') = Entries(work) \cup {entry}
                     /\ entry.cause = ReconcileId(entry.invoice)
                     /\ \A old \in Entries(work) : old.invoice # entry.invoice
    BY <1>7 DEF FlushesTransfer
  <2>3. writer' = p /\ db' = db /\ work'.events = work.events
    BY <1>7 DEF FlushesTransfer
  <2>4. Entries(db)' = Entries(db) /\ Entries(work)' = Entries(work) \cup {entry}
    BY <2>2, <2>3 DEF Entries
  <2>5. JobDraft'
    BY <2>1, <2>2, <2>3, <2>4 DEF JobDraft
  <2>6. QED BY <2>3, <2>5, ProcessesAssumption DEF DraftInv
<1>8. QED BY <1>2, <1>3, <1>4, <1>5, <1>6, <1>7 DEF Effect, Undoes, Settles

(* Who is writing tells by what the uncommitted tables are ahead of the      *)
(* committed ones: the request's event and transfer, the reconciliation's    *)
(* transfers for invoices without one, or nothing the ledger knows of.       *)
THEOREM DraftInvariant == Spec => []DraftInv
<1>1. Init => DraftInv
  BY InitDraft
<1>2. TypeInv /\ LockPositions /\ LockPositions' /\ BooksInv /\ DraftInv /\ [Next]_vars => DraftInv'
  BY Effects, NextDraft
<1>3. QED BY <1>1, <1>2, TypeInvariant, LockInvariant, BooksInvariant, PTL DEF Spec

-----------------------------------------------------------------------------
(* The steps of the ledger under the mapping: recorded is db.events, and the *)
(* ledger is Entries(db).                                                    *)
LEMMA LedgerSteps ==
  /\ Ledger!LedgerInit <=> db.events = {} /\ Entries(db) = {}
  /\ UNCHANGED <<db.events, Entries(db)>> => UNCHANGED Ledger!ledgerVars
  /\ \A e : /\ e \notin db.events /\ db'.events = db.events \cup {e}
            /\ Entries(db)' = Entries(db)
            => Ledger!RecordEvent
  /\ \A entry :
       /\ entry.invoice \in Invoices
       /\ InvoiceEvent(entry.invoice, "credited") \notin db.events
       /\ db'.events = db.events \cup {InvoiceEvent(entry.invoice, "credited")}
       /\ Entries(db)' = Entries(db) \cup {entry} /\ entry \notin Entries(db)
       /\ entry.cause = InvoiceEvent(entry.invoice, "credited")
       => Ledger!RecordAndBook(entry.invoice)
  /\ /\ db'.events = db.events
     /\ Entries(db) \subseteq Entries(db)' /\ Entries(db)' # Entries(db)
     /\ \A entry \in Entries(db)' \ Entries(db) :
          /\ entry.cause = ReconcileId(entry.invoice)
          /\ \A old \in Entries(db) : old.invoice # entry.invoice
          /\ \A other \in Entries(db)' \ Entries(db) :
               other.invoice = entry.invoice => other = entry
     => Ledger!Recover
<1> USE DEF Entries, Entry
<1>1. Ledger!LedgerInit <=> db.events = {} /\ Entries(db) = {}
  BY DEF Ledger!LedgerInit
<1>2. UNCHANGED <<db.events, Entries(db)>> => UNCHANGED Ledger!ledgerVars
  BY DEF Ledger!ledgerVars
<1>3. ASSUME NEW e, e \notin db.events, db'.events = db.events \cup {e},
             Entries(db)' = Entries(db)
      PROVE  Ledger!RecordEvent
  BY <1>3 DEF Ledger!RecordEvent
<1>4. ASSUME NEW entry,
             InvoiceEvent(entry.invoice, "credited") \notin db.events,
             db'.events = db.events \cup {InvoiceEvent(entry.invoice, "credited")},
             Entries(db)' = Entries(db) \cup {entry}, entry \notin Entries(db),
             entry.cause = InvoiceEvent(entry.invoice, "credited")
      PROVE  Ledger!RecordAndBook(entry.invoice)
  BY <1>4 DEF Ledger!RecordAndBook, Ledger!NewEntries, Ledger!InvoiceEvent, InvoiceEvent
<1>5. ASSUME db'.events = db.events,
             Entries(db) \subseteq Entries(db)', Entries(db)' # Entries(db),
             \A entry \in Entries(db)' \ Entries(db) :
               /\ entry.cause = ReconcileId(entry.invoice)
               /\ \A old \in Entries(db) : old.invoice # entry.invoice
               /\ \A other \in Entries(db)' \ Entries(db) :
                    other.invoice = entry.invoice => other = entry
      PROVE  Ledger!Recover
  BY <1>5 DEF Ledger!Recover, Ledger!NewEntries, Ledger!Booked, Ledger!ReconcileId, ReconcileId
<1>6. QED BY <1>1, <1>2, <1>3, <1>4, <1>5

(* A commit of a writer is a step of the ledger, all else stutters.          *)
LEMMA StepImplemented ==
  ASSUME TypeInv, LockPositions, BooksInv, RequestsInv, DraftInv, [Next]_vars
  PROVE  [Ledger!LedgerNext]_(Ledger!ledgerVars)
<1> DEFINE Goal == Ledger!LedgerNext \/ UNCHANGED Ledger!ledgerVars
<1> SUFFICES Goal
  OBVIOUS
<1>1. ASSUME db'.events = db.events, Entries(db') = Entries(db)
      PROVE  Goal
  BY <1>1, LedgerSteps DEF Entries
<1>2. ASSUME NEW r \in Requests, Settles(r), writer = r
      PROVE  Goal
  <2>1. event[r] \notin db.events
    BY <1>2 DEF RequestsInv, RequestAtWork, LockPositions, LockAt, Processes
  <2>2. RequestDraft(r) /\ db'.events = db.events \cup {event[r]} /\ Entries(db)' = Entries(work)
    BY <1>2 DEF DraftInv, RequestDraft, Settles, Entries
  <2>3. CASE Entries(work) = Entries(db)
    BY <2>1, <2>2, <2>3, LedgerSteps DEF Ledger!LedgerNext
  <2>4. CASE Entries(work) # Entries(db)
    <3>1. PICK entry : /\ Entries(work) = Entries(db) \cup {entry}
                       /\ entry.invoice \in Invoices
                       /\ event[r] = InvoiceEvent(entry.invoice, "credited")
                       /\ entry.cause = event[r]
      BY <2>2, <2>4 DEF RequestDraft
    <3>2. entry \notin Entries(db)
      BY <2>4, <3>1
    <3>3. Ledger!RecordAndBook(entry.invoice)
      BY <2>1, <2>2, <3>1, <3>2, LedgerSteps
    <3>4. QED BY <3>1, <3>3 DEF Ledger!LedgerNext
  <2>5. QED BY <2>3, <2>4
<1>3. ASSUME NEW p \in Reconcilers, Settles(p), writer = p
      PROVE  Goal
  <2>1. JobDraft /\ db'.events = db.events /\ Entries(db)' = Entries(work)
    BY <1>3 DEF DraftInv, JobDraft, Settles, Entries
  <2>2. \A a, b \in Entries(work) : a.cause = b.cause => a = b
    BY DEF BooksInv, Books, UniqueCauses, Entries, Entry
  <2>3. CASE Entries(work) # Entries(db)
    BY <2>1, <2>2, <2>3, LedgerSteps DEF JobDraft, Ledger!LedgerNext
  <2>4. CASE Entries(work) = Entries(db)
    BY <1>1, <2>1, <2>4 DEF Entries
  <2>5. QED BY <2>3, <2>4
<1>4. ASSUME NEW p \in Processes, Settles(p)
      PROVE  Goal
  <2>1. CASE writer = None
    BY <1>1, <1>4, <2>1 DEF LockPositions, Settles
  <2>2. CASE writer = p /\ p \in Batches
    BY <1>1, <1>4, <2>2 DEF DraftInv, BatchDraft, Settles
  <2>3. QED BY <1>2, <1>3, <1>4, <2>1, <2>2 DEF Settles, Processes
<1>5. CASE db' = db
  BY <1>1, <1>5
<1>6. QED BY <1>4, <1>5, Effects DEF Effect, Nothing, Undoes, FlushesOther, FlushesTransfer,
         FlushesEvent, dbVars

(* The committed tables of any number of workers, with their locks, sessions *)
(* and faults, are those of the abstract ledger: an event and its transfer   *)
(* are booked in one step, the reconciliation books only for invoices that   *)
(* have no transfer, and nothing booked is taken back.                       *)
THEOREM LedgerIsImplemented == Spec => LedgerImplemented
<1>1. Init => Ledger!LedgerInit
  <2>1. EmptyTables.events = {} /\ Entries(EmptyTables) = {}
    BY DEF EmptyTables, Entries
  <2>2. QED BY <2>1, LedgerSteps DEF Init, DatabaseInit
<1>2. TypeInv /\ LockPositions /\ BooksInv /\ RequestsInv /\ DraftInv /\ [Next]_vars
        => [Ledger!LedgerNext]_(Ledger!ledgerVars)
  BY StepImplemented
<1>3. QED BY <1>1, <1>2, TypeInvariant, LockInvariant, BooksInvariant, RequestsInvariant,
             DraftInvariant, PTL DEF Spec, LedgerImplemented, Ledger!LedgerSpec

-----------------------------------------------------------------------------
\* The step of RecoversOnlyUnpaid.
RecoveryStep ==
  \A row \in db'.transfers \ db.transfers :
    row.event.kind = "reconcile" /\ (\A old \in db.transfers : old.id # row.id)
      => \A old \in db.transfers : old.invoice # row.invoice

(* What a commit adds for the reconciliation is for unpaid invoices.         *)
LEMMA StepRecovers ==
  ASSUME TypeInv, LockPositions, BooksInv, DraftInv, [Next]_vars
  PROVE  RecoveryStep
<1> SUFFICES ASSUME NEW row \in db'.transfers \ db.transfers, row.event.kind = "reconcile",
                    \A old \in db.transfers : old.id # row.id,
                    NEW old \in db.transfers
             PROVE  old.invoice # row.invoice
  BY DEF RecoveryStep
<1>1. db' # db
  OBVIOUS
<1>2. PICK p \in Processes : Settles(p)
  BY <1>1, Effects DEF Effect, Nothing, Undoes, FlushesOther, FlushesTransfer, FlushesEvent, dbVars
<1>3. Entry(row) \in Entries(work) /\ Entry(row) \notin Entries(db) /\ Entry(old) \in Entries(db)
  <2>1. Entries(db') = Entries(work)
    BY <1>2 DEF Settles
  <2>2. Entry(row) \in Entries(db')
    BY DEF Entries
  <2>3. \A e \in Entries(db) : e.id # row.id
    BY DEF Entries, Entry
  <2>4. QED BY <2>1, <2>2, <2>3 DEF Entry, Entries
<1>4. writer = p
  BY <1>2, <1>3 DEF LockPositions, Settles
<1>5. CASE p \in Requests
  <2>1. RequestDraft(p)
    BY <1>4, <1>5 DEF DraftInv
  <2>2. PICK entry : /\ Entries(work) = Entries(db) \cup {entry}
                     /\ event[p] = InvoiceEvent(entry.invoice, "credited")
                     /\ entry.cause = event[p]
    BY <1>3, <2>1 DEF RequestDraft
  <2>3. Entry(row).cause.kind = "invoice"
    BY <1>3, <2>2 DEF InvoiceEvent
  <2>4. QED BY <2>3 DEF Entry
<1>6. CASE p \in Reconcilers
  <2>1. Entry(old).invoice # Entry(row).invoice
    BY <1>3, <1>4, <1>6 DEF DraftInv, JobDraft
  <2>2. QED BY <2>1 DEF Entry
<1>7. CASE p \in Batches
  BY <1>3, <1>4, <1>7 DEF DraftInv, BatchDraft
<1>8. QED BY <1>5, <1>6, <1>7 DEF Processes

(* Whichever workers pay meanwhile, the reconciliation never commits a       *)
(* transfer for an invoice that has one in the committed tables: between its *)
(* lookup and its commit nobody else can commit.                             *)
THEOREM RecoveriesAreUnpaid == Spec => RecoversOnlyUnpaid
<1>1. TypeInv /\ LockPositions /\ BooksInv /\ DraftInv /\ [Next]_vars => [RecoveryStep]_vars
  BY StepRecovers
<1>2. [RecoveryStep]_vars
        <=> [\A row \in db'.transfers \ db.transfers :
               row.event.kind = "reconcile" /\ (\A old \in db.transfers : old.id # row.id)
                 => \A old \in db.transfers : old.invoice # row.invoice]_vars
  BY DEF RecoveryStep
<1>3. QED BY <1>1, <1>2, TypeInvariant, LockInvariant, BooksInvariant, DraftInvariant, PTL
          DEF Spec, RecoversOnlyUnpaid
=============================================================================
