---------------------------- MODULE PaymentData ----------------------------
(***************************************************************************)
(* The vocabulary of the payment service: who runs, what the bank's        *)
(* invoices, events and transfers look like once everything that no        *)
(* property tells apart (names, tax ids, target account, payload text,     *)
(* timestamps) is left out, and the rows of the three tables the money     *)
(* path uses.                                                              *)
(***************************************************************************)
EXTENDS ExceptionHandlers, FiniteSets

CONSTANTS
  Invoices,     \* the invoices that can exist at the bank
  External,     \* those of them that were not issued by this service
  Batches,      \* the runs of issue_batch, each executed at most once
  LotOf,        \* the invoices a run of issue_batch creates at the bank
  Lapsing,      \* the invoices that may not be paid by their due date
  Issued,       \* amount an invoice is issued with, in cents: what its record keeps
  Gross,        \* amount the bank reports of it once paid: fine, interest, discount
  Fee,          \* fee the bank charges on it, in cents
  Requests,     \* slots for concurrent webhook deliveries (recycled)
  Reconcilers,  \* scheduler jobs running the reconciliation (max_instances=1)
  Workers,      \* server processes sharing the database (WEB_CONCURRENCY)
  Host,         \* the worker that runs a request, a job or a batch
  Subscribed,   \* the <<subscription, log type>> pairs the bank delivers
  BankErrors,   \* the errors of the bank's SDK that occur
  Budget,       \* how many faults of each kind a behaviour may contain
  MaxKinds,     \* how many kinds of fault a behaviour may combine
  None          \* the absence of a value (NULL, Python's None)

Processes == Requests \cup Reconcilers \cup Batches

(* Statuses of an invoice.  "overpaid" and "expired", which no code tests,  *)
(* are represented by "canceled": a final status other than paid/credited.  *)
(* An "overdue" invoice can still be paid, but is not pending (see below).  *)
InvoiceStatus == {"created", "overdue", "paid", "credited", "canceled"}

\* Statuses of a transfer; "pending" exists in the local table only.
TransferStatus == {"pending", "created", "processing", "success", "failed"}

\* Invoice and transfer statuses the reconciliation still looks at.
PendingInvoiceStatus == {"created", "pending"}
\* Mutation: a transfer in "processing" is no longer looked at.
PendingTransferStatusNarrow == {"created", "pending"}
PendingTransferStatus == {"created", "processing", "pending"}

\* The statuses through which a bank object went to reach the given one; an
\* invoice may have been overdue as well (StarkBank).
InvoiceHistory == [created  |-> {"created"},
                   overdue  |-> {"created", "overdue"},
                   paid     |-> {"created", "paid"},
                   credited |-> {"created", "paid", "credited"},
                   canceled |-> {"created", "canceled"}]
TransferHistory == [created    |-> {"created"},
                    processing |-> {"created", "processing"},
                    success    |-> {"created", "processing", "success"},
                    failed     |-> {"created", "processing", "failed"}]

(* Event ids.  The bank gives every log of an object an event id of its own *)
(* and repeats that id on every delivery, so the id is what it stands for.  *)
(* ReconcileId(i) is the id "reconcile_<invoice>" the reconciliation makes  *)
(* up for the transfers it starts itself.                                   *)
InvoiceEvent(i, type) == [kind |-> "invoice", id |-> i, type |-> type]
TransferEvent(n, type) == [kind |-> "transfer", id |-> n, type |-> type]
OtherEvent == [kind |-> "other", id |-> None, type |-> "created"]
ReconcileId(i) == [kind |-> "reconcile", id |-> i, type |-> "credited"]

EventIds == [kind : {"invoice"}, id : Invoices, type : InvoiceStatus]
       \cup [kind : {"transfer"}, id : Nat, type : TransferStatus]
       \cup {OtherEvent}
Causes == EventIds \cup {ReconcileId(i) : i \in Invoices}

\* A row of transfer_records; its id also names the payout at the bank.
TransferRow == [id : Nat, invoice : Invoices, event : Causes,
                stark : Nat \cup {None}, status : TransferStatus]

BatchStatus == {"completed", "failed"}

\* What the tables hold.
Tables == [events : SUBSET EventIds,
           invoices : [Invoices -> InvoiceStatus \cup {None}],
           transfers : SUBSET TransferRow,
           batches : [Batches -> BatchStatus \cup {None}]]

EmptyTables == [events |-> {}, invoices |-> [i \in Invoices |-> None],
                transfers |-> {}, batches |-> [b \in Batches |-> None]]

\* What is paid out: computed from the amount in the event or fetched, which is
\* the same for both, since both come after the payment.
Net(i) == Gross[i] - Fee[i]

(* Kinds of fault: a worker dies; the bank refuses a call; its answer to a  *)
(* call is lost (timeout, 5xx after the fact); it answers with an empty     *)
(* list; a session waits longer than busy_timeout for the write lock; a     *)
(* delivery cannot be verified; the service's answer to a delivery is lost; *)
(* an item leaves the reconciliation window.                                *)
FaultKinds == {"crash", "reject", "lost", "empty", "busy", "parse", "answer", "age"}

ASSUME ConstantsAssumption ==
  /\ External \subseteq Invoices
  /\ LotOf \in [Batches -> SUBSET (Invoices \ External)]
  /\ \A b, c \in Batches : b # c => LotOf[b] \cap LotOf[c] = {}
  /\ Lapsing \subseteq Invoices
  /\ Issued \in [Invoices -> Nat]
  /\ Gross \in [Invoices -> Nat]
  /\ Fee \in [Invoices -> Nat]
  /\ Host \in [Processes -> Workers]
  /\ BankErrors \subseteq SdkError
  /\ Budget \in [FaultKinds -> Nat]
  /\ MaxKinds \in Nat

\* However many there are, the bank only ever has so many invoices.
ASSUME InvoicesAssumption == IsFiniteSet(Invoices)

ASSUME ProcessesAssumption ==
  /\ Requests \cap Reconcilers = {}
  /\ Requests \cap Batches = {}
  /\ Reconcilers \cap Batches = {}

ASSUME NoneAssumption ==
  /\ None \notin Processes
  /\ None \notin Nat
  /\ None \notin InvoiceStatus \cup TransferStatus \cup BatchStatus
  /\ None \notin Causes \cup TransferRow
  /\ None \notin Answers
=============================================================================
