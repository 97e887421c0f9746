--------------------------- MODULE TransferService ---------------------------
(***************************************************************************)
(* TransferService.transfer_credited_invoice: the row is flushed (so the   *)
(* write lock is held), the bank is called from a thread while the event   *)
(* loop goes on, and the answer decides the row.  Both callers pass        *)
(* autocommit=False: committing or undoing is theirs.                      *)
(***************************************************************************)
EXTENDS Database, StarkBank

VARIABLES
  pc,       \* where each process is
  order,    \* the transfer row a process is working on (its ORM object)
  lastRow,  \* number of transfer rows ever started: ids are never reused
  faults    \* how many faults of each kind have happened

transferVars == <<pc, order, lastRow, faults>>

\* The places of requests, reconciliation jobs and batches.
Places == {"idle", "parsing", "waiting", "checking", "inserting", "invoice", "transfer",
           "other", "sending", "executed", "transferred", "transferFailed", "recorded",
           "answered", "invoices", "loading", "transfers", "issuing", "issued", "done"}

TransferTypeOK ==
  /\ pc \in [Processes -> Places]
  /\ order \in [Processes -> TransferRow \cup {None}]
  /\ lastRow \in Nat
  /\ faults \in [FaultKinds -> Nat]

TransferInit ==
  /\ pc = [p \in Processes |-> "idle"]
  /\ order = [p \in Processes |-> None]
  /\ lastRow = 0
  /\ faults = [k \in FaultKinds |-> 0]

Goto(p, label) == pc' = [pc EXCEPT ![p] = label]

\* A fault of kind k happens, within the bounds Budget and MaxKinds.
Happened == {k \in FaultKinds : faults[k] > 0}
Fault(k) ==
  /\ faults[k] < Budget[k]
  /\ Cardinality(Happened \cup {k}) <= MaxKinds
  /\ faults' = [faults EXCEPT ![k] = @ + 1]

NewRow(i, cause) ==
  [id |-> lastRow + 1, invoice |-> i, event |-> cause, stark |-> None, status |-> "pending"]

\* Mutation: an invoice worth its fee exactly is paid out.
PayableAtZero(i) == Net(i) >= 0
\* A net amount of zero or less is a BusinessRuleViolationError.
Payable(i) == Net(i) > 0

\* Mutation: the row is committed before the call (autocommit=True).
StartTransferCommits(p, i, cause, tables) ==
  /\ Payable(i)
  /\ Commit(p, [tables EXCEPT !.transfers = @ \cup {NewRow(i, cause)}])
  /\ order' = [order EXCEPT ![p] = NewRow(i, cause)]
  /\ lastRow' = lastRow + 1
  /\ Goto(p, "sending")

\* The row is flushed on top of the given tables, and the call starts.
StartTransfer(p, i, cause, tables) ==
  /\ Payable(i)
  /\ Flush(p, [tables EXCEPT !.transfers = @ \cup {NewRow(i, cause)}])
  /\ order' = [order EXCEPT ![p] = NewRow(i, cause)]
  /\ lastRow' = lastRow + 1
  /\ Goto(p, "sending")

\* p gives its row its final content and goes on at label.
SettleRow(p, row, label) ==
  /\ work' = [work EXCEPT !.transfers = (@ \ {order[p]}) \cup {row}]
  /\ order' = [order EXCEPT ![p] = None]
  /\ Goto(p, label)
  /\ UNCHANGED <<db, writer, lastRow>>

BankExecutes(p) ==
  /\ pc[p] = "sending"
  /\ ExecuteTransfer(order[p])
  /\ Goto(p, "executed")
  /\ UNCHANGED <<dbVars, order, lastRow, faults>>

\* Mutation: the row takes the status SUCCESS instead of the one that came back.
BankRepliesFinal(p) ==
  /\ pc[p] = "executed"
  /\ SettleRow(p, [order[p] EXCEPT !.stark = order[p].id, !.status = "success"], "transferred")
  /\ UNCHANGED <<bankVars, faults>>

\* The created transfer comes back with its id and the status it started with.
BankReplies(p) ==
  /\ pc[p] = "executed"
  /\ SettleRow(p, [order[p] EXCEPT !.stark = order[p].id, !.status = "created"], "transferred")
  /\ UNCHANGED <<bankVars, faults>>

\* An empty list comes back, whether or not the bank executed the transfer.
BankRepliesEmpty(p) ==
  /\ pc[p] \in {"sending", "executed"}
  /\ Fault("empty")
  /\ SettleRow(p, [order[p] EXCEPT !.status = "success"], "transferred")
  /\ UNCHANGED bankVars

\* Mutation: the row is not marked failed.
CallFailsUnmarked(p) ==
  /\ \/ pc[p] = "sending" /\ Fault("reject")
     \/ pc[p] = "executed" /\ Fault("lost")
  /\ SettleRow(p, order[p], "transferFailed")
  /\ UNCHANGED bankVars

\* The call raises: the bank refused it, or executed it and the answer is lost.
CallFails(p) ==
  /\ \/ pc[p] = "sending" /\ Fault("reject")
     \/ pc[p] = "executed" /\ Fault("lost")
  /\ SettleRow(p, [order[p] EXCEPT !.status = "failed"], "transferFailed")
  /\ UNCHANGED bankVars

TransferStep(p) ==
  BankExecutes(p) \/ BankReplies(p) \/ BankRepliesEmpty(p) \/ CallFails(p)

TransferNext == \E p \in Requests \cup Reconcilers : TransferStep(p)
=============================================================================
