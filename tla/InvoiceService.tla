--------------------------- MODULE InvoiceService ---------------------------
(***************************************************************************)
(* InvoiceService.issue_batch: the batch row is flushed, which takes the   *)
(* write lock, the bank creates the lot, and the records of its invoices   *)
(* are committed together with the batch.                                  *)
(***************************************************************************)
EXTENDS TransferService

BatchAt(b, label) == b \in Batches /\ pc[b] = label

\* Mutation: the batch is not flushed before the call.
OpenBatchUnflushed(b) ==
  /\ BatchAt(b, "idle")
  /\ Goto(b, "issuing")
  /\ UNCHANGED <<dbVars, bankVars, order, lastRow, faults>>

\* A cycle of the scheduler or a request starts the batch.
OpenBatch(b) ==
  /\ BatchAt(b, "idle")
  /\ Flush(b, [work EXCEPT !.batches[b] = "completed"])
  /\ Goto(b, "issuing")
  /\ UNCHANGED <<bankVars, order, lastRow, faults>>

\* The batch row cannot be flushed in time: the run ends without a trace.
OpenBatchTimesOut(b) ==
  /\ BatchAt(b, "idle")
  /\ LockedOut(b)
  /\ Fault("busy")
  /\ Goto(b, "done")
  /\ UNCHANGED <<dbVars, bankVars, order, lastRow>>

BankIssues(b) ==
  /\ BatchAt(b, "issuing")
  /\ CreateInvoices(LotOf[b])
  /\ Goto(b, "issued")
  /\ UNCHANGED <<dbVars, order, lastRow, faults>>

WithLot(tables, b) ==
  [tables EXCEPT !.invoices = [i \in Invoices |-> IF i \in LotOf[b] THEN "created" ELSE @[i]]]

\* The invoices come back and are recorded.
RecordBatch(b) ==
  /\ BatchAt(b, "issued")
  /\ Commit(b, WithLot(work, b))
  /\ Goto(b, "done")
  /\ UNCHANGED <<bankVars, order, lastRow, faults>>

\* The call raises, whether or not the bank created the lot: batch FAILED.
FailBatch(b) ==
  /\ \/ BatchAt(b, "issuing") /\ Fault("reject")
     \/ BatchAt(b, "issued") /\ Fault("lost")
  /\ Commit(b, [work EXCEPT !.batches[b] = "failed"])
  /\ Goto(b, "done")
  /\ UNCHANGED <<bankVars, order, lastRow>>

IssueNext ==
  \E b \in Batches :
    OpenBatch(b) \/ OpenBatchTimesOut(b) \/ BankIssues(b) \/ RecordBatch(b) \/ FailBatch(b)
=============================================================================
