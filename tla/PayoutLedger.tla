---------------------------- MODULE PayoutLedger ----------------------------
(***************************************************************************)
(* What the service promises about its books, with no workers, locks or    *)
(* sessions: every event is recorded at most once; a transfer is booked    *)
(* in the same atomic step that records the credited event it answers, or  *)
(* in a step of the reconciliation, which only books transfers for         *)
(* invoices that have none; and nothing is ever taken out of the books.    *)
(***************************************************************************)
EXTENDS PaymentData

VARIABLES
  recorded,  \* the events recorded so far
  ledger     \* the transfers booked so far: number, invoice and cause

ledgerVars == <<recorded, ledger>>

Booked(i) == \E entry \in ledger : entry.invoice = i
NewEntries == ledger' \ ledger

LedgerInit == recorded = {} /\ ledger = {}

\* A new event is recorded and nothing is booked.
RecordEvent ==
  /\ \E e \in recorded' \ recorded : recorded' = recorded \cup {e}
  /\ UNCHANGED ledger

\* The credited event of an invoice is recorded together with one transfer.
RecordAndBook(i) ==
  /\ InvoiceEvent(i, "credited") \notin recorded
  /\ recorded' = recorded \cup {InvoiceEvent(i, "credited")}
  /\ \E entry \in NewEntries :
       /\ ledger' = ledger \cup {entry}
       /\ entry.invoice = i /\ entry.cause = InvoiceEvent(i, "credited")

\* The reconciliation books one transfer for each of some unbooked invoices.
Recover ==
  /\ NewEntries # {} /\ ledger \subseteq ledger'
  /\ \A entry \in NewEntries :
       /\ ~Booked(entry.invoice)
       /\ entry.cause = ReconcileId(entry.invoice)
       /\ \A other \in NewEntries : other.invoice = entry.invoice => other = entry
  /\ UNCHANGED recorded

LedgerNext ==
  \/ RecordEvent
  \/ \E i \in Invoices : RecordAndBook(i)
  \/ Recover

LedgerSpec == LedgerInit /\ [][LedgerNext]_ledgerVars
=============================================================================
