----------------------------- MODULE StarkBank -----------------------------
(***************************************************************************)
(* The bank, modelled from how the service uses it.  Invoices and          *)
(* transfers move through their statuses on the bank's own initiative, and *)
(* every status reached is an event that the bank delivers to the webhook  *)
(* until a delivery is answered with a 2xx.  The bank executes every       *)
(* transfer it is asked for: the service sends no external_id or other key *)
(* by which the bank could recognise a repeated request.                   *)
(***************************************************************************)
EXTENDS PaymentData

VARIABLES
  bankInvoices,   \* status of every invoice at the bank; None: not created
  overdue,        \* the invoices that were overdue before they were paid or canceled
  bankTransfers,  \* the transfers the bank has executed
  acked           \* the events whose delivery was answered with a 2xx

bankVars == <<bankInvoices, overdue, bankTransfers, acked>>

BankTransfer == [id : Nat, invoice : Invoices,
                 status : {"created", "processing", "success", "failed"}]

BankTypeOK ==
  /\ bankInvoices \in [Invoices -> InvoiceStatus \cup {None}]
  /\ overdue \subseteq Invoices
  /\ bankTransfers \subseteq BankTransfer
  /\ acked \subseteq EventIds

BankInit ==
  /\ bankInvoices = [i \in Invoices |-> IF i \in External THEN "created" ELSE None]
  /\ overdue = {}
  /\ bankTransfers = {}
  /\ acked = {}

\* The statuses invoice i has had at the bank.
Reached(i) ==
  {s \in InvoiceStatus :
     /\ bankInvoices[i] # None
     /\ s \in InvoiceHistory[bankInvoices[i]] \/ (s = "overdue" /\ i \in overdue)}

\* The events the bank has to deliver: one per status an object went through.
Emitted ==
  {e \in {InvoiceEvent(i, s) : i \in Invoices, s \in InvoiceStatus} :
     /\ <<e.kind, e.type>> \in Subscribed
     /\ e.type \in Reached(e.id)}
  \cup
  (UNION {{TransferEvent(t.id, s) : s \in {x \in TransferHistory[t.status] :
                                             <<"transfer", x>> \in Subscribed}} :
          t \in bankTransfers})
  \cup
  {e \in {OtherEvent} : <<e.kind, e.type>> \in Subscribed}

InvoiceMoves(i, from, to) ==
  /\ bankInvoices[i] \in from
  /\ bankInvoices' = [bankInvoices EXCEPT ![i] = to]
  /\ overdue' = IF bankInvoices[i] = "overdue" THEN overdue \cup {i} ELSE overdue
  /\ UNCHANGED <<bankTransfers, acked>>

OverdueInvoice(i) == i \in Lapsing /\ InvoiceMoves(i, {"created"}, "overdue")
PayInvoice(i) == InvoiceMoves(i, {"created", "overdue"}, "paid")
CreditInvoice(i) == InvoiceMoves(i, {"paid"}, "credited")
CancelInvoice(i) == InvoiceMoves(i, {"created", "overdue"}, "canceled")

TransferMoves(t, from, to) ==
  /\ t.status = from
  /\ bankTransfers' = (bankTransfers \ {t}) \cup {[t EXCEPT !.status = to]}
  /\ UNCHANGED <<bankInvoices, overdue, acked>>

ProcessTransfer(t) == TransferMoves(t, "created", "processing")
FinishTransfer(t) == TransferMoves(t, "processing", "success")
FailTransfer(t) == TransferMoves(t, "processing", "failed")

BankNext ==
  \/ \E i \in Invoices :
       OverdueInvoice(i) \/ PayInvoice(i) \/ CreditInvoice(i) \/ CancelInvoice(i)
  \/ \E t \in bankTransfers : ProcessTransfer(t) \/ FinishTransfer(t) \/ FailTransfer(t)

\* The bank executes the transfer a row asks for.
ExecuteTransfer(row) ==
  /\ bankTransfers' = bankTransfers \cup
       {[id |-> row.id, invoice |-> row.invoice, status |-> "created"]}
  /\ UNCHANGED <<bankInvoices, overdue, acked>>

\* The bank creates a lot of invoices.
CreateInvoices(lot) ==
  /\ bankInvoices' = [i \in Invoices |-> IF i \in lot THEN "created" ELSE bankInvoices[i]]
  /\ UNCHANGED <<overdue, bankTransfers, acked>>
=============================================================================
