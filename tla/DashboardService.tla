-------------------------- MODULE DashboardService --------------------------
(***************************************************************************)
(* DashboardService.get_summary over the tables of the money path: one     *)
(* query sums up the invoices, a second one the transfers.  Neither opens  *)
(* a write transaction, so each reads the tables committed at its own time *)
(* and anything may be committed between them.  The conversion rate, a     *)
(* quotient of two of the sums, and the layout of the answer are left out. *)
(***************************************************************************)
EXTENDS PayoutSystem, FiniteSetsExt

CONSTANT Readers  \* slots for concurrent requests of the summary

VARIABLES
  sums,  \* what the first query of a request returned; None before it
  known  \* ids of the transfer rows that query could have seen; history

dashboardVars == <<sums, known>>
allVars == <<vars, dashboardVars>>

DashboardInit ==
  /\ Init
  /\ sums = [d \in Readers |-> None]
  /\ known = [d \in Readers |-> {}]

\* func.sum over the given invoices or transfer rows, 0 for none.  The records
\* keep the amounts of the issuance, the transfer rows what was paid out.
IssuedOf(invoices) == MapThenSumSet(LAMBDA i : Issued[i], invoices)
NetOf(rows) == MapThenSumSet(LAMBDA row : Net(row.invoice), rows)

Recorded == {i \in Invoices : db.invoices[i] # None}
\* Mutation: a paid invoice is not counted before it is credited.
CountedAsCreditedLate == {i \in Recorded : db.invoices[i] = "credited"}
CountedAsCredited == {i \in Recorded : db.invoices[i] \in {"credited", "paid"}}
Liquidated == {row \in db.transfers : row.status = "success"}

\* The first query.
AggregateInvoices(d) ==
  /\ sums[d] = None
  /\ sums' = [sums EXCEPT ![d] =
       [invoiced |-> IssuedOf(Recorded), count |-> Cardinality(Recorded),
        credited |-> IssuedOf(CountedAsCredited),
        creditedCount |-> Cardinality(CountedAsCredited)]]
  /\ known' = [known EXCEPT ![d] = {row.id : row \in db.transfers}]
  /\ UNCHANGED vars

\* What is answered when the second query runs now.
Summary(d) ==
  [invoiced |-> sums[d].invoiced, count |-> sums[d].count,
   credited |-> sums[d].credited, creditedCount |-> sums[d].creditedCount,
   liquidated |-> NetOf(Liquidated), liquidatedCount |-> Cardinality(Liquidated)]

\* The second query: Summary(d) is returned and the session closed.
AggregateTransfers(d) ==
  /\ sums[d] # None
  /\ sums' = [sums EXCEPT ![d] = None]
  /\ known' = [known EXCEPT ![d] = {}]
  /\ UNCHANGED vars

DashboardNext ==
  \/ Next /\ UNCHANGED dashboardVars
  \/ \E d \in Readers : AggregateInvoices(d) \/ AggregateTransfers(d)

DashboardSpec == DashboardInit /\ [][DashboardNext]_allVars

-----------------------------------------------------------------------------
\* Rows whose invoice the first query need not have counted as credited: they
\* came after it, or an older event has put the invoice's status back, or they
\* are not the first row of their invoice.
PutBack(i) ==
  i \in overdue \/ \E s \in {"created", "canceled"} : InvoiceEvent(i, s) \in db.events
Repeated(row) ==
  \E other \in Liquidated : other.invoice = row.invoice /\ other.id < row.id
Unmatched(d) ==
  {row \in Liquidated : row.id \notin known[d] \/ PutBack(row.invoice) \/ Repeated(row)}

\* What the payer of i was charged beyond the amount of its issuance (fine and
\* interest): it is in the payout, and not in the record of the invoice.
Surcharge(i) == IF Gross[i] > Issued[i] THEN Gross[i] - Issued[i] ELSE 0
SurchargeOf(rows) == MapThenSumSet(LAMBDA row : Surcharge(row.invoice), rows)

(* Whenever the second query runs, the summary shows no more liquidated than *)
(* credited, in number, and in money but for the surcharges, apart from      *)
(* payouts booked between the two queries, invoices put back by a late       *)
(* event, and invoices paid twice.  It takes the order of the two queries,   *)
(* the one commit that makes a payout and the status of its invoice          *)
(* permanent, and "paid" counted as credited.                                *)
LiquidatedIsCovered ==
  \A d \in Readers : sums[d] # None =>
    /\ Summary(d).liquidated - NetOf(Unmatched(d))
         <= Summary(d).credited + SurchargeOf(Liquidated \ Unmatched(d))
    /\ Summary(d).liquidatedCount - Cardinality(Unmatched(d)) <= Summary(d).creditedCount
=============================================================================
