------------------------------ MODULE MCPayout ------------------------------
(***************************************************************************)
(* Instances of PayoutSystem for TLC.                                      *)
(***************************************************************************)
EXTENDS PayoutSystem, TLC

CONSTANTS i1, i2, i3, w1, w2, r1, r2, j1, j2, b1

\* Every invoice is worth more than its fee.
Worth == [i \in Invoices |-> 100]
Fees == [i \in Invoices |-> 1]
\* Every invoice is issued with 100; PaidLate: and paid with fine and interest.
Hundred == [i \in Invoices |-> 100]
PaidLate == [i \in Invoices |-> 120]
\* i2 is worth its fee exactly.
Worthless == [i \in Invoices |-> IF i = i2 THEN 1 ELSE 100]

OneBatch == [b \in Batches |-> Invoices \ External]

\* r1 and what the scheduler starts on one worker, r2 and j2 on the other.
TwoWorkers == [p \in Processes |-> IF p \in {r2, j2} THEN w2 ELSE w1]

\* A failure on the bank's side, and one of this service's credentials.
BankDown == [class |-> "InternalServerError", codes |-> {}]
Unauthorized == [class |-> "InputErrors", codes |-> {"unauthorized", "other"}]
JustDown == {BankDown}
TwoErrors == {BankDown, Unauthorized}

NoFaults == [k \in FaultKinds |-> 0]
Faults(kinds) == [k \in FaultKinds |-> IF k \in kinds THEN 1 ELSE 0]
EveryFault == Faults(FaultKinds \ {"age"})
CrashOnly == Faults({"crash"})
RecoveryFaults == Faults({"crash", "reject", "age"})
CallFaults == Faults({"lost", "busy"})
LostOnly == Faults({"lost"})
BusyOnly == Faults({"busy"})
DeliveryFaults == Faults({"crash", "reject"})

CreditedOnly == {<<"invoice", "credited">>}
CreditedAndTransfers == CreditedOnly \cup {<<"transfer", "success">>}
TransferLogs == {<<"transfer", "processing">>, <<"transfer", "success">>}
=============================================================================
