----------------------------- MODULE FaultProofs -----------------------------
(***************************************************************************)
(* What faults cost.  Four properties bound what goes wrong by the number  *)
(* of faults of the kind that can make it go wrong: an event acknowledged  *)
(* and not stored by the timeouts of the write lock, a row without a       *)
(* payout by the empty answers of the bank, a payout without a row by the  *)
(* lost answers and the crashes.  Each invariant counts a set that every   *)
(* step leaves alone or enlarges by what the fault of that step pays for.  *)
(***************************************************************************)
EXTENDS EventProofs, Counting

-----------------------------------------------------------------------------
\* Faults.

(* A step commits at most one fault, and none is forgotten. *)
LEMMA FaultsGrow ==
  ASSUME TypeInv, [Next]_vars
  PROVE  \A k \in FaultKinds : faults[k] \in Nat /\ faults'[k] \in Nat /\ faults[k] <= faults'[k]
<1>1. faults \in [FaultKinds -> Nat]
  BY DEF TypeInv, TypeOK, TransferTypeOK
<1> DEFINE Grow == \A k \in FaultKinds :
                     faults[k] \in Nat /\ faults'[k] \in Nat /\ faults[k] <= faults'[k]
<1>2. ASSUME UNCHANGED faults \/ \E k \in FaultKinds : Fault(k)
      PROVE  Grow
  <2>1. CASE UNCHANGED faults
    BY <1>1, <2>1
  <2>2. ASSUME NEW k \in FaultKinds, Fault(k)
        PROVE  Grow
    BY <1>1, <2>2 DEF Fault
  <2>3. QED BY <1>2, <2>1, <2>2
<1> SUFFICES Grow
  OBVIOUS
<1> HIDE DEF Grow
<1>3. {"crash", "reject", "lost", "empty", "busy", "parse", "answer", "age"} \subseteq FaultKinds
  BY DEF FaultKinds
<1>4. CASE TransferNext
  BY <1>2, <1>3, <1>4 DEF TransferNext, TransferStep, BankExecutes, BankReplies, BankRepliesEmpty,
     CallFails
<1>5. CASE WebhookNext
  BY <1>2, <1>3, <1>5 DEF WebhookNext, WebhookStep, Deliver, Parse, ParseFails,
     AcquireWebhookLock, CheckDuplicate, InsertEvent, InsertCollides, InsertTimesOut,
     RecordInvoiceEvent, DispatchCredited, RefuseCredited, AbandonCredited, UpdateTransfer,
     MissTransfer, CommitEvent, AnswerArrives, AnswerLost
<1>6. CASE ReconcileNext
  BY <1>2, <1>3, <1>6 DEF ReconcileNext, ReconcileStep, LoadInvoices, FetchInvoice, FetchFails,
     FetchTransfer, PayMissing, SkipPayout, NextInvoice, EndInvoices, LoadTransfers,
     EndTransfers, EndPhase, AbortJob, AgeOut
<1>7. CASE IssueNext
  BY <1>2, <1>3, <1>7 DEF IssueNext, OpenBatch, OpenBatchTimesOut, BankIssues, RecordBatch,
     FailBatch
<1>8. ASSUME NEW w \in Workers, Crash(w)
      PROVE  Grow
  BY <1>2, <1>3, <1>8 DEF Crash
<1>9. CASE UNCHANGED transferVars
  BY <1>2, <1>9 DEF transferVars
<1>10. QED BY <1>4, <1>5, <1>6, <1>7, <1>8, <1>9 DEF Next, vars

-----------------------------------------------------------------------------
\* Events the bank need not deliver again, or is about to think so.
Told2xx(r) == pc[r] = "answered" /\ Accepted(answer[r])
Confirmed == {event[r] : r \in {q \in Requests : Told2xx(q)}}
Unstored == (acked \cup Confirmed) \ db.events
AckInv == AtMost(Unstored, faults["busy"])

(* No error is a 2xx. *)
LEMMA ErrorsRefused ==
  /\ ~Accepted("WebhookSignatureError") /\ ~Accepted("BusinessRuleViolationError")
  /\ \A err \in BankErrors : ~Accepted(Mapped(err))
<1>1. ASSUME NEW a, a \in {"WebhookSignatureError", "BusinessRuleViolationError",
                           "StarkBankAuthenticationError", "StarkBankValidationError",
                           "StarkBankServerError", "StarkBankNetworkError",
                           "StarkBankIntegrationError"}
      PROVE  ~Accepted(a)
  BY <1>1 DEF Accepted, HttpStatus
<1>2. ASSUME NEW err \in BankErrors
      PROVE  Mapped(err) \in {"StarkBankAuthenticationError", "StarkBankValidationError",
                              "StarkBankServerError", "StarkBankNetworkError",
                              "StarkBankIntegrationError"}
  BY DEF Mapped
<1>3. QED BY <1>1, <1>2

(* What is committed stays. *)
LEMMA EventsStay ==
  ASSUME TypeInv, LockPositions, BooksInv, DraftInv, EventsInv, [Next]_vars
  PROVE  db.events \subseteq db'.events
BY Deeds, EventsKept DEF Deed, Still, Undone, Rewrites, Keeps, Inserts, Starts, Replies, Records,
   dbVars

(* A request answers 2xx when its event is stored, or could not be.          *)
LEMMA OwnAnswer ==
  ASSUME TypeInv, LockPositions, DraftInv, NEW r \in Requests,
         \/ TransferStep(r) /\ UNCHANGED webhookVars
         \/ WebhookStep(r)
         \/ \E e \in Emitted \ acked : Deliver(r, e),
         Told2xx(r)'
  PROVE  event'[r] = event[r] /\ (event[r] \in db'.events \/ InsertTimesOut(r))
<1> r \in Processes
  BY DEF Processes
<1>1. pc'[r] = "answered" /\ Accepted(answer'[r])
  BY DEF Told2xx, Accepted
<1>2. ASSUME NEW label \in Places \ {"answered"}, Goto(r, label)
      PROVE  FALSE
  BY <1>1, <1>2, GotoTyped DEF TypeInv
<1>3. ASSUME NEW a, Respond(r, a)
      PROVE  answer'[r] = a /\ event' = event
  BY <1>3 DEF Respond, TypeInv, TypeOK, WebhookTypeOK
<1>4. ASSUME TransferStep(r) /\ UNCHANGED webhookVars
      PROVE  FALSE
  BY <1>2, <1>4 DEF TransferStep, BankExecutes, BankReplies, BankRepliesEmpty, CallFails,
     SettleRow, Places
<1>5. ASSUME \E e \in Emitted \ acked : Deliver(r, e)
      PROVE  FALSE
  BY <1>2, <1>5 DEF Deliver, Places
<1>6. ASSUME Parse(r) \/ AcquireWebhookLock(r) \/ RecordInvoiceEvent(r) \/ DispatchCredited(r)
               \/ UpdateTransfer(r) \/ AnswerArrives(r) \/ AnswerLost(r)
      PROVE  FALSE
  BY <1>2, <1>6 DEF Parse, AcquireWebhookLock, RecordInvoiceEvent, DispatchCredited,
     StartTransfer, UpdateTransfer, AnswerArrives, AnswerLost, ReleaseSlot, Places
<1>7. ASSUME MissTransfer(r)
      PROVE  FALSE
  BY <1>1, <1>2, <1>7 DEF MissTransfer, Places
<1>8. ASSUME InsertEvent(r)
      PROVE  FALSE
  <2>1. event[r].kind \in Places \ {"answered"}
    BY <1>8, EventKinds DEF InsertEvent, TypeInv, Positions, RequestAt, Places
  <2>2. QED BY <1>2, <1>8, <2>1 DEF InsertEvent
<1>9. ASSUME ParseFails(r)
      PROVE  FALSE
  BY <1>1, <1>9, ErrorsRefused DEF ParseFails, TypeInv, TypeOK, WebhookTypeOK
<1>10. ASSUME RefuseCredited(r) \/ AbandonCredited(r)
       PROVE  FALSE
  BY <1>1, <1>3, <1>10, ErrorsRefused DEF RefuseCredited, AbandonCredited, FailRequest
<1>11. CASE CheckDuplicate(r)
  <2>1. CASE event[r] \in db.events
    BY <1>3, <1>11, <2>1 DEF CheckDuplicate, dbVars
  <2>2. CASE event[r] \notin db.events
    BY <1>2, <1>11, <2>2 DEF CheckDuplicate, Places
  <2>3. QED BY <2>1, <2>2
<1>12. CASE InsertCollides(r) \/ InsertTimesOut(r)
  BY <1>3, <1>12 DEF InsertCollides, InsertTimesOut, dbVars
<1>13. CASE CommitEvent(r)
  <2>1. writer = r
    BY <1>13 DEF CommitEvent, LockPositions, LockAt, InTransaction, InPayout
  <2>2. event[r] \in work.events /\ db' = work
    BY <1>13, <2>1 DEF CommitEvent, Commit, DraftInv, RequestDraft
  <2>3. QED BY <1>3, <1>13, <2>2 DEF CommitEvent
<1>14. QED BY <1>4, <1>5, <1>6, <1>7, <1>8, <1>9, <1>10, <1>11, <1>12, <1>13 DEF WebhookStep

(* Only the answer to a delivery acknowledges its event. *)
LEMMA AckedStays ==
  ASSUME TypeInv, [Next]_vars
  PROVE  \A e \in acked' : e \in acked \/ \E r \in Requests : Told2xx(r) /\ e = event[r]
<1>1. CASE UNCHANGED bankVars
  BY <1>1 DEF bankVars
<1>2. CASE BankNext
  BY <1>2 DEF BankNext, OverdueInvoice, PayInvoice, CreditInvoice, CancelInvoice, InvoiceMoves,
     ProcessTransfer,
     FinishTransfer, FailTransfer, TransferMoves
<1>3. CASE TransferNext
  BY <1>3 DEF TransferNext, TransferStep, BankExecutes, ExecuteTransfer, BankReplies,
     BankRepliesEmpty, CallFails, bankVars
<1>4. CASE WebhookNext
  <2>1. PICK r \in Requests : WebhookStep(r) \/ \E e \in Emitted \ acked : Deliver(r, e)
    BY <1>4 DEF WebhookNext
  <2>2. CASE AnswerArrives(r) \/ AnswerLost(r)
    BY <2>2 DEF AnswerArrives, AnswerLost, ReleaseSlot, Told2xx
  <2>3. CASE ~(AnswerArrives(r) \/ AnswerLost(r))
    <3>1. UNCHANGED bankVars
      BY <2>1, <2>3 DEF WebhookStep, Deliver, Parse, ParseFails, AcquireWebhookLock,
         CheckDuplicate, InsertEvent, InsertCollides, InsertTimesOut, RecordInvoiceEvent,
         DispatchCredited, RefuseCredited, AbandonCredited, UpdateTransfer, MissTransfer,
         CommitEvent
    <3>2. QED BY <1>1, <3>1
  <2>4. QED BY <2>2, <2>3
<1>5. CASE ReconcileNext
  <2>1. UNCHANGED bankVars
    BY <1>5 DEF ReconcileNext, ReconcileStep, LoadInvoices, FetchInvoice, FetchFails,
       FetchTransfer, PayMissing, SkipPayout, NextInvoice, EndInvoices, LoadTransfers,
       EndTransfers, EndPhase, AbortJob, AgeOut
  <2>2. QED BY <1>1, <2>1
<1>6. CASE IssueNext
  BY <1>6 DEF IssueNext, OpenBatch, OpenBatchTimesOut, BankIssues, CreateInvoices, RecordBatch,
              FailBatch, bankVars
<1>7. ASSUME NEW w \in Workers, Crash(w)
      PROVE  UNCHANGED bankVars
  BY <1>7 DEF Crash
<1>8. QED BY <1>1, <1>2, <1>3, <1>4, <1>5, <1>6, <1>7 DEF Next, vars

(* An acknowledged event that is not stored has cost a timeout.              *)
LEMMA NextAck ==
  ASSUME TypeInv, LockPositions, BooksInv, DraftInv, EventsInv, AckInv, [Next]_vars
  PROVE  AckInv'
<1> "busy" \in FaultKinds
  BY DEF FaultKinds
<1>1. /\ faults["busy"] \in Nat /\ faults'["busy"] \in Nat /\ faults["busy"] <= faults'["busy"]
      /\ AtMost(Unstored, faults["busy"])
  BY FaultsGrow DEF AckInv
<1>2. db.events \subseteq db'.events
  BY EventsStay
<1>3. ASSUME NEW r \in Requests, Told2xx(r)'
      PROVE  \/ Told2xx(r) /\ event'[r] = event[r]
             \/ event'[r] = event[r] /\ (event[r] \in db'.events \/ InsertTimesOut(r))
  <2>1. pc'[r] = "answered" /\ Accepted(answer'[r])
    BY <1>3 DEF Told2xx, Accepted
  <2>2. CASE Undisturbed(r)
    BY <2>1, <2>2 DEF Undisturbed, Told2xx
  <2>3. ~Gone(r)
    BY <2>1 DEF Gone
  <2>4. QED BY <1>3, <2>2, <2>3, Turns, OwnAnswer
<1>4. Unstored' = (acked' \cup Confirmed') \ db'.events
  BY DEF Unstored
<1>5. \A e \in Confirmed' : \E r \in Requests : Told2xx(r)' /\ e = event'[r]
  BY DEF Confirmed, Told2xx, Accepted
<1>6. \A e \in Unstored' :
        e \in Unstored \/ \E r \in Requests : InsertTimesOut(r) /\ e = event[r]
  BY <1>2, <1>3, <1>4, <1>5, AckedStays DEF Unstored, Confirmed
<1>7. CASE \A r \in Requests : ~InsertTimesOut(r)
  BY <1>1, <1>6, <1>7, Fewer DEF AckInv
<1>8. ASSUME NEW r \in Requests, InsertTimesOut(r)
      PROVE  AckInv'
  <2>1. faults'["busy"] = faults["busy"] + 1
    BY <1>8 DEF InsertTimesOut, Fault, TypeInv, TypeOK, TransferTypeOK
  <2>2. \A q \in Requests : InsertTimesOut(q) => q = r
    BY <1>8 DEF InsertTimesOut, Respond, Goto, TypeInv, TypeOK, TransferTypeOK, Processes
  <2>3. Unstored' \subseteq Unstored \cup {event[r]}
    BY <1>6, <2>2
  <2>4. faults["busy"] + 1 <= faults'["busy"]
    BY <1>1, <2>1
  <2>5. AtMost(Unstored', faults'["busy"])
    BY <1>1, <2>3, <2>4, OneMore
  <2>6. QED BY <2>5 DEF AckInv
<1>9. QED BY <1>7, <1>8

-----------------------------------------------------------------------------
\* Rows that stand for money that left, and does not.
Backed(n) == \E t \in bankTransfers : t.id = n
Unbacked(tables) == {row \in tables.transfers : row.status # "failed" /\ ~Backed(row.id)}
RowsInv ==
  /\ AtMost(Unbacked(db), faults["empty"])
  /\ AtMost(Unbacked(work) \ AtHand, faults["empty"])

(* What has left has left. *)
LEMMA BackedStays ==
  ASSUME TypeInv, [Next]_vars
  PROVE  \A n : Backed(n) => Backed(n)'
BY BankSteps DEF BankMoves, PayoutMoves, BankExecutes, ExecuteTransfer, Backed

(* A commit leaves no payout at the bank, and starts none. *)
LEMMA CommitsAway ==
  ASSUME TypeInv, LockPositions, BooksInv, EventsInv, [Next]_vars, db' # db,
         \A p \in Processes : ~AtBank(p)
  PROVE  AtHand = {} /\ AtHand' = {}
<1>1. NoneStarts
  BY Deeds DEF Deed, Still, Undone, Rewrites, Inserts, Starts, Replies, Records, dbVars
<1>2. QED BY <1>1 DEF AtHand, NoneStarts

(* A row that stands for nothing has cost an empty answer. *)
LEMMA NextRows ==
  ASSUME TypeInv, LockPositions, BooksInv, EventsInv, StatusInv, RowsInv, [Next]_vars
  PROVE  RowsInv'
<1> "empty" \in FaultKinds
  BY DEF FaultKinds
<1>1. /\ faults["empty"] \in Nat /\ faults'["empty"] \in Nat
      /\ faults["empty"] <= faults'["empty"]
      /\ AtMost(Unbacked(db), faults["empty"])
      /\ AtMost(Unbacked(work) \ AtHand, faults["empty"])
  BY FaultsGrow DEF RowsInv
<1>2. \A n : Backed(n) => Backed(n)'
  BY BackedStays
<1>3. Unbacked(db)' = {row \in db'.transfers : row.status # "failed" /\ ~Backed(row.id)'}
  BY DEF Unbacked, Backed
<1>4. Unbacked(work)' = {row \in work'.transfers : row.status # "failed" /\ ~Backed(row.id)'}
  BY DEF Unbacked, Backed
<1>5. CASE db' = db /\ work' = db
  <2>1. Unbacked(db)' \subseteq Unbacked(db)
    BY <1>2, <1>3, <1>5 DEF Unbacked
  <2>2. Unbacked(work)' \ AtHand' \subseteq Unbacked(db)
    BY <1>2, <1>4, <1>5 DEF Unbacked
  <2>3. /\ AtMost(Unbacked(db)', faults'["empty"])
        /\ AtMost(Unbacked(work)' \ AtHand', faults'["empty"])
    BY <1>1, <2>1, <2>2, Fewer
  <2>4. QED BY <2>3 DEF RowsInv
<1>6. CASE Writes
  <2>1. PICK tables : /\ work' = tables /\ db' \in {db, tables}
                      /\ db' # db => \A p \in Processes : ~AtBank(p)
                      /\ \A row \in tables.transfers : Story(row)
    BY <1>6 DEF Writes
  <2> DEFINE Lone == Unbacked(work) \ AtHand
             New == {row \in tables.transfers : row.status # "failed" /\ ~Backed(row.id)'}
  <2>2. ASSUME NEW row \in New
        PROVE  row \in Lone \/ row \in AtHand' \/ Assumed(row)
    <3>1. row \in tables.transfers /\ row.status # "failed" /\ ~Backed(row.id)
      BY <1>2
    <3>2. ~Told(row)
      BY <3>1 DEF Told, TransferReached, Backed
    <3>3. ~Answered(row)
      BY <3>1 DEF Answered, StatusInv, OrdersReached, TransferReached, Backed
    <3>4. Kept(row) => row \in Lone \/ row \in AtHand'
      BY <3>1 DEF Kept, Unbacked
    <3>5. QED BY <2>1, <3>1, <3>2, <3>3, <3>4 DEF Story, Asked, Failed
  <2>3. \A a, b : Assumed(a) /\ Assumed(b) => a = b
    <3>1. \A p, q \in Processes : AtBank(p) /\ AtBank(q) => p = q
      BY DEF AtBank, LockPositions, LockAt, InPayout
    <3>2. QED BY <3>1 DEF Assumed
  <2>4. ASSUME NEW T, T \subseteq New, T \cap AtHand' = {}
        PROVE  AtMost(T, faults'["empty"])
    <3> HIDE DEF New, Lone
    <3>1. CASE \A row \in T : ~Assumed(row)
      <4>1. T \subseteq Lone
        BY <2>2, <2>4, <3>1
      <4>2. QED BY <1>1, <4>1, Fewer DEF Lone
    <3>2. ASSUME NEW row \in T, Assumed(row)
          PROVE  AtMost(T, faults'["empty"])
      <4>1. T \subseteq Lone \cup {row}
        BY <2>2, <2>3, <2>4, <3>2
      <4>2. faults'["empty"] = faults["empty"] + 1
        BY <3>2 DEF Assumed
      <4>3. QED BY <1>1, <4>1, <4>2, OneMore DEF Lone
    <3>3. QED BY <3>1, <3>2
  <2>5. Unbacked(work)' = New
    BY <1>4, <2>1
  <2>6. AtMost(Unbacked(work)' \ AtHand', faults'["empty"])
    BY <2>4, <2>5
  <2>7. AtMost(Unbacked(db)', faults'["empty"])
    <3>1. CASE db' = db
      <4>1. Unbacked(db)' \subseteq Unbacked(db)
        BY <1>2, <1>3, <3>1 DEF Unbacked
      <4>2. QED BY <1>1, <4>1, Fewer
    <3>2. CASE db' # db
      <4>1. AtHand' = {}
        BY <2>1, <3>2, CommitsAway
      <4>2. Unbacked(db)' = New
        BY <1>3, <2>1, <3>2
      <4>3. QED BY <2>4, <4>1, <4>2
    <3>3. QED BY <3>1, <3>2
  <2>8. QED BY <2>6, <2>7 DEF RowsInv
<1>7. QED BY <1>5, <1>6, Stories DEF Rewinds

-----------------------------------------------------------------------------
\* Who is who.  A payout at the bank is known by the id of its row.

Ids(tables) == {entry.id : entry \in Entries(tables)}

RowIds ==
  /\ \A a, b \in Entries(work) : a.id = b.id => a = b
  /\ \A entry \in Entries(work) : entry.id <= lastRow
PayoutIds ==
  /\ \A t, u \in bankTransfers : t.id = u.id => t = u
  /\ \A t \in bankTransfers, entry \in Entries(work) :
       t.id = entry.id => t.invoice = entry.invoice
OrderIds ==
  /\ \A p \in Processes : pc[p] = "sending" => ~Backed(order[p].id)
  /\ \A p \in Processes : AtBank(p) => order[p].id \notin Ids(db)
IdsInv == RowIds /\ PayoutIds /\ OrderIds

(* What is committed is on the writer's tables, too. *)
LEMMA EntriesKept ==
  ASSUME TypeInv, LockPositions, DraftInv
  PROVE  Entries(db) \subseteq Entries(work)
<1>1. writer = None => work = db
  BY DEF LockPositions
<1>2. writer \in Requests \cup Reconcilers \cup Batches \cup {None}
  BY DEF TypeInv, TypeOK, DatabaseTypeOK, Processes
<1>3. QED BY <1>1, <1>2 DEF DraftInv, RequestDraft, JobDraft, BatchDraft

(* Ids and invoices are what they should be. *)
LEMMA EntriesTyped ==
  ASSUME TypeInv
  PROVE  /\ \A entry \in Entries(work) : entry.id \in Nat
         /\ \A t \in bankTransfers : t.id \in Nat /\ t.invoice \in Invoices
         /\ lastRow \in Nat
BY DEF TypeInv, TypeOK, DatabaseTypeOK, BankTypeOK, TransferTypeOK, Tables, TransferRow, Entries,
       Entry, BankTransfer

(* A payout is added to the writer's tables, or all is undone, or the        *)
(* payouts in them stay the same.                                            *)
LEMMA EntryMoves ==
  ASSUME TypeInv, LockPositions, BooksInv, EventsInv, [Next]_vars
  PROVE  \/ Entries(work') = Entries(work) /\ db' \in {db, work'}
         \/ Undone
         \/ \E p \in Requests \cup Reconcilers : Starts(p)
BY Deeds DEF Deed, Still, Rewrites, Keeps, Inserts, Replies, Records, dbVars

(* A new payout has a new id. *)
LEMMA StartsNew ==
  ASSUME NEW p, Starts(p)
  PROVE  /\ lastRow' = lastRow + 1 /\ db' = db /\ order'[p].id = lastRow + 1
         /\ \E entry : entry.id = lastRow + 1 /\ Entries(work') = Entries(work) \cup {entry}
<1>1. ASSUME NEW i, NEW cause
      PROVE  NewRow(i, cause).id = lastRow + 1 /\ Entry(NewRow(i, cause)).id = lastRow + 1
  BY DEF NewRow, Entry
<1>2. QED BY <1>1 DEF Starts

(* Rows are numbered one by one. *)
LEMMA NextRowIds ==
  ASSUME TypeInv, LockPositions, BooksInv, DraftInv, EventsInv, RowIds, [Next]_vars
  PROVE  RowIds'
<1>1. lastRow \in Nat /\ lastRow' \in Nat /\ lastRow <= lastRow'
  BY EntriesTyped, Onward DEF GoesOn
<1>2. \A entry \in Entries(work) : entry.id \in Nat
  BY EntriesTyped
<1>3. CASE Entries(work') \subseteq Entries(work)
  <2>1. \A entry \in Entries(work') : entry.id <= lastRow'
    BY <1>1, <1>2, <1>3 DEF RowIds
  <2>2. QED BY <1>3, <2>1 DEF RowIds, Entries
<1>4. ASSUME NEW p, Starts(p)
      PROVE  RowIds'
  <2>1. PICK entry : entry.id = lastRow + 1 /\ Entries(work') = Entries(work) \cup {entry}
    BY <1>4, StartsNew
  <2>2. lastRow' = lastRow + 1
    BY <1>4, StartsNew
  <2>3. \A a \in Entries(work) : a.id <= lastRow /\ a.id # lastRow + 1
    BY <1>1, <1>2 DEF RowIds
  <2>4. \A a \in Entries(work') : a.id <= lastRow'
    BY <1>1, <1>2, <2>1, <2>2, <2>3
  <2>5. \A a, b \in Entries(work') : a.id = b.id => a = b
    BY <2>1, <2>3 DEF RowIds
  <2>6. QED BY <2>4, <2>5 DEF RowIds, Entries
<1>5. CASE Undone
  BY <1>3, <1>5, EntriesKept DEF Undone
<1>6. QED BY <1>3, <1>4, <1>5, EntryMoves

(* Nobody asks again for a transfer that was executed. *)
LEMMA NotBack ==
  ASSUME TypeInv, LockPositions, [Next]_vars, NEW p \in Processes, pc[p] = "executed"
  PROVE  pc'[p] # "sending"
<1>1. ASSUME NEW label \in Places \ {"sending"}, Goto(p, label)
      PROVE  pc'[p] # "sending"
  BY <1>1, GotoTyped DEF TypeInv
<1>2. CASE TransferStep(p)
  BY <1>1, <1>2 DEF TransferStep, BankExecutes, BankReplies, BankRepliesEmpty, CallFails,
     SettleRow, Places
<1>3. CASE p \in Requests
  <2>1. ~WebhookStep(p) /\ ~(\E e \in Emitted \ acked : Deliver(p, e))
    BY DEF WebhookStep, Deliver, Parse, ParseFails, AcquireWebhookLock, CheckDuplicate,
       InsertEvent, InsertCollides, InsertTimesOut, RecordInvoiceEvent, DispatchCredited,
       RefuseCredited, AbandonCredited, UpdateTransfer, MissTransfer, CommitEvent, AnswerArrives,
       AnswerLost, ReleaseSlot
  <2>2. QED BY <1>2, <1>3, <2>1, Turns DEF Undisturbed, Gone
<1>4. CASE p \in Reconcilers
  <2>1. ~LoadInvoices(p) /\ ~ReconcileStep(p)
    BY DEF LoadInvoices, ReconcileStep, FetchInvoice, FetchFails, FetchTransfer, PayMissing,
       SkipPayout, NextInvoice, EndInvoices, LoadTransfers, EndTransfers, AbortJob
  <2>2. QED BY <1>2, <1>4, <2>1, JobTurns
<1>5. p \notin Batches
  BY DEF LockPositions, LockAt, InPayout, InTransaction
<1>6. QED BY <1>3, <1>4, <1>5 DEF Processes

(* The bank executes each of them once. *)
LEMMA NextPayoutIds ==
  ASSUME TypeInv, LockPositions, BooksInv, DraftInv, EventsInv, IdsInv, [Next]_vars
  PROVE  PayoutIds'
<1>1. /\ \A t, u \in bankTransfers : t.id = u.id => t = u
      /\ \A t \in bankTransfers, entry \in Entries(work) :
           t.id = entry.id => t.invoice = entry.invoice
  BY DEF IdsInv, PayoutIds
<1>2. /\ \A t \in bankTransfers : t.id \in Nat /\ t.id <= lastRow
      /\ \A entry \in Entries(work) : entry.id \in Nat
      /\ lastRow \in Nat
  BY EntriesTyped DEF EventsInv, RealTransfers
<1>3. ASSUME NEW t \in bankTransfers, NEW new, PayoutMoves(t, new),
             bankTransfers' = (bankTransfers \ {t}) \cup {new}, UNCHANGED <<dbVars, transferVars>>
      PROVE  PayoutIds'
  <2>1. new.id = t.id /\ new.invoice = t.invoice
    BY <1>3 DEF PayoutMoves
  <2>2. \A a, b \in bankTransfers' : a.id = b.id => a = b
    BY <1>1, <1>3, <2>1
  <2>3. \A a \in bankTransfers', entry \in Entries(work) :
          a.id = entry.id => a.invoice = entry.invoice
    BY <1>1, <1>3, <2>1
  <2>4. work' = work
    BY <1>3 DEF dbVars
  <2>5. QED BY <2>2, <2>3, <2>4 DEF PayoutIds, Entries
<1>4. ASSUME NEW p \in Requests \cup Reconcilers, BankExecutes(p)
      PROVE  PayoutIds'
  <2> p \in Processes
    BY DEF Processes
  <2> DEFINE new == [id |-> order[p].id, invoice |-> order[p].invoice, status |-> "created"]
  <2>1. pc[p] = "sending" /\ work' = work /\ bankTransfers' = bankTransfers \cup {new}
    BY <1>4 DEF BankExecutes, ExecuteTransfer, dbVars
  <2>2. new.id = order[p].id /\ new.invoice = order[p].invoice
    OBVIOUS
  <2> HIDE DEF new
  <2>3. ~Backed(order[p].id)
    BY <2>1 DEF IdsInv, OrderIds
  <2>4. \A a, b \in bankTransfers' : a.id = b.id => a = b
    BY <1>1, <2>1, <2>2, <2>3 DEF Backed
  <2>5. Entry(order[p]) \in Entries(work)
    BY <2>1 DEF BooksInv, BooksAt, Entries
  <2>6. Entry(order[p]).id = order[p].id /\ Entry(order[p]).invoice = order[p].invoice
    BY DEF Entry
  <2>7. \A entry \in Entries(work) : new.id = entry.id => new.invoice = entry.invoice
    BY <2>2, <2>5, <2>6 DEF IdsInv, RowIds
  <2>8. \A a \in bankTransfers', entry \in Entries(work) :
          a.id = entry.id => a.invoice = entry.invoice
    BY <1>1, <2>1, <2>7
  <2>9. QED BY <2>1, <2>4, <2>8 DEF PayoutIds, Entries
<1>5. CASE UNCHANGED bankTransfers
  <2>1. ASSUME NEW t \in bankTransfers, NEW entry \in Entries(work'), t.id = entry.id
        PROVE  t.invoice = entry.invoice
    <3>1. CASE Entries(work') \subseteq Entries(work)
      BY <1>1, <2>1, <3>1
    <3>2. ASSUME NEW p, Starts(p)
          PROVE  t.invoice = entry.invoice
      <4>1. PICK e : e.id = lastRow + 1 /\ Entries(work') = Entries(work) \cup {e}
        BY <3>2, StartsNew
      <4>2. t.id # e.id
        BY <1>2, <4>1
      <4>3. QED BY <1>1, <2>1, <4>1, <4>2
    <3>3. CASE Undone
      BY <3>1, <3>3, EntriesKept DEF Undone
    <3>4. QED BY <3>1, <3>2, <3>3, EntryMoves
  <2>2. QED BY <1>1, <1>5, <2>1 DEF PayoutIds, Entries
<1>6. QED BY <1>3, <1>4, <1>5, BankSteps DEF BankMoves

(* What is asked for is neither executed nor committed yet. *)
LEMMA NextOrderIds ==
  ASSUME TypeInv, LockPositions, BooksInv, DraftInv, EventsInv, StatusInv, IdsInv, [Next]_vars
  PROVE  OrderIds'
<1>1. \A p, q \in Processes : AtBank(p) /\ AtBank(q) => p = q
  BY DEF AtBank, LockPositions, LockAt, InPayout
<1>2. ASSUME NEW p \in Processes, AtBank(p)'
      PROVE  (AtBank(p) /\ order'[p] = order[p]) \/ Starts(p)
  BY <1>2, Deeds DEF Deed, Still, Undone, Rewrites, Inserts, Starts, Replies, Records, NoneStarts
<1>3. ASSUME NEW p \in Processes, pc'[p] = "sending"
      PROVE  ~Backed(order[p].id)'
  <2>1. PICK n : n = order'[p].id
    OBVIOUS
  <2>2. ~Backed(n)'
    <3>1. CASE AtBank(p) /\ order'[p] = order[p]
      <4>1. pc[p] = "sending" /\ ~Backed(n)
        BY <1>3, <2>1, <3>1, NotBack DEF AtBank, IdsInv, OrderIds
      <4>2. ASSUME NEW q \in Requests \cup Reconcilers, BankExecutes(q)
            PROVE  FALSE
        <5>1. q \in Processes /\ AtBank(q)
          BY <4>2 DEF BankExecutes, AtBank, Processes
        <5>2. Goto(p, "executed")
          BY <1>1, <3>1, <4>2, <5>1 DEF BankExecutes
        <5>3. QED BY <1>3, <5>2, GotoTyped DEF TypeInv, Places
      <4>3. QED BY <4>1, <4>2, BankSteps DEF BankMoves, PayoutMoves, Backed
    <3>2. CASE Starts(p)
      <4>1. n = lastRow + 1 /\ lastRow' # lastRow
        BY <2>1, <3>2, StartsNew, EntriesTyped
      <4>2. ~Backed(n)
        BY <4>1, EntriesTyped DEF Backed, EventsInv, RealTransfers
      <4>3. \A q : ~BankExecutes(q)
        BY <4>1 DEF BankExecutes
      <4>4. QED BY <4>2, <4>3, BankSteps DEF BankMoves, PayoutMoves, Backed
    <3>3. QED BY <1>2, <1>3, <3>1, <3>2 DEF AtBank
  <2>3. QED BY <2>1, <2>2 DEF Backed
<1>4. ASSUME NEW p \in Processes, AtBank(p)'
      PROVE  order'[p].id \notin Ids(db')
  <2>1. CASE AtBank(p) /\ order'[p] = order[p]
    <3>1. db' = db
      BY <2>1, Stories DEF Writes, Rewinds
    <3>2. QED BY <2>1, <3>1 DEF IdsInv, OrderIds
  <2>2. CASE Starts(p)
    <3>1. order'[p].id = lastRow + 1 /\ db' = db
      BY <2>2, StartsNew
    <3>2. \A entry \in Entries(db) : entry.id \in Nat /\ entry.id <= lastRow
      BY EntriesKept, EntriesTyped DEF IdsInv, RowIds
    <3>3. QED BY <3>1, <3>2, EntriesTyped DEF Ids
  <2>3. QED BY <1>2, <1>4, <2>1, <2>2
<1>5. QED BY <1>3, <1>4 DEF OrderIds, AtBank, Backed, Ids, Entries

-----------------------------------------------------------------------------
\* Whose doing a row is.
SourceOf(entry) ==
  \/ entry.cause = CreditOf(entry.invoice) /\ Requests # {}
  \/ entry.cause = ReconcileId(entry.invoice) /\ Reconcilers # {}
SourcesInv == \A entry \in Entries(work) : SourceOf(entry)

(* A payout is a request's for the credited event, or a reconciliation's.    *)
LEMMA NextSources ==
  ASSUME TypeInv, LockPositions, LockPositions', BooksInv, DraftInv, SourcesInv, [Next]_vars
  PROVE  SourcesInv'
<1>1. \A entry : SourceOf(entry) => SourceOf(entry)'
  BY DEF SourceOf
<1>2. CASE Entries(work') \subseteq Entries(work)
  BY <1>1, <1>2 DEF SourcesInv, Entries
<1>3. CASE Undoes
  <2>1. Entries(work') = Entries(db)
    BY <1>3 DEF Undoes, LockPositions
  <2>2. QED BY <1>2, <2>1, EntriesKept
<1>4. ASSUME NEW p \in Processes, FlushesOther(p) \/ Settles(p)
      PROVE  SourcesInv'
  <2>1. Entries(work') = Entries(work)
    BY <1>4 DEF FlushesOther, Settles, LockPositions
  <2>2. QED BY <1>2, <2>1
<1>5. ASSUME NEW p \in Requests \cup Reconcilers, FlushesTransfer(p)
      PROVE  SourcesInv'
  <2>1. PICK entry :
          /\ Entries(work') = Entries(work) \cup {entry}
          /\ p \in Requests =>
               entry.cause = InvoiceEvent(entry.invoice, "credited")
          /\ p \in Reconcilers => entry.cause = ReconcileId(entry.invoice)
    BY <1>5 DEF FlushesTransfer
  <2>2. SourceOf(entry)
    BY <2>1 DEF SourceOf, CreditOf
  <2>3. QED BY <1>1, <2>1, <2>2 DEF SourcesInv, Entries
<1>6. ASSUME NEW r \in Requests, FlushesEvent(r)
      PROVE  SourcesInv'
  BY <1>2, <1>6 DEF FlushesEvent
<1>7. CASE Nothing
  BY <1>2, <1>7 DEF Nothing, dbVars
<1>8. QED BY <1>3, <1>4, <1>5, <1>6, <1>7, Effects DEF Effect

-----------------------------------------------------------------------------
\* Payouts that are on nobody's books.

\* The call of a request has failed: it is going to undo what it wrote.
Doomed == \E r \in Requests : writer = r /\ pc[r] = "transferFailed"
Booked == IF Doomed THEN Ids(db) ELSE Ids(work)
Missing == {t \in bankTransfers : t.id \notin Booked}
MissingOf(i) == {t \in Missing : t.invoice = i}
\* Payouts that a crash of the writer's worker would lose.
Drafted == {t \in bankTransfers : t.id \in Ids(work) \ Ids(db)}
DraftedOf(i) == {t \in Drafted : t.invoice = i}

Losses == faults["lost"] + LostByCrash * faults["crash"]
LossesOf == faults["lost"] + faults["crash"]
LossInv ==
  AtMost(Missing, Losses) /\ \A i \in Invoices : AtMost(MissingOf(i), LossesOf)

\* Everything booked stays booked, or an answer was lost, or a worker died.
BooksStay ==
  \/ \A n \in Booked : Backed(n) => n \in Booked'
  \/ /\ faults'["lost"] = faults["lost"] + 1
     /\ \E n : Booked \subseteq Booked' \cup {n}
  \/ /\ faults'["crash"] = faults["crash"] + 1
     /\ Booked \subseteq Ids(work) /\ Ids(db) \subseteq Booked'

(* The drafts of the writer: one payout of a request, or of a reconciliation *)
(* one for each invoice.                                                     *)
LEMMA DraftsCounted ==
  ASSUME TypeInv, LockPositions, BooksInv, DraftInv, IdsInv
  PROVE  /\ LostByCrash \in Nat /\ AtMost(Drafted, LostByCrash)
         /\ \A i \in Invoices : AtMost(DraftedOf(i), 1)
<1>1. IsFiniteSet(Invoices) /\ Cardinality(Invoices) \in Nat
  BY InvoicesAssumption, FS_CardinalityType
<1>2. LostByCrash \in Nat
  BY <1>1 DEF LostByCrash
<1>3. \A t \in Drafted : \E entry \in Entries(work) \ Entries(db) :
        entry.id = t.id /\ entry.invoice = t.invoice
  BY DEF Drafted, Ids, IdsInv, PayoutIds
<1>4. \A t, u \in Drafted : t.id = u.id => t = u
  BY DEF Drafted, IdsInv, PayoutIds
<1>5. \A t \in Drafted : t.invoice \in Invoices
  BY EntriesTyped DEF Drafted
<1>6. ASSUME Drafted = {}
      PROVE  AtMost(Drafted, LostByCrash)
  BY <1>2, <1>6, NoneAtMost, Fewer
<1>7. ASSUME NEW u \in Drafted, Drafted \subseteq {u}
      PROVE  AtMost(Drafted, LostByCrash)
  <2>1. Cardinality(Invoices) # 0
    BY <1>1, <1>5, FS_EmptySet
  <2>2. 0 + 1 <= LostByCrash
    BY <1>1, <2>1 DEF LostByCrash
  <2>3. Drafted \subseteq {} \cup {u}
    BY <1>7
  <2>4. QED BY <1>2, <2>2, <2>3, NoneAtMost, OneMore
<1>8. /\ AtMost(Drafted, LostByCrash)
      /\ \A t, u \in Drafted : t.invoice = u.invoice => t = u
  <2>1. CASE Entries(work) = Entries(db)
    BY <1>3, <1>6, <2>1
  <2>2. CASE writer \in Requests
    <3>1. CASE pc[writer] \notin InPayout
      BY <2>1, <2>2, <3>1 DEF DraftInv, RequestDraft
    <3>2. CASE pc[writer] \in InPayout
      <4>1. PICK entry : Entries(work) = Entries(db) \cup {entry}
        BY <2>2, <3>2 DEF DraftInv, RequestDraft
      <4>2. \A t, u \in Drafted : t = u
        BY <1>3, <1>4, <4>1
      <4>3. CASE Drafted = {}
        BY <1>6, <4>3
      <4>4. CASE \E u : u \in Drafted
        BY <1>7, <4>2, <4>4
      <4>5. QED BY <4>2, <4>3, <4>4
    <3>3. QED BY <3>1, <3>2
  <2>3. CASE writer \in Reconcilers
    <3>1. \A entry \in Entries(work) \ Entries(db) : entry.cause = ReconcileId(entry.invoice)
      BY <2>3 DEF DraftInv, JobDraft
    <3>2. \A a, b \in Entries(work) : a.cause = b.cause => a = b
      BY DEF BooksInv, Books, UniqueCauses, Entries, Entry
    <3>3. \A t, u \in Drafted : t.invoice = u.invoice => t = u
      BY <1>3, <1>4, <3>1, <3>2
    <3>4. LostByCrash = Cardinality(Invoices)
      BY <2>3 DEF LostByCrash
    <3> DEFINE f == [t \in Drafted |-> t.invoice]
    <3>5. \A t \in Drafted : f[t] = t.invoice
      OBVIOUS
    <3> HIDE DEF f
    <3>6. AtMost(Invoices, Cardinality(Invoices))
      BY <1>1 DEF AtMost
    <3>7. AtMost(Drafted, Cardinality(Invoices))
      BY <1>1, <1>5, <3>3, <3>5, <3>6, OneEach
    <3>8. QED BY <3>3, <3>4, <3>7
  <2>4. CASE writer \in Batches
    BY <2>1, <2>4 DEF DraftInv, BatchDraft
  <2>5. CASE writer = None
    BY <2>1, <2>5 DEF LockPositions
  <2>6. QED BY <2>2, <2>3, <2>4, <2>5 DEF TypeInv, TypeOK, DatabaseTypeOK, Processes
<1>9. ASSUME NEW i \in Invoices
      PROVE  AtMost(DraftedOf(i), 1)
  <2>1. CASE DraftedOf(i) = {}
    BY <2>1, NoneAtMost, Fewer
  <2>2. ASSUME NEW u \in DraftedOf(i)
        PROVE  AtMost(DraftedOf(i), 1)
    <3>1. DraftedOf(i) \subseteq {} \cup {u}
      BY <1>8, <2>2 DEF DraftedOf
    <3>2. QED BY <3>1, NoneAtMost, OneMore
  <2>3. QED BY <2>1, <2>2
<1>10. QED BY <1>2, <1>8, <1>9

(* A request is doomed by the failure of its call. *)
LEMMA Dooms ==
  ASSUME TypeInv, LockPositions, LockPositions', [Next]_vars, Doomed'
  PROVE  Doomed \/ \E r \in Requests : CallFails(r)
<1>1. PICK r \in Requests : pc'[r] = "transferFailed"
  BY DEF Doomed
<1> r \in Processes
  BY DEF Processes
<1>2. ASSUME pc[r] = "transferFailed"
      PROVE  Doomed
  BY <1>2 DEF LockPositions, LockAt, InTransaction, InPayout, Doomed
<1>3. ASSUME NEW label \in Places \ {"transferFailed"}, Goto(r, label)
      PROVE  FALSE
  BY <1>1, <1>3, GotoTyped DEF TypeInv
<1>4. CASE Undisturbed(r)
  BY <1>1, <1>2, <1>4 DEF Undisturbed
<1>5. CASE TransferStep(r)
  BY <1>3, <1>5 DEF TransferStep, BankExecutes, BankReplies, BankRepliesEmpty, SettleRow, Places
<1>6. ~(\E e \in Emitted \ acked : Deliver(r, e))
  BY <1>3 DEF Deliver, Places
<1>7. CASE WebhookStep(r)
  <2>1. CASE InsertEvent(r)
    <3>1. event[r].kind \in Places \ {"transferFailed"}
      BY <2>1, EventKinds DEF InsertEvent, TypeInv, Positions, RequestAt, Places
    <3>2. QED BY <1>3, <2>1, <3>1 DEF InsertEvent
  <2>2. CASE MissTransfer(r)
    BY <1>1, <1>2, <1>3, <2>2 DEF MissTransfer, Places
  <2>3. CASE ~(InsertEvent(r) \/ MissTransfer(r))
    <3>1. \E label \in {"answered", "waiting", "checking", "inserting", "recorded", "sending",
                        "idle"} : Goto(r, label)
      BY <1>7, <2>3 DEF WebhookStep, Parse, ParseFails, AcquireWebhookLock,
         CheckDuplicate, InsertCollides, InsertTimesOut, RecordInvoiceEvent, DispatchCredited,
         StartTransfer, RefuseCredited, AbandonCredited, FailRequest, UpdateTransfer, CommitEvent,
         AnswerArrives, AnswerLost, ReleaseSlot, Respond
    <3>2. QED BY <1>3, <3>1 DEF Places
  <2>4. QED BY <2>1, <2>2, <2>3
<1>8. QED BY <1>1, <1>4, <1>5, <1>6, <1>7, Turns DEF Gone

(* What is booked stays so, unless something is lost. *)
LEMMA NextBooked ==
  ASSUME TypeInv, LockPositions, LockPositions', BooksInv, DraftInv, EventsInv, IdsInv,
         [Next]_vars
  PROVE  BooksStay
<1>1. Booked' = IF Doomed' THEN Ids(db') ELSE Ids(work')
  BY DEF Booked, Ids, Entries
<1>2. Ids(db) \subseteq Ids(work) /\ Ids(db) \subseteq Booked /\ Booked \subseteq Ids(work)
  BY EntriesKept DEF Ids, Booked
<1>3. \/ Ids(work) \subseteq Ids(work') /\ Ids(db) \subseteq Ids(db')
      \/ Undone
  <2>1. CASE Entries(work') = Entries(work) /\ db' \in {db, work'}
    BY <1>2, <2>1 DEF Ids
  <2>2. ASSUME NEW p, Starts(p)
        PROVE  Ids(work) \subseteq Ids(work') /\ Ids(db) \subseteq Ids(db')
    BY <2>2, StartsNew DEF Ids
  <2>3. QED BY <2>1, <2>2, EntryMoves
<1>4. CASE Doomed' /\ Doomed
  BY <1>1, <1>3, <1>4 DEF Booked, BooksStay, Undone
<1>5. ASSUME NEW r \in Requests, CallFails(r)
      PROVE  BooksStay
  <2> r \in Processes
    BY DEF Processes
  <2>1. writer = r /\ AtBank(r) /\ pc[r] \in InPayout /\ pc[r] # "transferFailed"
    BY <1>5 DEF CallFails, LockPositions, LockAt, InPayout, AtBank
  <2>2. PICK entry : Entries(work) = Entries(db) \cup {entry}
    BY <2>1 DEF DraftInv, RequestDraft
  <2>3. Entry(order[r]) \in Entries(work) /\ Entry(order[r]).id = order[r].id
    BY <2>1 DEF BooksInv, BooksAt, AtBank, Entries, Entry
  <2>4. order[r].id \notin Ids(db)
    BY <2>1 DEF IdsInv, OrderIds
  <2>5. Ids(work) = Ids(db) \cup {order[r].id}
    BY <2>2, <2>3, <2>4 DEF Ids
  <2>6. Ids(db) \subseteq Booked'
    <3>1. db' = db
      BY <1>5 DEF CallFails, SettleRow
    <3>2. Ids(db) \subseteq Ids(work')
      BY <1>2, <1>3, <3>1 DEF Undone
    <3>3. QED BY <1>1, <3>1, <3>2
  <2>7. CASE pc[r] = "sending"
    <3>1. ~Backed(order[r].id)
      BY <2>7 DEF IdsInv, OrderIds
    <3>2. QED BY <1>2, <2>5, <2>6, <3>1 DEF BooksStay
  <2>8. CASE pc[r] = "executed"
    <3>1. faults'["lost"] = faults["lost"] + 1
      BY <1>5, <2>8 DEF CallFails, Fault, TypeInv, TypeOK, TransferTypeOK, FaultKinds
    <3>2. QED BY <1>2, <2>5, <2>6, <3>1 DEF BooksStay
  <2>9. QED BY <2>1, <2>7, <2>8 DEF AtBank
<1>6. CASE ~Doomed' /\ ~Undone
  BY <1>1, <1>2, <1>3, <1>6 DEF BooksStay
<1>7. CASE ~Doomed' /\ Undone
  <2>1. Booked' = Ids(db)
    BY <1>1, <1>7 DEF Undone
  <2>2. CASE Doomed
    BY <2>1, <2>2 DEF Booked, BooksStay
  <2>3. ASSUME NEW r \in Requests, writer = r, pc[r] = "invoice"
        PROVE  BooksStay
    <3>1. Entries(work) = Entries(db)
      BY <2>3 DEF DraftInv, RequestDraft, InPayout
    <3>2. QED BY <1>2, <2>1, <3>1 DEF BooksStay, Ids
  <2>4. ASSUME NEW w \in Workers, Crash(w)
        PROVE  BooksStay
    <3>1. faults'["crash"] = faults["crash"] + 1
      BY <2>4 DEF Crash, Fault, TypeInv, TypeOK, TransferTypeOK, FaultKinds
    <3>2. QED BY <1>2, <2>1, <3>1 DEF BooksStay
  <2>5. QED BY <1>7, <2>2, <2>3, <2>4 DEF Undone, Doomed
<1>8. QED BY <1>4, <1>5, <1>6, <1>7, Dooms

-----------------------------------------------------------------------------
\* What is missing has been paid for by faults.

(* A crash more costs so much more.                                          *)
LEMMA LossesGrow ==
  ASSUME NEW l \in Nat, NEW a \in Nat, NEW b \in Nat
  PROVE  /\ l * a \in Nat
         /\ a <= b => l * a <= l * b
         /\ b = a + 1 => l * b = l * a + l
<1>1. l * a \in Nat
  OBVIOUS
<1>2. ASSUME a <= b
      PROVE  l * a <= l * b
  <2>1. PICK d \in Nat : b = a + d
    BY <1>2
  <2>2. l * b = l * a + l * d /\ l * a \in Nat /\ l * d \in Nat
    BY <2>1
  <2>3. QED BY <2>2
<1>3. ASSUME b = a + 1
      PROVE  l * b = l * a + l
  BY <1>3
<1>4. QED BY <1>1, <1>2, <1>3

(* A payout leaves the bank for nobody's books only by a fault that pays.    *)
LEMMA NextLoss ==
  ASSUME TypeInv, LockPositions, LockPositions', BooksInv, DraftInv, EventsInv, IdsInv,
         LossInv, [Next]_vars
  PROVE  LossInv'
<1> DEFINE Bound == LostByCrash
           MissingNow == {t \in bankTransfers' : t.id \notin Booked'}
           OfNow(i) == {t \in MissingNow : t.invoice = i}
<1>1. /\ faults["lost"] \in Nat /\ faults'["lost"] \in Nat /\ faults["lost"] <= faults'["lost"]
      /\ faults["crash"] \in Nat /\ faults'["crash"] \in Nat /\ faults["crash"] <= faults'["crash"]
  BY FaultsGrow DEF FaultKinds
<1>2. LostByCrash \in Nat
  BY DraftsCounted
<1>3. PICK n, m, k, l \in Nat :
        /\ n = faults["lost"] + LostByCrash * faults["crash"]
        /\ m = faults'["lost"] + LostByCrash * faults'["crash"]
        /\ k = faults["lost"] + faults["crash"]
        /\ l = faults'["lost"] + faults'["crash"]
  <2>1. LostByCrash * faults["crash"] \in Nat /\ LostByCrash * faults'["crash"] \in Nat
    BY <1>1, <1>2, LossesGrow
  <2>2. QED BY <1>1, <2>1
<1>4. /\ n <= m /\ k <= l
      /\ faults'["lost"] = faults["lost"] + 1 => n + 1 <= m /\ k + 1 <= l
      /\ faults'["crash"] = faults["crash"] + 1 => n + LostByCrash <= m /\ k + 1 <= l
  <2>1. LostByCrash * faults["crash"] <= LostByCrash * faults'["crash"]
    BY <1>1, <1>2, LossesGrow
  <2>2. faults'["crash"] = faults["crash"] + 1
          => LostByCrash * faults'["crash"] = LostByCrash * faults["crash"] + LostByCrash
    BY <1>1, <1>2, LossesGrow
  <2>3. LostByCrash * faults["crash"] \in Nat /\ LostByCrash * faults'["crash"] \in Nat
    BY <1>1, <1>2, LossesGrow
  <2>4. QED BY <1>1, <1>2, <1>3, <2>1, <2>2, <2>3
<1>5. AtMost(Missing, n) /\ \A i \in Invoices : AtMost(MissingOf(i), k)
  BY <1>3 DEF LossInv, Losses, LossesOf
<1>6. SUFFICES AtMost(MissingNow, m) /\ \A i \in Invoices : AtMost(OfNow(i), l)
  <2>1. Missing' = MissingNow /\ \A i \in Invoices : MissingOf(i)' = OfNow(i)
    BY DEF Missing, MissingOf
  <2>2. Losses' = m /\ LossesOf' = l
    BY <1>3 DEF Losses, LossesOf, LostByCrash
  <2> HIDE DEF MissingNow, OfNow
  <2>3. QED BY <2>1, <2>2 DEF LossInv
<1>7. ASSUME MissingNow \subseteq Missing
      PROVE  AtMost(MissingNow, m) /\ \A i \in Invoices : AtMost(OfNow(i), l)
  <2>1. \A i \in Invoices : OfNow(i) \subseteq MissingOf(i)
    BY <1>7 DEF MissingOf
  <2> HIDE DEF MissingNow, OfNow
  <2>2. QED BY <1>4, <1>5, <1>7, <2>1, Fewer
<1>8. ASSUME NEW u, MissingNow \subseteq Missing \cup {u}, n + 1 <= m, k + 1 <= l
      PROVE  AtMost(MissingNow, m) /\ \A i \in Invoices : AtMost(OfNow(i), l)
  <2>1. \A i \in Invoices : OfNow(i) \subseteq MissingOf(i) \cup {u}
    BY <1>8 DEF MissingOf
  <2> HIDE DEF MissingNow, OfNow
  <2>2. QED BY <1>5, <1>8, <2>1, OneMore
<1>9. ASSUME NEW t \in Missing, NEW new, PayoutMoves(t, new),
             MissingNow \subseteq (Missing \ {t}) \cup {new}
      PROVE  AtMost(MissingNow, m) /\ \A i \in Invoices : AtMost(OfNow(i), l)
  <2>1. AtMost(MissingNow, m)
    <3> HIDE DEF MissingNow
    <3>1. QED BY <1>4, <1>5, <1>9, Replaced
  <2>2. ASSUME NEW i \in Invoices
        PROVE  AtMost(OfNow(i), l)
    <3>1. CASE t.invoice = i
      <4>1. t \in MissingOf(i) /\ OfNow(i) \subseteq (MissingOf(i) \ {t}) \cup {new}
        BY <1>9, <3>1 DEF MissingOf
      <4> HIDE DEF OfNow
      <4>2. QED BY <1>4, <1>5, <4>1, Replaced
    <3>2. CASE t.invoice # i
      <4>1. OfNow(i) \subseteq MissingOf(i)
        BY <1>9, <3>2 DEF MissingOf, PayoutMoves
      <4> HIDE DEF OfNow
      <4>2. QED BY <1>4, <1>5, <4>1, Fewer
    <3>3. QED BY <3>1, <3>2
  <2>3. QED BY <2>1, <2>2
<1>10. CASE UNCHANGED bankTransfers
  <2>1. CASE \A id \in Booked : Backed(id) => id \in Booked'
    <3>1. MissingNow \subseteq Missing
      BY <1>10, <2>1 DEF Missing, Backed
    <3>2. QED BY <1>7, <3>1
  <2>2. CASE /\ faults'["lost"] = faults["lost"] + 1
             /\ \E id : Booked \subseteq Booked' \cup {id}
    <3>1. PICK id : Booked \subseteq Booked' \cup {id}
      BY <2>2
    <3>2. \A t \in MissingNow : t \in Missing \/ t.id = id
      BY <1>10, <3>1 DEF Missing
    <3>3. CASE \E u \in bankTransfers : u.id = id
      <4>1. PICK u \in bankTransfers : u.id = id
        BY <3>3
      <4>2. MissingNow \subseteq Missing \cup {u}
        BY <1>10, <3>2, <4>1 DEF IdsInv, PayoutIds
      <4>3. QED BY <1>4, <1>8, <2>2, <4>2
    <3>4. CASE ~ \E u \in bankTransfers : u.id = id
      <4>1. MissingNow \subseteq Missing
        BY <1>10, <3>2, <3>4
      <4>2. QED BY <1>7, <4>1
    <3>5. QED BY <3>3, <3>4
  <2>3. CASE /\ faults'["crash"] = faults["crash"] + 1
             /\ Booked \subseteq Ids(work) /\ Ids(db) \subseteq Booked'
    <3>1. MissingNow \subseteq Missing \cup Drafted
      BY <1>10, <2>3 DEF Missing, Drafted
    <3>2. \A i \in Invoices : OfNow(i) \subseteq MissingOf(i) \cup DraftedOf(i)
      BY <3>1 DEF MissingOf, DraftedOf
    <3>3. /\ AtMost(Drafted, LostByCrash)
          /\ \A i \in Invoices : AtMost(DraftedOf(i), 1)
      BY DraftsCounted
    <3> HIDE DEF MissingNow, OfNow
    <3>4. AtMost(MissingNow, m)
      <4>1. AtMost(Missing \cup Drafted, n + LostByCrash) /\ n + LostByCrash \in Nat
        BY <1>2, <1>5, <3>3, Together
      <4>2. n + LostByCrash <= m
        BY <1>4, <2>3
      <4>3. QED BY <3>1, <4>1, <4>2, Fewer
    <3>5. ASSUME NEW i \in Invoices
          PROVE  AtMost(OfNow(i), l)
      <4>1. AtMost(MissingOf(i) \cup DraftedOf(i), k + 1) /\ k + 1 \in Nat
        BY <1>5, <3>3, Together
      <4>2. k + 1 <= l
        BY <1>4, <2>3
      <4>3. QED BY <3>2, <4>1, <4>2, Fewer
    <3>6. QED BY <3>4, <3>5
  <2>4. QED BY <2>1, <2>2, <2>3, NextBooked DEF BooksStay
<1>11. ASSUME NEW t \in bankTransfers, NEW new, PayoutMoves(t, new),
              bankTransfers' = (bankTransfers \ {t}) \cup {new}, UNCHANGED <<dbVars, transferVars>>
       PROVE  AtMost(MissingNow, m) /\ \A i \in Invoices : AtMost(OfNow(i), l)
  <2>1. Booked' = Booked
    BY <1>11 DEF Booked, Doomed, Ids, Entries, dbVars, transferVars
  <2>2. CASE t \in Missing
    <3>1. MissingNow \subseteq (Missing \ {t}) \cup {new}
      BY <1>11, <2>1 DEF Missing
    <3>2. QED BY <1>9, <1>11, <2>2, <3>1
  <2>3. CASE t \notin Missing
    <3>1. MissingNow \subseteq Missing
      BY <1>11, <2>1, <2>3 DEF Missing, PayoutMoves
    <3>2. QED BY <1>7, <3>1
  <2>4. QED BY <2>2, <2>3
<1>12. ASSUME NEW p \in Requests \cup Reconcilers, BankExecutes(p)
       PROVE  AtMost(MissingNow, m) /\ \A i \in Invoices : AtMost(OfNow(i), l)
  <2> p \in Processes
    BY DEF Processes
  <2> DEFINE new == [id |-> order[p].id, invoice |-> order[p].invoice, status |-> "created"]
  <2>1. /\ pc[p] = "sending" /\ UNCHANGED dbVars /\ Goto(p, "executed")
        /\ bankTransfers' = bankTransfers \cup {new}
    BY <1>12 DEF BankExecutes, ExecuteTransfer
  <2>2. writer = p /\ pc'[p] = "executed"
    BY <2>1, GotoTyped DEF LockPositions, LockAt, InPayout, Places, TypeInv
  <2>3. ~Doomed /\ ~Doomed'
    BY <2>1, <2>2 DEF Doomed, dbVars
  <2>4. Booked' = Ids(work) /\ Booked = Ids(work)
    BY <2>1, <2>3 DEF Booked, Ids, Entries, dbVars
  <2>5. Entry(order[p]) \in Entries(work) /\ Entry(order[p]).id = order[p].id
    BY <2>1 DEF BooksInv, BooksAt, Entries, Entry
  <2>6. new.id \in Ids(work)
    BY <2>5 DEF Ids
  <2> HIDE DEF new
  <2>7. MissingNow \subseteq Missing
    BY <2>1, <2>4, <2>6 DEF Missing
  <2>8. QED BY <1>7, <2>7
<1>13. QED BY <1>10, <1>11, <1>12, BankSteps DEF BankMoves

-----------------------------------------------------------------------------
\* The invariant of this module.
FaultInv == AckInv /\ RowsInv /\ IdsInv /\ SourcesInv /\ LossInv

(* At the start there is nothing to lose. *)
LEMMA InitFaults == Init => FaultInv
<1> SUFFICES ASSUME Init PROVE FaultInv
  OBVIOUS
<1>1. /\ db = EmptyTables /\ work = EmptyTables /\ bankTransfers = {} /\ acked = {}
      /\ pc = [p \in Processes |-> "idle"] /\ lastRow = 0
      /\ \A k \in FaultKinds : faults[k] = 0
  BY DEF Init, DatabaseInit, BankInit, TransferInit
<1>2. EmptyTables.transfers = {} /\ EmptyTables.events = {} /\ Entries(EmptyTables) = {}
  BY DEF EmptyTables, Entries
<1>3. LostByCrash \in Nat
  BY InvoicesAssumption, FS_CardinalityType DEF LostByCrash
<1>4. /\ faults["busy"] = 0 /\ faults["empty"] = 0
      /\ LossesOf = 0 /\ Losses = 0
  BY <1>1, <1>3 DEF FaultKinds, Losses, LossesOf
<1>5. Unstored = {} /\ Unbacked(db) = {} /\ Unbacked(work) \ AtHand = {}
  BY <1>1, <1>2 DEF Unstored, Confirmed, Told2xx, Unbacked, Processes
<1>6. Missing = {} /\ \A i \in Invoices : MissingOf(i) = {}
  BY <1>1 DEF Missing, MissingOf
<1>7. AckInv /\ RowsInv /\ LossInv
  BY <1>4, <1>5, <1>6, NoneAtMost DEF AckInv, RowsInv, LossInv
<1>8. IdsInv /\ SourcesInv
  BY <1>1, <1>2 DEF IdsInv, RowIds, PayoutIds, OrderIds, SourcesInv, AtBank
<1>9. QED BY <1>7, <1>8 DEF FaultInv

(* What is not as it should be, of events, rows and payouts, is no more than *)
(* the faults account for; and it is known which payout is of which row.     *)
THEOREM FaultInvariant == Spec => []FaultInv
<1>1. /\ TypeInv /\ LockPositions /\ LockPositions' /\ BooksInv /\ DraftInv /\ EventsInv
      /\ StatusInv /\ FaultInv /\ [Next]_vars
      => FaultInv'
  BY NextAck, NextRows, NextRowIds, NextPayoutIds, NextOrderIds, NextSources, NextLoss
     DEF FaultInv, IdsInv
<1>2. QED BY <1>1, InitFaults, TypeInvariant, LockInvariant, BooksInvariant, DraftInvariant,
             EventsInvariant, StatusInvariant, PTL DEF Spec

(* An event that the bank need not deliver again is stored: a 2xx is only    *)
(* given to an event in the tables, or where the write lock timed out - and  *)
(* then for that one event.                                                  *)
THEOREM AcknowledgedEventsAreStored == Spec => []AckedIsStored
<1>1. TypeInv /\ FaultInv => AckedIsStored
  <2> SUFFICES ASSUME TypeInv, FaultInv PROVE AckedIsStored
    OBVIOUS
  <2>1. faults["busy"] \in Nat
    BY DEF TypeInv, TypeOK, TransferTypeOK, FaultKinds
  <2>2. acked \ db.events \subseteq Unstored
    BY DEF Unstored
  <2>3. AtMost(acked \ db.events, faults["busy"])
    BY <2>1, <2>2, Fewer DEF FaultInv, AckInv
  <2>4. QED BY <2>3 DEF AtMost, AckedIsStored
<1>2. QED BY <1>1, TypeInvariant, FaultInvariant, PTL

(* A row not marked failed is a payout the bank has executed, but for one    *)
(* row per empty answer: no crash, lost answer or late event makes another.  *)
THEOREM BookedRowsAreReal == Spec => []RowsAreReal
<1>1. FaultInv => RowsAreReal
  <2> SUFFICES ASSUME FaultInv PROVE RowsAreReal
    OBVIOUS
  <2>1. {row \in db.transfers : row.status # "failed" /\ \A t \in bankTransfers : t.id # row.id}
          = Unbacked(db)
    BY DEF Unbacked, Backed
  <2>2. QED BY <2>1 DEF FaultInv, RowsInv, AtMost, RowsAreReal
<1>2. QED BY <1>1, FaultInvariant, PTL

(* Money that left is on the books or about to be, except for one payout for *)
(* each lost answer, and for each crash one, or one for each invoice if the  *)
(* worker may have been running the reconciliation.                          *)
THEOREM PayoutsAreOnTheBooks == Spec => []PayoutsOnTheBooks
<1>1. TypeInv /\ FaultInv => PayoutsOnTheBooks
  <2> SUFFICES ASSUME TypeInv, FaultInv PROVE PayoutsOnTheBooks
    OBVIOUS
  <2> DEFINE Nowhere == {t \in bankTransfers :
                           \A row \in db.transfers \cup work.transfers : row.id # t.id}
  <2>1. \A n \in Booked : \E row \in db.transfers \cup work.transfers : row.id = n
    BY DEF Booked, Ids, Entries, Entry
  <2>2. Nowhere \subseteq Missing
    BY <2>1 DEF Missing
  <2> HIDE DEF Nowhere
  <2>3. faults["lost"] \in Nat /\ faults["crash"] \in Nat
    BY DEF TypeInv, TypeOK, TransferTypeOK, FaultKinds
  <2>4. Losses \in Nat
    <3>1. LostByCrash \in Nat
      BY InvoicesAssumption, FS_CardinalityType DEF LostByCrash
    <3>2. QED BY <2>3, <3>1, LossesGrow DEF Losses
  <2>5. AtMost(Nowhere, Losses)
    BY <2>2, <2>4, Fewer DEF FaultInv, LossInv
  <2>6. QED BY <2>5 DEF AtMost, Nowhere, Losses, PayoutsOnTheBooks
<1>2. QED BY <1>1, TypeInvariant, FaultInvariant, PTL

(* An invoice is paid out at most once for its credited event and once by    *)
(* the reconciliation, and once more for each lost answer or crash.          *)
THEOREM PayoutsAreFew == Spec => []PayoutsPerInvoice
<1>1. TypeInv /\ LockPositions /\ BooksInv /\ DraftInv /\ FaultInv => PayoutsPerInvoice
  <2> SUFFICES ASSUME TypeInv, LockPositions, BooksInv, DraftInv, FaultInv, NEW i \in Invoices
               PROVE  Payouts(i) <= Cardinality(Sources) + faults["lost"] + faults["crash"]
    BY DEF PayoutsPerInvoice
  <2> DEFINE Here == {t \in bankTransfers : t.invoice = i}
             Entered == {t \in Here : t.id \in Booked}
  <2>1. IsFiniteSet(Sources) /\ Cardinality(Sources) \in Nat
    <3>1. IsFiniteSet({} \cup {Requests}) /\ IsFiniteSet(({} \cup {Requests}) \cup {Reconcilers})
      BY FS_EmptySet, FS_AddElement
    <3>2. Sources \in SUBSET (({} \cup {Requests}) \cup {Reconcilers})
      BY DEF Sources
    <3>3. QED BY <3>1, <3>2, FS_Subset, FS_CardinalityType
  <2>2. Booked \subseteq Ids(work)
    BY EntriesKept DEF Booked, Ids
  <2>3. \A t \in Entered : \E entry \in Entries(work) :
          entry.id = t.id /\ entry.invoice = i /\ SourceOf(entry)
    BY <2>2 DEF Ids, FaultInv, IdsInv, PayoutIds, SourcesInv
  <2> DEFINE OfEvent(t) == \E entry \in Entries(work) : entry.id = t.id /\ entry.cause = CreditOf(i)
             f == [t \in Entered |-> IF OfEvent(t) THEN Requests ELSE Reconcilers]
  <2>4. CreditOf(i) # ReconcileId(i)
    BY DEF CreditOf, InvoiceEvent, ReconcileId
  <2>5. \A a, b \in Entries(work) : a.cause = b.cause => a = b
    BY DEF BooksInv, Books, UniqueCauses, Entries, Entry
  <2>6. ASSUME NEW t \in Entered
        PROVE  \/ OfEvent(t) /\ Requests # {}
               \/ /\ ~OfEvent(t) /\ Reconcilers # {}
                  /\ \E entry \in Entries(work) : entry.id = t.id /\ entry.cause = ReconcileId(i)
    <3>1. PICK entry \in Entries(work) : entry.id = t.id /\ entry.invoice = i /\ SourceOf(entry)
      BY <2>3
    <3>2. \A other \in Entries(work) : other.id = t.id => other = entry
      BY <3>1 DEF FaultInv, IdsInv, RowIds
    <3>3. CASE entry.cause = CreditOf(i) /\ Requests # {}
      BY <3>1, <3>3
    <3>4. CASE entry.cause = ReconcileId(i) /\ Reconcilers # {}
      <4>1. ~OfEvent(t)
        BY <2>4, <3>2, <3>4
      <4>2. QED BY <3>1, <3>4, <4>1
    <3>5. QED BY <3>1, <3>3, <3>4 DEF SourceOf
  <2>7. ASSUME NEW t \in Entered, NEW u \in Entered, OfEvent(t) <=> OfEvent(u)
        PROVE  t = u
    <3>1. t.id = u.id
      BY <2>5, <2>6, <2>7
    <3>2. QED BY <3>1 DEF FaultInv, IdsInv, PayoutIds
  <2>8. \A t \in Entered : f[t] = IF OfEvent(t) THEN Requests ELSE Reconcilers
    OBVIOUS
  <2> HIDE DEF f, OfEvent
  <2>9. Requests # {} => Requests # Reconcilers
    BY ProcessesAssumption
  <2>10. \A t \in Entered : f[t] \in Sources
    BY <2>6, <2>8 DEF Sources
  <2>11. \A t, u \in Entered : f[t] = f[u] => t = u
    BY <2>6, <2>7, <2>8, <2>9
  <2> HIDE DEF Entered
  <2>12. AtMost(Sources, Cardinality(Sources))
    BY <2>1 DEF AtMost
  <2>13. AtMost(Entered, Cardinality(Sources))
    BY <2>1, <2>10, <2>11, <2>12, OneEach
  <2>14. AtMost(MissingOf(i), LossesOf)
    BY DEF FaultInv, LossInv
  <2>15. faults["lost"] \in Nat /\ faults["crash"] \in Nat /\ LossesOf \in Nat
    BY DEF TypeInv, TypeOK, TransferTypeOK, FaultKinds, LossesOf
  <2>16. AtMost(Entered \cup MissingOf(i), Cardinality(Sources) + LossesOf)
    BY <2>1, <2>13, <2>14, <2>15, Together
  <2>17. Here = Entered \cup MissingOf(i)
    BY DEF Entered, MissingOf, Missing
  <2>18. Cardinality(Here) <= Cardinality(Sources) + LossesOf
    BY <2>16, <2>17 DEF AtMost
  <2>19. QED BY <2>1, <2>15, <2>18 DEF Payouts, LossesOf
<1>2. QED BY <1>1, TypeInvariant, LockInvariant, BooksInvariant, DraftInvariant, FaultInvariant, PTL
=============================================================================
