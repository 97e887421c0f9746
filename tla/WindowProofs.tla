---------------------------- MODULE WindowProofs ----------------------------
(***************************************************************************)
(* PaidInTimeIsRecovered for any invoices, slots, look-back and grace time.*)
(* A run that is going on must still have in its list, or among what it    *)
(* has found, every invoice its slot is answerable for (RunCovers); that a *)
(* run starts with all of them rests on its being at most Grace late, and  *)
(* on a pending status being lost only to "paid", "credited" or "overdue". *)
(***************************************************************************)
EXTENDS ReconciliationWindow, TLAPS

\* What the timers and lists say of each other.
Timers ==
  /\ ~up => due = None /\ running = None
  /\ due # None => due <= now /\ now <= due + Grace
  /\ running # None => running <= now
  /\ running = None => todo = {} /\ found = {} /\ marked = {}
  /\ marked \subseteq overdue

\* Nothing is paid before it is created, or in the future.
Dates == \A i \in Invoices :
  paid[i] # None => created[i] # None /\ created[i] <= paid[i] /\ paid[i] <= now
NotAhead == \A i \in Invoices : created[i] # None => created[i] <= now

\* The run of a slot still has every invoice the slot is answerable for.
RunCovers ==
  \A i \in Invoices :
    running # None /\ Reachable(i, running)
      => i \in booked \cup told \cup shelved \cup found \cup todo \/ <<i, running>> \in skipped

Ind == TypeOK /\ Timers /\ Dates /\ NotAhead /\ RunCovers /\ PaidInTimeIsRecovered

-----------------------------------------------------------------------------
\* A look-back of less than an hour, or none, is replaced: config.py:102-109.
LEMMA LookbackPositive == Lookback \in Nat /\ Lookback >= 1
  BY DEF Lookback, SanitizedLookback, AtLeastOne

\* Nothing is pending, running or paid when the worker starts for the first time.
LEMMA IndInit == Init => Ind
  <1> USE WindowAssumption
  <1> SUFFICES ASSUME Init PROVE Ind
    OBVIOUS
  <1>1. TypeOK
    BY DEF Init, TypeOK
  <1>2. Timers /\ Dates /\ NotAhead
    BY DEF Init, Timers, Dates, NotAhead
  <1>3. RunCovers /\ PaidInTimeIsRecovered
    BY DEF Init, RunCovers, PaidInTimeIsRecovered, Reachable
  <1> QED
    BY <1>1, <1>2, <1>3 DEF Ind

\* Creating, paying and hearing of an invoice, or its falling due, makes no invoice reachable at a
\* slot that has passed (reconciliation.py:118, webhook/service.py:92-106).
LEMMA IndInvoice ==
  ASSUME Ind, NEW i \in Invoices,
         \/ Create(i) \/ FallDue(i) \/ Pay(i)
         \/ HearOverdue(i) \/ HearPaid(i) \/ HearCredited(i)
  PROVE  Ind'
  <1> USE WindowAssumption
  <1>1. TypeOK'
    <2>1. CASE Create(i)
      BY <2>1 DEF Ind, TypeOK, Create, timers, runVars
    <2>2. CASE Pay(i)
      BY <2>2 DEF Ind, TypeOK, Pay, timers, runVars
    <2>3. CASE FallDue(i) \/ HearOverdue(i) \/ HearPaid(i) \/ HearCredited(i)
      BY <2>3 DEF Ind, TypeOK, FallDue, HearOverdue, HearPaid, HearCredited, timers, runVars
    <2> QED
      BY <2>1, <2>2, <2>3
  <1>2. Timers' /\ Dates' /\ NotAhead'
    <2>1. CASE Create(i)
      BY <2>1 DEF Ind, TypeOK, Timers, Dates, NotAhead, Create, timers, runVars
    <2>2. CASE Pay(i)
      BY <2>2 DEF Ind, TypeOK, Timers, Dates, NotAhead, Pay, timers, runVars
    <2>3. CASE FallDue(i) \/ HearOverdue(i) \/ HearPaid(i) \/ HearCredited(i)
      BY <2>3 DEF Ind, Timers, Dates, NotAhead, FallDue, HearOverdue, HearPaid, HearCredited,
                  timers, runVars
    <2> QED
      BY <2>1, <2>2, <2>3
  <1>3. \A j \in Invoices, s \in Slots : s <= now /\ Reachable(j, s)' => Reachable(j, s)
    <2>1. CASE Create(i)
      BY <2>1 DEF Ind, TypeOK, Dates, Reachable, Create
    <2>2. CASE Pay(i)
      BY <2>2 DEF Ind, TypeOK, Reachable, Pay
    <2>3. CASE FallDue(i) \/ HearOverdue(i) \/ HearPaid(i) \/ HearCredited(i)
      BY <2>3 DEF Reachable, FallDue, HearOverdue, HearPaid, HearCredited
    <2> QED
      BY <2>1, <2>2, <2>3
  <1>4. /\ UNCHANGED <<now, due, running, todo, found, skipped, disturbed>>
        /\ booked \subseteq booked' /\ told \subseteq told' /\ shelved \subseteq shelved'
    BY DEF Create, FallDue, Pay, HearOverdue, HearPaid, HearCredited, timers, runVars
  <1>5. RunCovers'
    <2> SUFFICES ASSUME NEW j \in Invoices, running' # None, Reachable(j, running)'
                 PROVE  (\/ j \in booked \cup told \cup shelved \cup found \cup todo
                          \/ <<j, running>> \in skipped)'
      BY DEF RunCovers
    <2>1. running \in Slots /\ running <= now /\ running' = running
      BY <1>4 DEF Ind, TypeOK, Timers
    <2>2. Reachable(j, running)
      BY <1>3, <2>1 DEF Reachable
    <2> QED
      BY <1>4, <2>1, <2>2 DEF Ind, RunCovers
  <1>6. PaidInTimeIsRecovered'
    BY <1>3, <1>4 DEF Ind, PaidInTimeIsRecovered, Reachable
  <1> QED
    BY <1>1, <1>2, <1>5, <1>6 DEF Ind

\* When the clock reaches a slot it is taken up or disturbed, and a run that
\* is too late is disturbed (service.py:257-264).
LEMMA IndTick == ASSUME Ind, Tick PROVE Ind'
  <1> USE WindowAssumption
  <1>1. now' = now + 1 /\ now \in Nat /\ UNCHANGED <<up, running, runVars, invoiceVars, skipped>>
    BY DEF Tick, Ind, TypeOK
  <1>2. TypeOK'
    BY <1>1 DEF Ind, TypeOK, Tick, TakenUp, Late, invoiceVars, runVars
  <1>3. Timers'
    <2>1. CASE TakenUp(now')
      BY <1>1, <2>1 DEF Ind, TypeOK, Timers, Tick, TakenUp, invoiceVars, runVars
    <2>2. CASE ~TakenUp(now') /\ Late(now')
      BY <1>1, <2>2 DEF Ind, TypeOK, Timers, Tick, invoiceVars, runVars
    <2>3. CASE ~TakenUp(now') /\ ~Late(now')
      <3>1. due' = due /\ (due # None => now' <= due + Grace)
        BY <1>1, <2>3 DEF Ind, TypeOK, Tick, Late
      <3> QED
        BY <1>1, <3>1 DEF Ind, TypeOK, Timers, invoiceVars, runVars
    <2> QED
      BY <2>1, <2>2, <2>3
  <1>4. Dates' /\ NotAhead'
    BY <1>1 DEF Ind, TypeOK, Dates, NotAhead, invoiceVars, runVars
  <1>5. \A i \in Invoices, s \in Slots : Reachable(i, s)' <=> Reachable(i, s)
    BY <1>1 DEF Reachable, invoiceVars, runVars
  <1>6. RunCovers'
    BY <1>1 DEF Ind, RunCovers, Reachable, invoiceVars, runVars
  <1>7. PaidInTimeIsRecovered'
    <2> SUFFICES ASSUME NEW i \in Invoices, NEW s \in Slots, Reachable(i, s),
                        s <= now', s \notin {due', running'} \cup disturbed'
                 PROVE  i \in booked \cup told \cup shelved \/ <<i, s>> \in skipped
      BY <1>1, <1>5 DEF PaidInTimeIsRecovered, invoiceVars, runVars
    <2>1. s # now'
      BY <1>1 DEF Tick, TakenUp
    <2>2. s <= now
      BY <1>1, <2>1
    <2>3. s \notin {due, running} \cup disturbed
      BY <1>1 DEF Tick, Ind, TypeOK
    <2> QED
      BY <2>2, <2>3 DEF Ind, PaidInTimeIsRecovered
  <1> QED
    BY <1>2, <1>3, <1>4, <1>6, <1>7 DEF Ind

\* A run starts with every invoice its slot is answerable for
\* (invoice/repository.py:56-66), however late the run and whatever is shelved.
LEMMA IndStart == ASSUME Ind, StartRun PROVE Ind'
  <1> USE WindowAssumption, LookbackPositive
  <1>1. /\ due \in Slots /\ running' = due /\ due' = None /\ running = None
        /\ UNCHANGED <<now, up, found, marked, invoiceVars, skipped, disturbed>>
        /\ todo' = PendingInWindow
    BY DEF StartRun, Ind, TypeOK
  <1>2. TypeOK'
    BY <1>1 DEF Ind, TypeOK, PendingInWindow, invoiceVars
  <1>3. Timers' /\ Dates' /\ NotAhead'
    BY <1>1 DEF Ind, TypeOK, Timers, Dates, NotAhead, invoiceVars, StartRun
  <1>4. RunCovers'
    <2> SUFFICES ASSUME NEW i \in Invoices, Reachable(i, due),
                        i \notin booked \cup told \cup shelved
                 PROVE  i \in PendingInWindow
      BY <1>1 DEF RunCovers, Reachable, invoiceVars
    <2>1. created[i] \in Nat /\ due + Grace <= created[i] + Lookback /\ now <= due + Grace
      BY <1>1 DEF Reachable, Ind, TypeOK, Timers
    <2> QED
      BY <1>1, <2>1 DEF PendingInWindow, Young, Reachable, Ind, TypeOK
  <1>5. PaidInTimeIsRecovered'
    BY <1>1 DEF Ind, PaidInTimeIsRecovered, Reachable, invoiceVars
  <1> QED
    BY <1>2, <1>3, <1>4, <1>5 DEF Ind

\* An invoice that was paid before the run's slot is found when it is asked
\* for, or its failure is on record (reconciliation.py:36-78).
LEMMA IndFetch ==
  ASSUME Ind, NEW i \in Invoices, Fetch(i) \/ FetchFails(i)
  PROVE  Ind'
  <1> USE WindowAssumption
  <1>1. /\ running \in Slots /\ todo' = todo \ {i}
        /\ UNCHANGED <<now, timers, invoiceVars, disturbed>>
        /\ found \subseteq found' /\ skipped \subseteq skipped'
        /\ marked' \subseteq overdue /\ todo # {}
        /\ found' \subseteq found \cup {i} /\ skipped' \subseteq skipped \cup {<<i, running>>}
    <2>1. running \in Slots /\ marked \subseteq overdue
      BY DEF Ind, TypeOK, Timers, Fetch, FetchFails
    <2>2. CASE Fetch(i)
      BY <2>1, <2>2 DEF Fetch
    <2>3. CASE FetchFails(i)
      BY <2>1, <2>3 DEF FetchFails
    <2> QED
      BY <2>2, <2>3
  <1>2. TypeOK'
    BY <1>1 DEF Ind, TypeOK, timers, invoiceVars
  <1>3. Timers' /\ Dates' /\ NotAhead'
    BY <1>1 DEF Ind, TypeOK, Timers, Dates, NotAhead, timers, invoiceVars
  <1>4. Reachable(i, running) => i \in found' \/ <<i, running>> \in skipped'
    BY DEF Reachable, Fetch, FetchFails
  <1>5. RunCovers'
    BY <1>1, <1>4 DEF Ind, RunCovers, Reachable, timers, invoiceVars
  <1>6. PaidInTimeIsRecovered'
    BY <1>1 DEF Ind, PaidInTimeIsRecovered, Reachable, timers, invoiceVars
  <1> QED
    BY <1>2, <1>3, <1>5, <1>6 DEF Ind

\* A run ends with one commit, or leaves its slot disturbed
\* (reconciliation.py:80-83, 116-126).
LEMMA IndEnd ==
  ASSUME Ind, EndRun \/ AbortRun \/ Crash \/ Restart
  PROVE  Ind'
  <1> USE WindowAssumption
  <1>1. TypeOK'
    <2>1. CASE EndRun
      BY <2>1 DEF Ind, TypeOK, Timers, EndRun
    <2>2. CASE AbortRun \/ Crash \/ Restart
      BY <2>2 DEF Ind, TypeOK, AbortRun, Crash, Restart, Forget, invoiceVars, runVars
    <2> QED
      BY <2>1, <2>2
  <1>2. Timers' /\ Dates' /\ NotAhead'
    BY DEF Ind, TypeOK, Timers, Dates, NotAhead, EndRun, AbortRun, Crash, Restart, Forget,
           invoiceVars, runVars
  <1>3. RunCovers'
    BY DEF Ind, RunCovers, Reachable, EndRun, AbortRun, Crash, Restart, Forget, invoiceVars, runVars
  <1>4. CASE EndRun
    BY <1>1, <1>2, <1>3, <1>4
    DEF Ind, PaidInTimeIsRecovered, RunCovers, Reachable, EndRun, TypeOK
  <1>5. CASE AbortRun \/ Crash \/ Restart
    BY <1>1, <1>2, <1>3, <1>5
    DEF Ind, PaidInTimeIsRecovered, Reachable, AbortRun, Crash, Restart, Forget,
        invoiceVars, runVars, TypeOK
  <1> QED
    BY <1>4, <1>5

\* The inductive invariant: timers, dates and what a run still has to do.
THEOREM WindowInvariant == Spec => []Ind
  <1>1. Ind /\ [Next]_vars => Ind'
    <2> SUFFICES ASSUME Ind, [Next]_vars PROVE Ind'
      OBVIOUS
    <2>1. CASE UNCHANGED vars
      BY <2>1 DEF vars, timers, invoiceVars, runVars, Ind, TypeOK, Timers, Dates, NotAhead,
                  RunCovers, PaidInTimeIsRecovered, Reachable
    <2>2. CASE Next
      BY <2>2, IndInvoice, IndTick, IndStart, IndFetch, IndEnd DEF Next
    <2> QED
      BY <2>1, <2>2
  <1> QED
    BY IndInit, <1>1, PTL DEF Spec

\* Whatever the slots (days of 23 to 25 hours included), the look-back and the
\* grace time: an invoice paid in time for a slot that was run to its end is
\* recovered by then, unless its status had become "overdue", which a look-back
\* beyond the due date makes happen (invoice/repository.py:60,
\* reconciliation.py:116-126, service.py:243-264).
THEOREM RecoveredInTime == Spec => []PaidInTimeIsRecovered
  <1>1. Ind => PaidInTimeIsRecovered
    BY DEF Ind
  <1> QED
    BY WindowInvariant, <1>1, PTL
=============================================================================
