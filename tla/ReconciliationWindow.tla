------------------------ MODULE ReconciliationWindow ------------------------
(***************************************************************************)
(* The reconciliation in time: a cron job runs it at the Slots, and a run  *)
(* looks at the pending invoices created in the last Lookback hours.  Which*)
(* paid invoices does no run ever see?  Here the calls, the tables and the *)
(* races of ReconciliationService are one step per invoice; what is added  *)
(* is the clock.  Time is in the unit of the look-back and passes at any   *)
(* point, also while a run waits for the bank.  One worker: others have    *)
(* schedulers of their own and can only recover more.                      *)
(***************************************************************************)
EXTENDS Settings

CONSTANTS
  Invoices,     \* invoices of the service that will be created
  Slots,        \* the times at which the cron trigger is due
  EnvLookback,  \* what the environment says of RECONCILIATION_LOOKBACK_HOURS
  Grace,        \* misfire_grace_time: how late a run may start
  MaxTime,      \* bound on the time
  None

Lookback == SanitizedLookback(EnvLookback)

ASSUME WindowAssumption ==
  /\ Slots \subseteq Nat /\ Grace \in Nat /\ MaxTime \in Nat
  /\ None \notin Nat /\ None \notin Slots

VARIABLES
  now,        \* the time
  up,         \* whether the worker runs
  due,        \* the slot whose run the scheduler has still to start, or None
  running,    \* the slot of the run that is going on, or None
  todo,       \* invoices the run has loaded and still to ask for
  found,      \* invoices it recovered, not committed yet
  marked,     \* invoices it was told are overdue, not committed yet
  created,    \* when each invoice was created, None: not yet
  paid,       \* when it was paid at the bank, None: not yet
  overdue,    \* invoices the bank has had as overdue; they can still be paid
  told,       \* invoices of which a webhook event said that they are paid
  shelved,    \* invoices with the local status "overdue", which is not pending
  booked,     \* invoices with a committed transfer row
  skipped,    \* <<invoice, slot>>: the bank could not be asked (history)
  disturbed   \* slots with no run, or none that was finished (history)

timers == <<up, due, running>>
runVars == <<todo, found, marked>>
invoiceVars == <<created, paid, overdue, told, shelved, booked>>
vars == <<now, timers, runVars, invoiceVars, skipped, disturbed>>

Init ==
  /\ now = 0 /\ up = TRUE /\ due = None /\ running = None
  /\ todo = {} /\ found = {} /\ marked = {}
  /\ created = [i \in Invoices |-> None] /\ paid = [i \in Invoices |-> None]
  /\ overdue = {} /\ told = {} /\ shelved = {} /\ booked = {} /\ skipped = {}
  /\ disturbed = Slots \cap {0}

\* An invoice is issued; its due date passes; a customer pays it, then or before.
Create(i) ==
  /\ created[i] = None
  /\ created' = [created EXCEPT ![i] = now]
  /\ UNCHANGED <<now, timers, runVars, paid, overdue, told, shelved, booked, skipped, disturbed>>

FallDue(i) ==
  /\ created[i] # None /\ paid[i] = None
  /\ overdue' = overdue \cup {i}
  /\ UNCHANGED <<now, timers, runVars, created, paid, told, shelved, booked, skipped, disturbed>>

Pay(i) ==
  /\ created[i] # None /\ paid[i] = None
  /\ paid' = [paid EXCEPT ![i] = now]
  /\ UNCHANGED <<now, timers, runVars, created, overdue, told, shelved, booked, skipped, disturbed>>

\* Its event "overdue" or "paid" is recorded: the local status is no longer a
\* pending one, and that is all.
HearOverdue(i) ==
  /\ up /\ i \in overdue
  /\ shelved' = shelved \cup {i}
  /\ UNCHANGED <<now, timers, runVars, created, paid, overdue, told, booked, skipped, disturbed>>

HearPaid(i) ==
  /\ up /\ paid[i] # None
  /\ told' = told \cup {i}
  /\ UNCHANGED <<now, timers, runVars, created, paid, overdue, shelved, booked, skipped, disturbed>>

\* Its event "credited" is recorded: status and transfer row.
HearCredited(i) ==
  /\ up /\ paid[i] # None
  /\ told' = told \cup {i}
  /\ booked' = booked \cup {i}
  /\ UNCHANGED <<now, timers, runVars, created, paid, overdue, shelved, skipped, disturbed>>

\* The hour passes on.  A slot is taken up by a scheduler that is running and
\* not busy with the last run (max_instances = 1; coalesce).  A run that could
\* not be started within the grace time is dropped.
TakenUp(t) == t \in Slots /\ up /\ running = None
Late(t) == due # None /\ t > due + Grace
Tick ==
  /\ now < MaxTime
  /\ now' = now + 1
  /\ due' = IF TakenUp(now') THEN now' ELSE IF Late(now') THEN None ELSE due
  /\ disturbed' = disturbed
       \cup (IF now' \in Slots /\ ~TakenUp(now') THEN {now'} ELSE {})
       \cup (IF due # None /\ due' # due THEN {due} ELSE {})
  /\ UNCHANGED <<up, running, runVars, invoiceVars, skipped>>

\* Mutation: an invoice as old as the look-back is left out.
YoungerThanCutoff(i) == created[i] > now - Lookback
Young(i) == created[i] >= now - Lookback

\* get_pending_invoices_in_window.
PendingInWindow ==
  {i \in Invoices \ (told \cup shelved \cup booked) : created[i] # None /\ Young(i)}

StartRun ==
  /\ up /\ due # None /\ running = None
  /\ running' = due
  /\ due' = None
  /\ todo' = PendingInWindow
  /\ UNCHANGED <<now, up, found, marked, invoiceVars, skipped, disturbed>>

\* The bank is asked for an invoice; one that was paid is recovered, and of one
\* that is overdue the status is written down.
Fetch(i) ==
  /\ i \in todo
  /\ todo' = todo \ {i}
  /\ found' = IF paid[i] # None THEN found \cup {i} ELSE found
  /\ marked' = IF paid[i] = None /\ i \in overdue THEN marked \cup {i} ELSE marked
  /\ UNCHANGED <<now, timers, invoiceVars, skipped, disturbed>>

\* The error of one invoice is logged, the next one is asked for.
FetchFails(i) ==
  /\ i \in todo
  /\ todo' = todo \ {i}
  /\ skipped' = skipped \cup {<<i, running>>}
  /\ UNCHANGED <<now, timers, found, marked, invoiceVars, disturbed>>

\* One commit for everything the run has found and written down.
EndRun ==
  /\ running # None /\ todo = {}
  /\ booked' = booked \cup found
  /\ shelved' = shelved \cup marked
  /\ found' = {} /\ marked' = {}
  /\ running' = None
  /\ UNCHANGED <<now, up, due, todo, created, paid, overdue, told, skipped, disturbed>>

Forget(slots) ==
  /\ disturbed' = disturbed \cup (slots \ {None})
  /\ running' = None
  /\ todo' = {} /\ found' = {} /\ marked' = {}

\* The commit or an earlier flush is refused: nothing of the run stays.
AbortRun ==
  /\ running # None
  /\ Forget({running})
  /\ UNCHANGED <<now, up, due, invoiceVars, skipped>>

\* The worker dies, with its run and the jobs it had taken up: the jobs are
\* kept in memory (SCHEDULER_JOBSTORE_URL is not used), so a start does not
\* catch up.
Crash ==
  /\ up
  /\ up' = FALSE
  /\ due' = None
  /\ Forget({running, due})
  /\ UNCHANGED <<now, invoiceVars, skipped>>

Restart ==
  /\ ~up
  /\ up' = TRUE
  /\ UNCHANGED <<now, due, running, runVars, invoiceVars, skipped, disturbed>>

Next ==
  \/ \E i \in Invoices :
       \/ Create(i) \/ FallDue(i) \/ Pay(i)
       \/ HearOverdue(i) \/ HearPaid(i) \/ HearCredited(i)
       \/ Fetch(i) \/ FetchFails(i)
  \/ StartRun \/ EndRun \/ AbortRun \/ Crash \/ Restart \/ Tick

Spec == Init /\ [][Next]_vars

-----------------------------------------------------------------------------
TypeOK ==
  /\ now \in Nat /\ up \in BOOLEAN
  /\ due \in Slots \cup {None} /\ running \in Slots \cup {None}
  /\ todo \subseteq Invoices /\ found \subseteq Invoices /\ marked \subseteq Invoices
  /\ created \in [Invoices -> Nat \cup {None}] /\ paid \in [Invoices -> Nat \cup {None}]
  /\ overdue \subseteq Invoices /\ told \subseteq Invoices
  /\ shelved \subseteq overdue /\ booked \subseteq Invoices
  /\ skipped \subseteq Invoices \X Slots /\ disturbed \subseteq Slots

\* i was paid before slot s, and is within the window of its run however late it is.
Reachable(i, s) ==
  /\ created[i] # None /\ paid[i] # None
  /\ paid[i] < s
  /\ s + Grace <= created[i] + Lookback

(* An invoice that was paid before a slot, and is at that slot younger than  *)
(* the look-back by the grace time, has its transfer once the slot's run is  *)
(* over, unless a webhook event said "paid" without "credited" ever          *)
(* following, an event or an earlier run said "overdue", the bank could not  *)
(* be asked for it, or the run was missed or cut short.                      *)
PaidInTimeIsRecovered ==
  \A i \in Invoices, s \in Slots :
    Reachable(i, s) /\ s <= now /\ s \notin {due, running} \cup disturbed
      => i \in booked \cup told \cup shelved \/ <<i, s>> \in skipped
=============================================================================
