----------------------------- MODULE Scheduler -----------------------------
(***************************************************************************)
(* The scheduler of invoice batches: an interval job per worker process,   *)
(* two modes with a quota of MaxCycles scheduled cycles (for ever in       *)
(* "once", per sliding window in "recurring"), manual cycles, batches      *)
(* issued directly, mode changes and resets through the API, and restarts  *)
(* that read mode and last run back from the database.  Workers share the  *)
(* tables; each keeps the mode in a variable of its own.                   *)
(*                                                                         *)
(* Time advances in ticks while workers sleep, wait for the bank or are    *)
(* late with a job that is due: a query or commit takes no time.  A commit *)
(* is one step here; what the write lock does to it is in PayoutSystem,    *)
(* and that it may be refused after busy_timeout is the fault "busy".      *)
(***************************************************************************)
EXTENDS Settings, FiniteSets

CONSTANTS
  Workers,       \* server processes, each with a scheduler of its own
  Calls,         \* calls of the API, each made at most once
  CallHost,      \* the worker that serves a call
  EnvInterval,   \* what the environment says of SCHEDULER_INTERVAL_MINUTES, in ticks
  EnvMaxCycles,  \* of SCHEDULER_MAX_CYCLES
  EnvMode,       \* of SCHEDULER_MODE
  Window,        \* the 24 hours of the recurring quota, in ticks
  Grace,         \* misfire_grace_time: how late a job may still start, in ticks
  Second,        \* the whole seconds of get_next_run_delay_seconds, in ticks
  Asked,         \* the operations a call may ask for
  MaxTime,       \* bound on the ticks of a behaviour
  MaxFaults,     \* bound on the faults of a behaviour
  None

Interval == SanitizedInterval(EnvInterval)
MaxCycles == SanitizedMaxCycles(EnvMaxCycles)
DefaultMode == SanitizedMode(EnvMode)

\* POST /scheduler/trigger, POST /invoices/batch, POST /scheduler/reset, and
\* PUT /scheduler/mode with either mode.
Operations == {"trigger", "batch", "reset"} \cup Modes
Triggers == {"scheduled", "manual"}
CycleStatus == {"completed", "failed"}
Kinds == {"crash", "busy", "reject"}
Runners == Workers \cup Calls

ASSUME SchedulerAssumption ==
  /\ CallHost \in [Calls -> Workers]
  /\ IsFiniteSet(Workers) /\ Workers \cap Calls = {}
  /\ Window \in Nat /\ Grace \in Nat
  /\ Second \in 1..Interval
  /\ Asked \in [Calls -> SUBSET Operations]
  /\ MaxTime \in Nat /\ MaxFaults \in Nat
  /\ None \notin Nat \cup Modes \cup Workers

VARIABLES
  now,       \* the time
  batches,   \* the scheduled batches among invoice_batches that were completed
  cycles,    \* schedule_cycles
  state,     \* the mode in the row of scheduler_state; None: no row yet
  mode,      \* current_mode of each worker
  nextRun,   \* when the interval job of a worker is due; None: worker down
  run,       \* what a job or call is doing, None when it does nothing
  called,    \* calls made so far
  resets,    \* number of batches there were at the last reset (history)
  agreeing,  \* workers whose mode has to be the row's (history)
  faults     \* faults so far, per kind

modeVars == <<state, mode, agreeing>>
vars == <<now, batches, cycles, modeVars, nextRun, run, called, resets, faults>>
clock == <<now, called, resets>>

Host(p) == IF p \in Workers THEN p ELSE CallHost[p]
Up(w) == nextRun[w] # None
Idle(p) == run[p] = None
Doing(p, what) == ~Idle(p) /\ run[p].doing = what
Finish(p) == run' = [run EXCEPT ![p] = None]
GoOn(p, what) == run' = [run EXCEPT ![p].doing = what]

Fault(k) ==
  /\ faults["crash"] + faults["busy"] + faults["reject"] < MaxFaults
  /\ faults' = [faults EXCEPT ![k] = @ + 1]

Init ==
  /\ now = 0 /\ batches = {} /\ cycles = {}
  /\ state = None /\ mode = [w \in Workers |-> DefaultMode] /\ agreeing = {}
  /\ nextRun = [w \in Workers |-> None]
  /\ run = [p \in Runners |-> None]
  /\ called = {} /\ resets = 0
  /\ faults = [k \in Kinds |-> 0]

-----------------------------------------------------------------------------
\* get_completed_cycle_count and its variants.
Completed(trigger) == {c \in cycles : c.status = "completed" /\ c.trigger = trigger}
InWindow(c) == c.at >= now - Window
QuotaUsed(m) ==
  Cardinality({c \in Completed("scheduled") : m = "once" \/ InWindow(c)})
\* Mutation: one cycle too many.
QuotaAllows(m) == QuotaUsed(m) <= MaxCycles
QuotaLeft(m) == QuotaUsed(m) < MaxCycles

Latest(S) == CHOOSE c \in S : \A d \in S : c.at >= d.at

\* Mutation: a restart runs the job at once.
FirstRunEager == now

\* get_next_run_delay_seconds: what is left of the interval since the last
\* completed scheduled cycle, cut down to whole seconds but at least one, one
\* second if nothing is left, and a whole interval if there was no cycle.
FirstRun ==
  LET left == Interval - (now - Latest(Completed("scheduled")).at)
      whole == left - (left % Second)
  IN  IF Completed("scheduled") = {} THEN now + Interval
      ELSE IF whole > Second THEN now + whole
      ELSE now + Second

\* Mode changes that are not finished; the row may still change under them.
Changing == {c \in Calls : ~Idle(c) /\ run[c].doing \in {"reading", "creating", "writing"}}

\* w has its mode m, taken from the row or not, and starts its interval job.
Started(w, m, fromRow) ==
  /\ mode' = [mode EXCEPT ![w] = m]
  /\ agreeing' = IF fromRow /\ Changing = {} THEN agreeing \cup {w} ELSE agreeing
  /\ nextRun' = [nextRun EXCEPT ![w] = FirstRun]

\* Mutation: the row of the mode is taken to exist.
BootBlindly(w) ==
  /\ ~Up(w) /\ Idle(w)
  /\ Started(w, state, TRUE)
  /\ UNCHANGED <<clock, batches, cycles, state, run, faults>>

\* A worker starts: lifespan, start_scheduler, init_scheduler_state.  It reads
\* the row of the mode, and creates it when there is none.
Boot(w) ==
  /\ ~Up(w) /\ Idle(w)
  /\ IF state # None
       THEN Started(w, state, TRUE) /\ UNCHANGED run
       ELSE /\ run' = [run EXCEPT ![w] = [doing |-> "creating"]]
            /\ UNCHANGED <<mode, agreeing, nextRun>>
  /\ UNCHANGED <<clock, batches, cycles, state, faults>>

\* get_or_create_state inserts the row; another process may have been first
\* (key is UNIQUE).  A worker that boots falls back to the settings then.
BootCreates(w) ==
  /\ Doing(w, "creating") /\ ~Up(w)
  /\ state' = IF state = None THEN DefaultMode ELSE state
  /\ Started(w, DefaultMode, state = None)
  /\ Finish(w)
  /\ UNCHANGED <<clock, batches, cycles, faults>>

BootTimesOut(w) ==
  /\ Doing(w, "creating") /\ ~Up(w)
  /\ Fault("busy")
  /\ Started(w, DefaultMode, FALSE)
  /\ Finish(w)
  /\ UNCHANGED <<clock, batches, cycles, state>>

\* p enters issue_batch, for the interval job or for a call.
StartScheduled(w) ==
  run' = [run EXCEPT ![w] = [doing |-> "issuing", trigger |-> "scheduled",
                             mode |-> mode[w], at |-> now, id |-> None]]
StartManual(c, direct) ==
  run' = [run EXCEPT ![c] = [doing |-> "issuing", trigger |-> "manual", direct |-> direct]]

\* The interval job is due, or was some time ago.  Of the slots that went by
\* only the last one counts (coalesce), and the job keeps to the slots from
\* there.  It is skipped while its last run is going on (max_instances = 1),
\* when it is too late, and when the quota is used up.
Due(w) == Up(w) /\ now >= nextRun[w]
Slot(w) == now - ((now - nextRun[w]) % Interval)
Fire(w) ==
  /\ Due(w)
  /\ nextRun' = [nextRun EXCEPT ![w] = Slot(w) + Interval]
  /\ IF Idle(w) /\ now - Slot(w) <= Grace /\ QuotaLeft(mode[w])
       THEN StartScheduled(w)
       ELSE UNCHANGED run
  /\ UNCHANGED <<clock, batches, cycles, modeVars, faults>>

\* A call of the API arrives.
Call(c, operation) ==
  /\ operation \in Asked[c]
  /\ c \notin called /\ Up(Host(c))
  /\ called' = called \cup {c}

\* A manual cycle; issuing a batch directly records the cycle itself.
Trigger(c, operation) ==
  /\ Call(c, operation)
  /\ StartManual(c, operation = "batch")
  /\ UNCHANGED <<now, batches, cycles, modeVars, nextRun, resets, faults>>

Cycle(p, status, id) ==
  [status |-> status, trigger |-> run[p].trigger, at |-> now, batch |-> id]
NextBatch == Cardinality(batches) + 1

\* The bank created the invoices: the batch is committed, together with its
\* cycle when the batch was asked for directly.
IssueScheduled(w) ==
  /\ w \in Workers /\ Doing(w, "issuing")
  /\ batches' = batches \cup {[id |-> NextBatch, at |-> run[w].at,
                               mode |-> run[w].mode, by |-> w]}
  /\ run' = [run EXCEPT ![w].doing = "recording", ![w].id = NextBatch]
  /\ UNCHANGED <<clock, cycles, modeVars, nextRun, faults>>

Direct(p) == p \in Calls /\ run[p].direct
IssueManual(c) ==
  /\ c \in Calls /\ Doing(c, "issuing")
  /\ IF Direct(c)
       THEN cycles' = cycles \cup {Cycle(c, "completed", None)} /\ Finish(c)
       ELSE GoOn(c, "recording") /\ UNCHANGED cycles
  /\ UNCHANGED <<clock, batches, modeVars, nextRun, faults>>

\* The bank's call raises: a failed batch, and a failed cycle sooner or later.
IssueFails(p) ==
  /\ Doing(p, "issuing")
  /\ Fault("reject")
  /\ IF Direct(p)
       THEN cycles' = cycles \cup {Cycle(p, "failed", None)} /\ Finish(p)
       ELSE GoOn(p, "failing") /\ UNCHANGED cycles
  /\ UNCHANGED <<clock, batches, modeVars, nextRun>>

\* The second commit of a cycle that went well.
RecordCycle(p) ==
  /\ Doing(p, "recording")
  /\ IF p \in Workers
       THEN cycles' = cycles \cup {Cycle(p, "completed", run[p].id)} /\ GoOn(p, "stamping")
       ELSE cycles' = cycles \cup {Cycle(p, "completed", None)} /\ Finish(p)
  /\ UNCHANGED <<clock, batches, modeVars, nextRun, faults>>

RecordFailure(p) ==
  /\ Doing(p, "failing")
  /\ cycles' = cycles \cup {Cycle(p, "failed", None)}
  /\ Finish(p)
  /\ UNCHANGED <<clock, batches, modeVars, nextRun, faults>>

\* update_last_scheduled_run.  Nothing reads the time it writes, but a missing
\* row is created, with mode "once" whatever the settings say.
Stamp(p) ==
  /\ Doing(p, "stamping")
  /\ IF state = None THEN GoOn(p, "creating") ELSE Finish(p)
  /\ UNCHANGED <<clock, batches, cycles, modeVars, nextRun, faults>>

StampCreates(w) ==
  /\ Doing(w, "creating") /\ Up(w)
  /\ state' = IF state = None THEN "once" ELSE state
  /\ Finish(w)
  /\ UNCHANGED <<clock, batches, cycles, mode, agreeing, nextRun, faults>>

\* The run of a commit that raises ends.  A handler that writes a failed cycle
\* does so on the broken session, which raises again; a mode that cannot be
\* written is a warning in the log.
GiveUp(p) ==
  /\ Finish(p)
  /\ agreeing' = IF p \in Changing THEN {} ELSE agreeing
  /\ UNCHANGED <<clock, batches, cycles, state, mode, nextRun>>

CommitTimesOut(p) ==
  /\ ~Idle(p) /\ Up(Host(p)) /\ ~Doing(p, "reading")
  /\ Fault("busy")
  /\ GiveUp(p)

\* Mutation: the new mode is not kept in memory.
SetModeLater(c, m) ==
  /\ Call(c, m)
  /\ run' = [run EXCEPT ![c] = [doing |-> "reading", mode |-> m, seen |-> None,
                                alone |-> Changing = {}]]
  /\ agreeing' = {}
  /\ UNCHANGED <<now, batches, cycles, state, mode, nextRun, resets, faults>>

\* PUT /scheduler/mode: first the mode in the memory of this worker, then the
\* row.  (alone: no other mode change goes on meanwhile; history.)
SetMode(c, m) ==
  /\ Call(c, m)
  /\ mode' = [mode EXCEPT ![Host(c)] = m]
  /\ run' = [p \in Runners |->
       IF p = c THEN [doing |-> "reading", mode |-> m, seen |-> None, alone |-> Changing = {}]
       ELSE IF p \in Changing THEN [run[p] EXCEPT !.alone = FALSE]
       ELSE run[p]]
  /\ agreeing' = {}
  /\ UNCHANGED <<now, batches, cycles, state, nextRun, resets, faults>>

ReadRow(c) ==
  /\ Doing(c, "reading")
  /\ IF state = None THEN GoOn(c, "creating")
     ELSE run' = [run EXCEPT ![c].doing = "writing", ![c].seen = state]
  /\ UNCHANGED <<clock, batches, cycles, modeVars, nextRun, faults>>

\* The row is created with "once", its mode is set in a second commit.
ChangeCreates(c) ==
  /\ c \in Calls /\ Doing(c, "creating")
  /\ IF state = None
       THEN /\ state' = "once"
            /\ run' = [run EXCEPT ![c].doing = "writing", ![c].seen = "once"]
            /\ UNCHANGED <<clock, batches, cycles, mode, agreeing, nextRun>>
       ELSE GiveUp(c)
  /\ UNCHANGED faults

\* The ORM emits an UPDATE only if the mode is not the one that was read.
WriteMode(c) ==
  /\ Doing(c, "writing")
  /\ state' = IF run[c].seen = run[c].mode THEN state ELSE run[c].mode
  /\ agreeing' = IF run[c].alone THEN {Host(c)} ELSE {}
  /\ Finish(c)
  /\ UNCHANGED <<clock, batches, cycles, mode, nextRun, faults>>

\* POST /scheduler/reset: the history of cycles is deleted.
Reset(c) ==
  /\ Call(c, "reset")
  /\ cycles' = {}
  /\ resets' = Cardinality(batches)
  /\ UNCHANGED <<now, batches, modeVars, nextRun, run, faults>>

\* A worker dies with its job and its calls.
Crash(w) ==
  /\ Up(w)
  /\ Fault("crash")
  /\ nextRun' = [nextRun EXCEPT ![w] = None]
  /\ run' = [p \in Runners |-> IF Host(p) = w THEN None ELSE run[p]]
  /\ agreeing' = agreeing \ {w}
  /\ UNCHANGED <<clock, batches, cycles, state, mode>>

\* Time passes when nobody is between two queries; jobs may be due.
Tick ==
  /\ now < MaxTime
  /\ \A p \in Runners : Idle(p) \/ Doing(p, "issuing")
  /\ now' = now + 1
  /\ UNCHANGED <<batches, cycles, modeVars, nextRun, run, called, resets, faults>>

WorkerStep(w) ==
  \/ Boot(w) \/ BootCreates(w) \/ BootTimesOut(w) \/ Fire(w) \/ Stamp(w) \/ StampCreates(w)
  \/ Crash(w)

CallStep(c) ==
  \/ \E operation \in {"trigger", "batch"} : Trigger(c, operation)
  \/ \E m \in Modes : SetMode(c, m)
  \/ ReadRow(c) \/ ChangeCreates(c) \/ WriteMode(c)
  \/ Reset(c)

RunStep(p) ==
  \/ IssueScheduled(p) \/ IssueManual(p) \/ IssueFails(p) \/ RecordCycle(p) \/ RecordFailure(p)
  \/ CommitTimesOut(p)

Next ==
  \/ \E w \in Workers : WorkerStep(w)
  \/ \E c \in Calls : CallStep(c)
  \/ \E p \in Runners : RunStep(p)
  \/ Tick

Spec == Init /\ [][Next]_vars

-----------------------------------------------------------------------------
Batch == [id : Nat, at : 0..MaxTime, mode : Modes, by : Workers]
CycleRow == [status : CycleStatus, trigger : Triggers, at : 0..MaxTime,
             batch : Nat \cup {None}]
Job == [doing : {"issuing", "recording", "failing", "stamping", "creating"},
        trigger : {"scheduled"}, mode : Modes, at : 0..MaxTime, id : Nat \cup {None}]
Manual == [doing : {"issuing", "recording", "failing"}, trigger : {"manual"},
           direct : BOOLEAN]
ModeChange == [doing : {"reading", "creating", "writing"}, mode : Modes,
               seen : Modes \cup {None}, alone : BOOLEAN]
Booting == [doing : {"creating"}]
Run == Job \cup Manual \cup ModeChange \cup Booting

ASSUME NoneAssumption == None \notin Run

(* Every variable keeps the values the code can give it; in particular a     *)
(* worker always has a mode, even when the state row could not be read.      *)
TypeOK ==
  /\ now \in 0..MaxTime /\ called \subseteq Calls /\ resets \in Nat
  /\ batches \subseteq Batch /\ cycles \subseteq CycleRow
  /\ state \in Modes \cup {None}
  /\ mode \in [Workers -> Modes]
  /\ agreeing \subseteq Workers
  /\ nextRun \in [Workers -> Nat \cup {None}]
  /\ run \in [Runners -> Run \cup {None}]
  /\ faults \in [Kinds -> Nat]

\* The batches started before b that the quota for b should have counted; of
\* those started at the very time of b, the ones a quota as strict as its own
\* let through.
Before(b) ==
  {a \in batches :
     /\ resets < a.id
     /\ a.at < b.at \/ (a.at = b.at /\ a.id < b.id /\ a.mode \in {"once", b.mode})
     /\ b.mode = "once" \/ a.at >= b.at - Window}

(* The quota - MaxCycles scheduled batches for ever ("once") or in any 24    *)
(* hours ("recurring") - holds up to one batch for each further worker,      *)
(* which counts before it knows of the others', and the cycles whose record  *)
(* was lost by a crash or a lock timeout; through restarts, mode changes and *)
(* resets.                                                                   *)
QuotaKeptUnlessLost ==
  \A b \in batches :
    Cardinality(Before(b)) <
      MaxCycles + (Cardinality(Workers) - 1) + faults["crash"] + faults["busy"]

BatchOf(c) == CHOOSE b \in batches : b.id = c.batch

\* How much of an interval may be missing between two cycles of a worker: the
\* first one was late for its slot, or a restart cut its wait to whole seconds.
Late == IF Grace < Interval THEN Grace ELSE Interval - 1
Missing == IF Late < Second THEN Second - 1 ELSE Late
Spacing == Interval - Missing

(* Two completed scheduled cycles of one worker start an interval apart, but *)
(* for the lateness of the first one or a cut to whole seconds: a late start *)
(* does not move the slots, restarts in between do not add up, and a cycle   *)
(* that took long is not followed by the ones it kept from starting.         *)
CyclesSpaced ==
  \A c, d \in Completed("scheduled") :
    c.batch < d.batch /\ BatchOf(c).by = BatchOf(d).by
      => BatchOf(d).at - BatchOf(c).at >= Spacing

(* The mode a worker uses is the one a restart will find: after it booted    *)
(* from the row or created it, and after it changed the mode with no other   *)
(* change going on - until the mode is changed again.                        *)
ModeKept == \A w \in agreeing : state = mode[w]
=============================================================================
