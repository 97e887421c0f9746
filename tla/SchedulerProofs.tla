--------------------------- MODULE SchedulerProofs ---------------------------
(***************************************************************************)
(* The quota, the spacing of the cycles and the agreement of the modes for *)
(* any workers, calls and settings.                                        *)
(*                                                                         *)
(* Of the many steps only few matter to batches and their records: a job   *)
(* starts, issues its batch, records it; a reset forgets, time passes, and *)
(* all the rest is quiet.  Deeds shows this once and the invariants are    *)
(* proved step by step for these.  SlotInv says what slots, batches and    *)
(* records have to do with each other, above all how far the jobs of a     *)
(* worker are apart.  QuotaInv bounds the batches that a start could  *)
(* know of by the quota, LostInv those whose record was lost by the        *)
(* faults; what is left is at most one batch of each other worker.         *)
(***************************************************************************)
EXTENDS Scheduler, Counting

\* What a worker's job and a call can be doing, and that the tables are finite.
RunsOK ==
  /\ \A w \in Workers : run[w] \in Job \cup Booting \cup {None}
  /\ \A c \in Calls : run[c] \in Manual \cup ModeChange \cup {None}
TypeInv == TypeOK /\ RunsOK /\ IsFiniteSet(batches) /\ IsFiniteSet(cycles)

Done == Completed("scheduled")

-----------------------------------------------------------------------------
\* The settings and the clock of the interval job.

(* Whatever the environment says, there is an interval, a quota and a mode.  *)
LEMMA SettingsAreSane ==
  /\ Interval \in Nat /\ Interval >= 1
  /\ MaxCycles \in Nat /\ MaxCycles >= 1
  /\ DefaultMode \in Modes
BY DEF Interval, SanitizedInterval, MaxCycles, SanitizedMaxCycles, AtLeastOne,
       DefaultMode, SanitizedMode, Modes

(* At least a tick is left of an interval, and never more than all of it but *)
(* for the lateness and the cut to whole seconds.                            *)
LEMMA SpacingIs ==
  /\ Spacing \in Nat /\ Spacing >= 1 /\ Spacing <= Interval
  /\ Second \in Nat /\ Second >= 1 /\ Spacing <= Interval - (Second - 1)
  /\ Late \in Nat /\ Late < Interval /\ Late <= Grace /\ Spacing <= Interval - Late
  /\ Grace \in Nat /\ (Late = Grace \/ Late = Interval - 1)
BY SettingsAreSane, SchedulerAssumption DEF Spacing, Missing, Late

(* What is left over when n is cut down to multiples of m. *)
LEMMA RestIs ==
  ASSUME NEW n \in Int, NEW m \in Nat, m >= 1
  PROVE  /\ n % m \in 0..(m - 1)
         /\ n >= 0 => n % m <= n
OBVIOUS

(* There is a last completed cycle if there is one at all. *)
LEMMA LatestIs ==
  ASSUME NEW S, S # {}, \A c \in S : c.at \in 0..MaxTime
  PROVE  Latest(S) \in S /\ \A c \in S : Latest(S).at >= c.at
<1> DEFINE T == {c.at : c \in S}
<1>1. T # {} /\ T \subseteq 0..MaxTime /\ MaxTime \in Nat
  BY SchedulerAssumption
<1>2. PICK m \in T : \A k \in T : k <= m
  <2> HIDE DEF T
  <2>1. QED BY <1>1, LargestIs
<1>3. PICK c \in S : m = c.at
  OBVIOUS
<1>4. \A d \in S : c.at >= d.at
  BY <1>1, <1>2, <1>3
<1>5. QED BY <1>4 DEF Latest

(* The first run after a start is not in the past, and an interval after     *)
(* every cycle that was completed, but for the cut to whole seconds.         *)
LEMMA FirstRunIs ==
  ASSUME TypeInv
  PROVE  /\ FirstRun \in Nat /\ FirstRun >= now
         /\ \A c \in Done : FirstRun >= c.at + Spacing
<1>1. /\ now \in Nat /\ Interval \in Nat /\ MaxTime \in Nat
      /\ \A c \in Done : c.at \in 0..MaxTime
  BY SettingsAreSane, SchedulerAssumption
     DEF TypeInv, TypeOK, Done, Completed, CycleRow
<1>2. CASE Done = {}
  BY <1>1, <1>2 DEF FirstRun, Done
<1>3. CASE Done # {}
  <2> DEFINE last == Latest(Done).at
             left == Interval - (now - last)
             whole == left - (left % Second)
  <2>1. last \in 0..MaxTime /\ \A c \in Done : last >= c.at
    BY <1>1, <1>3, LatestIs
  <2>2. FirstRun = IF whole > Second THEN now + whole ELSE now + Second
    BY <1>3 DEF FirstRun, Done
  <2> HIDE DEF last
  <2>3. left \in Int /\ Second \in Nat /\ Second >= 1
    BY <1>1, <2>1, SpacingIs
  <2>4. left % Second \in 0..(Second - 1)
    BY <2>3, RestIs
  <2>5. FirstRun \in Nat /\ FirstRun >= now /\ FirstRun >= now + left - (Second - 1)
    <3> DEFINE rest == left % Second
    <3>1. rest \in 0..(Second - 1) /\ whole = left - rest
      BY <2>4
    <3> HIDE DEF rest, whole, left
    <3>2. QED BY <1>1, <2>2, <2>3, <3>1
  <2>6. now + left = last + Interval
    BY <1>1, <2>1
  <2> HIDE DEF left, whole
  <2>7. QED BY <1>1, <2>1, <2>3, <2>5, <2>6, SpacingIs
<1>4. QED BY <1>2, <1>3

(* The slot of a job is not before it was due, and by less than an interval  *)
(* in the past.                                                              *)
LEMMA SlotIs ==
  ASSUME TypeInv, NEW w \in Workers, Due(w)
  PROVE  /\ Slot(w) \in Nat /\ nextRun[w] <= Slot(w)
         /\ Slot(w) <= now /\ now < Slot(w) + Interval
<1>1. /\ now \in Nat /\ nextRun[w] \in Nat /\ now >= nextRun[w]
      /\ Interval \in Nat /\ Interval >= 1
  BY SettingsAreSane, SchedulerAssumption DEF TypeInv, TypeOK, Due, Up
<1> DEFINE n == now - nextRun[w]
           rest == n % Interval
<1>2. n \in Nat
  BY <1>1
<1> HIDE DEF n
<1>3. rest \in 0..(Interval - 1) /\ rest <= n
  <2>1. \A k \in Int, m \in Nat : m >= 1 => k % m \in 0..(m - 1) /\ (k >= 0 => k % m <= k)
    BY RestIs
  <2>2. n \in Int /\ n >= 0
    BY <1>2
  <2>3. QED BY ONLY <1>1, <2>1, <2>2
<1>4. Slot(w) = now - rest /\ n = now - nextRun[w]
  BY DEF Slot, n
<1> HIDE DEF rest
<1>5. QED BY <1>1, <1>3, <1>4

-----------------------------------------------------------------------------
\* Types.

(* At the start nothing has happened. *)
LEMMA InitTypes == Init => TypeInv
<1>1. DefaultMode \in Modes /\ 0 \in 0..MaxTime
  BY SettingsAreSane, SchedulerAssumption
<1>2. QED BY <1>1, FS_EmptySet DEF Init, TypeInv, TypeOK, RunsOK, Runners, Completed, Modes, Kinds

OfWorker(r) == r \in Job \cup Booting \cup {None}
OfCall(r) == r \in Manual \cup ModeChange \cup {None}
RunKept == run' \in [Runners -> Run \cup {None}] /\ RunsOK'

(* A run changes to one of its kind. *)
LEMMA SetRun ==
  ASSUME TypeInv, NEW p \in Runners, NEW r, run' = [run EXCEPT ![p] = r],
         p \in Workers => OfWorker(r), p \in Calls => OfCall(r)
  PROVE  RunKept
BY SchedulerAssumption
   DEF TypeInv, TypeOK, RunsOK, RunKept, Runners, OfWorker, OfCall, Run

(* What a job or a call is that does this or that. *)
LEMMA RunIs ==
  ASSUME TypeInv
  PROVE  /\ \A w \in Workers :
              /\ ~Idle(w) => run[w] \in Job \cup Booting
              /\ Doing(w, "issuing") \/ Doing(w, "recording") \/ Doing(w, "failing")
                   \/ Doing(w, "stamping") => run[w] \in Job
         /\ \A c \in Calls :
              /\ Doing(c, "issuing") \/ Doing(c, "recording") \/ Doing(c, "failing")
                   => run[c] \in Manual
              /\ Doing(c, "reading") \/ Doing(c, "creating") \/ Doing(c, "writing")
                   => run[c] \in ModeChange
              /\ ~Doing(c, "stamping")
         /\ \A p \in Runners : Host(p) \in Workers
<1>1. \A p \in Runners : Host(p) \in Workers
  BY SchedulerAssumption DEF Host, Runners
<1>2. ASSUME NEW w \in Workers
      PROVE  /\ ~Idle(w) => run[w] \in Job \cup Booting
             /\ Doing(w, "issuing") \/ Doing(w, "recording") \/ Doing(w, "failing")
                   \/ Doing(w, "stamping") => run[w] \in Job
  BY DEF TypeInv, RunsOK, Idle, Doing, Booting
<1>3. ASSUME NEW c \in Calls
      PROVE  /\ Doing(c, "issuing") \/ Doing(c, "recording") \/ Doing(c, "failing")
                   => run[c] \in Manual
             /\ Doing(c, "reading") \/ Doing(c, "creating") \/ Doing(c, "writing")
                   => run[c] \in ModeChange
             /\ ~Doing(c, "stamping")
  BY DEF TypeInv, RunsOK, Idle, Doing, Manual, ModeChange
<1>4. QED BY <1>1, <1>2, <1>3

(* A worker's step leaves every job and call of its kind. *)
LEMMA WorkerRuns ==
  ASSUME TypeInv, NEW w \in Workers, WorkerStep(w)
  PROVE  RunKept
<1>1. /\ w \in Runners /\ w \notin Calls
      /\ run \in [Runners -> Run \cup {None}] /\ RunsOK /\ now \in 0..MaxTime /\ mode[w] \in Modes
  BY SchedulerAssumption DEF Runners, TypeInv, TypeOK
<1>2. UNCHANGED run => RunKept
  BY <1>1 DEF RunKept, RunsOK
<1>3. ASSUME NEW r, OfWorker(r), run' = [run EXCEPT ![w] = r] PROVE RunKept
  BY <1>1, <1>3, SetRun
<1>4. Finish(w) => RunKept
  BY <1>3 DEF Finish, OfWorker
<1>5. ASSUME Boot(w) PROVE RunKept
  <2>1. OfWorker([doing |-> "creating"])
    BY DEF OfWorker, Booting
  <2>2. QED BY <1>2, <1>3, <1>5, <2>1 DEF Boot
<1>6. ASSUME Fire(w) PROVE RunKept
  <2>1. OfWorker([doing |-> "issuing", trigger |-> "scheduled",
                  mode |-> mode[w], at |-> now, id |-> None])
    BY <1>1 DEF OfWorker, Job
  <2>2. QED BY <1>2, <1>3, <1>6, <2>1 DEF Fire, StartScheduled
<1>7. ASSUME Stamp(w) PROVE RunKept
  <2>1. run[w] \in Job
    BY <1>7, RunIs DEF Stamp
  <2>2. [run[w] EXCEPT !.doing = "creating"] \in Job
    BY <2>1 DEF Job
  <2>3. GoOn(w, "creating") => run' = [run EXCEPT ![w] = [run[w] EXCEPT !.doing = "creating"]]
    BY DEF GoOn
  <2>4. QED BY <1>3, <1>4, <1>7, <2>2, <2>3 DEF Stamp, OfWorker
<1>8. ASSUME Crash(w) PROVE RunKept
  BY <1>1, <1>8 DEF Crash, RunKept, RunsOK, Runners
<1>9. QED BY <1>4, <1>5, <1>6, <1>7, <1>8
             DEF WorkerStep, BootCreates, BootTimesOut, StampCreates

(* So does a call's. *)
LEMMA CallRuns ==
  ASSUME TypeInv, NEW c \in Calls, CallStep(c)
  PROVE  RunKept
<1>1. /\ c \in Runners /\ c \notin Workers
      /\ run \in [Runners -> Run \cup {None}] /\ RunsOK /\ state \in Modes \cup {None}
  BY SchedulerAssumption DEF Runners, TypeInv, TypeOK
<1>2. UNCHANGED run => RunKept
  BY <1>1 DEF RunKept, RunsOK
<1>3. ASSUME NEW r, OfCall(r), run' = [run EXCEPT ![c] = r] PROVE RunKept
  BY <1>1, <1>3, SetRun
<1>4. Finish(c) => RunKept
  BY <1>3 DEF Finish, OfCall
<1>5. ASSUME NEW operation, Trigger(c, operation) PROVE RunKept
  <2>1. OfCall([doing |-> "issuing", trigger |-> "manual", direct |-> operation = "batch"])
    BY DEF OfCall, Manual
  <2>2. QED BY <1>3, <1>5, <2>1 DEF Trigger, StartManual
<1>6. ASSUME NEW m \in Modes, SetMode(c, m) PROVE RunKept
  <2> DEFINE r == [doing |-> "reading", mode |-> m, seen |-> None, alone |-> Changing = {}]
  <2>1. r \in ModeChange
    BY DEF ModeChange
  <2> HIDE DEF r
  <2>2. run' = [p \in Runners |-> IF p = c THEN r
                                  ELSE IF p \in Changing THEN [run[p] EXCEPT !.alone = FALSE]
                                  ELSE run[p]]
    BY <1>6 DEF SetMode, r
  <2>3. \A p \in Changing : p \in Calls /\ [run[p] EXCEPT !.alone = FALSE] \in ModeChange
    <3>1. \A p \in Changing : p \in Calls /\ run[p] \in ModeChange
      BY RunIs DEF Changing, Doing
    <3>2. QED BY <3>1 DEF ModeChange
  <2>4. \A p \in Runners : run'[p] \in Run \cup {None}
    BY <1>1, <2>1, <2>2, <2>3 DEF Run
  <2>5. RunsOK'
    BY <1>1, <2>1, <2>2, <2>3, SchedulerAssumption DEF RunsOK, Runners
  <2>6. QED BY <2>2, <2>4, <2>5 DEF RunKept
<1>7. ASSUME ReadRow(c) PROVE RunKept
  <2>1. run[c] \in ModeChange
    BY <1>7, RunIs DEF ReadRow
  <2>2. /\ [run[c] EXCEPT !.doing = "creating"] \in ModeChange
        /\ [run[c] EXCEPT !.doing = "writing", !.seen = state] \in ModeChange
    BY <1>1, <2>1 DEF ModeChange
  <2>3. \/ run' = [run EXCEPT ![c] = [run[c] EXCEPT !.doing = "creating"]]
        \/ run' = [run EXCEPT ![c] = [run[c] EXCEPT !.doing = "writing", !.seen = state]]
    BY <1>1, <1>7, <2>1 DEF ReadRow, GoOn
  <2>4. QED BY <1>3, <2>2, <2>3 DEF OfCall
<1>8. ASSUME ChangeCreates(c) PROVE RunKept
  <2>1. run[c] \in ModeChange
    BY <1>8, RunIs DEF ChangeCreates
  <2>2. [run[c] EXCEPT !.doing = "writing", !.seen = "once"] \in ModeChange
    BY <2>1 DEF ModeChange, Modes
  <2>3. \/ Finish(c)
        \/ run' = [run EXCEPT ![c] = [run[c] EXCEPT !.doing = "writing", !.seen = "once"]]
    BY <1>1, <1>8, <2>1 DEF ChangeCreates, GiveUp
  <2>4. QED BY <1>3, <1>4, <2>2, <2>3 DEF OfCall
<1>9. QED BY <1>2, <1>4, <1>5, <1>6, <1>7, <1>8 DEF CallStep, WriteMode, Reset

(* So does the work on a batch. *)
LEMMA BatchRuns ==
  ASSUME TypeInv, NEW p \in Runners, RunStep(p)
  PROVE  RunKept
<1>1. run \in [Runners -> Run \cup {None}] /\ Workers \cap Calls = {} /\ NextBatch \in Nat
  BY SchedulerAssumption, FS_CardinalityType DEF TypeInv, TypeOK, NextBatch
<1>2. Finish(p) => RunKept
  BY SetRun DEF Finish, OfWorker, OfCall
<1>3. ASSUME IssueScheduled(p) PROVE RunKept
  <2>1. run[p] \in Job /\ p \in Workers
    BY <1>3, RunIs DEF IssueScheduled
  <2>2. [run[p] EXCEPT !.doing = "recording", !.id = NextBatch] \in Job
    BY <1>1, <2>1 DEF Job
  <2>3. run' = [run EXCEPT ![p] = [run[p] EXCEPT !.doing = "recording", !.id = NextBatch]]
    BY <1>1, <1>3 DEF IssueScheduled
  <2>4. QED BY <1>1, <2>1, <2>2, <2>3, SetRun DEF OfWorker
<1>4. ASSUME NEW next \in {"recording", "failing"}, Doing(p, "issuing"), p \in Calls, GoOn(p, next)
      PROVE  RunKept
  <2>1. run[p] \in Manual
    BY <1>4, RunIs
  <2>2. [run[p] EXCEPT !.doing = next] \in Manual
    BY <2>1 DEF Manual
  <2>3. run' = [run EXCEPT ![p] = [run[p] EXCEPT !.doing = next]]
    BY <1>4 DEF GoOn
  <2>4. QED BY <1>1, <1>4, <2>2, <2>3, SetRun DEF OfCall
<1>5. ASSUME NEW next \in {"failing", "stamping"}, p \in Workers, GoOn(p, next),
             Doing(p, "issuing") \/ Doing(p, "recording")
      PROVE  RunKept
  <2>1. run[p] \in Job
    BY <1>5, RunIs
  <2>2. [run[p] EXCEPT !.doing = next] \in Job
    BY <2>1 DEF Job
  <2>3. run' = [run EXCEPT ![p] = [run[p] EXCEPT !.doing = next]]
    BY <1>5 DEF GoOn
  <2>4. QED BY <1>1, <1>5, <2>2, <2>3, SetRun DEF OfWorker
<1>6. ASSUME IssueManual(p) PROVE RunKept
  BY <1>2, <1>4, <1>6 DEF IssueManual
<1>7. ASSUME IssueFails(p) PROVE RunKept
  BY <1>2, <1>4, <1>5, <1>7 DEF IssueFails, Runners
<1>8. ASSUME RecordCycle(p) PROVE RunKept
  BY <1>2, <1>5, <1>8 DEF RecordCycle
<1>9. QED BY <1>2, <1>3, <1>6, <1>7, <1>8 DEF RunStep, RecordFailure, CommitTimesOut, GiveUp

(* Every step keeps the types. *)
LEMMA NextTypes ==
  ASSUME TypeInv, [Next]_vars
  PROVE  TypeInv'
<1> DEFINE Rest == /\ now' \in 0..MaxTime /\ called' \subseteq Calls /\ resets' \in Nat
                   /\ batches' \subseteq Batch /\ cycles' \subseteq CycleRow
                   /\ IsFiniteSet(batches') /\ IsFiniteSet(cycles')
           Modal == /\ state' \in Modes \cup {None}
                    /\ mode' \in [Workers -> Modes]
                    /\ agreeing' \subseteq Workers
                    /\ nextRun' \in [Workers -> Nat \cup {None}]
           Faulty == faults' \in [Kinds -> Nat]
<1>1. /\ now \in 0..MaxTime /\ called \subseteq Calls /\ resets \in Nat
      /\ batches \subseteq Batch /\ cycles \subseteq CycleRow
      /\ state \in Modes \cup {None} /\ mode \in [Workers -> Modes]
      /\ agreeing \subseteq Workers /\ nextRun \in [Workers -> Nat \cup {None}]
      /\ run \in [Runners -> Run \cup {None}] /\ faults \in [Kinds -> Nat]
      /\ IsFiniteSet(batches) /\ IsFiniteSet(cycles)
      /\ Cardinality(batches) \in Nat /\ NextBatch \in Nat
      /\ MaxTime \in Nat /\ Runners = Workers \cup Calls /\ Workers \cap Calls = {}
      /\ Interval \in Nat /\ FirstRun \in Nat /\ DefaultMode \in Modes /\ "once" \in Modes
  <2>1. IsFiniteSet(batches) /\ IsFiniteSet(cycles)
    BY DEF TypeInv
  <2>2. Cardinality(batches) \in Nat /\ NextBatch \in Nat
    BY <2>1, FS_CardinalityType DEF NextBatch
  <2>3. /\ MaxTime \in Nat /\ Runners = Workers \cup Calls /\ Workers \cap Calls = {}
        /\ Interval \in Nat /\ FirstRun \in Nat /\ DefaultMode \in Modes /\ "once" \in Modes
    BY SchedulerAssumption, SettingsAreSane, FirstRunIs DEF Runners, Modes
  <2>4. QED BY <2>1, <2>2, <2>3 DEF TypeInv, TypeOK
<1>2. \A k \in Kinds : Fault(k) => Faulty
  BY <1>1 DEF Fault
<1>3. UNCHANGED <<now, called, resets, batches, cycles>> => Rest
  BY <1>1
<1>4. UNCHANGED <<modeVars, nextRun>> => Modal
  BY <1>1 DEF modeVars
<1>5. UNCHANGED faults => Faulty
  BY <1>1
<1>6. ASSUME NEW row \in CycleRow, cycles' = cycles \cup {row},
             UNCHANGED <<now, called, resets, batches>>
      PROVE  Rest
  BY <1>1, <1>6, FS_AddElement
<1>7. ASSUME NEW w \in Workers, WorkerStep(w) PROVE RunKept /\ Rest /\ Modal /\ Faulty
  <2>1. RunKept
    BY <1>7, WorkerRuns
  <2>2. Rest
    BY <1>3, <1>7 DEF WorkerStep, Boot, BootCreates, BootTimesOut, Fire, Stamp, StampCreates,
                      Crash, clock
  <2>3. \A m \in Modes, b \in BOOLEAN :
          Started(w, m, b) => /\ mode' \in [Workers -> Modes] /\ agreeing' \subseteq Workers
                              /\ nextRun' \in [Workers -> Nat \cup {None}]
    BY <1>1 DEF Started
  <2>4. Boot(w) => Modal
    BY <1>1, <2>3 DEF Boot
  <2>5. BootCreates(w) \/ BootTimesOut(w) => Modal
    BY <1>1, <2>3 DEF BootCreates, BootTimesOut
  <2>6. Fire(w) => Modal
    <3>1. Due(w) => Slot(w) + Interval \in Nat
      BY <1>1, SlotIs
    <3>2. Fire(w) => nextRun' = [nextRun EXCEPT ![w] = Slot(w) + Interval]
      BY DEF Fire
    <3>3. QED BY <1>1, <3>1, <3>2 DEF Fire, modeVars
  <2>7. Stamp(w) \/ StampCreates(w) \/ Crash(w) => Modal
    BY <1>1 DEF Stamp, StampCreates, Crash, modeVars
  <2>8. Faulty
    BY <1>2, <1>5, <1>7 DEF WorkerStep, Boot, BootCreates, BootTimesOut, Fire, Stamp, StampCreates,
                      Crash, Kinds
  <2>9. QED BY <1>7, <2>1, <2>2, <2>4, <2>5, <2>6, <2>7, <2>8 DEF WorkerStep
<1>8. ASSUME NEW c \in Calls, CallStep(c) PROVE RunKept /\ Rest /\ Modal /\ Faulty
  <2>1. RunKept
    BY <1>8, CallRuns
  <2>2. Host(c) \in Workers /\ (Doing(c, "writing") => run[c] \in ModeChange)
    BY <1>1, RunIs
  <2>3. ASSUME NEW op, Trigger(c, op) PROVE Rest /\ Modal /\ Faulty
    BY <1>1, <2>3, <1>4, <1>5 DEF Trigger, Call
  <2>4. ASSUME NEW m \in Modes, SetMode(c, m) PROVE Rest /\ Modal /\ Faulty
    BY <1>1, <2>4, <1>5, <2>2 DEF SetMode, Call
  <2>5. ReadRow(c) => Rest /\ Modal /\ Faulty
    BY <1>1, <1>3, <1>4, <1>5 DEF ReadRow, clock
  <2>6. ChangeCreates(c) => Rest /\ Modal /\ Faulty
    BY <1>1, <1>3, <1>5 DEF ChangeCreates, GiveUp, clock
  <2>7. WriteMode(c) => Rest /\ Modal /\ Faulty
    BY <1>1, <1>3, <1>5, <2>2 DEF WriteMode, clock, ModeChange
  <2>8. Reset(c) => Rest /\ Modal /\ Faulty
    BY <1>1, <1>4, <1>5, FS_EmptySet DEF Reset, Call
  <2>9. QED BY <1>8, <2>1, <2>3, <2>4, <2>5, <2>6, <2>7, <2>8 DEF CallStep
<1>9. ASSUME NEW p \in Runners, RunStep(p) PROVE RunKept /\ Rest /\ Modal /\ Faulty
  <2>1. RunKept
    BY <1>9, BatchRuns
  <2>2. IssueScheduled(p) => Rest /\ Modal /\ Faulty
    <3> SUFFICES ASSUME IssueScheduled(p) PROVE Rest /\ Modal /\ Faulty
      OBVIOUS
    <3> DEFINE new == [id |-> NextBatch, at |-> run[p].at, mode |-> run[p].mode, by |-> p]
    <3>1. run[p] \in Job
      BY RunIs DEF IssueScheduled
    <3>2. new \in Batch
      BY <1>1, <3>1 DEF Batch, Job, IssueScheduled
    <3>3. batches' = batches \cup {new}
      BY DEF IssueScheduled
    <3> HIDE DEF new
    <3>4. batches' \subseteq Batch /\ IsFiniteSet(batches')
      BY <1>1, <3>2, <3>3, FS_AddElement
    <3>5. UNCHANGED <<now, called, resets, cycles, faults, modeVars, nextRun>>
      BY DEF IssueScheduled, clock
    <3>6. Rest
      BY <1>1, <3>4, <3>5
    <3>7. QED BY <1>4, <1>5, <3>5, <3>6
  <2>3. ASSUME NEW status \in CycleStatus, NEW id \in Nat \cup {None},
               Doing(p, "issuing") \/ Doing(p, "recording") \/ Doing(p, "failing")
        PROVE  Cycle(p, status, id) \in CycleRow
    <3>1. run[p] \in Job \cup Manual
      BY <1>1, <2>3, RunIs
    <3>2. run[p].trigger \in Triggers
      BY <3>1 DEF Job, Manual, Triggers
    <3>3. QED BY <1>1, <3>2 DEF Cycle, CycleRow
  <2>4. p \in Workers /\ Doing(p, "recording") => run[p].id \in Nat \cup {None}
    BY RunIs DEF Job
  <2>5. "completed" \in CycleStatus /\ "failed" \in CycleStatus
    BY DEF CycleStatus
  <2>6. IssueManual(p) => Rest /\ Modal /\ Faulty
    BY <1>3, <1>4, <1>5, <1>6, <2>3, <2>5 DEF IssueManual, clock
  <2>7. IssueFails(p) => Rest /\ Modal /\ Faulty
    BY <1>2, <1>3, <1>4, <1>6, <2>3, <2>5 DEF IssueFails, clock, Kinds
  <2>8. RecordCycle(p) => Rest /\ Modal /\ Faulty
    BY <1>4, <1>5, <1>6, <2>3, <2>4, <2>5 DEF RecordCycle, clock
  <2>9. RecordFailure(p) => Rest /\ Modal /\ Faulty
    BY <1>4, <1>5, <1>6, <2>3, <2>5 DEF RecordFailure, clock
  <2>10. CommitTimesOut(p) => Rest /\ Modal /\ Faulty
    BY <1>1, <1>2, <1>3 DEF CommitTimesOut, GiveUp, clock, Kinds
  <2>11. QED BY <1>9, <2>1, <2>2, <2>6, <2>7, <2>8, <2>9, <2>10 DEF RunStep
<1>10. Tick => RunKept /\ Rest /\ Modal /\ Faulty
  BY <1>1, <1>4, <1>5 DEF Tick, RunKept, RunsOK, TypeInv
<1>11. UNCHANGED vars => RunKept /\ Rest /\ Modal /\ Faulty
  BY <1>1, <1>3, <1>4, <1>5 DEF vars, RunKept, RunsOK, TypeInv
<1>12. RunKept /\ Rest /\ Modal /\ Faulty
  BY <1>7, <1>8, <1>9, <1>10, <1>11 DEF Next
<1>13. QED BY <1>12 DEF TypeInv, TypeOK, RunKept

(* Every variable keeps the values the code can give it. *)
THEOREM TypeInvariant == Spec => []TypeInv
<1>1. QED BY InitTypes, NextTypes, PTL DEF Spec

(* Slots, modes, batches and records stay within their types.                *)
THEOREM ValuesAreOfTheirTypes == Spec => []TypeOK
<1>1. TypeInv => TypeOK
  BY DEF TypeInv
<1>2. QED BY <1>1, TypeInvariant, PTL

-----------------------------------------------------------------------------
\* The mode in memory and the mode in the table.

\* Who has a mode to agree on is up, and so is who serves a call.
UpInv ==
  /\ \A w \in agreeing : Up(w)
  /\ \A c \in Calls : ~Idle(c) => Up(Host(c))
\* A change that has been alone so far has set the mode of its worker, and
\* writes over the row it has read.
AloneInv ==
  \A c \in Changing : run[c].alone =>
    /\ Changing = {c}
    /\ mode[Host(c)] = run[c].mode
    /\ run[c].doing = "writing" => state = run[c].seen
SeenInv == \A c \in Changing : run[c].doing = "writing" => run[c].seen \in Modes
ModesInv == UpInv /\ AloneInv /\ SeenInv /\ ModeKept

(* Nothing happens to the modes, and no worker goes down that has one to     *)
(* agree on or serves a call.                                                *)
LEMMA ModesFrame ==
  ASSUME TypeInv, TypeInv', ModesInv, UNCHANGED <<state, mode>>, agreeing' \subseteq agreeing,
         \A w \in Workers : Up(w) => \/ Up(w)'
                                     \/ /\ w \notin agreeing'
                                        /\ \A c \in Calls : Host(c) = w => Idle(c)',
         \A c \in Calls : /\ c \in Changing' => c \in Changing /\ run'[c] = run[c]
                          /\ ~Idle(c)' => ~Idle(c) \/ Up(Host(c))'
  PROVE  ModesInv'
<1>1. \A c \in Calls : Host(c) \in Workers /\ c \in Runners
  BY RunIs DEF Runners
<1>2. agreeing \subseteq Workers
  BY DEF TypeInv, TypeOK
<1>3. UpInv'
  <2>1. \A w \in agreeing' : Up(w)'
    BY <1>2 DEF ModesInv, UpInv
  <2>2. ASSUME NEW c \in Calls, ~Idle(c)' PROVE Up(Host(c))'
    BY <1>1, <2>2 DEF ModesInv, UpInv
  <2>3. QED BY <2>1, <2>2 DEF UpInv, Host
<1>4. Changing' \subseteq Changing /\ \A c \in Changing' : run'[c] = run[c]
  BY DEF Changing
<1>5. AloneInv'
  BY <1>4 DEF ModesInv, AloneInv, Host
<1>6. SeenInv'
  BY <1>4 DEF ModesInv, SeenInv
<1>7. ModeKept'
  BY DEF ModesInv, ModeKept
<1>8. QED BY <1>3, <1>5, <1>6, <1>7 DEF ModesInv

(* As long as there is no row, nobody agrees with it or is about to write.   *)
LEMMA NoRow ==
  ASSUME TypeInv, ModesInv, state = None
  PROVE  agreeing = {} /\ \A c \in Changing : run[c].alone => run[c].doing # "writing"
<1>1. None \notin Modes
  BY SchedulerAssumption
<1>2. QED BY <1>1 DEF TypeInv, TypeOK, ModesInv, ModeKept, AloneInv, SeenInv

(* A worker that starts with the mode of the row, or with its own, agrees    *)
(* with the row if that was no matter of chance.                             *)
LEMMA ModesStarted ==
  ASSUME TypeInv, TypeInv', ModesInv, NEW w \in Workers, ~Up(w), NEW m \in Modes,
         NEW fromRow \in BOOLEAN, Started(w, m, fromRow), fromRow => state' = m,
         state' = state \/ state = None, run' = run \/ run' = [run EXCEPT ![w] = None]
  PROVE  ModesInv'
<1>1. /\ w \notin agreeing /\ agreeing \subseteq Workers /\ w \notin Calls /\ w \in Runners
      /\ run \in [Runners -> Run \cup {None}] /\ nextRun \in [Workers -> Nat \cup {None}]
      /\ mode \in [Workers -> Modes]
      /\ \A c \in Calls : Host(c) \in Workers /\ c \in Runners
  BY SchedulerAssumption, RunIs DEF TypeInv, TypeOK, ModesInv, UpInv, Runners
<1>2. \A c \in Calls : run'[c] = run[c]
  BY <1>1
<1>3. Changing' = Changing
  BY <1>2 DEF Changing, Idle
<1>4. FirstRun \in Nat /\ None \notin Nat
  BY FirstRunIs, SchedulerAssumption
<1>5. Up(w)' /\ \A v \in Workers \ {w} : Up(v)' = Up(v)
  BY <1>1, <1>4 DEF Started, Up
<1>6. \A c \in Calls : ~Idle(c) => Host(c) # w
  BY DEF ModesInv, UpInv
<1>7. UpInv'
  <2>1. \A v \in agreeing' : Up(v)'
    BY <1>1, <1>5 DEF Started, ModesInv, UpInv
  <2>2. ASSUME NEW c \in Calls, ~Idle(c)' PROVE Up(Host(c))'
    <3>1. ~Idle(c)
      BY <1>2, <2>2 DEF Idle
    <3>2. QED BY <1>1, <1>5, <3>1 DEF ModesInv, UpInv
  <2>3. QED BY <2>1, <2>2 DEF UpInv, Host
<1>8. AloneInv'
  <2>1. \A c \in Changing : c \in Calls /\ mode'[Host(c)] = mode[Host(c)]
    BY <1>1, <1>6 DEF Changing, Started
  <2>2. \A c \in Changing : run[c].alone /\ run[c].doing = "writing" => state' = state
    BY NoRow
  <2>3. QED BY <1>2, <1>3, <2>1, <2>2 DEF ModesInv, AloneInv, Host
<1>9. SeenInv'
  BY <1>2, <1>3 DEF ModesInv, SeenInv, Changing
<1>10. ModeKept'
  <2>1. \A v \in agreeing : v # w /\ state' = mode'[v]
    BY <1>1, NoRow DEF Started, ModesInv, ModeKept
  <2>2. fromRow => state' = mode'[w]
    BY <1>1 DEF Started
  <2>3. QED BY <2>1, <2>2 DEF Started, ModeKept
<1>11. QED BY <1>7, <1>8, <1>9, <1>10 DEF ModesInv

(* What a worker does keeps the modes as they should be. *)
LEMMA WorkerModes ==
  ASSUME TypeInv, TypeInv', ModesInv, NEW w \in Workers, WorkerStep(w)
  PROVE  ModesInv'
<1>1. /\ w \in Runners /\ w \notin Calls /\ None \notin Nat /\ FirstRun \in Nat
      /\ run \in [Runners -> Run \cup {None}] /\ nextRun \in [Workers -> Nat \cup {None}]
      /\ state \in Modes \cup {None} /\ DefaultMode \in Modes /\ Interval \in Nat
      /\ \A c \in Calls : c \in Runners /\ c # w
  BY SchedulerAssumption, SettingsAreSane, FirstRunIs DEF Runners, TypeInv, TypeOK
<1>2. ASSUME \E r : run' = [run EXCEPT ![w] = r]
      PROVE  /\ \A c \in Calls : run'[c] = run[c] /\ (Idle(c)' <=> Idle(c))
             /\ Changing' = Changing
  <2>1. \A c \in Calls : run'[c] = run[c]
    BY <1>1, <1>2
  <2>2. QED BY <2>1 DEF Changing, Idle
<1>3. UNCHANGED run => \E r : run' = [run EXCEPT ![w] = r]
  <2>1. run = [run EXCEPT ![w] = run[w]]
    BY <1>1
  <2>2. QED BY <2>1
<1>4. ASSUME UNCHANGED <<state, mode, agreeing>>, \E r : run' = [run EXCEPT ![w] = r],
             \A v \in Workers : Up(v) => Up(v)'
      PROVE  ModesInv'
  BY <1>2, <1>4, ModesFrame
<1>5. ASSUME Boot(w) PROVE ModesInv'
  <2>1. CASE state # None
    BY <1>1, <1>5, <2>1, ModesStarted DEF Boot
  <2>2. CASE state = None
    BY <1>4, <1>5, <2>2 DEF Boot, Up
  <2>3. QED BY <2>1, <2>2
<1>6. ASSUME BootCreates(w) PROVE ModesInv'
  BY <1>1, <1>6, ModesStarted DEF BootCreates, Finish
<1>7. ASSUME BootTimesOut(w) PROVE ModesInv'
  BY <1>1, <1>7, ModesStarted DEF BootTimesOut, Finish
<1>8. ASSUME Fire(w) PROVE ModesInv'
  <2>1. \A v \in Workers : Up(v) => Up(v)'
    BY <1>1, <1>8, SlotIs DEF Fire, Up
  <2>2. QED BY <1>3, <1>4, <1>8, <2>1 DEF Fire, StartScheduled, modeVars
<1>9. ASSUME Stamp(w) PROVE ModesInv'
  <2>1. \E r : run' = [run EXCEPT ![w] = r]
    BY <1>9 DEF Stamp, GoOn, Finish
  <2>2. QED BY <1>4, <1>9, <2>1 DEF Stamp, modeVars, Up
<1>10. ASSUME StampCreates(w) PROVE ModesInv'
  <2>1. CASE state # None
    BY <1>4, <1>10, <2>1 DEF StampCreates, Finish, Up
  <2>2. CASE state = None
    <3>1. /\ \A c \in Calls : run'[c] = run[c] /\ (Idle(c)' <=> Idle(c))
          /\ Changing' = Changing /\ UNCHANGED <<mode, agreeing, nextRun>>
      BY <1>2, <1>10 DEF StampCreates, Finish
    <3>2. UpInv'
      BY <3>1 DEF ModesInv, UpInv, Up, Host
    <3>3. AloneInv' /\ SeenInv'
      BY <2>2, <3>1, NoRow DEF ModesInv, AloneInv, SeenInv, Host, Changing
    <3>4. ModeKept'
      BY <2>2, <3>1, NoRow DEF ModeKept
    <3>5. QED BY <3>2, <3>3, <3>4 DEF ModesInv
  <2>3. QED BY <2>1, <2>2
<1>11. ASSUME Crash(w) PROVE ModesInv'
  <2>1. \A c \in Calls : run'[c] = None \/ (run'[c] = run[c] /\ Host(c) # w)
    BY <1>1, <1>11 DEF Crash
  <2>2. \A c \in Calls : Host(c) = w => Idle(c)'
    BY <1>1, <1>11 DEF Crash, Idle
  <2>3. \A c \in Calls : /\ c \in Changing' => c \in Changing /\ run'[c] = run[c]
                         /\ ~Idle(c)' => ~Idle(c)
    BY <2>1 DEF Changing, Idle
  <2>4. \A v \in Workers : Up(v) => Up(v)' \/ v = w
    BY <1>1, <1>11 DEF Crash, Up
  <2>5. QED BY <1>11, <2>2, <2>3, <2>4, ModesFrame DEF Crash
<1>12. QED BY <1>5, <1>6, <1>7, <1>8, <1>9, <1>10, <1>11 DEF WorkerStep

(* So does what a call does. *)
LEMMA CallModes ==
  ASSUME TypeInv, TypeInv', ModesInv, NEW c \in Calls, CallStep(c)
  PROVE  ModesInv'
<1>1. /\ c \in Runners /\ Host(c) \in Workers /\ "once" \in Modes
      /\ run \in [Runners -> Run \cup {None}] /\ mode \in [Workers -> Modes]
      /\ state \in Modes \cup {None} /\ agreeing \subseteq Workers
      /\ \A d \in Calls : d \in Runners /\ Host(d) \in Workers
  BY RunIs DEF Runners, TypeInv, TypeOK, Modes
<1>2. \A d \in Changing : d \in Calls /\ run[d] \in ModeChange
  BY RunIs DEF Changing, Doing
<1>3. ASSUME NEW r, run' = [run EXCEPT ![c] = r]
      PROVE  run'[c] = r /\ \A d \in Calls \ {c} : run'[d] = run[d] /\ (Idle(d)' <=> Idle(d))
  <2>1. run'[c] = r /\ \A d \in Calls \ {c} : run'[d] = run[d]
    BY <1>1, <1>3
  <2>2. QED BY <2>1 DEF Idle
<1>4. ASSUME NEW op, Trigger(c, op) PROVE ModesInv'
  <2> DEFINE r == [doing |-> "issuing", trigger |-> "manual", direct |-> op = "batch"]
  <2>1. run' = [run EXCEPT ![c] = r]
    BY <1>4 DEF Trigger, StartManual
  <2>2. /\ run'[c].doing = "issuing"
        /\ \A d \in Calls \ {c} : run'[d] = run[d] /\ (Idle(d)' <=> Idle(d))
    BY <1>3, <2>1
  <2>3. \A d \in Calls : d \in Changing' => d \in Changing /\ run'[d] = run[d]
    BY <2>2 DEF Changing
  <2>4. Up(Host(c))' /\ \A w \in Workers : Up(w) => Up(w)'
    BY <1>4 DEF Trigger, Call, Up, Host
  <2>5. QED BY <1>4, <2>2, <2>3, <2>4, ModesFrame DEF Trigger, modeVars
<1>5. ASSUME NEW m \in Modes, SetMode(c, m) PROVE ModesInv'
  <2>1. /\ run'[c].mode = m /\ run'[c].doing = "reading" /\ (run'[c].alone <=> Changing = {})
        /\ \A d \in Calls \ {c} : run'[d] = IF d \in Changing THEN [run[d] EXCEPT !.alone = FALSE]
                                            ELSE run[d]
    BY <1>1, <1>5 DEF SetMode
  <2>2. \A d \in Changing \ {c} : /\ run'[d].alone = FALSE /\ run'[d].doing = run[d].doing
                                  /\ run'[d].seen = run[d].seen
    BY <1>2, <2>1 DEF ModeChange
  <2>3. \A d \in Changing' : d \in Changing \cup {c} /\ d \in Calls
    BY <2>1 DEF Changing, Idle
  <2>4. AloneInv'
    <3> SUFFICES ASSUME NEW d \in Changing', run'[d].alone
                 PROVE  /\ Changing' = {d} /\ mode'[Host(d)] = run'[d].mode
                        /\ run'[d].doing # "writing"
      BY DEF AloneInv, Host
    <3>1. d = c /\ Changing = {}
      BY <2>1, <2>2, <2>3
    <3>2. mode' = [mode EXCEPT ![Host(c)] = m]
      BY <1>5 DEF SetMode
    <3>3. QED BY <1>1, <2>1, <2>3, <3>1, <3>2
  <2>5. SeenInv'
    BY <2>1, <2>2, <2>3 DEF SeenInv, ModesInv
  <2>6. UpInv'
    <3>1. agreeing' = {} /\ Up(Host(c)) /\ nextRun' = nextRun
      BY <1>5 DEF SetMode, Call
    <3>2. ASSUME NEW d \in Calls, ~Idle(d)' PROVE Up(Host(d))
      <4>1. CASE d \in Changing
        BY <4>1 DEF Changing, ModesInv, UpInv
      <4>2. CASE d \notin Changing /\ d # c
        BY <2>1, <3>2, <4>2 DEF Idle, ModesInv, UpInv
      <4>3. QED BY <3>1, <4>1, <4>2
    <3>3. QED BY <3>1, <3>2 DEF UpInv, Up, Host
  <2>7. ModeKept'
    BY <1>5 DEF SetMode, ModeKept
  <2>8. QED BY <2>4, <2>5, <2>6, <2>7 DEF ModesInv
<1>6. ASSUME ReadRow(c) PROVE ModesInv'
  <2>1. c \in Changing /\ run[c] \in ModeChange /\ UNCHANGED <<state, mode, agreeing, nextRun>>
    BY <1>2, <1>6 DEF ReadRow, Doing, Changing, modeVars
  <2>2. PICK r : /\ run' = [run EXCEPT ![c] = r]
                 /\ r.mode = run[c].mode /\ r.alone = run[c].alone
                 /\ \/ r.doing = "creating"
                    \/ r.doing = "writing" /\ r.seen = state /\ state \in Modes
    <3>1. CASE state = None
      <4> DEFINE r == [run[c] EXCEPT !.doing = "creating"]
      <4>1. run' = [run EXCEPT ![c] = r]
        BY <1>6, <3>1 DEF ReadRow, GoOn
      <4>2. r.mode = run[c].mode /\ r.alone = run[c].alone /\ r.doing = "creating"
        BY <2>1 DEF ModeChange
      <4> HIDE DEF r
      <4>3. QED BY <4>1, <4>2
    <3>2. CASE state # None
      <4> DEFINE r == [run[c] EXCEPT !.doing = "writing", !.seen = state]
      <4>1. run' = [run EXCEPT ![c] = r]
        BY <1>1, <1>6, <2>1, <3>2 DEF ReadRow
      <4>2. /\ r.mode = run[c].mode /\ r.alone = run[c].alone
            /\ r.doing = "writing" /\ r.seen = state
        BY <2>1 DEF ModeChange
      <4> HIDE DEF r
      <4>3. QED BY <1>1, <3>2, <4>1, <4>2
    <3>3. QED BY <3>1, <3>2
  <2>3. run'[c] = r /\ \A d \in Calls \ {c} : run'[d] = run[d] /\ (Idle(d)' <=> Idle(d))
    BY <1>3, <2>2
  <2>4. Changing' \subseteq Changing
    BY <2>1, <2>3 DEF Changing
  <2>5. UpInv'
    <3>1. \A d \in Calls : ~Idle(d)' => ~Idle(d)
      BY <2>1, <2>3 DEF Changing
    <3>2. QED BY <2>1, <3>1 DEF ModesInv, UpInv, Up, Host
  <2>6. AloneInv'
    <3> SUFFICES ASSUME NEW d \in Changing', run'[d].alone
                 PROVE  /\ Changing' = {d} /\ mode'[Host(d)] = run'[d].mode
                        /\ run'[d].doing = "writing" => state' = run'[d].seen
      BY DEF AloneInv, Host
    <3>1. d \in Changing /\ run[d].alone
      BY <1>2, <2>2, <2>3, <2>4
    <3>2. Changing' = {d} /\ mode'[Host(d)] = run[d].mode
      BY <2>1, <2>4, <3>1 DEF ModesInv, AloneInv
    <3>3. d = c
      BY <2>1, <3>1 DEF ModesInv, AloneInv
    <3>4. QED BY <2>1, <2>2, <2>3, <3>2, <3>3
  <2>7. SeenInv'
    BY <1>2, <2>2, <2>3, <2>4 DEF ModesInv, SeenInv
  <2>8. ModeKept'
    BY <2>1 DEF ModesInv, ModeKept
  <2>9. QED BY <2>5, <2>6, <2>7, <2>8 DEF ModesInv
<1>7. ASSUME Finish(c), UNCHANGED nextRun
      PROVE  /\ \A d \in Calls : /\ d \in Changing' => d \in Changing /\ d # c /\ run'[d] = run[d]
                                 /\ ~Idle(d)' => ~Idle(d)
             /\ \A w \in Workers : Up(w) => Up(w)'
  <2>1. /\ run'[c] = None
        /\ \A d \in Calls \ {c} : run'[d] = run[d] /\ (Idle(d)' <=> Idle(d))
    BY <1>3, <1>7 DEF Finish
  <2>2. Idle(c)'
    BY <2>1 DEF Idle
  <2>3. QED BY <1>7, <2>1, <2>2 DEF Changing, Up
<1>8. ASSUME ChangeCreates(c) PROVE ModesInv'
  <2>1. c \in Changing /\ run[c] \in ModeChange
    BY <1>2, <1>8 DEF ChangeCreates, Doing, Changing
  <2>2. CASE state = None
    <3> DEFINE r == [run[c] EXCEPT !.doing = "writing", !.seen = "once"]
    <3>1. /\ run' = [run EXCEPT ![c] = r] /\ state' = "once"
          /\ UNCHANGED <<mode, agreeing, nextRun>>
      BY <1>1, <1>8, <2>1, <2>2 DEF ChangeCreates
    <3>2. r.mode = run[c].mode /\ r.alone = run[c].alone /\ r.seen = "once"
      BY <2>1 DEF ModeChange
    <3> HIDE DEF r
    <3>3. run'[c] = r /\ \A d \in Calls \ {c} : run'[d] = run[d] /\ (Idle(d)' <=> Idle(d))
      BY <1>3, <3>1
    <3>4. Changing' \subseteq Changing
      BY <2>1, <3>3 DEF Changing
    <3>5. UpInv'
      <4>1. \A d \in Calls : ~Idle(d)' => ~Idle(d)
        BY <2>1, <3>3 DEF Changing
      <4>2. QED BY <3>1, <4>1 DEF ModesInv, UpInv, Up, Host
    <3>6. AloneInv'
      <4> SUFFICES ASSUME NEW d \in Changing', run'[d].alone
                   PROVE  /\ Changing' = {d} /\ mode'[Host(d)] = run'[d].mode
                          /\ run'[d].doing = "writing" => state' = run'[d].seen
        BY DEF AloneInv, Host
      <4>1. d \in Changing /\ run[d].alone
        BY <1>2, <3>2, <3>3, <3>4
      <4>2. Changing' = {d} /\ mode'[Host(d)] = run[d].mode /\ d = c
        BY <2>1, <3>1, <3>4, <4>1 DEF ModesInv, AloneInv
      <4>3. QED BY <3>1, <3>2, <3>3, <4>2
    <3>7. SeenInv'
      BY <1>1, <1>2, <3>2, <3>3, <3>4 DEF ModesInv, SeenInv
    <3>8. ModeKept'
      BY <2>2, <3>1, NoRow DEF ModeKept
    <3>9. QED BY <3>5, <3>6, <3>7, <3>8 DEF ModesInv
  <2>3. CASE state # None
    BY <1>7, <1>8, <2>3, ModesFrame DEF ChangeCreates, GiveUp
  <2>4. QED BY <2>2, <2>3
<1>9. ASSUME WriteMode(c) PROVE ModesInv'
  <2>1. c \in Changing /\ run[c] \in ModeChange /\ run[c].doing = "writing"
    BY <1>2, <1>9 DEF WriteMode, Doing, Changing
  <2>2. /\ \A d \in Calls : /\ d \in Changing' => d \in Changing /\ d # c /\ run'[d] = run[d]
                            /\ ~Idle(d)' => ~Idle(d)
        /\ UNCHANGED <<mode, nextRun>>
    BY <1>7, <1>9 DEF WriteMode
  <2>3. \A d \in Changing' : d \in Changing /\ d # c /\ run'[d] = run[d]
    BY <2>2 DEF Changing
  <2>4. \A d \in Changing' : ~run'[d].alone
    BY <2>1, <2>3 DEF ModesInv, AloneInv
  <2>5. run[c].alone => /\ mode[Host(c)] = run[c].mode /\ state = run[c].seen /\ Up(Host(c))
    BY <2>1 DEF ModesInv, AloneInv, UpInv, Changing
  <2>6. UpInv'
    BY <1>9, <2>2, <2>5 DEF WriteMode, ModesInv, UpInv, Up, Host
  <2>7. AloneInv' /\ SeenInv'
    BY <2>3, <2>4 DEF AloneInv, SeenInv, ModesInv
  <2>8. ModeKept'
    BY <1>9, <2>2, <2>5 DEF WriteMode, ModeKept
  <2>9. QED BY <2>6, <2>7, <2>8 DEF ModesInv
<1>10. ASSUME Reset(c) PROVE ModesInv'
  <2>1. UNCHANGED <<state, mode, agreeing, nextRun, run>>
    BY <1>10 DEF Reset, modeVars
  <2>2. QED BY <2>1, ModesFrame DEF Up, Changing, Idle
<1>11. QED BY <1>4, <1>5, <1>6, <1>8, <1>9, <1>10 DEF CallStep

(* So does the work on a batch. *)
LEMMA BatchModes ==
  ASSUME TypeInv, TypeInv', ModesInv, NEW p \in Runners, RunStep(p)
  PROVE  ModesInv'
<1>1. run \in [Runners -> Run \cup {None}] /\ \A c \in Calls : c \in Runners
  BY DEF TypeInv, TypeOK, Runners
<1>2. UNCHANGED <<state, mode, nextRun>> /\ agreeing' \subseteq agreeing
  BY DEF RunStep, IssueScheduled, IssueManual, IssueFails, RecordCycle, RecordFailure,
         CommitTimesOut, GiveUp, modeVars
<1>3. PICK r : /\ run' = [run EXCEPT ![p] = r]
               /\ p \in Calls =>
                            r = None \/ (r.doing \in {"recording", "failing"} /\ ~Idle(p))
  <2>1. Finish(p) => run' = [run EXCEPT ![p] = None]
    BY DEF Finish
  <2>2. ASSUME IssueScheduled(p)
        PROVE  p \notin Calls
               /\ run' = [run EXCEPT ![p] = [run[p] EXCEPT !.doing = "recording", !.id = NextBatch]]
    BY <1>1, <2>2, SchedulerAssumption DEF IssueScheduled
  <2>3. ASSUME NEW next \in {"recording", "failing"}, ~Idle(p), GoOn(p, next)
        PROVE  /\ run' = [run EXCEPT ![p] = [run[p] EXCEPT !.doing = next]]
               /\ p \in Calls => [run[p] EXCEPT !.doing = next].doing = next
    <3>1. p \in Calls => run[p] \in Manual \cup ModeChange
      BY <2>3 DEF Idle, TypeInv, RunsOK
    <3>2. QED BY <2>3, <3>1 DEF GoOn, Manual, ModeChange
  <2>4. GoOn(p, "stamping") => run' = [run EXCEPT ![p] = [run[p] EXCEPT !.doing = "stamping"]]
    BY DEF GoOn
  <2>5. IssueManual(p) => Finish(p) \/ (GoOn(p, "recording") /\ ~Idle(p))
    BY DEF IssueManual, Doing
  <2>6. IssueFails(p) => Finish(p) \/ (GoOn(p, "failing") /\ ~Idle(p))
    BY DEF IssueFails, Doing
  <2>7. RecordCycle(p) => Finish(p) \/ (GoOn(p, "stamping") /\ p \notin Calls)
    BY SchedulerAssumption DEF RecordCycle
  <2>8. RecordFailure(p) \/ CommitTimesOut(p) => Finish(p)
    BY DEF RecordFailure, CommitTimesOut, GiveUp
  <2>9. ASSUME NEW next \in {"recording", "failing"}, ~Idle(p), GoOn(p, next)
        PROVE  \E r : /\ run' = [run EXCEPT ![p] = r]
                      /\ p \in Calls =>
                            r = None \/ (r.doing \in {"recording", "failing"} /\ ~Idle(p))
    BY <2>3, <2>9
  <2>10. QED BY <2>1, <2>2, <2>4, <2>5, <2>6, <2>7, <2>8, <2>9 DEF RunStep
<1>4. \A c \in Calls : IF c = p THEN run'[c] = r ELSE run'[c] = run[c]
  BY <1>1, <1>3
<1>5. \A c \in Calls : /\ c \in Changing' => c \in Changing /\ run'[c] = run[c]
                       /\ ~Idle(c)' => ~Idle(c)
  BY <1>3, <1>4 DEF Changing, Idle
<1>6. \A w \in Workers : Up(w) => Up(w)'
  BY <1>2 DEF Up
<1>7. QED BY <1>2, <1>5, <1>6, ModesFrame

(* The mode a worker uses is the one a restart will find, once it has booted *)
(* from the row or changed it alone, until the mode is changed again.        *)
THEOREM ModesAgree == Spec => []ModeKept
<1>1. Init => ModesInv
  BY DEF Init, ModesInv, UpInv, AloneInv, SeenInv, ModeKept, Changing, Idle, Runners
<1>2. TypeInv /\ TypeInv' /\ ModesInv /\ [Next]_vars => ModesInv'
  <2> SUFFICES ASSUME TypeInv, TypeInv', ModesInv, [Next]_vars PROVE ModesInv'
    OBVIOUS
  <2>1. Tick \/ UNCHANGED vars => UNCHANGED <<state, mode, agreeing, nextRun, run>>
    BY DEF Tick, vars, modeVars
  <2>2. UNCHANGED <<state, mode, agreeing, nextRun, run>> => ModesInv'
    BY ModesFrame DEF Up, Changing, Idle
  <2>3. QED BY <2>1, <2>2, WorkerModes, CallModes, BatchModes DEF Next
<1>3. ModesInv => ModeKept
  BY DEF ModesInv
<1>4. QED BY <1>1, <1>2, <1>3, TypeInvariant, PTL DEF Spec

-----------------------------------------------------------------------------
\* What steps do to the batches, the completed cycles, and the workers' jobs.

Issuing(w) == Doing(w, "issuing")
Recording(w) == Doing(w, "recording")
Losses == faults["crash"] + faults["busy"]

SameJobs(W) == \A w \in W : run'[w] = run[w] /\ nextRun'[w] = nextRun[w]

\* A job goes on or stops; a worker goes on or starts.
Calm(w) ==
  /\ Issuing(w)' \/ Recording(w)' => run'[w] = run[w] /\ (Up(w) => Up(w)')
  /\ Up(w)' => IF Up(w) THEN nextRun'[w] >= nextRun[w] ELSE nextRun'[w] = FirstRun
Quietly ==
  /\ UNCHANGED <<now, batches, Done, resets>>
  /\ \A w \in Workers : Calm(w)
  /\ Losses' >= Losses
  /\ \E v \in Workers \cup {None} :
       /\ \A w \in Workers \ {v} : Recording(w) => Recording(w)' /\ run'[w] = run[w]
       /\ v \in Workers /\ Recording(v) /\ ~Recording(v)' => Losses' > Losses
Starts(v) ==
  /\ UNCHANGED <<now, batches, Done, resets, faults>> /\ SameJobs(Workers \ {v})
  /\ Up(v) /\ now >= nextRun[v] /\ Idle(v) /\ QuotaLeft(mode[v])
  /\ Issuing(v)' /\ run'[v].at = now /\ run'[v].mode = mode[v]
  /\ nextRun'[v] \in Nat /\ nextRun'[v] >= nextRun[v] /\ nextRun'[v] >= now + Spacing
Issues(v) ==
  /\ UNCHANGED <<now, Done, resets, faults>> /\ SameJobs(Workers \ {v})
  /\ Issuing(v) /\ Recording(v)' /\ nextRun'[v] = nextRun[v]
  /\ run'[v].at = run[v].at /\ run'[v].id = NextBatch
  /\ batches' = batches \cup {[id |-> NextBatch, at |-> run[v].at, mode |-> run[v].mode, by |-> v]}
Records(v) ==
  /\ UNCHANGED <<now, batches, resets, faults>> /\ SameJobs(Workers \ {v})
  /\ Recording(v) /\ ~Issuing(v)' /\ ~Recording(v)' /\ nextRun'[v] = nextRun[v]
  /\ \E row : Done' = Done \cup {row} /\ row.at = now /\ row.batch = run[v].id
Forgets ==
  /\ UNCHANGED <<now, batches, faults>> /\ SameJobs(Workers)
  /\ Done' = {} /\ resets' = Cardinality(batches)
Passes ==
  /\ UNCHANGED <<batches, Done, resets, faults>> /\ SameJobs(Workers)
  /\ now' = now + 1

Deed == \/ Quietly \/ Forgets \/ Passes
        \/ \E v \in Workers : Starts(v) \/ Issues(v) \/ Records(v)

(* A step that concerns no batch, and no job but perhaps one that stops, is  *)
(* a quiet one.                                                              *)
LEMMA QuietStep ==
  ASSUME TypeInv, TypeInv', UNCHANGED <<now, batches, Done, resets>>, Losses' >= Losses,
         NEW v \in Workers, SameJobs(Workers \ {v}), ~Issuing(v)', ~Recording(v)',
         Up(v)' => IF Up(v) THEN nextRun'[v] >= nextRun[v] ELSE nextRun'[v] = FirstRun,
         Recording(v) => Losses' > Losses
  PROVE  Quietly
<1>1. nextRun \in [Workers -> Nat \cup {None}]
  BY DEF TypeInv, TypeOK
<1>2. \A w \in Workers \ {v} : Calm(w) /\ (Recording(w) <=> Recording(w)')
  BY <1>1 DEF SameJobs, Calm, Recording, Issuing, Doing, Idle, Up
<1>3. Calm(v)
  BY DEF Calm
<1>4. QED BY <1>2, <1>3 DEF Quietly, SameJobs

(* A step that concerns neither a batch nor a job is a quiet one. *)
LEMMA IdleStep ==
  ASSUME TypeInv, TypeInv', UNCHANGED <<now, batches, Done, resets>>, Losses' >= Losses,
         SameJobs(Workers)
  PROVE  Quietly
<1>1. nextRun \in [Workers -> Nat \cup {None}]
  BY DEF TypeInv, TypeOK
<1>2. \A w \in Workers : Calm(w) /\ (Recording(w) <=> Recording(w)')
  BY <1>1 DEF SameJobs, Calm, Recording, Issuing, Doing, Idle, Up
<1>3. None \in Workers \cup {None} /\ None \notin Workers
  BY SchedulerAssumption
<1>4. QED BY <1>2, <1>3 DEF Quietly, SameJobs

(* Faults are only ever added. *)
LEMMA FaultAdds ==
  ASSUME TypeInv
  PROVE  /\ Losses \in Nat
         /\ UNCHANGED faults => Losses' = Losses
         /\ Fault("crash") \/ Fault("busy") => Losses' > Losses
         /\ Fault("reject") => Losses' = Losses
<1>1. faults \in [Kinds -> Nat]
  BY DEF TypeInv, TypeOK
<1>2. QED BY <1>1 DEF Fault, Losses, Kinds

(* What a worker does. *)
LEMMA WorkerDeeds ==
  ASSUME TypeInv, TypeInv', NEW w \in Workers, WorkerStep(w)
  PROVE  Deed
<1>1. /\ run \in [Runners -> Run \cup {None}] /\ nextRun \in [Workers -> Nat \cup {None}]
      /\ Workers \subseteq Runners /\ w \in Runners /\ FirstRun \in Nat /\ Losses \in Nat
      /\ None \notin Nat /\ Interval \in Nat /\ now \in 0..MaxTime /\ mode[w] \in Modes
      /\ Losses' \in Nat
  BY SchedulerAssumption, FirstRunIs, SettingsAreSane, FaultAdds
     DEF TypeInv, TypeOK, Runners, Losses, Kinds
<1>2. UNCHANGED cycles => UNCHANGED Done
  BY DEF Done, Completed
<1>3. Finish(w) => Idle(w)' /\ \A v \in Workers \ {w} : run'[v] = run[v]
  BY <1>1 DEF Finish, Idle
<1>4. ASSUME NEW m, NEW b, Started(w, m, b)
      PROVE  nextRun'[w] = FirstRun /\ \A v \in Workers \ {w} : nextRun'[v] = nextRun[v]
  BY <1>1, <1>4 DEF Started
<1>5. UNCHANGED faults => Losses' >= Losses
  BY <1>1, FaultAdds
<1>6. ASSUME Boot(w) PROVE Deed
  <2>1. UNCHANGED <<now, batches, Done, resets>> /\ ~Up(w) /\ Idle(w)
    BY <1>2, <1>6 DEF Boot, clock
  <2>2. CASE state # None
    <3>1. UNCHANGED run /\ Idle(w)' /\ Started(w, state, TRUE)
      BY <1>6, <2>1, <2>2 DEF Boot, Idle
    <3>2. SameJobs(Workers \ {w}) /\ nextRun'[w] = FirstRun
      BY <1>4, <3>1 DEF SameJobs
    <3>3. QED BY <1>5, <1>6, <2>1, <3>1, <3>2, QuietStep
                 DEF Boot, Deed, Issuing, Recording, Doing
  <2>3. CASE state = None
    <3>1. /\ run' = [run EXCEPT ![w] = [doing |-> "creating"]] /\ UNCHANGED <<nextRun, faults>>
      BY <1>6, <2>3 DEF Boot
    <3>2. SameJobs(Workers \ {w}) /\ run'[w].doing = "creating" /\ ~Up(w)'
      BY <1>1, <2>1, <3>1 DEF SameJobs, Up
    <3>3. QED BY <1>5, <2>1, <3>1, <3>2, QuietStep DEF Deed, Issuing, Recording, Doing
  <2>4. QED BY <2>2, <2>3
<1>7. ASSUME BootCreates(w) \/ BootTimesOut(w) PROVE Deed
  <2>1. /\ UNCHANGED <<now, batches, Done, resets>> /\ ~Up(w) /\ Doing(w, "creating") /\ Finish(w)
        /\ \E b : Started(w, DefaultMode, b)
    BY <1>2, <1>7 DEF BootCreates, BootTimesOut, clock
  <2>2. Losses' >= Losses
    <3>1. UNCHANGED faults \/ Fault("busy")
      BY <1>7 DEF BootCreates, BootTimesOut
    <3>2. Fault("busy") => Losses' > Losses
      BY FaultAdds
    <3>3. QED BY <1>1, <1>5, <3>1, <3>2
  <2>3. SameJobs(Workers \ {w}) /\ nextRun'[w] = FirstRun /\ Idle(w)'
    BY <1>3, <1>4, <2>1 DEF SameJobs
  <2>4. QED BY <2>1, <2>2, <2>3, QuietStep DEF Deed, Issuing, Recording, Doing
<1>8. ASSUME Fire(w) PROVE Deed
  <2>1. /\ UNCHANGED <<now, batches, Done, resets, faults>> /\ Up(w) /\ now >= nextRun[w]
        /\ nextRun' = [nextRun EXCEPT ![w] = Slot(w) + Interval] /\ nextRun[w] \in Nat
    BY <1>1, <1>2, <1>8 DEF Fire, Due, clock, Up
  <2>0. PICK slot \in Nat : /\ slot = Slot(w) /\ nextRun[w] <= slot
                           /\ slot <= now /\ now < slot + Interval
    BY <1>8, SlotIs DEF Fire
  <2>2. CASE Idle(w) /\ now - Slot(w) <= Grace /\ QuotaLeft(mode[w])
    <3> DEFINE r == [doing |-> "issuing", trigger |-> "scheduled",
                     mode |-> mode[w], at |-> now, id |-> None]
    <3>1. run' = [run EXCEPT ![w] = r]
      BY <1>8, <2>2 DEF Fire, StartScheduled
    <3>2. r # None /\ r.doing = "issuing" /\ r.at = now /\ r.mode = mode[w]
      <4>1. r \in Job
        BY <1>1 DEF Job
      <4>2. QED BY <4>1, NoneAssumption DEF Run
    <3> HIDE DEF r
    <3>3. run'[w] = r /\ nextRun'[w] = slot + Interval /\ SameJobs(Workers \ {w})
      BY <1>1, <2>0, <2>1, <3>1 DEF SameJobs
    <3>6. now \in Nat
      BY <1>1, SchedulerAssumption
    <3>7. slot + Interval \in Nat /\ slot + Interval >= nextRun[w]
      BY <1>1, <2>0, <2>1
    <3>8. slot + Interval >= now + Spacing
      BY <1>1, <2>0, <2>2, <3>6, SpacingIs
    <3>4. Starts(w)
      BY <2>1, <2>2, <3>2, <3>3, <3>7, <3>8 DEF Starts, Issuing, Doing, Idle
    <3>5. QED BY <3>4 DEF Deed
  <2>3. CASE ~(Idle(w) /\ now - Slot(w) <= Grace /\ QuotaLeft(mode[w]))
    <3>1. UNCHANGED run
      BY <1>8, <2>3 DEF Fire
    <3>2. /\ \A v \in Workers :
               nextRun'[v] = nextRun[v] \/ (v = w /\ nextRun'[v] = slot + Interval)
          /\ \A v \in Workers : Up(v) => nextRun[v] \in Nat
      BY <1>1, <2>0, <2>1 DEF Up
    <3>3. \A v \in Workers : (Up(v)' <=> Up(v)) /\ (Up(v) => nextRun'[v] >= nextRun[v])
      BY <1>1, <2>0, <2>1, <3>2 DEF Up
    <3>4. \A v \in Workers : Calm(v) /\ (Recording(v) <=> Recording(v)') /\ run'[v] = run[v]
      BY <3>1, <3>3 DEF Calm, Recording, Doing, Idle
    <3>5. Quietly
      BY <1>5, <2>1, <3>4 DEF Quietly
    <3>6. QED BY <3>5 DEF Deed
  <2>4. QED BY <2>2, <2>3
<1>9. ASSUME Stamp(w) \/ StampCreates(w) PROVE Deed
  <2>1. /\ UNCHANGED <<now, batches, Done, resets, nextRun, faults>>
        /\ Doing(w, "stamping") \/ Doing(w, "creating")
    BY <1>2, <1>9 DEF Stamp, StampCreates, clock
  <2>2. run[w] \in Job \cup Booting
    BY <2>1, RunIs DEF Doing
  <2>3. GoOn(w, "creating") => /\ run'[w].doing = "creating"
                              /\ \A v \in Workers \ {w} : run'[v] = run[v]
    BY <1>1, <2>2 DEF GoOn, Job, Booting
  <2>4. Finish(w) \/ GoOn(w, "creating")
    BY <1>9 DEF Stamp, StampCreates
  <2>5. ~Issuing(w)' /\ ~Recording(w)' /\ SameJobs(Workers \ {w})
    BY <1>3, <2>1, <2>3, <2>4 DEF Issuing, Recording, Doing, SameJobs
  <2>6. ~Recording(w)
    BY <2>1 DEF Recording, Doing
  <2>7. Up(w)' => IF Up(w) THEN nextRun'[w] >= nextRun[w] ELSE nextRun'[w] = FirstRun
    BY <1>1, <2>1 DEF Up
  <2>8. QED BY <1>5, <2>1, <2>5, <2>6, <2>7, QuietStep DEF Deed
<1>10. ASSUME Crash(w) PROVE Deed
  <2>1. UNCHANGED <<now, batches, Done, resets>> /\ Losses' > Losses
    BY <1>2, <1>10, FaultAdds DEF Crash, clock
  <2>2. /\ SameJobs(Workers \ {w}) /\ ~Up(w)' /\ Idle(w)'
    BY <1>1, <1>10 DEF Crash, Host, SameJobs, Up, Idle
  <2>3. QED BY <1>1, <2>1, <2>2, QuietStep DEF Deed, Issuing, Recording, Doing
<1>11. QED BY <1>6, <1>7, <1>8, <1>9, <1>10 DEF WorkerStep

(* A call concerns no batch; but a reset forgets the cycles. *)
LEMMA CallDeeds ==
  ASSUME TypeInv, TypeInv', NEW c \in Calls, CallStep(c)
  PROVE  Deed
<1>1. /\ run \in [Runners -> Run \cup {None}] /\ Workers \subseteq Runners /\ c \notin Workers
      /\ \A p \in Changing : p \notin Workers
  BY SchedulerAssumption DEF TypeInv, TypeOK, Runners, Changing
<1>2. UNCHANGED cycles => UNCHANGED Done
  BY DEF Done, Completed
<1>3. UNCHANGED <<faults>> => Losses' >= Losses
  BY FaultAdds
<1>4. ASSUME UNCHANGED <<now, batches, cycles, resets, nextRun, faults>>,
             \A w \in Workers : run'[w] = run[w]
      PROVE  Deed
  BY <1>2, <1>3, <1>4, IdleStep DEF SameJobs, Deed
<1>5. ASSUME NEW r, run' = [run EXCEPT ![c] = r] PROVE \A w \in Workers : run'[w] = run[w]
  BY <1>1, <1>5
<1>6. ASSUME NEW op, Trigger(c, op) PROVE Deed
  BY <1>4, <1>5, <1>6 DEF Trigger, StartManual
<1>7. ASSUME NEW m, SetMode(c, m) PROVE Deed
  <2>1. \A w \in Workers : run'[w] = run[w]
    BY <1>1, <1>7 DEF SetMode
  <2>2. QED BY <1>4, <1>7, <2>1 DEF SetMode
<1>8. ASSUME ReadRow(c) \/ ChangeCreates(c) \/ WriteMode(c) PROVE Deed
  <2>1. \A w \in Workers : run'[w] = run[w]
    BY <1>1, <1>8 DEF ReadRow, ChangeCreates, WriteMode, GiveUp, GoOn, Finish
  <2>2. QED BY <1>4, <1>8, <2>1 DEF ReadRow, ChangeCreates, WriteMode, GiveUp, clock
<1>9. ASSUME Reset(c) PROVE Deed
  <2>1. Done' = {}
    BY <1>9 DEF Reset, Done, Completed
  <2>2. QED BY <1>9, <2>1 DEF Reset, Forgets, SameJobs, Deed
<1>10. QED BY <1>6, <1>7, <1>8, <1>9 DEF CallStep

(* The work on a batch issues it, records it, or gives it up. *)
LEMMA BatchDeeds ==
  ASSUME TypeInv, TypeInv', NEW p \in Runners, RunStep(p)
  PROVE  Deed
<1>1. /\ run \in [Runners -> Run \cup {None}] /\ nextRun \in [Workers -> Nat \cup {None}]
      /\ Runners = Workers \cup Calls /\ Workers \cap Calls = {}
      /\ Losses \in Nat /\ Losses' \in Nat
  BY SchedulerAssumption, FaultAdds DEF TypeInv, TypeOK, Runners, Losses, Kinds
<1>2. UNCHANGED cycles => UNCHANGED Done
  BY DEF Done, Completed
<1>3. ASSUME NEW row, cycles' = cycles \cup {row},
             row.status # "completed" \/ row.trigger # "scheduled"
      PROVE  UNCHANGED Done
  BY <1>3 DEF Done, Completed
<1>4. Finish(p) => Idle(p)' /\ \A q \in Runners \ {p} : run'[q] = run[q]
  BY <1>1 DEF Finish, Idle
<1>5. ASSUME NEW next, GoOn(p, next), ~Idle(p)
      PROVE  run'[p].doing = next /\ \A q \in Runners \ {p} : run'[q] = run[q]
  <2>1. run[p] \in Run
    BY <1>1, <1>5 DEF Idle
  <2>2. [run[p] EXCEPT !.doing = next].doing = next
    BY <2>1 DEF Run, Job, Manual, ModeChange, Booting
  <2>3. QED BY <1>1, <1>5, <2>2 DEF GoOn
<1>6. /\ UNCHANGED faults => Losses' >= Losses
      /\ Fault("reject") => Losses' >= Losses
      /\ Fault("busy") => Losses' > Losses
  BY <1>1, FaultAdds
<1>7. ASSUME IssueScheduled(p) PROVE Deed
  <2> DEFINE r == [run[p] EXCEPT !.doing = "recording", !.id = NextBatch]
  <2>1. p \in Workers /\ run[p] \in Job /\ r \in Job
    <3>1. run[p] \in Job /\ NextBatch \in Nat
      BY <1>7, RunIs, FS_CardinalityType DEF IssueScheduled, TypeInv, NextBatch
    <3>2. QED BY <1>7, <3>1 DEF IssueScheduled, Job
  <2>2. r.doing = "recording" /\ r.at = run[p].at /\ r.id = NextBatch
    BY <2>1 DEF Job
  <2>3. run' = [run EXCEPT ![p] = r]
    BY <1>1, <1>7 DEF IssueScheduled
  <2> HIDE DEF r
  <2>4. run'[p] = r /\ r # None /\ \A q \in Runners \ {p} : run'[q] = run[q]
    BY <1>1, <2>1, <2>3, NoneAssumption DEF Run
  <2>5. Recording(p)' /\ Issuing(p) /\ SameJobs(Workers \ {p})
    BY <1>1, <1>7, <2>2, <2>4 DEF Recording, Issuing, Doing, Idle, SameJobs, IssueScheduled
  <2>6. Issues(p)
    BY <1>2, <1>7, <2>2, <2>4, <2>5 DEF IssueScheduled, Issues, clock
  <2>7. QED BY <2>1, <2>6 DEF Deed
<1>8. ASSUME UNCHANGED <<now, batches, Done, resets, nextRun>>, Losses' >= Losses,
             \A q \in Runners \ {p} : run'[q] = run[q],
             p \in Workers => ~Issuing(p)' /\ ~Recording(p)' /\ (Recording(p) => Losses' > Losses)
      PROVE  Deed
  <2>1. CASE p \in Calls
    BY <1>1, <1>8, <2>1, IdleStep DEF SameJobs, Deed
  <2>2. CASE p \in Workers
    <3>1. Up(p)' => IF Up(p) THEN nextRun'[p] >= nextRun[p] ELSE nextRun'[p] = FirstRun
      BY <1>1, <1>8, <2>2 DEF Up
    <3>2. QED BY <1>1, <1>8, <2>2, <3>1, QuietStep DEF SameJobs, Deed
  <2>3. QED BY <1>1, <2>1, <2>2
<1>9. ASSUME IssueManual(p) PROVE Deed
  <2>1. run[p] \in Manual /\ p \notin Workers /\ ~Idle(p)
    BY <1>1, <1>9, RunIs DEF IssueManual, Doing
  <2>2. Cycle(p, "completed", None).trigger # "scheduled"
    BY <2>1 DEF Cycle, Manual
  <2>3. UNCHANGED Done
    BY <1>2, <1>3, <1>9, <2>2 DEF IssueManual
  <2>4. QED BY <1>4, <1>5, <1>6, <1>8, <1>9, <2>1, <2>3 DEF IssueManual, clock
<1>10. ASSUME IssueFails(p) \/ RecordFailure(p) PROVE Deed
  <2>1. Cycle(p, "failed", None).status # "completed" /\ ~Idle(p) /\ ~Recording(p)
    BY <1>10 DEF Cycle, IssueFails, RecordFailure, Doing, Recording
  <2>2. UNCHANGED Done
    BY <1>2, <1>3, <1>10, <2>1 DEF IssueFails, RecordFailure
  <2>3. Finish(p) \/ GoOn(p, "failing")
    BY <1>10 DEF IssueFails, RecordFailure
  <2>4. ~Issuing(p)' /\ ~Recording(p)' /\ \A q \in Runners \ {p} : run'[q] = run[q]
    BY <1>4, <1>5, <2>1, <2>3 DEF Issuing, Recording, Doing
  <2>5. Losses' >= Losses
    BY <1>6, <1>10 DEF IssueFails, RecordFailure
  <2>6. QED BY <1>8, <1>10, <2>1, <2>2, <2>4, <2>5 DEF IssueFails, RecordFailure, clock
<1>11. ASSUME RecordCycle(p) PROVE Deed
  <2>1. CASE p \in Workers
    <3> DEFINE row == Cycle(p, "completed", run[p].id)
    <3>1. run[p] \in Job /\ ~Idle(p) /\ Recording(p)
      BY <1>11, <2>1, RunIs DEF RecordCycle, Doing, Recording
    <3>2. /\ row.status = "completed" /\ row.trigger = "scheduled"
          /\ row.at = now /\ row.batch = run[p].id
      BY <3>1 DEF Cycle, Job
    <3>3. cycles' = cycles \cup {row}
      BY <1>11, <2>1 DEF RecordCycle
    <3> HIDE DEF row
    <3>4. Done' = Done \cup {row}
      BY <3>2, <3>3 DEF Done, Completed
    <3>5. ~Issuing(p)' /\ ~Recording(p)' /\ SameJobs(Workers \ {p})
      BY <1>1, <1>5, <1>11, <2>1, <3>1 DEF RecordCycle, Issuing, Recording, Doing, SameJobs
    <3>6. Records(p)
      BY <1>11, <3>1, <3>2, <3>4, <3>5 DEF RecordCycle, Records, clock
    <3>7. QED BY <2>1, <3>6 DEF Deed
  <2>2. CASE p \notin Workers
    <3>1. run[p] \in Manual
      BY <1>1, <1>11, <2>2, RunIs DEF RecordCycle
    <3>2. Cycle(p, "completed", None).trigger # "scheduled"
      BY <3>1 DEF Cycle, Manual
    <3>3. UNCHANGED Done
      BY <1>3, <1>11, <2>2, <3>2 DEF RecordCycle
    <3>4. QED BY <1>4, <1>6, <1>8, <1>11, <2>2, <3>3 DEF RecordCycle, clock
  <2>3. QED BY <2>1, <2>2
<1>12. ASSUME CommitTimesOut(p) PROVE Deed
  <2>1. Finish(p) /\ Losses' > Losses /\ UNCHANGED <<now, batches, Done, resets, nextRun>>
    BY <1>2, <1>6, <1>12 DEF CommitTimesOut, GiveUp, clock
  <2>2. QED BY <1>1, <1>4, <1>8, <2>1 DEF Issuing, Recording, Doing
<1>13. QED BY <1>7, <1>9, <1>10, <1>11, <1>12 DEF RunStep

(* Every step is one of these deeds. *)
LEMMA Deeds ==
  ASSUME TypeInv, TypeInv', [Next]_vars
  PROVE  Deed
<1>1. Tick => Passes
  <2>1. UNCHANGED cycles => UNCHANGED Done
    BY DEF Done, Completed
  <2>2. QED BY <2>1 DEF Tick, Passes, SameJobs
<1>2. UNCHANGED vars => Quietly
  <2>1. UNCHANGED vars => UNCHANGED <<now, batches, Done, resets, run, nextRun, faults>>
    BY DEF vars, Done, Completed
  <2>2. QED BY <2>1, IdleStep, FaultAdds DEF SameJobs
<1>3. QED BY <1>1, <1>2, WorkerDeeds, CallDeeds, BatchDeeds DEF Next, Deed

-----------------------------------------------------------------------------
\* Slots: when jobs start, and which batch a cycle is of.

Of(c, b) == c.batch = b.id
\* The worker of batch a started another one at t, in mode m, after it.
LaterStart(a, t, m) ==
  \/ \E d \in batches : d.by = a.by /\ a.id < d.id /\ d.at = t /\ d.mode = m
  \/ Issuing(a.by) /\ run[a.by].at = t /\ run[a.by].mode = m

IdInv ==
  /\ \A b \in batches : b.id \in 1..Cardinality(batches)
  /\ \A a, b \in batches : a.id = b.id => a = b
ClockInv ==
  /\ \A b \in batches : b.at <= now
  /\ \A c \in Done : c.at <= now
DoneInv == \A c \in Done : \E b \in batches : Of(c, b) /\ b.at <= c.at
InTime(w) == Up(w) /\ run[w].at <= now /\ run[w].at + Spacing <= nextRun[w]
HasBatch(w) ==
  /\ \E b \in batches : b.id = run[w].id /\ b.by = w /\ b.at = run[w].at
  /\ \A c \in Done : c.batch # run[w].id
  /\ \A d \in batches : d.by = w => d.id <= run[w].id
JobInv ==
  \A w \in Workers : /\ Issuing(w) \/ Recording(w) => InTime(w)
                     /\ Recording(w) => HasBatch(w)
NotTooSoon ==
  \A c \in Done, b \in batches : Of(c, b) /\ Up(b.by) => b.at + Spacing <= nextRun[b.by]
Apart ==
  \A a \in batches, t \in Nat, m \in Modes : LaterStart(a, t, m) =>
    /\ a.at <= t
    /\ \A c \in Done : Of(c, a) => c.at <= t /\ a.at + Spacing <= t
SlotInv == IdInv /\ ClockInv /\ DoneInv /\ JobInv /\ NotTooSoon /\ Apart

(* The values these are about. *)
LEMMA Values ==
  ASSUME TypeInv
  PROVE  /\ now \in Nat /\ Interval \in Nat /\ Interval >= 1 /\ None \notin Nat
         /\ Spacing \in Nat
         /\ Cardinality(batches) \in Nat /\ NextBatch = Cardinality(batches) + 1
         /\ \A b \in batches : b.id \in Nat /\ b.at \in Nat /\ b.by \in Workers /\ b.mode \in Modes
         /\ \A c \in Done : c.at \in Nat
         /\ \A w \in Workers : /\ Up(w) => nextRun[w] \in Nat
                               /\ Issuing(w) \/ Recording(w) =>
                                    run[w].at \in Nat /\ run[w].mode \in Modes
                               /\ ~(Issuing(w) /\ Recording(w))
<1>1. MaxTime \in Nat /\ None \notin Nat
  BY SchedulerAssumption
<1>2. \A w \in Workers : Issuing(w) \/ Recording(w) =>
        run[w].at \in Nat /\ run[w].mode \in Modes
  BY <1>1, RunIs DEF Issuing, Recording, Job
<1>3. QED BY <1>1, <1>2, SettingsAreSane, SpacingIs, FS_CardinalityType
             DEF TypeInv, TypeOK, Batch, CycleRow, Done, Completed, Up, NextBatch,
                 Issuing, Recording, Doing

(* A batch gets the next number. *)
LEMMA NewBatch ==
  ASSUME TypeInv, IdInv, NEW v \in Workers, Issues(v)
  PROVE  /\ Cardinality(batches') = Cardinality(batches) + 1
         /\ \A b \in batches : b.id < NextBatch
         /\ \E new \in batches' : /\ batches' = batches \cup {new}
                                  /\ new.id = NextBatch /\ new.at = run[v].at
                                  /\ new.mode = run[v].mode /\ new.by = v
<1> DEFINE new == [id |-> NextBatch, at |-> run[v].at, mode |-> run[v].mode, by |-> v]
<1>1. \A b \in batches : b.id < NextBatch /\ b # new
  BY Values DEF IdInv
<1>2. IsFiniteSet(batches) /\ batches' = batches \cup {new}
  BY DEF TypeInv, Issues
<1>3. new.id = NextBatch /\ new.at = run[v].at /\ new.mode = run[v].mode /\ new.by = v
  OBVIOUS
<1> HIDE DEF new
<1>4. QED BY <1>1, <1>2, <1>3, FS_AddElement

(* Batches keep their numbers. *)
LEMMA NextIds ==
  ASSUME TypeInv, IdInv, Deed
  PROVE  IdInv'
<1>1. ASSUME NEW v \in Workers, Issues(v) PROVE IdInv'
  <2>1. PICK new : batches' = batches \cup {new} /\ new.id = NextBatch
    BY <1>1, NewBatch
  <2>2. /\ Cardinality(batches') = Cardinality(batches) + 1
        /\ \A b \in batches : b.id < NextBatch /\ b.id \in Nat
        /\ NextBatch = Cardinality(batches) + 1 /\ Cardinality(batches) \in Nat
    BY <1>1, NewBatch, Values
  <2>3. \A b \in batches' : b.id \in 1..Cardinality(batches')
    BY <2>1, <2>2 DEF IdInv
  <2>4. \A a, b \in batches' : a.id = b.id => a = b
    BY <2>1, <2>2 DEF IdInv
  <2>5. QED BY <2>3, <2>4 DEF IdInv
<1>2. UNCHANGED batches => IdInv'
  BY DEF IdInv
<1>3. QED BY <1>1, <1>2 DEF Deed, Quietly, Starts, Records, Forgets, Passes

(* Nothing that happened is in the future. *)
LEMMA NextClock ==
  ASSUME TypeInv, TypeInv', SlotInv, Deed
  PROVE  ClockInv'
<1> USE DEF SlotInv, ClockInv
<1>1. CASE Quietly
  BY <1>1 DEF Quietly
<1>2. ASSUME NEW v \in Workers, Starts(v) PROVE ClockInv'
  BY <1>2 DEF Starts
<1>3. ASSUME NEW v \in Workers, Issues(v) PROVE ClockInv'
  <2>1. run[v].at <= now
    BY <1>3 DEF Issues, JobInv, InTime
  <2>2. \A b \in batches' : b.at <= now
    BY <1>3, <2>1 DEF Issues
  <2>3. QED BY <1>3, <2>2 DEF Issues
<1>4. ASSUME NEW v \in Workers, Records(v) PROVE ClockInv'
  BY <1>4, Values DEF Records
<1>5. CASE Forgets
  BY <1>5 DEF Forgets
<1>6. CASE Passes
  BY <1>6, Values DEF Passes
<1>7. QED BY <1>1, <1>2, <1>3, <1>4, <1>5, <1>6 DEF Deed

(* A completed cycle is of a batch, and not recorded before that began.      *)
LEMMA NextDone ==
  ASSUME TypeInv, TypeInv', SlotInv, Deed
  PROVE  DoneInv'
<1> USE DEF SlotInv, DoneInv, Of
<1>1. UNCHANGED <<batches, Done>> => DoneInv'
  OBVIOUS
<1>2. ASSUME NEW v \in Workers, Issues(v) PROVE DoneInv'
  BY <1>2 DEF Issues
<1>3. ASSUME NEW v \in Workers, Records(v) PROVE DoneInv'
  <2>1. PICK row : Done' = Done \cup {row} /\ row.at = now /\ row.batch = run[v].id
    BY <1>3 DEF Records
  <2>2. \E b \in batches : b.id = run[v].id /\ b.at <= now
    BY <1>3 DEF Records, JobInv, HasBatch, ClockInv
  <2>3. QED BY <1>3, <2>1, <2>2 DEF Records
<1>4. Forgets => DoneInv'
  BY DEF Forgets
<1>5. QED BY <1>1, <1>2, <1>3, <1>4 DEF Deed, Quietly, Starts, Passes

(* A job has its slot to itself, and the last batch of its worker.           *)
LEMMA NextJobs ==
  ASSUME TypeInv, TypeInv', SlotInv, Deed
  PROVE  JobInv'
<1>1. ASSUME NEW w \in Workers, run'[w] = run[w], Up(w) => Up(w)', nextRun'[w] >= nextRun[w],
             now' >= now, Issuing(w)' \/ Recording(w)'
      PROVE  /\ InTime(w)' /\ (Issuing(w) \/ Recording(w))
             /\ Recording(w)' => Recording(w) /\ HasBatch(w)
  <2>1. (Issuing(w)' <=> Issuing(w)) /\ (Recording(w)' <=> Recording(w))
    BY <1>1 DEF Issuing, Recording, Doing, Idle
  <2>2. InTime(w) /\ (Recording(w) => HasBatch(w))
    BY <1>1, <2>1 DEF SlotInv, JobInv
  <2>3. /\ run[w].at \in Nat /\ nextRun[w] \in Nat /\ nextRun'[w] \in Nat /\ now \in Nat
        /\ now' \in Nat /\ Spacing \in Nat
    <3>1. now' \in Nat
      BY SchedulerAssumption DEF TypeInv, TypeOK
    <3>2. Up(w)' => nextRun'[w] \in Nat
      BY DEF TypeInv, TypeOK, Up
    <3>3. QED BY <1>1, <2>1, <2>2, <3>1, <3>2, Values DEF InTime
  <2>4. QED BY <1>1, <2>1, <2>2, <2>3 DEF InTime
<1>2. ASSUME NEW w \in Workers, HasBatch(w), run'[w] = run[w], UNCHANGED batches,
             \A c \in Done' : c \in Done \/ c.batch # run[w].id
      PROVE  HasBatch(w)'
  BY <1>2 DEF HasBatch
<1>3. CASE Quietly
  <2> SUFFICES ASSUME NEW w \in Workers, Issuing(w)' \/ Recording(w)'
               PROVE  InTime(w)' /\ (Recording(w)' => HasBatch(w)')
    BY DEF JobInv
  <2>1. run'[w] = run[w] /\ (Up(w) => Up(w)')
    BY <1>3 DEF Quietly, Calm
  <2>2. Up(w) /\ Up(w)'
    <3>1. Issuing(w) \/ Recording(w)
      BY <2>1 DEF Issuing, Recording, Doing, Idle
    <3>2. QED BY <2>1, <3>1 DEF SlotInv, JobInv, InTime
  <2>3. nextRun'[w] >= nextRun[w]
    BY <1>3, <2>2 DEF Quietly, Calm
  <2>4. QED BY <1>1, <1>2, <1>3, <2>1, <2>3, Values DEF Quietly
<1>4. ASSUME NEW v \in Workers, SameJobs(Workers \ {v}), UNCHANGED <<now, batches>>,
             \A w \in Workers \ {v} : Recording(w) /\ HasBatch(w) =>
               \A c \in Done' : c \in Done \/ c.batch # run[w].id
      PROVE  \A w \in Workers \ {v} : /\ Issuing(w)' \/ Recording(w)' => InTime(w)'
                                      /\ Recording(w)' => HasBatch(w)'
  <2> TAKE w \in Workers \ {v}
  <2>1. run'[w] = run[w] /\ nextRun'[w] = nextRun[w] /\ (Up(w)' <=> Up(w))
    BY <1>4 DEF SameJobs, Up
  <2>2. (Issuing(w)' <=> Issuing(w)) /\ (Recording(w)' <=> Recording(w))
    BY <2>1 DEF Issuing, Recording, Doing, Idle
  <2>3. (Issuing(w)' \/ Recording(w)') => InTime(w)'
    BY <1>4, <2>1, <2>2 DEF SlotInv, JobInv, InTime
  <2>4. Recording(w)' => HasBatch(w)'
    BY <1>2, <1>4, <2>1, <2>2 DEF SlotInv, JobInv
  <2>5. QED BY <2>3, <2>4
<1>5. ASSUME NEW v \in Workers, Starts(v) PROVE JobInv'
  <2>1. InTime(v)' /\ ~Recording(v)'
    <3>1. now \in Nat /\ Spacing \in Nat /\ None \notin Nat
      BY Values
    <3>2. /\ run'[v].at = now /\ now' = now
          /\ nextRun'[v] \in Nat /\ nextRun'[v] >= now + Spacing
      BY <1>5 DEF Starts
    <3>3. InTime(v)'
      BY <3>1, <3>2 DEF InTime, Up
    <3>4. QED BY <1>5, <3>3 DEF Starts, Issuing, Recording, Doing
  <2>2. QED BY <1>4, <1>5, <2>1 DEF Starts, JobInv
<1>6. ASSUME NEW v \in Workers, Issues(v) PROVE JobInv'
  <2>1. InTime(v)' /\ HasBatch(v)'
    <3>1. InTime(v)
      BY <1>6 DEF Issues, SlotInv, JobInv
    <3>2. InTime(v)'
      BY <1>6, <3>1 DEF Issues, InTime, Up
    <3>3. PICK new \in batches' : /\ batches' = batches \cup {new}
                                  /\ new.id = NextBatch /\ new.by = v /\ new.at = run[v].at
      BY <1>6, NewBatch DEF SlotInv
    <3>4. \A b \in batches : b.id < NextBatch /\ b.id \in Nat
      BY <1>6, NewBatch, Values DEF SlotInv
    <3>5. NextBatch \in Nat
      BY Values
    <3>6. \A c \in Done : c.batch # NextBatch
      BY <3>4 DEF SlotInv, DoneInv, Of
    <3>7. HasBatch(v)'
      BY <1>6, <3>3, <3>4, <3>5, <3>6 DEF Issues, HasBatch
    <3>8. QED BY <3>2, <3>7
  <2>2. ASSUME NEW w \in Workers \ {v}, Issuing(w)' \/ Recording(w)'
        PROVE  InTime(w)' /\ (Recording(w)' => HasBatch(w)')
    <3>1. run'[w] = run[w] /\ nextRun'[w] = nextRun[w] /\ (Up(w)' <=> Up(w)) /\ now' = now
      BY <1>6 DEF Issues, SameJobs, Up
    <3>2. (Issuing(w)' <=> Issuing(w)) /\ (Recording(w)' <=> Recording(w))
      BY <3>1 DEF Issuing, Recording, Doing, Idle
    <3>3. InTime(w) /\ (Recording(w) => HasBatch(w))
      BY <2>2, <3>2 DEF SlotInv, JobInv
    <3>4. InTime(w)'
      BY <3>1, <3>3 DEF InTime
    <3>5. HasBatch(w) => HasBatch(w)'
      <4>1. \A d \in batches' : d \in batches \/ d.by = v
        BY <1>6 DEF Issues
      <4>2. QED BY <1>6, <3>1, <4>1 DEF Issues, HasBatch
    <3>6. QED BY <3>2, <3>3, <3>4, <3>5
  <2>3. QED BY <2>1, <2>2 DEF JobInv
<1>7. ASSUME NEW v \in Workers, Records(v) PROVE JobInv'
  <2>1. PICK row : Done' = Done \cup {row} /\ row.at = now /\ row.batch = run[v].id
    BY <1>7 DEF Records
  <2>2. HasBatch(v)
    BY <1>7 DEF Records, SlotInv, JobInv
  <2>3. \A w \in Workers \ {v} : HasBatch(w) => run[w].id # run[v].id
    BY <2>2 DEF HasBatch, SlotInv, IdInv
  <2>4. \A w \in Workers \ {v} : Recording(w) /\ HasBatch(w) =>
               \A c \in Done' : c \in Done \/ c.batch # run[w].id
    BY <2>1, <2>3
  <2>5. \A w \in Workers \ {v} : /\ Issuing(w)' \/ Recording(w)' => InTime(w)'
                                 /\ Recording(w)' => HasBatch(w)'
    BY <1>4, <1>7, <2>4 DEF Records
  <2>6. QED BY <1>7, <2>5 DEF Records, JobInv
<1>8. ASSUME Forgets \/ Passes PROVE JobInv'
  <2>1. /\ SameJobs(Workers) /\ UNCHANGED batches /\ (now' = now \/ now' = now + 1)
        /\ Done' \subseteq Done
    BY <1>8 DEF Forgets, Passes
  <2> SUFFICES ASSUME NEW w \in Workers, Issuing(w)' \/ Recording(w)'
               PROVE  InTime(w)' /\ (Recording(w)' => HasBatch(w)')
    BY DEF JobInv
  <2>2. run'[w] = run[w] /\ nextRun'[w] = nextRun[w] /\ (Up(w) => Up(w)')
    BY <2>1 DEF SameJobs, Up
  <2>3. Up(w)
    <3>1. Issuing(w) \/ Recording(w)
      BY <2>2 DEF Issuing, Recording, Doing, Idle
    <3>2. QED BY <3>1 DEF SlotInv, JobInv, InTime
  <2>4. nextRun'[w] >= nextRun[w] /\ now' >= now
    BY <2>1, <2>2, <2>3, Values
  <2>5. QED BY <1>1, <1>2, <2>1, <2>2, <2>4
<1>9. QED BY <1>3, <1>5, <1>6, <1>7, <1>8 DEF Deed

(* The next job of a worker keeps its distance from what it has completed,   *)
(* even if it was restarted in between.                                      *)
LEMMA NextNotTooSoon ==
  ASSUME TypeInv, TypeInv', SlotInv, Deed
  PROVE  NotTooSoon'
<1> USE DEF SlotInv, Of
<1>1. \A c \in Done, b \in batches : Of(c, b) => b.at <= c.at
  BY DEF IdInv, DoneInv
<1>2. \A b \in batches : b.by \in Workers /\ b.at \in Nat
  BY Values
<1>3. CASE Quietly
  <2> SUFFICES ASSUME NEW c \in Done, NEW b \in batches, Of(c, b), Up(b.by)'
               PROVE  b.at + Spacing <= nextRun'[b.by]
    BY <1>3 DEF Quietly, NotTooSoon
  <2>1. Calm(b.by) /\ nextRun'[b.by] \in Nat
    BY <1>2, <1>3 DEF Quietly, TypeInv, TypeOK, Up
  <2>2. CASE Up(b.by)
    <3>1. b.at + Spacing <= nextRun[b.by] /\ nextRun'[b.by] >= nextRun[b.by]
      BY <2>1, <2>2 DEF NotTooSoon, Calm
    <3>2. QED BY <1>2, <2>1, <2>2, <3>1, Values
  <2>3. CASE ~Up(b.by)
    <3>1. nextRun'[b.by] >= c.at + Spacing
      BY <2>1, <2>3, FirstRunIs DEF Calm
    <3>2. QED BY <1>1, <1>2, <2>1, <3>1, Values
  <2>4. QED BY <2>2, <2>3
<1>4. ASSUME NEW v \in Workers, Starts(v) PROVE NotTooSoon'
  <2> SUFFICES ASSUME NEW c \in Done, NEW b \in batches, Of(c, b), Up(b.by)'
               PROVE  b.at + Spacing <= nextRun'[b.by]
    BY <1>4 DEF Starts, NotTooSoon
  <2>1. Up(b.by) /\ nextRun'[b.by] >= nextRun[b.by]
    BY <1>2, <1>4, Values DEF Starts, SameJobs, Up
  <2>2. nextRun[b.by] \in Nat /\ nextRun'[b.by] \in Nat
    BY <1>2, <2>1, Values DEF TypeInv, TypeOK, Up
  <2>3. QED BY <1>2, <2>1, <2>2, Values DEF NotTooSoon
<1>5. ASSUME NEW v \in Workers, SameJobs(Workers \ {v}), nextRun'[v] = nextRun[v]
      PROVE  \A b \in batches : nextRun'[b.by] = nextRun[b.by] /\ (Up(b.by)' <=> Up(b.by))
  BY <1>2, <1>5 DEF SameJobs, Up
<1>6. ASSUME NEW v \in Workers, Issues(v) PROVE NotTooSoon'
  <2>1. \A c \in Done, b \in batches' : Of(c, b) => b \in batches
    BY <1>6, NewBatch, Values DEF DoneInv
  <2>2. QED BY <1>5, <1>6, <2>1 DEF Issues, NotTooSoon
<1>7. ASSUME NEW v \in Workers, Records(v) PROVE NotTooSoon'
  <2>1. PICK row : Done' = Done \cup {row} /\ row.at = now /\ row.batch = run[v].id
    BY <1>7 DEF Records
  <2>2. \A b \in batches : Of(row, b) => b.by = v /\ b.at = run[v].at
    <3>1. HasBatch(v)
      BY <1>7 DEF Records, JobInv
    <3>2. QED BY <2>1, <3>1 DEF HasBatch, IdInv
  <2>3. run[v].at + Spacing <= nextRun[v]
    BY <1>7 DEF Records, JobInv, InTime
  <2>4. QED BY <1>5, <1>7, <2>1, <2>2, <2>3 DEF Records, NotTooSoon
<1>8. CASE Forgets
  BY <1>8 DEF Forgets, NotTooSoon
<1>9. CASE Passes
  BY <1>2, <1>9 DEF Passes, NotTooSoon, SameJobs, Up
<1>10. QED BY <1>3, <1>4, <1>6, <1>7, <1>8, <1>9 DEF Deed

(* A later start stays one, and there is a new one only when a job starts.   *)
LEMMA LaterStarts ==
  ASSUME TypeInv, SlotInv, NEW a \in batches, NEW t, NEW m
  PROVE  /\ Quietly => (LaterStart(a, t, m)' => LaterStart(a, t, m))
         /\ \A v \in Workers :
              /\ Starts(v) => (LaterStart(a, t, m)' <=>
                                 LaterStart(a, t, m) \/ (a.by = v /\ t = now /\ m = mode[v]))
              /\ Issues(v) \/ Records(v) => (LaterStart(a, t, m)' <=> LaterStart(a, t, m))
         /\ Forgets \/ Passes => (LaterStart(a, t, m)' <=> LaterStart(a, t, m))
<1>1. a.by \in Workers
  BY Values
<1>2. ASSUME NEW w \in Workers, run'[w] = run[w] PROVE Issuing(w)' <=> Issuing(w)
  BY <1>2 DEF Issuing, Doing, Idle
<1>3. ASSUME Quietly PROVE LaterStart(a, t, m)' => LaterStart(a, t, m)
  BY <1>1, <1>2, <1>3 DEF Quietly, Calm, LaterStart
<1>4. ASSUME NEW v \in Workers, Starts(v)
      PROVE  LaterStart(a, t, m)' <=> LaterStart(a, t, m) \/ (a.by = v /\ t = now /\ m = mode[v])
  <2>1. ~Issuing(v)
    BY <1>4 DEF Starts, Issuing, Doing
  <2>2. CASE a.by = v
    BY <1>4, <2>1, <2>2 DEF Starts, LaterStart
  <2>3. CASE a.by # v
    BY <1>1, <1>2, <1>4, <2>3 DEF Starts, LaterStart, SameJobs
  <2>4. QED BY <2>2, <2>3
<1>5. ASSUME NEW v \in Workers, Issues(v) PROVE LaterStart(a, t, m)' <=> LaterStart(a, t, m)
  <2>1. PICK new \in batches' : /\ batches' = batches \cup {new}
                                /\ new.id = NextBatch /\ new.at = run[v].at
                                /\ new.mode = run[v].mode /\ new.by = v
    BY <1>5, NewBatch DEF SlotInv
  <2>2. a.id < NextBatch /\ Issuing(v) /\ ~Issuing(v)'
    BY <1>5, NewBatch DEF SlotInv, Issues, Issuing, Recording, Doing
  <2>3. CASE a.by = v
    BY <2>1, <2>2, <2>3 DEF LaterStart
  <2>4. CASE a.by # v
    BY <1>1, <1>2, <1>5, <2>1, <2>4 DEF Issues, LaterStart, SameJobs
  <2>5. QED BY <2>3, <2>4
<1>6. ASSUME NEW v \in Workers, Records(v) PROVE LaterStart(a, t, m)' <=> LaterStart(a, t, m)
  <2>1. ~Issuing(v) /\ ~Issuing(v)' /\ UNCHANGED batches
    BY <1>6 DEF Records, Issuing, Recording, Doing
  <2>2. \A w \in Workers \ {v} : run'[w] = run[w] /\ (Issuing(w)' <=> Issuing(w))
    BY <1>2, <1>6 DEF Records, SameJobs
  <2>3. QED BY <1>1, <2>1, <2>2 DEF LaterStart
<1>7. ASSUME Forgets \/ Passes PROVE LaterStart(a, t, m)' <=> LaterStart(a, t, m)
  BY <1>1, <1>2, <1>7 DEF Forgets, Passes, SameJobs, LaterStart
<1>8. QED BY <1>3, <1>4, <1>5, <1>6, <1>7

(* A worker starts no other batch too soon after one it has completed, and   *)
(* none before it has recorded it.                                           *)
LEMMA NextApart ==
  ASSUME TypeInv, TypeInv', SlotInv, Deed
  PROVE  Apart'
<1> USE DEF SlotInv, Of
<1>1. \A a \in batches : a.by \in Workers /\ a.at \in Nat
  BY Values
<1>2. ASSUME UNCHANGED batches, Done' \subseteq Done,
             \A a \in batches, t \in Nat, m \in Modes : LaterStart(a, t, m)' => LaterStart(a, t, m)
      PROVE  Apart'
  BY <1>2 DEF Apart
<1>3. CASE Quietly
  BY <1>2, <1>3, LaterStarts DEF Quietly
<1>4. ASSUME NEW v \in Workers, Starts(v) PROVE Apart'
  <2> SUFFICES ASSUME NEW a \in batches, NEW t \in Nat, NEW m \in Modes, LaterStart(a, t, m)'
               PROVE  a.at <= t /\ \A c \in Done : Of(c, a) => c.at <= t /\ a.at + Spacing <= t
    BY <1>4 DEF Starts, Apart
  <2>1. CASE LaterStart(a, t, m)
    BY <2>1 DEF Apart
  <2>2. CASE a.by = v /\ t = now
    <3>1. a.at <= t /\ \A c \in Done : c.at <= t
      BY <2>2 DEF ClockInv
    <3>2. \A c \in Done : Of(c, a) => a.at + Spacing <= nextRun[v]
      BY <1>4, <2>2 DEF Starts, NotTooSoon
    <3>3. now >= nextRun[v] /\ nextRun[v] \in Nat
      BY <1>4, Values DEF Starts
    <3>4. QED BY <1>1, <2>2, <3>1, <3>2, <3>3, Values
  <2>3. QED BY <1>4, <2>1, <2>2, LaterStarts
<1>5. ASSUME NEW v \in Workers, Issues(v) PROVE Apart'
  <2>1. PICK new \in batches' : batches' = batches \cup {new} /\ new.id = NextBatch /\ new.by = v
    BY <1>5, NewBatch
  <2>2. \A b \in batches : b.id < NextBatch /\ b.id \in Nat
    BY <1>5, NewBatch, Values
  <2>3. NextBatch \in Nat /\ ~Issuing(v)'
    BY <1>5, Values DEF Issues, Issuing, Recording, Doing
  <2>4. \A t, m : ~LaterStart(new, t, m)'
    BY <2>1, <2>2, <2>3 DEF LaterStart
  <2>5. QED BY <1>5, <2>1, <2>4, LaterStarts DEF Issues, Apart
<1>6. ASSUME NEW v \in Workers, Records(v) PROVE Apart'
  <2>1. PICK row : Done' = Done \cup {row} /\ row.at = now /\ row.batch = run[v].id
    BY <1>6 DEF Records
  <2>2. ASSUME NEW a \in batches, Of(row, a), NEW t \in Nat, NEW m \in Modes
        PROVE  ~LaterStart(a, t, m)
    <3>1. a.by = v /\ a.id = run[v].id /\ \A d \in batches : d.by = v => d.id <= run[v].id
      <4>1. HasBatch(v)
        BY <1>6 DEF Records, JobInv
      <4>2. QED BY <2>1, <2>2, <4>1 DEF HasBatch, IdInv
    <3>2. ~Issuing(v) /\ \A d \in batches : d.id \in Nat
      BY <1>6, Values DEF Records, Issuing, Recording, Doing
    <3>3. QED BY <3>1, <3>2 DEF LaterStart
  <2>3. QED BY <1>6, <2>1, <2>2, LaterStarts DEF Records, Apart
<1>7. CASE Forgets \/ Passes
  BY <1>2, <1>7, LaterStarts DEF Forgets, Passes
<1>8. QED BY <1>3, <1>4, <1>5, <1>6, <1>7 DEF Deed

(* The slots stay as they should be. *)
THEOREM SlotInvariant == Spec => []SlotInv
<1>1. Init => SlotInv
  BY SchedulerAssumption
     DEF Init, SlotInv, IdInv, ClockInv, DoneInv, JobInv, NotTooSoon, Apart, Done, Completed,
         Issuing, Recording, Doing, Idle, Up, Runners
<1>2. TypeInv /\ TypeInv' /\ SlotInv /\ [Next]_vars => SlotInv'
  BY Deeds, NextIds, NextClock, NextDone, NextJobs, NextNotTooSoon, NextApart DEF SlotInv
<1>3. QED BY <1>1, <1>2, TypeInvariant, PTL DEF Spec

(* Two completed scheduled cycles of one worker start an interval apart, but *)
(* for the lateness of the first one or a cut to whole seconds, for any      *)
(* interval and grace time, however often the workers were restarted.        *)
THEOREM CyclesAreSpaced == Spec => []CyclesSpaced
<1>1. TypeInv /\ SlotInv => CyclesSpaced
  <2> SUFFICES ASSUME TypeInv, SlotInv, NEW c \in Done, NEW d \in Done, c.batch < d.batch,
                      BatchOf(c).by = BatchOf(d).by
               PROVE  BatchOf(d).at - BatchOf(c).at >= Spacing
    BY DEF CyclesSpaced, Done
  <2>1. \A e \in Done : BatchOf(e) \in batches /\ Of(e, BatchOf(e))
    BY DEF SlotInv, DoneInv, BatchOf, Of
  <2> DEFINE a == BatchOf(c)
             b == BatchOf(d)
  <2>2. /\ a \in batches /\ b \in batches /\ Of(c, a) /\ Of(d, b) /\ a.by = b.by
        /\ b.at \in Nat /\ a.at \in Nat /\ b.mode \in Modes /\ Spacing \in Nat
    BY <2>1, Values
  <2> HIDE DEF a, b
  <2>3. LaterStart(a, b.at, b.mode)
    BY <2>2 DEF LaterStart, Of
  <2>4. a.at + Spacing <= b.at
    BY <2>2, <2>3 DEF SlotInv, Apart
  <2>5. b.at - a.at >= Spacing
    BY <2>2, <2>4
  <2>6. QED BY <2>5 DEF a, b
<1>2. QED BY <1>1, TypeInvariant, SlotInvariant, PTL

-----------------------------------------------------------------------------
\* The quota.  What a start at t in mode m is bound to have counted: what was
\* recorded before t, and what was recorded at t by a worker that has started
\* again at t under a quota as strict - for the last of those starts saw all of
\* them.

SomeStart(t, m) ==
  \/ \E d \in batches : d.at = t /\ d.mode = m
  \/ \E w \in Workers : Issuing(w) /\ run[w].at = t /\ run[w].mode = m
KnownBy(a, t, m) ==
  \E c \in Done :
    Of(c, a) /\ (c.at < t \/ (c.at = t /\ \E n \in {"once", m} : LaterStart(a, t, n)))
Known(t, m) ==
  {a \in batches : resets < a.id /\ (m = "once" \/ a.at >= t - Window) /\ KnownBy(a, t, m)}
Lost == {b \in batches : /\ resets < b.id
                         /\ \A c \in Done : ~Of(c, b)
                         /\ \A w \in Workers : Recording(w) => run[w].id # b.id}

QuotaInv == \A t \in Nat, m \in Modes : SomeStart(t, m) => Cardinality(Known(t, m)) < MaxCycles
LostInv == AtMost(Lost, Losses)

(* A start lets through no more than its quota. *)
LEMMA QuotaBounds ==
  ASSUME TypeInv, SlotInv, NEW m \in Modes, NEW n \in {"once", m}, QuotaLeft(n),
         NEW S, S \subseteq batches,
         \A a \in S : /\ m = "once" \/ a.at >= now - Window
                      /\ \E c \in Done : Of(c, a)
  PROVE  Cardinality(S) < MaxCycles
<1> DEFINE counted == {c \in Done : n = "once" \/ InWindow(c)}
           f == [a \in S |-> CHOOSE c \in Done : Of(c, a)]
<1>1. AtMost(counted, QuotaUsed(n)) /\ QuotaUsed(n) \in Nat
  <2>1. counted \in SUBSET cycles /\ IsFiniteSet(cycles)
    BY DEF Done, Completed, TypeInv
  <2>2. IsFiniteSet(counted) /\ Cardinality(counted) \in Nat
    BY <2>1, FS_Subset, FS_CardinalityType
  <2>3. Cardinality(counted) = QuotaUsed(n)
    BY DEF QuotaUsed, Done
  <2>4. QED BY <2>2, <2>3 DEF AtMost
<1>2. \A a \in S : f[a] \in Done /\ Of(f[a], a)
  OBVIOUS
<1>3. \A a \in S, c \in Done : Of(c, a) => a.at <= c.at
  BY DEF SlotInv, DoneInv, IdInv, Of
<1> HIDE DEF f
<1>4. ASSUME NEW a \in S PROVE f[a] \in counted
  <2>1. /\ now \in Nat /\ Window \in Nat /\ a.at \in Nat /\ f[a].at \in Nat
        /\ a.at <= f[a].at
    BY <1>2, <1>3, Values, SchedulerAssumption
  <2>2. QED BY <1>2, <2>1 DEF InWindow
<1>5. \A a, b \in S : f[a] = f[b] => a = b
  BY <1>2 DEF SlotInv, IdInv, Of
<1>6. AtMost(S, QuotaUsed(n))
  BY <1>1, <1>4, <1>5, OneEach
<1>7. IsFiniteSet(S) /\ Cardinality(S) <= QuotaUsed(n) /\ Cardinality(S) \in Nat
  BY <1>6, FS_CardinalityType DEF AtMost
<1>8. QED BY <1>1, <1>7, SettingsAreSane DEF QuotaLeft

(* A batch that is being recorded is the last of its worker. *)
LEMMA LastOfWorker ==
  ASSUME TypeInv, SlotInv, NEW v \in Workers, Recording(v),
         NEW a \in batches, a.id = run[v].id
  PROVE  /\ a.by = v /\ \A d \in batches : d.by = v => d.id <= a.id
         /\ \A t, m : ~LaterStart(a, t, m)
<1>1. HasBatch(v)
  BY DEF SlotInv, JobInv
<1>2. a.by = v /\ \A d \in batches : d.by = v => d.id <= a.id
  BY <1>1 DEF HasBatch, SlotInv, IdInv
<1>3. ~Issuing(v) /\ \A d \in batches : d.id \in Nat
  BY Values
<1>4. QED BY <1>2, <1>3 DEF LaterStart

(* No batch that is issued or recorded makes a start know of more; a start   *)
(* knows of what its quota has counted.                                      *)
LEMMA NextQuota ==
  ASSUME TypeInv, TypeInv', SlotInv, QuotaInv, Deed
  PROVE  QuotaInv'
<1>1. ASSUME NEW t \in Nat, NEW m \in Modes, SomeStart(t, m), Known(t, m)' \subseteq Known(t, m)
      PROVE  Cardinality(Known(t, m)') < MaxCycles
  <2>1. IsFiniteSet(Known(t, m)) /\ Known(t, m)' \in SUBSET Known(t, m)
    <3>1. Known(t, m) \in SUBSET batches /\ IsFiniteSet(batches)
      BY DEF Known, TypeInv
    <3>2. QED BY <1>1, <3>1, FS_Subset
  <2>2. /\ Cardinality(Known(t, m)') <= Cardinality(Known(t, m))
        /\ Cardinality(Known(t, m)') \in Nat /\ Cardinality(Known(t, m)) \in Nat
    BY <2>1, FS_Subset, FS_CardinalityType
  <2>3. Cardinality(Known(t, m)) < MaxCycles
    BY <1>1 DEF QuotaInv
  <2>4. QED BY <2>2, <2>3, SettingsAreSane
<1>2. ASSUME NEW t, NEW m, UNCHANGED <<batches, Done, resets>>,
             \A a \in batches, n \in {"once", m} : LaterStart(a, t, n)' => LaterStart(a, t, n)
      PROVE  Known(t, m)' \subseteq Known(t, m)
  BY <1>2 DEF Known, KnownBy, Of
<1>3. ASSUME NEW w \in Workers, run'[w] = run[w] PROVE Issuing(w)' <=> Issuing(w)
  BY <1>3 DEF Issuing, Doing, Idle
<1> SUFFICES ASSUME NEW t \in Nat, NEW m \in Modes, SomeStart(t, m)'
             PROVE  Cardinality(Known(t, m)') < MaxCycles
  BY SettingsAreSane DEF QuotaInv
<1>4. CASE Quietly
  <2>1. SomeStart(t, m)
    BY <1>3, <1>4 DEF Quietly, Calm, SomeStart
  <2>2. Known(t, m)' \subseteq Known(t, m)
    BY <1>2, <1>4, LaterStarts DEF Quietly
  <2>3. QED BY <1>1, <2>1, <2>2
<1>5. ASSUME NEW v \in Workers, Starts(v) PROVE Cardinality(Known(t, m)') < MaxCycles
  <2>1. \A a \in batches : \A n :
          LaterStart(a, t, n)' => LaterStart(a, t, n) \/ (t = now /\ n = mode[v])
    BY <1>5, LaterStarts
  <2>2. SomeStart(t, m) \/ (t = now /\ m = mode[v])
    BY <1>3, <1>5 DEF Starts, SameJobs, SomeStart
  <2>3. CASE t = now /\ mode[v] \in {"once", m}
    <3> DEFINE S == Known(t, m)'
    <3>1. /\ S \subseteq batches
          /\ \A a \in S : /\ m = "once" \/ a.at >= now - Window
                          /\ \E c \in Done : Of(c, a)
      BY <1>5, <2>3 DEF Starts, Known, KnownBy, Of
    <3> HIDE DEF S
    <3>2. Cardinality(S) < MaxCycles
      <4>1. PICK n \in {"once", m} : n = mode[v]
        BY <2>3
      <4>2. QuotaLeft(n)
        BY <1>5, <4>1 DEF Starts
      <4>3. QED BY <3>1, <4>2, QuotaBounds
    <3>3. QED BY <3>2 DEF S
  <2>4. CASE ~(t = now /\ mode[v] \in {"once", m})
    <3>1. SomeStart(t, m)
      BY <2>2, <2>4
    <3>2. Known(t, m)' \subseteq Known(t, m)
      BY <1>2, <1>5, <2>1, <2>4 DEF Starts
    <3>3. QED BY <1>1, <3>1, <3>2
  <2>5. QED BY <2>3, <2>4
<1>6. ASSUME NEW v \in Workers, Issues(v) PROVE Cardinality(Known(t, m)') < MaxCycles
  <2>1. PICK new \in batches' : /\ batches' = batches \cup {new}
                                /\ new.id = NextBatch /\ new.at = run[v].at
                                /\ new.mode = run[v].mode /\ new.by = v
    BY <1>6, NewBatch DEF SlotInv
  <2>2. SomeStart(t, m)
    <3>1. ~Issuing(v)' /\ Issuing(v)
      BY <1>6 DEF Issues, Issuing, Recording, Doing
    <3>2. QED BY <1>3, <1>6, <2>1, <3>1 DEF Issues, SameJobs, SomeStart
  <2>3. \A c \in Done : ~Of(c, new)
    BY <1>6, <2>1, NewBatch, Values DEF SlotInv, DoneInv, Of
  <2>4. Known(t, m)' \subseteq Known(t, m)
    BY <1>6, <2>1, <2>3, LaterStarts DEF Issues, Known, KnownBy, Of
  <2>5. QED BY <1>1, <2>2, <2>4
<1>7. ASSUME NEW v \in Workers, Records(v) PROVE Cardinality(Known(t, m)') < MaxCycles
  <2>1. PICK row : Done' = Done \cup {row} /\ row.at = now /\ row.batch = run[v].id
    BY <1>7 DEF Records
  <2>2. SomeStart(t, m)
    BY <1>3, <1>7 DEF Records, SameJobs, SomeStart, Issuing, Doing
  <2>3. t <= now
    BY <2>2, Values DEF SomeStart, SlotInv, ClockInv, JobInv, InTime
  <2>4. \A a \in batches : \A n : Of(row, a) => ~LaterStart(a, t, n)
    BY <1>7, <2>1, LastOfWorker DEF Records, Of
  <2>5. Known(t, m)' \subseteq Known(t, m)
    <3> SUFFICES ASSUME NEW a \in Known(t, m)' PROVE a \in Known(t, m)
      OBVIOUS
    <3>1. /\ a \in batches /\ resets < a.id /\ (m = "once" \/ a.at >= t - Window)
          /\ KnownBy(a, t, m)'
      BY <1>7 DEF Known, Records
    <3>2. PICK c \in Done' : /\ Of(c, a)
                             /\ \/ c.at < t
                                \/ c.at = t /\ \E n \in {"once", m} : LaterStart(a, t, n)'
      BY <3>1 DEF KnownBy, Of
    <3>3. ~(c.at < t /\ c = row)
      BY <2>1, <2>3, Values
    <3>4. c \in Done /\ (c.at < t \/ (c.at = t /\ \E n \in {"once", m} : LaterStart(a, t, n)))
      BY <1>7, <2>1, <2>4, <3>1, <3>2, <3>3, LaterStarts
    <3>5. QED BY <3>1, <3>2, <3>4 DEF Known, KnownBy
  <2>6. QED BY <1>1, <2>2, <2>5
<1>8. CASE Forgets
  <2>1. Known(t, m)' = {}
    BY <1>8 DEF Forgets, Known, KnownBy
  <2>2. QED BY <2>1, FS_EmptySet, SettingsAreSane
<1>9. CASE Passes
  <2>1. SomeStart(t, m)
    BY <1>3, <1>9 DEF Passes, SameJobs, SomeStart
  <2>2. Known(t, m)' \subseteq Known(t, m)
    BY <1>2, <1>9, LaterStarts DEF Passes
  <2>3. QED BY <1>1, <2>1, <2>2
<1>10. QED BY <1>4, <1>5, <1>6, <1>7, <1>8, <1>9 DEF Deed

(* A batch whose record is lost is a crash or a timeout of the write lock.   *)
LEMMA NextLost ==
  ASSUME TypeInv, TypeInv', SlotInv, LostInv, Deed
  PROVE  LostInv'
<1>1. Losses \in Nat /\ Losses' \in Nat
  <2>1. faults \in [Kinds -> Nat] /\ faults' \in [Kinds -> Nat]
    BY DEF TypeInv, TypeOK
  <2>2. QED BY <2>1 DEF Losses, Kinds
<1>2. ASSUME Lost' \subseteq Lost, Losses' >= Losses PROVE LostInv'
  BY <1>1, <1>2, Fewer DEF LostInv
<1>3. UNCHANGED faults => Losses' >= Losses
  BY <1>1 DEF Losses
<1>4. ASSUME NEW w \in Workers, run'[w] = run[w] PROVE Recording(w)' <=> Recording(w)
  BY <1>4 DEF Recording, Doing, Idle
<1>5. CASE Quietly
  <2>1. PICK v \in Workers \cup {None} :
          /\ \A w \in Workers \ {v} : Recording(w) => Recording(w)' /\ run'[w] = run[w]
          /\ v \in Workers /\ Recording(v) /\ ~Recording(v)' => Losses' > Losses
    BY <1>5 DEF Quietly
  <2>2. \A w \in Workers : Recording(w)' => run'[w] = run[w]
    BY <1>5 DEF Quietly, Calm
  <2>3. CASE v \in Workers /\ Recording(v) /\ ~Recording(v)'
    <3>1. PICK b \in batches : b.id = run[v].id
      BY <2>3 DEF SlotInv, JobInv, HasBatch
    <3>2. Lost' \subseteq Lost \cup {b}
      BY <1>5, <2>1, <3>1 DEF Quietly, Lost, Of, SlotInv, IdInv
    <3>3. AtMost(Lost, Losses) /\ Losses + 1 <= Losses'
      BY <1>1, <2>1, <2>3 DEF LostInv
    <3>4. AtMost(Lost', Losses')
      BY <1>1, <3>2, <3>3, OneMore
    <3>5. QED BY <3>4 DEF LostInv, AtMost
  <2>4. CASE ~(v \in Workers /\ Recording(v) /\ ~Recording(v)')
    <3>1. \A w \in Workers : Recording(w) => Recording(w)' /\ run'[w] = run[w]
      BY <2>1, <2>2, <2>4
    <3>2. Lost' \subseteq Lost
      BY <1>5, <3>1 DEF Quietly, Lost, Of
    <3>3. QED BY <1>2, <1>5, <3>2 DEF Quietly
  <2>5. QED BY <2>3, <2>4
<1>6. ASSUME NEW v \in Workers, Starts(v) PROVE LostInv'
  <2>1. \A w \in Workers : Recording(w) => Recording(w)' /\ run'[w] = run[w]
    BY <1>4, <1>6 DEF Starts, SameJobs, Recording, Doing
  <2>2. Lost' \subseteq Lost
    BY <1>6, <2>1 DEF Starts, Lost, Of
  <2>3. QED BY <1>2, <1>3, <1>6, <2>2 DEF Starts
<1>7. ASSUME NEW v \in Workers, Issues(v) PROVE LostInv'
  <2>1. PICK new \in batches' : batches' = batches \cup {new} /\ new.id = NextBatch
    BY <1>7, NewBatch DEF SlotInv
  <2>2. \A w \in Workers : Recording(w) => Recording(w)' /\ run'[w] = run[w]
    BY <1>4, <1>7, Values DEF Issues, SameJobs
  <2>3. Lost' \subseteq Lost
    BY <1>7, <2>1, <2>2 DEF Issues, Lost, Of
  <2>4. QED BY <1>2, <1>3, <1>7, <2>3 DEF Issues
<1>8. ASSUME NEW v \in Workers, Records(v) PROVE LostInv'
  <2>1. PICK row : Done' = Done \cup {row} /\ row.batch = run[v].id
    BY <1>8 DEF Records
  <2>2. \A w \in Workers \ {v} : Recording(w) => Recording(w)' /\ run'[w] = run[w]
    BY <1>4, <1>8 DEF Records, SameJobs
  <2>3. Lost' \subseteq Lost
    BY <1>8, <2>1, <2>2 DEF Records, Lost, Of
  <2>4. QED BY <1>2, <1>3, <1>8, <2>3 DEF Records
<1>9. CASE Forgets
  <2>1. Lost' = {}
    BY <1>9, Values DEF Forgets, Lost, SlotInv, IdInv
  <2>2. QED BY <1>2, <1>3, <1>9, <2>1 DEF Forgets
<1>10. CASE Passes
  <2>1. \A w \in Workers : Recording(w) => Recording(w)' /\ run'[w] = run[w]
    BY <1>4, <1>10 DEF Passes, SameJobs
  <2>2. Lost' \subseteq Lost
    BY <1>10, <2>1 DEF Passes, Lost, Of
  <2>3. QED BY <1>2, <1>3, <1>10, <2>2 DEF Passes
<1>11. QED BY <1>5, <1>6, <1>7, <1>8, <1>9, <1>10 DEF Deed

(* Of the batches before b that were not known of and are not lost, no       *)
(* worker started two, and the worker of b none.                             *)
LEMMA OnePerWorker ==
  ASSUME TypeInv, SlotInv, NEW b \in batches,
         NEW S, S = Before(b) \ (Known(b.at, b.mode) \cup Lost)
  PROVE  /\ \A a \in S : a.by \in Workers \ {b.by}
         /\ \A a, d \in S : a.by = d.by => a = d
<1> USE DEF SlotInv
<1>1. \A a \in batches : a.id \in Nat /\ a.at \in Nat /\ a.by \in Workers /\ a.mode \in Modes
  BY Values
<1>2. \A a, d \in batches : a.by = d.by /\ a.id < d.id => LaterStart(a, d.at, d.mode)
  BY DEF LaterStart
\* Neither known of nor lost: it was recorded, but with a later batch of its
\* worker no later than that and not in time for b.
<1>3. ASSUME NEW a \in S, NEW d \in batches, a.by = d.by, a.id < d.id
      PROVE  /\ a.at <= d.at
             /\ d.at < b.at \/ (d.at = b.at /\ d.mode \in {"once", b.mode}) => FALSE
  <2>1. a \in batches /\ resets < a.id /\ (b.mode = "once" \/ a.at >= b.at - Window)
    BY DEF Before
  <2>2. LaterStart(a, d.at, d.mode)
    BY <1>2, <1>3, <2>1
  <2>3. \A w \in Workers : Recording(w) => run[w].id # a.id
    BY <1>1, <1>3, <2>1, LastOfWorker
  <2>4. PICK c \in Done : Of(c, a)
    BY <2>1, <2>3 DEF Lost
  <2>5. a.at <= d.at /\ c.at <= d.at /\ c.at \in Nat
    BY <1>1, <2>1, <2>2, <2>4, Values DEF Apart
  <2>6. ~KnownBy(a, b.at, b.mode)
    BY <2>1 DEF Known
  <2>7. ~(c.at < b.at) /\ (c.at = b.at => \A n \in {"once", b.mode} : ~LaterStart(a, b.at, n))
    BY <2>4, <2>6 DEF KnownBy
  <2>8. QED BY <1>1, <2>2, <2>5, <2>7
<1>4. ASSUME NEW a \in S PROVE a.by # b.by
  <2> SUFFICES ASSUME a.by = b.by PROVE FALSE
    OBVIOUS
  <2>1. a \in batches /\ (a.at < b.at \/ (a.at = b.at /\ a.id < b.id))
    BY DEF Before
  <2>2. ~(b.id < a.id /\ a.at < b.at)
    <3>1. b.id < a.id => LaterStart(b, a.at, a.mode)
      BY <1>2, <2>1
    <3>2. b.id < a.id => b.at <= a.at
      BY <1>1, <2>1, <3>1 DEF Apart
    <3>3. QED BY <1>1, <2>1, <3>2
  <2>3. a.id < b.id
    <3>1. a.id = b.id => a = b
      BY <2>1 DEF IdInv
    <3>2. QED BY <1>1, <2>1, <2>2, <3>1
  <2>4. QED BY <1>1, <1>3, <2>3
<1>5. ASSUME NEW a \in S, NEW d \in S, a.by = d.by, a.id < d.id PROVE FALSE
  <2>1. d \in batches /\ (d.at < b.at \/ (d.at = b.at /\ d.mode \in {"once", b.mode}))
    BY DEF Before
  <2>2. QED BY <1>3, <1>5, <2>1
<1>6. S \subseteq batches
  BY DEF Before
<1>7. ASSUME NEW a \in S, NEW d \in S, a.by = d.by PROVE a = d
  <2>1. a.id \in Nat /\ d.id \in Nat /\ ~(a.id < d.id) /\ ~(d.id < a.id)
    BY <1>1, <1>5, <1>6, <1>7
  <2>2. QED BY <1>6, <2>1 DEF IdInv
<1>8. QED BY <1>1, <1>4, <1>6, <1>7

(* What starts know of stays within the quota, and what is lost is no more   *)
(* than the faults account for.                                              *)
THEOREM QuotaInvariant == Spec => [](QuotaInv /\ LostInv)
<1>1. Init => QuotaInv /\ LostInv
  <2> SUFFICES ASSUME Init PROVE QuotaInv /\ LostInv
    OBVIOUS
  <2>1. \A t, m : ~SomeStart(t, m)
    BY DEF Init, SomeStart, Issuing, Doing, Idle, Runners
  <2>2. Lost = {} /\ Losses = 0
    BY DEF Init, Lost, Losses, Kinds
  <2>3. QED BY <2>1, <2>2, NoneAtMost DEF QuotaInv, LostInv
<1>2. TypeInv /\ TypeInv' /\ SlotInv /\ (QuotaInv /\ LostInv) /\ [Next]_vars
      => (QuotaInv /\ LostInv)'
  BY Deeds, NextQuota, NextLost
<1>3. QED BY <1>1, <1>2, TypeInvariant, SlotInvariant, PTL DEF Spec

(* No batch is one too many for the quota, but for those of the other        *)
(* workers it could not know of and those whose record was lost.             *)
THEOREM QuotaIsKept == Spec => []QuotaKeptUnlessLost
<1>1. TypeInv /\ SlotInv /\ QuotaInv /\ LostInv => QuotaKeptUnlessLost
  <2> SUFFICES ASSUME TypeInv, SlotInv, QuotaInv, LostInv, NEW b \in batches
               PROVE  Cardinality(Before(b)) <
                        MaxCycles + (Cardinality(Workers) - 1) + faults["crash"] + faults["busy"]
    BY DEF QuotaKeptUnlessLost
  <2> DEFINE K == Known(b.at, b.mode)
             S == Before(b) \ (K \cup Lost)
             f == [a \in S |-> a.by]
             n == Cardinality(Workers) - 1
  <2>1. b.at \in Nat /\ b.mode \in Modes /\ b.by \in Workers
    BY Values
  <2>2. AtMost(K, MaxCycles - 1) /\ MaxCycles - 1 \in Nat
    <3>1. SomeStart(b.at, b.mode)
      BY DEF SomeStart
    <3>2. Cardinality(K) < MaxCycles
      BY <2>1, <3>1 DEF QuotaInv
    <3>3. IsFiniteSet(K) /\ Cardinality(K) \in Nat
      <4>1. K \in SUBSET batches /\ IsFiniteSet(batches)
        BY DEF Known, TypeInv
      <4>2. QED BY <4>1, FS_Subset, FS_CardinalityType
    <3> HIDE DEF K
    <3>4. QED BY <3>2, <3>3, SettingsAreSane DEF AtMost
  <2>3. faults["crash"] \in Nat /\ faults["busy"] \in Nat /\ Losses \in Nat
    BY DEF TypeInv, TypeOK, Kinds, Losses
  <2>4. AtMost(Workers \ {b.by}, n) /\ n \in Nat
    <3>1. IsFiniteSet(Workers)
      BY SchedulerAssumption
    <3>2. /\ IsFiniteSet(Workers \ {b.by}) /\ Cardinality(Workers \ {b.by}) = n
          /\ Cardinality(Workers \ {b.by}) \in Nat
      BY <2>1, <3>1, FS_RemoveElement, FS_CardinalityType
    <3> HIDE DEF n
    <3>3. QED BY <3>2 DEF AtMost
  <2>5. /\ \A a \in S : a.by \in Workers \ {b.by}
        /\ \A a, d \in S : a.by = d.by => a = d
    <3> HIDE DEF S
    <3>1. S = Before(b) \ (Known(b.at, b.mode) \cup Lost)
      BY DEF S
    <3>2. QED BY <3>1, OnePerWorker
  <2>6. \A a \in S : f[a] = a.by
    OBVIOUS
  <2>7. Before(b) \subseteq (K \cup Lost) \cup S
    OBVIOUS
  <2> HIDE DEF K, S, f, n
  <2>8. AtMost(S, n)
    BY <2>4, <2>5, <2>6, OneEach
  <2>9. AtMost(K \cup Lost, (MaxCycles - 1) + Losses)
    BY <2>2, <2>3, Together DEF LostInv
  <2>10. (MaxCycles - 1) + Losses \in Nat /\ ((MaxCycles - 1) + Losses) + n \in Nat
    BY <2>2, <2>3, <2>4
  <2>11. AtMost((K \cup Lost) \cup S, ((MaxCycles - 1) + Losses) + n)
    BY <2>4, <2>8, <2>9, <2>10, Together
  <2>12. AtMost(Before(b), ((MaxCycles - 1) + Losses) + n)
    BY <2>7, <2>10, <2>11, Fewer
  <2>13. /\ Cardinality(Before(b)) <= ((MaxCycles - 1) + Losses) + n
         /\ Cardinality(Before(b)) \in Nat /\ MaxCycles \in Nat
    BY <2>12, FS_CardinalityType, SettingsAreSane DEF AtMost
  <2>14. Cardinality(Before(b)) < MaxCycles + n + faults["crash"] + faults["busy"]
    BY <2>3, <2>4, <2>13 DEF Losses
  <2>15. QED BY <2>14 DEF n
<1>2. QED BY <1>1, TypeInvariant, SlotInvariant, QuotaInvariant, PTL
=============================================================================
