---------------------------- MODULE MCScheduler ----------------------------
(***************************************************************************)
(* Instances of Scheduler for TLC.  A tick is half a second and there are  *)
(* two seconds to an interval, so that what is left of one need not be     *)
(* whole seconds; two workers' cycles at one slot use up the quota for an  *)
(* interval.                                                               *)
(***************************************************************************)
EXTENDS Scheduler, TLC

CONSTANTS w1, w2, c1

\* The call is served by w1, and may be any of them.
ByFirst == [c \in Calls |-> w1]
AnyCall == [c \in Calls |-> Operations]
=============================================================================
