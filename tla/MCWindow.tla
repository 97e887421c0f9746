------------------------------ MODULE MCWindow ------------------------------
(***************************************************************************)
(* Instance of ReconciliationWindow for TLC: the look-back is the spacing  *)
(* of the slots, as 24 hours are by default.                               *)
(***************************************************************************)
EXTENDS ReconciliationWindow, TLC

CONSTANTS i1, i2

Alike == Permutations({i1, i2})
=============================================================================
