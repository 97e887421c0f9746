------------------------------ MODULE Settings ------------------------------
(***************************************************************************)
(* The validators of Settings (core/config.py): what the program works     *)
(* with for every value the environment may hold.  A raw value is what     *)
(* int() makes of the variable, or something that is no integer because    *)
(* int() raised ValueError or TypeError; a mode is taken after lower() and *)
(* strip().                                                                *)
(***************************************************************************)
EXTENDS Integers

Modes == {"once", "recurring"}

AtLeastOne(raw, default) == IF raw \in Int /\ raw >= 1 THEN raw ELSE default
UpTo(raw, last, default) == IF raw \in Int /\ raw \in 0..last THEN raw ELSE default

SanitizedMode(raw) == IF raw \in Modes THEN raw ELSE "once"
SanitizedMaxCycles(raw) == AtLeastOne(raw, 8)
SanitizedInterval(raw) == AtLeastOne(raw, 180)
SanitizedHour(raw) == UpTo(raw, 23, 21)
SanitizedMinute(raw) == UpTo(raw, 59, 0)
SanitizedLookback(raw) == AtLeastOne(raw, 24)
=============================================================================
