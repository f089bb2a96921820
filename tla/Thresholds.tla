----------------------------- MODULE Thresholds -----------------------------
(***************************************************************************)
(* When a KPI value has the evaluator tell the correlator to raise or to   *)
(* clear the alarm of a threshold (services/kpi/thresholds.py), and what   *)
(* that should amount to: a trigger with hysteresis.  What comes of the    *)
(* message is for customers' rules to say, which are in Telemetry.         *)
(***************************************************************************)
EXTENDS Integers

CONSTANT NoValue   \* a clear_value that is not set

ASSUME NoValueAssumption == NoValue \notin Int

crossed(t, v) ==
  \/ t.operator = "gt"  /\ v > t.value
  \/ t.operator = "gte" /\ v >= t.value
  \/ t.operator = "lt"  /\ v < t.value
  \/ t.operator = "lte" /\ v <= t.value

\* Mutant of should_clear: the hysteresis is not looked at.
should_clearAtOnce(t, v) == t.auto_clear /\ ~crossed(t, v)

should_clear(t, v) ==
  /\ t.auto_clear
  /\ IF t.clear_value = NoValue THEN ~crossed(t, v)
     ELSE IF t.operator \in {"gt", "gte"} THEN v <= t.clear_value
     ELSE v >= t.clear_value

(* evaluate and _emit: the message a sample has the correlator handle.     *)
Effect(t, v) ==
  IF ~t.enabled THEN "none"
  ELSE IF crossed(t, v) THEN "raise"
  ELSE IF should_clear(t, v) THEN "clear"
  ELSE "none"

-----------------------------------------------------------------------------
\* x is strictly on the side of y that threshold t warns of.
Worse(t, x, y) == IF t.operator \in {"gt", "gte"} THEN x > y ELSE x < y

(* The reference: whether an alarm that is on, or off, is on after sample  *)
(* v.  It goes on at the limit, and off only by itself where that is       *)
(* allowed: off the limit, or past the clear value if there is one.        *)
Alert(t, v, on) ==
  IF ~t.enabled THEN on
  ELSE \/ Worse(t, v, t.value)
       \/ t.operator \in {"gte", "lte"} /\ v = t.value
       \/ on /\ ~t.auto_clear
       \/ on /\ t.clear_value # NoValue /\ Worse(t, v, t.clear_value)

(* The message such a trigger sends: to raise, if the alarm is on after v  *)
(* even if it was off, to clear, if it is off even if it was on, and none  *)
(* if it stays what it was.                                                *)
Says(t, v) ==
  IF Alert(t, v, FALSE) THEN "raise"
  ELSE IF ~Alert(t, v, TRUE) THEN "clear"
  ELSE "none"
=============================================================================
