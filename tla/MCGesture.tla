----------------------------- MODULE MCGesture ------------------------------
(***************************************************************************)
(* Instances of Gesture for TLC: a chord of two buttons, timings with and  *)
(* without a gap between tap and hold, and two-sided bindings.             *)
(***************************************************************************)
EXTENDS Gesture
CONSTANTS x, y, stick, trigger

Pair == <<[name |-> "both", buttons |-> {x, y}]>>

Timing(tap, window, hold) == [tap |-> tap, window |-> window, hold |-> hold]
Touching == Timing(2, 1, 2)
Apart    == Timing(0, 2, 2)
Both     == {Touching, Apart}

Binding(action, kind, control, controls, type, region) ==
    [action |-> action, kind |-> kind, control |-> control,
     controls |-> controls, phase |-> None, type |-> type,
     region |-> region, state |-> None]

\* A hold of x, the chord by its name and buttons, one region of the stick and
\* any, the trigger.
Bound == <<Binding("lift", "gesture", x, {}, "hold", None),
           Binding("arm", "gesture", None, {x, y}, "chord", "both"),
           Binding("turn", "gesture", stick, {}, "stick-region", "north"),
           Binding("move", "gesture", stick, {}, "stick-region", None),
           Binding("boost", "gesture", trigger, {}, "trigger-threshold", None)>>
=============================================================================
