---------------------------- MODULE MCTurningLoop ----------------------------
(* Instances of TurningLoop: one time unit stands for half a second or more. *)
(* The plan's rows differ in their interval, day 0 and the days of an empty  *)
(* plan have none.                                                           *)
EXTENDS TurningLoop

mcLoops == {"heater"}
mcTarget == [c \in mcLoops |-> 0]
mcLevels == {0}
mcLoopMs == {1, 2}
mcSettings ==
  {[hyst |-> [c \in mcLoops |-> 1], alarmHigh |-> [c \in mcLoops |-> 1],
    alarmLow |-> [c \in mcLoops |-> 1], alarmConfirmMs |-> 4,
    alarmEnabled |-> TRUE, turningDurationMs |-> 3]}
mcRow(turning, interval) ==
  [target |-> mcTarget, turning |-> turning, intervalMs |-> interval]
mcPlans == {<<>>, <<mcRow(TRUE, 4), mcRow(TRUE, 6)>>}
mcPreset ==
  [chicken |-> [days |-> 2, lockdown |-> 2, early |-> mcRow(TRUE, 4), late |-> mcRow(FALSE, 0)]]
=============================================================================
