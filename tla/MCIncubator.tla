----------------------------- MODULE MCIncubator -----------------------------
(* Instances of Incubator.  Timing is the subject of ClimateLoop and         *)
(* TurningLoop: here every tick is due in every round.                       *)
EXTENDS Incubator

mcLoops == {"heater"}
mcTarget == [c \in mcLoops |-> 0]
mcLevels == {0, 2}
mcLoopMs == {1}
mcSettings ==
  {[hyst |-> [c \in mcLoops |-> 0], alarmHigh |-> [c \in mcLoops |-> 9],
    alarmLow |-> [c \in mcLoops |-> 9], alarmConfirmMs |-> 1,
    alarmEnabled |-> TRUE, turningDurationMs |-> 1]}
mcRow(level, turning) ==
  [target |-> [c \in mcLoops |-> level], turning |-> turning, intervalMs |-> 1]
mcEditRows == {mcRow(0, FALSE)}
mcPreset ==
  [chicken |-> [days |-> 2, lockdown |-> 2, early |-> mcRow(2, TRUE), late |-> mcRow(0, FALSE)]]
=============================================================================
