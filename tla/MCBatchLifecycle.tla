--------------------------- MODULE MCBatchLifecycle ---------------------------
(* Instances of BatchLifecycle.  Day 10 is the first true date; the wall     *)
(* clock of a device that was never synchronised shows 0 or 1, decades ago.  *)
(* The chicken's one day is over on day 11, the duck's plan is as long as a  *)
(* plan can be.                                                              *)
EXTENDS BatchLifecycle

mcLoops == {"heater"}
mcTarget == [c \in mcLoops |-> 0]
mcLevels == {0, 1, 2}
mcSettings ==
  {[hyst |-> [c \in mcLoops |-> 1], alarmHigh |-> [c \in mcLoops |-> 1],
    alarmLow |-> [c \in mcLoops |-> 1], alarmConfirmMs |-> 4,
    alarmEnabled |-> TRUE, turningDurationMs |-> 3]}
mcRow(level, turning, interval) ==
  [target |-> [c \in mcLoops |-> level], turning |-> turning, intervalMs |-> interval]
mcEditRows == {mcRow(2, TRUE, 5)}
mcPreset ==
  [chicken |-> [days |-> 1, lockdown |-> 1,
                early |-> mcRow(1, TRUE, 6), late |-> mcRow(0, FALSE, 0)],
   duck |-> [days |-> 2, lockdown |-> 2,
             early |-> mcRow(1, TRUE, 8), late |-> mcRow(0, FALSE, 0)]]
mcEpochs == 0 .. 12
=============================================================================
