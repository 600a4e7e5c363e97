---------------------------- MODULE MCSensorLoop ----------------------------
(* Instances of SensorLoop. *)
EXTENDS SensorLoop

mcLoops == {"heater"}
mcTarget == [c \in mcLoops |-> 0]
mcLevels == {0, 1}
mcLoopMs == {1, 2, 3}
mcLags == {0, 1}
mcSettings ==
  {[hyst |-> [c \in mcLoops |-> 1], alarmHigh |-> [c \in mcLoops |-> 1],
    alarmLow |-> [c \in mcLoops |-> 1], alarmConfirmMs |-> 4,
    alarmEnabled |-> TRUE, turningDurationMs |-> 3]}
=============================================================================
