---------------------------- MODULE MCClimateLoop ----------------------------
(* Instances of ClimateLoop: one time unit stands for 250 ms or more. *)
EXTENDS ClimateLoop

mcLoops == {"heater"}
mcTarget == [c \in mcLoops |-> 3]
mcLevels == {0, 3}
mcLoopMs == {1, 2}

\* A hysteresis inside an alarm band nothing leaves, and the other way round:
\* relays switch and there are no alarms, or there are alarms only, which a
\* factory reset may then confirm later or earlier.
SwitchSettings ==
  {[hyst |-> [c \in mcLoops |-> 1], alarmHigh |-> [c \in mcLoops |-> 9],
    alarmLow |-> [c \in mcLoops |-> 9], alarmConfirmMs |-> 4,
    alarmEnabled |-> TRUE, turningDurationMs |-> 3]}
AlarmSettings ==
  {[hyst |-> [c \in mcLoops |-> 9], alarmHigh |-> [c \in mcLoops |-> 2],
    alarmLow |-> [c \in mcLoops |-> 2], alarmConfirmMs |-> n,
    alarmEnabled |-> TRUE, turningDurationMs |-> 3] : n \in {3, 5}}
mcSettings == SwitchSettings \cup AlarmSettings

\* A behaviour has settings of one kind.
SameKind == settings'.hyst = settings.hyst
=============================================================================
