---------------------------- MODULE ClimateModule ----------------------------
(***************************************************************************)
(* modules/ClimateModule.cpp: the two thermostat loops, the minimum relay   *)
(* switching time and the confirmed out-of-band alarms.                     *)
(* An operator named Op_Xyz is Op as a plausible bug would have it; nothing *)
(* in the specification uses it.                                            *)
(***************************************************************************)
EXTENDS RuntimeState

CONSTANTS
  ClimatePeriod,   \* kTickIntervalMs, 500
  RelayMinSwitch   \* kRelayMinSwitchMs, 10000

VARIABLES
  climateLastMs,   \* m_lastMs
  alarmMs,         \* m_tempAlarmMs, m_humiAlarmMs
  lastSwitchMs     \* m_lastHeaterSwitchMs, m_lastHumidifierSwitchMs

climateVars == <<climateLastMs, alarmMs, lastSwitchMs>>

ASSUME ClimateAssumption ==
  ClimatePeriod \in Nat \ {0} /\ RelayMinSwitch \in Nat

ClimateTypeOK ==
  /\ climateLastMs \in Times
  /\ alarmMs \in [Loops -> Times]
  /\ lastSwitchMs \in [Loops -> Times]

ClimateInit ==
  /\ climateLastMs = 0
  /\ alarmMs = [c \in Loops |-> 0]
  /\ lastSwitchMs = [c \in Loops |-> 0]

ClimateDue == Since(climateLastMs) >= ClimatePeriod

ClimateInhibited_SafeModeIgnored == ~state.batchActive
ClimateInhibited == state.safeMode \/ ~state.batchActive

CanSwitch_Unlimited(c) == TRUE
\* canSwitch: a stamp of 0 means "never switched".  It is asked last, so it
\* stamps exactly when the relay switches.
CanSwitch(c) ==
  lastSwitchMs[c] = 0 \/ Since(lastSwitchMs[c]) >= RelayMinSwitch

TooLow(c)  == state.cur[c] < state.target[c] - settings.hyst[c]
TooHigh(c) == state.cur[c] > state.target[c] + settings.hyst[c]

\* controlTemp, controlHumidity.
SwitchesOn(c)  == state.sensorOk /\ TooLow(c) /\ ~gpio[c] /\ CanSwitch(c)
SwitchesOff_Fresh(c) ==
  (state.sensorOk => TooHigh(c)) /\ gpio[c] /\ ~CanSwitch(c)
SwitchesOff(c) == (state.sensorOk => TooHigh(c)) /\ gpio[c] /\ CanSwitch(c)
RelayNext(c)   == Energised(c, (gpio[c] \/ SwitchesOn(c)) /\ ~SwitchesOff(c))

\* checkAlarms.
OutOfBand(c) ==
  /\ state.sensorOk
  /\ \/ state.cur[c] - state.target[c] > settings.alarmHigh[c]
     \/ state.cur[c] - state.target[c] < -settings.alarmLow[c]
AlarmMsNext_StampedFirst(c) == IF OutOfBand(c) THEN alarmMs[c] ELSE 0
AlarmMsNext_Wide(c) ==
  IF OutOfBand(c) THEN alarmMs[c] + Since(climateLastMs) ELSE 0
AlarmMsNext(c) ==
  IF OutOfBand(c) THEN (alarmMs[c] + Since(climateLastMs)) % Wrap ELSE 0
Confirmed(c) == OutOfBand(c) /\ AlarmMsNext(c) >= settings.alarmConfirmMs
AlarmNext(c) == Confirmed(c) \/ (OutOfBand(c) /\ state.alarm[c])
BuzzerNext ==
  /\ \E c \in Loops : AlarmNext(c)
  /\ \/ gpio["buzzer"]
     \/ settings.alarmEnabled /\ \E c \in Loops : Confirmed(c)

-----------------------------------------------------------------------------
(* tick(nowMs), one disjunct per way through it. *)

ClimateIdle ==
  /\ ~ClimateDue
  /\ UNCHANGED <<climateVars, sharedVars>>

ClimatePaused_Unstamped ==
  /\ ClimateDue /\ state.manualMode
  /\ UNCHANGED <<climateVars, sharedVars>>
ClimatePaused ==
  /\ ClimateDue /\ state.manualMode
  /\ climateLastMs' = now
  /\ UNCHANGED <<alarmMs, lastSwitchMs, sharedVars>>

\* allOff: no canSwitch, and neither the alarm timers nor the switch stamps
\* are touched.
ClimateAllOff_ManualToo ==
  /\ ClimateDue /\ ClimateInhibited
  /\ climateLastMs' = now
  /\ gpio' = [o \in Outputs |-> gpio[o] /\ o \notin Loops \cup {"buzzer"}]
  /\ state' = [state EXCEPT !.on = [o \in Shown |-> @[o] /\ o \notin Loops],
                            !.alarm = [c \in Loops |-> FALSE]]
  /\ UNCHANGED <<alarmMs, lastSwitchMs, now, settings>>
ClimateAllOff ==
  /\ ClimateDue /\ ~state.manualMode /\ ClimateInhibited
  /\ climateLastMs' = now
  /\ gpio' = [o \in Outputs |-> gpio[o] /\ o \notin Loops \cup {"buzzer"}]
  /\ state' = [state EXCEPT !.on = [o \in Shown |-> @[o] /\ o \notin Loops],
                            !.alarm = [c \in Loops |-> FALSE]]
  /\ UNCHANGED <<alarmMs, lastSwitchMs, now, settings>>

ClimateControl ==
  /\ ClimateDue /\ ~state.manualMode /\ ~ClimateInhibited
  /\ climateLastMs' = now
  /\ lastSwitchMs' = [c \in Loops |-> IF SwitchesOn(c) \/ SwitchesOff(c)
                                      THEN now ELSE lastSwitchMs[c]]
  /\ alarmMs' = [c \in Loops |-> AlarmMsNext(c)]
  /\ gpio' = [o \in Outputs |-> CASE o \in Loops -> RelayNext(o)
                                  [] o = "buzzer" -> Energised(o, BuzzerNext)
                                  [] OTHER -> gpio[o]]
  /\ state' = [state EXCEPT
       !.on = [o \in Shown |-> IF o \in Loops THEN RelayNext(o) ELSE @[o]],
       !.alarm = [c \in Loops |-> AlarmNext(c)]]
  /\ UNCHANGED <<now, settings>>

ClimateTick == ClimateIdle \/ ClimatePaused \/ ClimateAllOff \/ ClimateControl
=============================================================================
