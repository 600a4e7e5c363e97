---------------------------- MODULE RuntimeState ----------------------------
(***************************************************************************)
(* The data every module of the firmware shares by reference: the          *)
(* RuntimeState structure (domain/RuntimeState.h), the output pins          *)
(* (devices/GpioOutput) and the settings they read.                         *)
(*                                                                         *)
(* The two control loops are copies of one another, so a loop is an index:  *)
(* "heater" stands for the temperature loop and its SSR, "humidifier" for   *)
(* the humidity loop.  Readings and targets are small integers.             *)
(***************************************************************************)
EXTENDS Clock

CONSTANTS
  Loops,          \* the control loops of the instance, a part of AllLoops
  Wired,          \* the outputs whose pin number is not -1 (PinConfig.h)
  Levels,         \* the values a reading or a target can take
  DefaultTarget,  \* targets of a RuntimeState that was just constructed
  DefaultDays,    \* its totalDays (21)
  MaxDay,         \* bound on day numbers (kMaxRows)
  SettingsVals    \* the AppSettings values of the instance

AllLoops == {"heater", "humidifier"}
Shown    == Loops \cup {"turner", "fan"}   \* outputs mirrored in RuntimeState
Outputs  == Shown \cup {"buzzer"}

VARIABLES
  state,     \* domain::RuntimeState
  settings,  \* domain::AppSettings
  gpio       \* GpioOutput::m_state of every output

sharedVars == <<now, state, settings, gpio>>

Days  == 0 .. MaxDay

ASSUME LoopsAssumption == Loops \subseteq AllLoops
ASSUME DataAssumption ==
  /\ Levels \subseteq Int
  /\ DefaultTarget \in [Loops -> Levels] /\ 0 \in Levels
  /\ MaxDay \in Nat /\ 1 \in Days /\ DefaultDays \in Days

StateType ==
  [cur : [Loops -> Levels], target : [Loops -> Levels],
   sensorOk : BOOLEAN,
   on : [Shown -> BOOLEAN], alarm : [Loops -> BOOLEAN],
   safeMode : BOOLEAN, batchActive : BOOLEAN, lockdownActive : BOOLEAN,
   turningEnabled : BOOLEAN, manualMode : BOOLEAN,
   currentDay : Days, totalDays : Days, lastTurningMs : Times]

SettingsType ==
  [hyst : [Loops -> Nat], alarmHigh : [Loops -> Nat], alarmLow : [Loops -> Nat],
   alarmConfirmMs : Nat, alarmEnabled : BOOLEAN, turningDurationMs : Nat]

ASSUME SettingsAssumption == SettingsVals \subseteq SettingsType

\* RuntimeState::zero(), the members' default initialisers.
Zero ==
  [cur |-> [c \in Loops |-> 0], target |-> DefaultTarget,
   sensorOk |-> FALSE,
   on |-> [o \in Shown |-> FALSE], alarm |-> [c \in Loops |-> FALSE],
   safeMode |-> FALSE, batchActive |-> FALSE, lockdownActive |-> FALSE,
   turningEnabled |-> TRUE, manualMode |-> FALSE,
   currentDay |-> 1, totalDays |-> DefaultDays, lastTurningMs |-> 0]

\* GpioOutput::init of all the outputs: everything off.
AllLow == [o \in Outputs |-> FALSE]

\* GpioOutput::set and the on() that calls it: an output without a pin stays off.
Energised(o, want) == want /\ o \in Wired

\* All a tick of SensorManager does to the state that any module reads;
\* SensorLoop has the module itself.
Sensed ==
  \/ \E r \in [Loops -> Levels] : state' = [state EXCEPT !.cur = r, !.sensorOk = TRUE]
  \/ state' = [state EXCEPT !.sensorOk = FALSE]
  \/ UNCHANGED state

\* The mirror flags agree with the pins of the outputs in S.
MirrorAgrees(S) == \A o \in S : state.on[o] = gpio[o]

SharedTypeOK ==
  /\ now \in Times
  /\ state \in StateType
  /\ settings \in SettingsVals
  /\ gpio \in [Outputs -> BOOLEAN]
=============================================================================
