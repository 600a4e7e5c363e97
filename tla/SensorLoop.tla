------------------------------ MODULE SensorLoop ------------------------------
(***************************************************************************)
(* SensorManager under the real-time behaviour of the main loop, as         *)
(* ClimateLoop and TurningLoop have it for the other modules.  The I2C bus  *)
(* and the sensor can fail at any time; a factory reset zeroes the state    *)
(* and leaves the manager's own fields as they are.                         *)
(***************************************************************************)
EXTENDS SensorManager

CONSTANTS
  LoopMs,   \* how far the clock can move between two rounds
  Cap       \* the history variables saturate here

VARIABLES
  turn,        \* "others" or "sensor": who acts next in the round
  spent,       \* how much of the round the sensor's tick took
  sampleAge,   \* how old the sample the state shows is
  sincePoll    \* time since a measurement last ended, well or not

historyVars == <<sampleAge, sincePoll>>
loopVars == <<sharedVars, sensorVars, turn, spent, historyVars>>

ASSUME LoopMsAssumption == LoopMs \subseteq Nat \ {0} /\ Cap \in Nat

Saturate(n) == IF n > Cap THEN Cap ELSE n
MaxLoopMs == CHOOSE d \in LoopMs : \A e \in LoopMs : e <= d

\* No round is as long as it takes millis() to wrap.
ASSUME RoundsAssumption ==
  /\ \E d \in LoopMs : \A e \in LoopMs : e <= d
  /\ PollInterval + MaxLoopMs <= Wrap /\ MeasureDelay + MaxLoopMs <= Wrap

SensorLoopInit ==
  /\ now = 0 /\ state = Zero /\ settings \in SettingsVals /\ gpio = AllLow
  /\ SensorInit
  /\ turn = "others" /\ spent = 0
  /\ sampleAge = Cap /\ sincePoll = 0

Advance(d) ==
  /\ turn = "others" /\ turn' = "sensor"
  /\ d >= spent /\ spent' = 0
  /\ now' = (now + d) % Wrap
  /\ sampleAge' = Saturate(sampleAge + d)
  /\ sincePoll' = Saturate(sincePoll + d)
  /\ UNCHANGED <<state, settings, gpio, sensorVars>>

\* cmdFactoryReset, between two ticks: RuntimeState::zero clears the warning
\* with the rest.
Forget ==
  /\ turn = "others"
  /\ state' = Zero /\ warning' = FALSE
  /\ sampleAge' = Cap
  /\ UNCHANGED <<turn, spent, now, settings, gpio, phase, lastPollMs, triggerMs,
                 lastGoodMs, measurePending, driverMs, sincePoll>>

Sensor ==
  /\ turn = "sensor" /\ turn' = "others"
  /\ \E lag \in Lags :
       /\ spent' = lag
       /\ SensorTick(lag)
       /\ sampleAge' = IF Fetched(lag) THEN 0 ELSE sampleAge
  /\ sincePoll' = IF SensorIdle \/ phase' = "WaitResult" THEN sincePoll ELSE 0
  /\ UNCHANGED <<now, settings, gpio>>

-----------------------------------------------------------------------------
(* Properties *)

\* How old a sample can grow: a poll ends in the first round in which it is
\* due, and it was triggered up to a round late.
PollTime == PollInterval + MeasureDelay + MaxLoopMs - 1

(* A sample that is shown without a warning is no older than one poll: when *)
(* the bus or the sensor fails, the warning comes with the poll that should *)
(* have replaced the sample (tick, markReadFailed).                         *)
FreshUnlessWarned ==
  turn = "others" /\ state.sensorOk /\ ~warning => sampleAge < PollTime

(* The two phases never get stuck: whatever fails, and whatever the driver  *)
(* refuses because its clock is ahead, the next measurement ends within a   *)
(* poll's time of the last.                                                 *)
KeepsPolling == turn = "others" => sincePoll < PollTime

(* The other modules see no more of the sensor than Sensed allows, which is *)
(* what ClimateLoop and Incubator have in the place of this module.         *)
SensorAsSensed == [][Sensor => Sensed]_loopVars

SensorLoopNext == (\E d \in LoopMs : Advance(d)) \/ Forget \/ Sensor
SensorLoopSpec == SensorLoopInit /\ [][SensorLoopNext]_loopVars
=============================================================================
