---------------------------- MODULE SensorManager ----------------------------
(***************************************************************************)
(* modules/SensorManager.cpp and the devices/Aht20Driver.cpp it polls: a    *)
(* measurement is triggered, and fetched a conversion time later.  The      *)
(* manager counts with nowMs, the driver asks millis() again, which is      *)
(* later.  The failure counter and the driver's cached values and time      *)
(* stamp are left out: nobody reads them but to take a good sample over.    *)
(* Op_Xyz is Op as a plausible bug would have it.                           *)
(***************************************************************************)
EXTENDS RuntimeState

CONSTANTS
  PollInterval,   \* kPollIntervalMs, 2000
  MeasureDelay,   \* kMeasureDelayMs of both classes, 80
  Lags            \* how far millis() can be ahead of nowMs

VARIABLES
  phase,           \* m_phase
  lastPollMs,      \* m_lastPollMs
  triggerMs,       \* SensorManager::m_triggerMs
  lastGoodMs,      \* m_lastGoodMs
  warning,         \* tempSensorWarning, humiSensorWarning of RuntimeState
  measurePending,  \* Aht20Driver::m_measurePending
  driverMs         \* Aht20Driver::m_triggerMs

sensorVars ==
  <<phase, lastPollMs, triggerMs, lastGoodMs, warning, measurePending, driverMs>>

ASSUME SensorAssumption ==
  /\ PollInterval \in Nat \ {0} /\ MeasureDelay \in Nat \ {0}
  /\ Lags \subseteq Nat /\ Lags # {}

SensorTypeOK ==
  /\ phase \in {"Idle", "WaitResult"}
  /\ lastPollMs \in Times /\ triggerMs \in Times /\ lastGoodMs \in Times
  /\ driverMs \in Times
  /\ warning \in BOOLEAN /\ measurePending \in BOOLEAN

Millis_Wide(lag) == now + lag
Millis(lag) == (now + lag) % Wrap

\* Aht20Driver::init, in setup(): it starts a measurement nobody fetches.
SensorInit ==
  /\ phase = "Idle" /\ lastPollMs = 0 /\ triggerMs = 0 /\ lastGoodMs = 0
  /\ warning = FALSE
  /\ measurePending \in BOOLEAN /\ driverMs = 0

-----------------------------------------------------------------------------
MarkReadFailed_NotWarned ==
  /\ warning' = (warning \/ lastGoodMs = 0)
  /\ state' = [state EXCEPT !.sensorOk = @ /\ lastGoodMs # 0]
MarkReadFailed_SampleDropped ==
  /\ warning' = TRUE
  /\ state' = [state EXCEPT !.sensorOk = @ /\ lastGoodMs # 0,
                            !.cur = [c \in Loops |-> 0]]
\* markReadFailed: a stamp of 0 means that there was no good sample.
MarkReadFailed ==
  /\ warning' = TRUE
  /\ state' = [state EXCEPT !.sensorOk = @ /\ lastGoodMs # 0]

SampleTaken ==
  /\ warning' = FALSE
  /\ \E r \in [Loops -> Levels] : state' = [state EXCEPT !.cur = r, !.sensorOk = TRUE]

SensorIdle ==
  /\ IF phase = "Idle" THEN Since(lastPollMs) < PollInterval
                       ELSE Since(triggerMs) < MeasureDelay
  /\ UNCHANGED <<sensorVars, state>>

PollDue  == phase = "Idle" /\ Since(lastPollMs) >= PollInterval
FetchDue == phase = "WaitResult" /\ Since(triggerMs) >= MeasureDelay

\* triggerMeasurement succeeds; the driver's stamp is taken after the write.
Triggered(lag) ==
  /\ PollDue
  /\ triggerMs' = now /\ driverMs' = Millis(lag)
  /\ measurePending' = TRUE
  /\ phase' = "WaitResult"
  /\ UNCHANGED <<lastPollMs, lastGoodMs, warning, state>>

\* The write fails, or the bus was never initialised.
TriggerFailed ==
  /\ PollDue
  /\ measurePending' \in {FALSE, measurePending}
  /\ MarkReadFailed
  /\ lastPollMs' = now
  /\ UNCHANGED <<phase, triggerMs, lastGoodMs, driverMs>>

\* fetchResult does not even ask the sensor.
TooEarly(lag) == ~measurePending \/ (Millis(lag) - driverMs) % Wrap < MeasureDelay

Fetched(lag) ==
  /\ FetchDue /\ ~TooEarly(lag)
  /\ SampleTaken
  /\ measurePending' = FALSE
  /\ lastGoodMs' = now /\ lastPollMs' = now
  /\ phase' = "Idle"
  /\ UNCHANGED <<triggerMs, driverMs>>

FetchFailed_Retried ==
  /\ FetchDue
  /\ MarkReadFailed
  /\ lastPollMs' = now
  /\ UNCHANGED <<phase, triggerMs, lastGoodMs, measurePending, driverMs>>
\* Too early by the driver's clock, a failed read, or a sensor that is busy.
FetchFailed ==
  /\ FetchDue
  /\ MarkReadFailed
  /\ lastPollMs' = now
  /\ phase' = "Idle"
  /\ UNCHANGED <<triggerMs, lastGoodMs, measurePending, driverMs>>

\* tick(nowMs).
SensorTick(lag) ==
  SensorIdle \/ Triggered(lag) \/ TriggerFailed \/ Fetched(lag) \/ FetchFailed
=============================================================================
