--------------------------- MODULE SensorLoopProofs ---------------------------
(***************************************************************************)
(* Proofs about SensorLoop: a poll ends in time for every period and every  *)
(* length of a round, whatever fails, and the stamps of the manager measure *)
(* it although they wrap.                                                   *)
(***************************************************************************)
EXTENDS SensorLoop, ClockProofs

-----------------------------------------------------------------------------
(* The inductive invariant. *)

HistoryOK ==
  /\ turn \in {"others", "sensor"} /\ spent \in Nat
  /\ sampleAge \in Nat /\ sincePoll \in Nat

\* How far a stamp can have aged since the tick that last looked at it.
Late == IF turn = "others" THEN 0 ELSE MaxLoopMs

\* Between two polls m_lastPollMs measures the time since the last.
IdleClock ==
  phase = "Idle" =>
    /\ sincePoll = Saturate(Since(lastPollMs))
    /\ Since(lastPollMs) < PollInterval + Late

\* A poll was triggered within a round of being due, and m_triggerMs measures
\* the time since.
WaitClock ==
  phase = "WaitResult" =>
    /\ Since(triggerMs) < MeasureDelay + Late
    /\ sincePoll < PollInterval + MaxLoopMs + Since(triggerMs)

\* A sample without a warning is that of the last poll.
SampleOfLastPoll == state.sensorOk /\ ~warning => sampleAge = sincePoll

SensorIInv ==
  SharedTypeOK /\ SensorTypeOK /\ HistoryOK /\ IdleClock /\ WaitClock /\ SampleOfLastPoll

-----------------------------------------------------------------------------
(* The constants, and the histories. *)

LEMMA Rounds ==
  /\ MaxLoopMs \in Nat \ {0} /\ \A d \in LoopMs : d \in Nat \ {0} /\ d <= MaxLoopMs
  /\ PollInterval \in Nat \ {0} /\ MeasureDelay \in Nat \ {0}
  /\ PollInterval + MaxLoopMs <= Wrap /\ MeasureDelay + MaxLoopMs <= Wrap
  <1>1. MaxLoopMs \in LoopMs /\ \A d \in LoopMs : d <= MaxLoopMs
    BY RoundsAssumption DEF MaxLoopMs
  <1> QED BY <1>1, RoundsAssumption, LoopMsAssumption, SensorAssumption

LEMMA SaturateIs ==
  ASSUME NEW n \in Nat, NEW d \in Nat
  PROVE  /\ Saturate(n) \in Nat /\ Saturate(n) <= n
         /\ Saturate(Saturate(n) + d) = Saturate(n + d)
         /\ Saturate(0) = 0
  BY LoopMsAssumption DEF Saturate

LEMMA ZeroInStateType == Zero \in StateType
  BY DataAssumption, LoopsAssumption, ClockAssumption DEF Zero, StateType, Shown, Days, Times

-----------------------------------------------------------------------------
(* The steps. *)

LEMMA AdvanceStep ==
  ASSUME SensorIInv, NEW d \in LoopMs, Advance(d)
  PROVE  SensorIInv'
  <1>1. d \in Nat /\ d <= MaxLoopMs /\ turn = "others" /\ turn' = "sensor"
    BY Rounds DEF Advance
  <1>2. now \in Times /\ lastPollMs \in Times /\ triggerMs \in Times
        /\ sincePoll \in Nat /\ sampleAge \in Nat
    BY DEF SensorIInv, SharedTypeOK, SensorTypeOK, HistoryOK
  <1>3. SensorTypeOK' /\ HistoryOK'
    <2>1. Saturate(sincePoll + d) \in Nat /\ Saturate(sampleAge + d) \in Nat
      <3>1. sincePoll + d \in Nat /\ sampleAge + d \in Nat
        BY <1>1, <1>2
      <3> QED BY <3>1, SaturateIs
    <2> QED BY <2>1 DEF Advance, SensorIInv, SensorTypeOK, sensorVars, Times, HistoryOK
  <1>4. SharedTypeOK'
    <2>1. (now + d) % Wrap \in Times
      <3>1. now + d \in Int
        BY <1>1, <1>2, TimesAreNat
      <3> QED BY <3>1, ModInTimes
    <2> QED BY <2>1 DEF Advance, SensorIInv, SharedTypeOK, Times
  <1>5. IdleClock'
    <2> SUFFICES ASSUME phase = "Idle"
                 PROVE  /\ sincePoll' = Saturate(Since(lastPollMs)')
                        /\ Since(lastPollMs)' < PollInterval + MaxLoopMs
      BY <1>1 DEF Advance, sensorVars, IdleClock, Late
    <2>1. sincePoll = Saturate(Since(lastPollMs)) /\ Since(lastPollMs) < PollInterval
      BY <1>1, Rounds DEF SensorIInv, IdleClock, Late
    <2>2. Since(lastPollMs) \in Nat /\ Since(lastPollMs) + d < PollInterval + MaxLoopMs
      BY <1>1, <1>2, <2>1, SinceIs, Rounds
    <2>3. Since(lastPollMs)' = Since(lastPollMs) + d
      BY <1>1, <1>2, <2>2, SinceGrows, Rounds, ClockAssumption DEF Advance, sensorVars, Since
    <2>4. sincePoll' = Saturate(Since(lastPollMs) + d)
      BY <1>1, <2>1, <2>2, SaturateIs DEF Advance
    <2> QED BY <2>2, <2>3, <2>4
  <1>6. WaitClock'
    <2> SUFFICES ASSUME phase = "WaitResult"
                 PROVE  /\ Since(triggerMs)' < MeasureDelay + MaxLoopMs
                        /\ sincePoll' < PollInterval + MaxLoopMs + Since(triggerMs)'
      BY <1>1 DEF Advance, sensorVars, WaitClock, Late
    <2>1. /\ sincePoll < PollInterval + MaxLoopMs + Since(triggerMs)
          /\ Since(triggerMs) < MeasureDelay
      BY <1>1, Rounds DEF SensorIInv, WaitClock, Late
    <2>2. Since(triggerMs) \in Nat /\ Since(triggerMs) + d < MeasureDelay + MaxLoopMs
      BY <1>1, <1>2, <2>1, SinceIs, Rounds
    <2>3. Since(triggerMs)' = Since(triggerMs) + d
      BY <1>1, <1>2, <2>2, SinceGrows, Rounds, ClockAssumption DEF Advance, sensorVars, Since
    <2>4. sincePoll' <= sincePoll + d /\ sincePoll' \in Nat
      <3>1. sincePoll + d \in Nat /\ sincePoll' = Saturate(sincePoll + d)
        BY <1>1, <1>2 DEF Advance
      <3> QED BY <3>1, SaturateIs
    <2> QED BY <1>1, <1>2, <2>1, <2>2, <2>3, <2>4, Rounds
  <1>7. SampleOfLastPoll'
    BY DEF Advance, SensorIInv, SampleOfLastPoll, sensorVars
  <1> QED BY <1>3, <1>4, <1>5, <1>6, <1>7 DEF SensorIInv

LEMMA ForgetStep ==
  ASSUME SensorIInv, Forget
  PROVE  SensorIInv'
  <1>1. SharedTypeOK' /\ SensorTypeOK'
    BY ZeroInStateType DEF Forget, SensorIInv, SharedTypeOK, SensorTypeOK, Times
  <1>2. HistoryOK'
    BY LoopMsAssumption DEF Forget, SensorIInv, HistoryOK
  <1>3. IdleClock' /\ WaitClock'
    BY DEF Forget, SensorIInv, IdleClock, WaitClock, Since, Late
  <1>4. SampleOfLastPoll'
    BY DEF Forget, SampleOfLastPoll, Zero
  <1> QED BY <1>1, <1>2, <1>3, <1>4 DEF SensorIInv

\* Whether a poll ends with a sample or without, it does so now.
LEMMA PollEnds ==
  ASSUME SensorIInv, turn' = "others", UNCHANGED <<now, settings, gpio>>,
         phase' = "Idle", lastPollMs' = now, sincePoll' = 0,
         spent' \in Nat, sampleAge' \in Nat, SensorTypeOK', state' \in StateType,
         state'.sensorOk /\ ~warning' => sampleAge' = 0
  PROVE  SensorIInv'
  <1>1. now \in Times /\ Since(lastPollMs)' = 0
    BY SinceNow DEF SensorIInv, SharedTypeOK, Since
  <1>2. SharedTypeOK' /\ HistoryOK'
    BY DEF SensorIInv, SharedTypeOK, HistoryOK, Times
  <1>3. IdleClock' /\ WaitClock'
    BY <1>1, SaturateIs, Rounds DEF IdleClock, WaitClock, Late, Saturate
  <1>4. SampleOfLastPoll'
    BY DEF SampleOfLastPoll
  <1> QED BY <1>2, <1>3, <1>4 DEF SensorIInv

LEMMA SampleType ==
  ASSUME state \in StateType
  PROVE  /\ SampleTaken => state' \in StateType /\ warning' \in BOOLEAN
         /\ MarkReadFailed => state' \in StateType /\ warning'
  BY DEF StateType, SampleTaken, MarkReadFailed

LEMMA SensorStep ==
  ASSUME SensorIInv, Sensor
  PROVE  SensorIInv'
  <1> PICK lag \in Lags : /\ spent' = lag
                         /\ SensorTick(lag)
                         /\ sampleAge' = IF Fetched(lag) THEN 0 ELSE sampleAge
    BY DEF Sensor
  <1>1. /\ SharedTypeOK /\ SensorTypeOK /\ HistoryOK
        /\ now \in Times /\ state \in StateType /\ lag \in Nat
        /\ turn = "sensor" /\ turn' = "others" /\ UNCHANGED <<now, settings, gpio>>
    BY SensorAssumption DEF SensorIInv, SharedTypeOK, Sensor
  <1>0. (PollDue \/ FetchDue) => ~SensorIdle
    <2>1. Since(lastPollMs) \in Nat /\ Since(triggerMs) \in Nat
      BY <1>1, SinceIs DEF SensorTypeOK
    <2> QED BY <2>1, Rounds DEF PollDue, FetchDue, SensorIdle
  <1>2. sincePoll' = IF SensorIdle \/ phase' = "WaitResult" THEN sincePoll ELSE 0
    BY DEF Sensor
  <1>3. CASE SensorIdle
    <2>1. UNCHANGED <<sensorVars, state, sincePoll, sampleAge>>
      BY <1>0, <1>2, <1>3 DEF SensorIdle, Fetched
    <2>2. SharedTypeOK' /\ SensorTypeOK' /\ HistoryOK' /\ SampleOfLastPoll'
      BY <1>1, <2>1
         DEF SharedTypeOK, SensorTypeOK, HistoryOK, SampleOfLastPoll, SensorIInv, sensorVars,
             Times
    <2>3. IdleClock' /\ WaitClock'
      BY <1>1, <1>3, <2>1, Rounds
         DEF SensorIdle, SensorIInv, IdleClock, WaitClock, Late, Since, Saturate, sensorVars
    <2> QED BY <2>2, <2>3 DEF SensorIInv
  <1>4. CASE Triggered(lag)
    <2>1. UNCHANGED <<lastPollMs, lastGoodMs, warning, state, sincePoll, sampleAge>>
      BY <1>2, <1>4 DEF Triggered, PollDue, Fetched, FetchDue
    <2>2. Millis(lag) \in Times
      <3>1. now + lag \in Int
        BY <1>1, TimesAreNat
      <3> QED BY <3>1, ModInTimes DEF Millis
    <2>3. SharedTypeOK' /\ SensorTypeOK' /\ HistoryOK' /\ SampleOfLastPoll'
      BY <1>1, <1>4, <2>1, <2>2
         DEF Triggered, SharedTypeOK, SensorTypeOK, HistoryOK, SampleOfLastPoll, SensorIInv, Times
    <2>4. /\ sincePoll = Saturate(Since(lastPollMs)) /\ Since(lastPollMs) \in Nat
          /\ Since(lastPollMs) < PollInterval + MaxLoopMs
      BY <1>1, <1>4, SinceIs
         DEF Triggered, PollDue, SensorIInv, IdleClock, Late, SensorTypeOK
    <2>5. sincePoll < PollInterval + MaxLoopMs
      BY <2>4, SaturateIs, Rounds
    <2>6. Since(triggerMs)' = 0
      BY <1>1, <1>4, SinceNow DEF Triggered, Since
    <2>7. IdleClock' /\ WaitClock'
      BY <1>1, <1>4, <2>1, <2>5, <2>6, Rounds DEF Triggered, IdleClock, WaitClock, Late
    <2> QED BY <2>3, <2>7 DEF SensorIInv
  <1>5. CASE TriggerFailed
    <2>1. ~SensorIdle /\ ~Fetched(lag) /\ phase' = "Idle"
      BY <1>0, <1>5 DEF TriggerFailed, PollDue, Fetched, FetchDue
    <2>2. SensorTypeOK' /\ state' \in StateType /\ warning'
      BY <1>1, <1>5, SampleType DEF TriggerFailed, SensorTypeOK, Times
    <2> QED BY <1>1, <1>2, <1>5, <2>1, <2>2, PollEnds DEF TriggerFailed, HistoryOK
  <1>6. CASE Fetched(lag)
    <2>1. ~SensorIdle /\ phase' = "Idle"
      BY <1>0, <1>6 DEF Fetched
    <2>2. SensorTypeOK' /\ state' \in StateType
      BY <1>1, <1>6, SampleType DEF Fetched, SensorTypeOK, Times
    <2> QED BY <1>1, <1>2, <1>6, <2>1, <2>2, PollEnds DEF Fetched
  <1>7. CASE FetchFailed
    <2>1. ~SensorIdle /\ phase' = "Idle"
      BY <1>0, <1>7 DEF FetchFailed
    <2>2. SensorTypeOK' /\ state' \in StateType /\ warning' /\ sampleAge' \in Nat
      BY <1>1, <1>7, SampleType DEF FetchFailed, SensorTypeOK, HistoryOK, Times
    <2> QED BY <1>1, <1>2, <1>7, <2>1, <2>2, PollEnds DEF FetchFailed
  <1> QED BY <1>3, <1>4, <1>5, <1>6, <1>7 DEF SensorTick

LEMMA SensorInitInv == SensorLoopInit => SensorIInv
  <1> SUFFICES ASSUME SensorLoopInit PROVE SensorIInv
    OBVIOUS
  <1>1. SharedTypeOK /\ SensorTypeOK
    BY ZeroInStateType, TimesAreNat
       DEF SensorLoopInit, SensorInit, SharedTypeOK, SensorTypeOK, AllLow
  <1>2. HistoryOK
    BY LoopMsAssumption DEF SensorLoopInit, HistoryOK
  <1>3. IdleClock /\ WaitClock
    <2>1. Since(lastPollMs) = 0
      BY TimesAreNat, SinceNow DEF SensorLoopInit, SensorInit
    <2>2. Saturate(0) = 0
      BY SaturateIs
    <2> QED BY <2>1, <2>2, Rounds DEF SensorLoopInit, SensorInit, IdleClock, WaitClock, Late
  <1>4. SampleOfLastPoll
    BY DEF SensorLoopInit, Zero, SampleOfLastPoll
  <1> QED BY <1>1, <1>2, <1>3, <1>4 DEF SensorIInv

-----------------------------------------------------------------------------
(* The theorems. *)

(* The invariant holds in every reachable state.                            *)
THEOREM SensorInvariance == SensorLoopSpec => []SensorIInv
  <1>1. SensorIInv /\ [SensorLoopNext]_loopVars => SensorIInv'
    <2> SUFFICES ASSUME SensorIInv, [SensorLoopNext]_loopVars PROVE SensorIInv'
      OBVIOUS
    <2>1. ASSUME NEW d \in LoopMs, Advance(d) PROVE SensorIInv'
      BY <2>1, AdvanceStep
    <2>2. CASE Forget
      BY <2>2, ForgetStep
    <2>3. CASE Sensor
      BY <2>3, SensorStep
    <2>4. CASE UNCHANGED loopVars
      BY <2>4
         DEF SensorIInv, SharedTypeOK, SensorTypeOK, HistoryOK, IdleClock, WaitClock, Late,
             SampleOfLastPoll, Since, Saturate, loopVars, sharedVars, sensorVars, historyVars,
             Times
    <2> QED BY <2>1, <2>2, <2>3, <2>4 DEF SensorLoopNext
  <1> QED BY <1>1, SensorInitInv, PTL DEF SensorLoopSpec

(* The stamps of manager and driver stay within the clock's width.          *)
THEOREM SensorTypeCorrect == SensorLoopSpec => []SensorTypeOK
  <1>1. SensorIInv => SensorTypeOK
    BY DEF SensorIInv
  <1> QED BY <1>1, SensorInvariance, PTL

(* Whatever fails, and however far the driver's clock is ahead, a poll ends  *)
(* within a period, a conversion and a round of the last (tick).            *)
THEOREM KeepsPollingHolds == SensorLoopSpec => []KeepsPolling
  <1>1. SensorIInv => KeepsPolling
    <2> SUFFICES ASSUME SensorIInv, turn = "others" PROVE sincePoll < PollTime
      BY DEF KeepsPolling
    <2>1. now \in Times /\ lastPollMs \in Times /\ triggerMs \in Times /\ sincePoll \in Nat
      BY DEF SensorIInv, SharedTypeOK, SensorTypeOK, HistoryOK
    <2>2. CASE phase = "Idle"
      <3>1. Since(lastPollMs) \in Nat /\ sincePoll <= Since(lastPollMs)
        BY <2>1, <2>2, SinceIs, SaturateIs DEF SensorIInv, IdleClock
      <3> QED BY <2>1, <2>2, <3>1, Rounds DEF SensorIInv, IdleClock, Late, PollTime
    <2>3. CASE phase = "WaitResult"
      <3>1. Since(triggerMs) \in Nat
        BY <2>1, SinceIs
      <3> QED BY <2>1, <2>3, <3>1, Rounds DEF SensorIInv, WaitClock, Late, PollTime
    <2> QED BY <2>2, <2>3 DEF SensorIInv, SensorTypeOK
  <1> QED BY <1>1, SensorInvariance, PTL

(* A sample that is shown without a warning is no older than a poll (tick,  *)
(* markReadFailed).                                                         *)
THEOREM FreshUnlessWarnedHolds == SensorLoopSpec => []FreshUnlessWarned
  <1>1. SensorIInv /\ KeepsPolling => FreshUnlessWarned
    BY DEF SensorIInv, SampleOfLastPoll, KeepsPolling, FreshUnlessWarned
  <1> QED BY <1>1, SensorInvariance, KeepsPollingHolds, PTL

(* Every step of the manager is one that Sensed allows: what ClimateLoop    *)
(* and Incubator have in its place is what it does.                         *)
THEOREM SensorImplementsSensed == SensorLoopSpec => SensorAsSensed
  <1>1. SensorIInv /\ Sensor => Sensed
    <2> SUFFICES ASSUME SensorIInv, Sensor PROVE Sensed
      OBVIOUS
    <2>1. state \in StateType
      BY DEF SensorIInv, SharedTypeOK
    <2>2. ASSUME MarkReadFailed PROVE Sensed
      <3>1. state' = [state EXCEPT !.sensorOk = FALSE] \/ state' = state
        BY <2>1, <2>2 DEF MarkReadFailed, StateType
      <3> QED BY <3>1 DEF Sensed
    <2>3. SampleTaken => Sensed
      BY DEF SampleTaken, Sensed
    <2>4. UNCHANGED state => Sensed
      BY DEF Sensed
    <2> QED BY <2>2, <2>3, <2>4
            DEF Sensor, SensorTick, SensorIdle, Triggered, TriggerFailed, Fetched, FetchFailed
  <1>2. SensorIInv /\ [SensorLoopNext]_loopVars => [Sensor => Sensed]_loopVars
    BY <1>1
  <1> QED BY <1>2, SensorInvariance, PTL DEF SensorLoopSpec, SensorAsSensed
=============================================================================
