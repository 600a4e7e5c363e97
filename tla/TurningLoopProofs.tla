-------------------------- MODULE TurningLoopProofs --------------------------
(***************************************************************************)
(* Proofs about TurningLoop: how long the turner runs, how often it starts  *)
(* and how long the eggs lie still, for all plans, edits, periods, durations *)
(* and lengths of a round.                                                  *)
(***************************************************************************)
EXTENDS TurningLoop, ClockProofs

-----------------------------------------------------------------------------
(* The inductive invariant. *)

Duration == settings.turningDurationMs

HistoryOK ==
  /\ turn \in {"others", "turning"}
  /\ runMs \in Nat /\ sinceTurn \in Nat /\ stillMs \in Nat

PlanKnown == plan \in Plans

\* Where turning is allowed, the row of the day asks for no more than the
\* longest interval there was, and that is shorter than the clock takes to wrap.
LongestOK ==
  /\ longest \in Nat /\ longest + TurningPeriod + MaxLoopMs <= Wrap
  /\ TurningAllowed => RowInterval <= longest

\* The ages of the three stamps: of the last tick that was due, of the moment
\* the turner was switched on, and of the one the interval is counted from.
TickAge == Since(turningLastMs)
RunAge == Since(turningOnMs)
StartAge == Since(state.lastTurningMs)

\* How far a stamp can have aged since the tick that last looked at it.
Late == IF turn = "others" THEN 0 ELSE MaxLoopMs

TickClock == TickAge < TurningPeriod + Late

\* While the turner runs by itself, m_turningOnMs measures for how long.
RunClock ==
  (gpio["turner"] /\ ~state.manualMode) \/ runMs > 0 =>
    isTurning /\ runMs <= RunAge /\ RunAge < Duration + TickAge

\* lastTurningMs never measures more than the time since the last start.
StartClock == sinceTurn < Cap => StartAge <= sinceTurn

\* Eggs that lie still wait for a tick, for the end of a left-over turning, or
\* for the interval to pass; the stamp they wait by has not wrapped since.
StillOnlyIfAllowed == stillMs > 0 => TurningAllowed
StillTurning ==
  isTurning => \/ stillMs <= TickAge
               \/ RunAge < Duration + TickAge /\ stillMs <= MaxGap + RunAge
StillWaiting ==
  ~isTurning =>
    \/ stillMs < 2 * MaxGap + Duration + TickAge
    \/ StartAge < longest + TickAge /\ stillMs < 3 * MaxGap + Duration + StartAge

TurningIInv ==
  /\ SharedTypeOK /\ TurningTypeOK /\ HistoryOK /\ PlanKnown /\ LongestOK
  /\ TickClock /\ RunClock /\ StartClock
  /\ StillOnlyIfAllowed /\ StillTurning /\ StillWaiting

-----------------------------------------------------------------------------
(* The constants, the plan and the histories. *)

LEMMA RoundsOf ==
  ASSUME NEW s \in SettingsVals
  PROVE  /\ MaxLoopMs \in Nat \ {0} /\ \A d \in LoopMs : d \in Nat \ {0} /\ d <= MaxLoopMs
         /\ TurningPeriod \in Nat \ {0} /\ MaxGap \in Nat
         /\ MaxGap = TurningPeriod + MaxLoopMs - 1
         /\ s.turningDurationMs \in Nat \ {0}
         /\ s.turningDurationMs + TurningPeriod + MaxLoopMs <= Wrap
         /\ Wrap \in Nat \ {0} /\ TurningPeriod + MaxLoopMs <= Wrap
  <1>1. MaxLoopMs \in LoopMs /\ \A d \in LoopMs : d <= MaxLoopMs
    BY RoundsAssumption DEF MaxLoopMs
  <1>2. MaxLoopMs \in Nat \ {0} /\ TurningPeriod \in Nat \ {0}
    BY <1>1, LoopMsAssumption, TurningAssumption
  <1>3. s.turningDurationMs \in Nat
    BY SettingsAssumption DEF SettingsType
  <1> QED BY <1>1, <1>2, <1>3, RoundsAssumption, LoopMsAssumption, ClockAssumption DEF MaxGap

LEMMA Rounds ==
  ASSUME settings \in SettingsVals
  PROVE  /\ MaxLoopMs \in Nat \ {0} /\ \A d \in LoopMs : d \in Nat \ {0} /\ d <= MaxLoopMs
         /\ TurningPeriod \in Nat \ {0} /\ MaxGap \in Nat
         /\ MaxGap = TurningPeriod + MaxLoopMs - 1
         /\ Duration \in Nat \ {0} /\ Duration + TurningPeriod + MaxLoopMs <= Wrap
         /\ Wrap \in Nat \ {0} /\ TurningPeriod + MaxLoopMs <= Wrap
  BY RoundsOf DEF Duration

LEMMA SaturateIs ==
  ASSUME NEW n \in Nat
  PROVE  /\ Saturate(n) \in Nat /\ Saturate(n) <= n
         /\ Saturate(n) < Cap => Saturate(n) = n
  BY LoopMsAssumption DEF Saturate

\* The clock does not wrap within an interval a plan can ask for.
LEMMA IntervalOf ==
  ASSUME NEW p \in Plans, NEW day \in DOMAIN p
  PROVE  /\ p[day].intervalMs \in Nat /\ p[day].intervalMs <= Cap
         /\ p[day].intervalMs + TurningPeriod + MaxLoopMs <= Wrap
  <1>1. p \in Seq(Row)
    BY RoundsAssumption
  <1>2. p[day] \in Row
    BY <1>1
  <1>3. p[day].intervalMs \in Nat
    BY <1>2 DEF Row
  <1> QED BY <1>3, RoundsAssumption

\* The module's interval is the one the plan asks for, whatever the plan and
\* the day.
LEMMA IntervalIs ==
  ASSUME PlanKnown, state \in StateType
  PROVE  IntervalMs = RowInterval
  <1>1. plan \in Seq(Row) /\ state.currentDay \in Nat
    BY RoundsAssumption, DataAssumption DEF PlanKnown, StateType, Days
  <1>2. HasRow(plan, state.currentDay) <=> state.currentDay \in DOMAIN plan
    BY <1>1 DEF HasRow
  <1> QED BY <1>2 DEF IntervalMs, RowInterval

LEMMA RowIntervalIs ==
  ASSUME PlanKnown, settings \in SettingsVals
  PROVE  /\ RowInterval \in Nat /\ RowInterval <= Cap
         /\ RowInterval + TurningPeriod + MaxLoopMs <= Wrap
  BY IntervalOf, Rounds, LoopMsAssumption DEF PlanKnown, RowInterval

\* The same, of what a step leads to.
LEMMA NextRowInterval ==
  ASSUME PlanKnown', settings' \in SettingsVals
  PROVE  RowInterval' \in Nat /\ RowInterval' + TurningPeriod + MaxLoopMs <= Wrap
  BY IntervalOf, RoundsOf DEF PlanKnown, RowInterval

LEMMA ZeroInStateType == Zero \in StateType
  BY DataAssumption, LoopsAssumption, ClockAssumption DEF Zero, StateType, Shown, Days, Times

-----------------------------------------------------------------------------
(* The steps. *)

\* What the types say of the ages.
LEMMA Ages ==
  ASSUME SharedTypeOK, TurningTypeOK
  PROVE  /\ now \in Times /\ turningLastMs \in Times /\ turningOnMs \in Times
         /\ state.lastTurningMs \in Times
         /\ TickAge \in Nat /\ RunAge \in Nat /\ StartAge \in Nat
  <1>1. /\ now \in Times /\ turningLastMs \in Times /\ turningOnMs \in Times
        /\ state.lastTurningMs \in Times
    BY DEF SharedTypeOK, TurningTypeOK, StateType
  <1> QED BY <1>1, SinceIs DEF TickAge, RunAge, StartAge

LEMMA AdvanceStep ==
  ASSUME TurningIInv, NEW d \in LoopMs, Advance(d)
  PROVE  TurningIInv'
  <1>1. /\ SharedTypeOK /\ TurningTypeOK /\ HistoryOK /\ PlanKnown
        /\ turn = "others" /\ turn' = "turning" /\ now' = (now + d) % Wrap
        /\ UNCHANGED <<state, settings, gpio, batch, plan>>
        /\ UNCHANGED <<turningLastMs, turningOnMs, isTurning, longest>>
    BY DEF TurningIInv, Advance, planVars, turningVars
  <1>2. /\ MaxLoopMs \in Nat /\ d \in Nat /\ d <= MaxLoopMs
        /\ TurningPeriod \in Nat \ {0} /\ MaxGap \in Nat
        /\ Duration \in Nat \ {0} /\ Duration + TurningPeriod + MaxLoopMs <= Wrap
        /\ longest \in Nat /\ longest + TurningPeriod + MaxLoopMs <= Wrap
    BY <1>1, Rounds DEF SharedTypeOK, TurningIInv, LongestOK
  <1>3. /\ now \in Times /\ turningLastMs \in Times /\ turningOnMs \in Times
        /\ state.lastTurningMs \in Times
        /\ TickAge \in Nat /\ RunAge \in Nat /\ StartAge \in Nat
    BY <1>1, Ages
  <1>4. TickAge < TurningPeriod /\ Wrap \in Nat
    BY <1>1, <1>2, ClockAssumption DEF TurningIInv, TickClock, Late
  <1>5. TickAge' = TickAge + d
    <2>1. Since(turningLastMs) + d < Wrap
      BY <1>2, <1>3, <1>4 DEF TickAge
    <2> QED BY <1>1, <1>2, <1>3, <2>1, SinceGrows DEF TickAge, Since
  <1>6. RunAge < Duration + TickAge => RunAge' = RunAge + d
    <2> SUFFICES ASSUME RunAge < Duration + TickAge PROVE RunAge' = RunAge + d
      OBVIOUS
    <2>1. Since(turningOnMs) + d < Wrap
      BY <1>2, <1>3, <1>4 DEF RunAge
    <2> QED BY <1>1, <1>2, <1>3, <2>1, SinceGrows DEF RunAge, Since
  <1>7. StartAge < longest + TickAge => StartAge' = StartAge + d
    <2> SUFFICES ASSUME StartAge < longest + TickAge PROVE StartAge' = StartAge + d
      OBVIOUS
    <2>1. Since(state.lastTurningMs) + d < Wrap
      BY <1>2, <1>3, <1>4 DEF StartAge
    <2> QED BY <1>1, <1>2, <1>3, <2>1, SinceGrows DEF StartAge, Since
  <1>8. StartAge' \in Nat /\ StartAge' <= StartAge + d
    <2>1. d < Wrap
      BY <1>2, <1>4
    <2> QED BY <1>1, <1>2, <1>3, <2>1, SinceAtMost DEF StartAge, Since
  <1>9. /\ runMs \in Nat /\ sinceTurn \in Nat /\ stillMs \in Nat
        /\ runMs' \in Nat /\ sinceTurn' \in Nat /\ stillMs' \in Nat
        /\ runMs' <= runMs + d /\ stillMs' <= stillMs + d
        /\ runMs' > 0 => gpio["turner"] /\ ~state.manualMode
        /\ stillMs' > 0 => TurningAllowed
        /\ sinceTurn' < Cap => sinceTurn < Cap /\ sinceTurn' = sinceTurn + d
    <2>1. runMs + d \in Nat /\ sinceTurn + d \in Nat /\ stillMs + d \in Nat
      BY <1>1, <1>2 DEF HistoryOK
    <2> QED BY <1>1, <1>2, <2>1, SaturateIs, LoopMsAssumption DEF Advance, HistoryOK
  <1>10. Duration' = Duration /\ TurningAllowed' = TurningAllowed
    BY <1>1 DEF Duration, TurningAllowed
  <1>11. SharedTypeOK' /\ TurningTypeOK' /\ HistoryOK' /\ PlanKnown' /\ LongestOK'
    <2>1. now' \in Times
      <3>1. now + d \in Int
        BY <1>2, <1>3, TimesAreNat
      <3> QED BY <1>1, <3>1, ModInTimes
    <2> QED BY <1>1, <1>9, <2>1
            DEF TurningIInv, SharedTypeOK, TurningTypeOK, HistoryOK, PlanKnown, LongestOK,
                RowInterval, TurningAllowed, Times
  <1>12. TickClock'
    BY <1>1, <1>2, <1>3, <1>4, <1>5 DEF TickClock, Late
  <1>13. RunClock'
    <2> SUFFICES ASSUME gpio["turner"], ~state.manualMode
                 PROVE  isTurning /\ runMs' <= RunAge' /\ RunAge' < Duration + TickAge'
      BY <1>1, <1>9, <1>10 DEF RunClock
    <2>1. isTurning /\ runMs <= RunAge /\ RunAge < Duration + TickAge
      BY DEF TurningIInv, RunClock
    <2> QED BY <1>2, <1>3, <1>5, <1>6, <1>9, <2>1
  <1>14. StartClock'
    BY <1>2, <1>3, <1>8, <1>9 DEF TurningIInv, StartClock
  <1>15. StillOnlyIfAllowed'
    BY <1>9, <1>10 DEF StillOnlyIfAllowed
  <1>16. StillTurning'
    BY <1>1, <1>2, <1>3, <1>5, <1>6, <1>9, <1>10 DEF TurningIInv, StillTurning
  <1>17. StillWaiting'
    BY <1>1, <1>2, <1>3, <1>5, <1>7, <1>9, <1>10 DEF TurningIInv, StillWaiting
  <1> QED BY <1>11, <1>12, <1>13, <1>14, <1>15, <1>16, <1>17 DEF TurningIInv

\* What other components do, command by command, to what the module reads.
LEMMA OthersType ==
  ASSUME SharedTypeOK, PlanKnown, Schedule \/ UserCommand \/ Forget, UNCHANGED now
  PROVE  /\ SharedTypeOK' /\ PlanKnown' /\ UNCHANGED settings
         /\ (gpio["turner"] /\ ~state.manualMode)' => gpio["turner"] /\ ~state.manualMode
         /\ state'.lastTurningMs = state.lastTurningMs \/ ~TurningAllowed'
  <1>1. state \in StateType /\ gpio \in [Outputs -> BOOLEAN]
    BY DEF SharedTypeOK
  <1>2. CASE Schedule
    <2>1. /\ state' \in StateType /\ state'.manualMode = state.manualMode
          /\ state'.lastTurningMs = state.lastTurningMs
      BY <1>1, <1>2 DEF Schedule, StateType
    <2> QED BY <1>2, <2>1 DEF Schedule, SharedTypeOK, PlanKnown, Times
  <1>3. CASE Forget
    BY <1>3, ZeroInStateType, RoundsAssumption
       DEF Forget, SharedTypeOK, PlanKnown, TurningAllowed, Zero, Times
  <1>4. CASE UserCommand
    <2>1. CASE EnterManualMode \/ ExitManualMode
      <3>1. ManualOutputsOff \in [Outputs -> BOOLEAN] /\ ~ManualOutputsOff["turner"]
        <4>1. "turner" \in Outputs /\ "turner" \in ManualOutputs
          BY DEF ManualOutputs, Outputs, Shown
        <4>2. ManualOutputsOff \in [Outputs -> BOOLEAN]
          BY DEF ManualOutputsOff
        <4>3. ManualOutputsOff["turner"] = (gpio["turner"] /\ "turner" \notin ManualOutputs)
          BY <4>1 DEF ManualOutputsOff
        <4>4. ~ManualOutputsOff["turner"]
          BY <4>1, <4>3
        <4> QED BY <4>2, <4>4
      <3>2. state' \in StateType /\ state'.lastTurningMs = state.lastTurningMs
        <4>1. CASE EnterManualMode
          BY <1>1, <4>1 DEF EnterManualMode, StateType
        <4>2. CASE ExitManualMode
          BY <1>1, <4>2 DEF ExitManualMode, StateType
        <4> QED BY <2>1, <4>1, <4>2
      <3> QED BY <1>4, <2>1, <3>1, <3>2
              DEF UserCommand, EnterManualMode, ExitManualMode, SharedTypeOK, PlanKnown, Times
    <2>2. CASE state.manualMode /\ (SwitchManualOn("turner") \/ SwitchManualOff("turner"))
      <3>1. Energised("turner", TRUE) \in BOOLEAN
        BY DEF Energised
      <3>2. gpio' \in [Outputs -> BOOLEAN] /\ UNCHANGED settings
        BY <1>1, <2>2, <3>1 DEF SwitchManualOn, SwitchManualOff
      <3> DEFINE Switched == /\ state' \in StateType /\ state'.manualMode = state.manualMode
                             /\ state'.lastTurningMs = state.lastTurningMs
      <3>3. ASSUME SwitchManualOn("turner") PROVE Switched
        <4> DEFINE safe == state.safeMode /\ "turner" # "heater"
        <4>1. safe \in BOOLEAN /\ state' = [state EXCEPT !.on["turner"] = TRUE, !.safeMode = safe]
          BY <3>3 DEF SwitchManualOn
        <4> HIDE DEF safe
        <4> QED BY <1>1, <4>1 DEF StateType
      <3>4. ASSUME SwitchManualOff("turner") PROVE Switched
        BY <1>1, <3>4 DEF SwitchManualOff, StateType
      <3> QED BY <1>4, <2>2, <3>2, <3>3, <3>4
              DEF UserCommand, SharedTypeOK, PlanKnown, Times
    <2> QED BY <1>4, <2>1, <2>2 DEF UserCommand
  <1> QED BY <1>2, <1>3, <1>4

LEMMA OthersStep ==
  ASSUME TurningIInv, Others
  PROVE  TurningIInv'
  <1>1. /\ SharedTypeOK /\ TurningTypeOK /\ HistoryOK /\ PlanKnown /\ LongestOK
        /\ UNCHANGED <<turn, now, turningLastMs, turningOnMs, isTurning, runMs>>
    BY DEF TurningIInv, Others, turningVars
  <1>2. /\ SharedTypeOK' /\ PlanKnown' /\ UNCHANGED settings
        /\ (gpio["turner"] /\ ~state.manualMode)' => gpio["turner"] /\ ~state.manualMode
        /\ state'.lastTurningMs = state.lastTurningMs \/ ~TurningAllowed'
    BY <1>1, OthersType DEF Others
  <1>3. /\ TickAge \in Nat /\ MaxGap \in Nat /\ Duration \in Nat \ {0}
        /\ MaxLoopMs \in Nat /\ TurningPeriod \in Nat /\ TurningPeriod + MaxLoopMs <= Wrap
        /\ Wrap \in Nat /\ StartAge \in Nat
        /\ stillMs \in Nat /\ Cap \in Nat /\ sinceTurn \in Nat /\ longest \in Nat
    BY <1>1, Ages, Rounds, LoopMsAssumption DEF SharedTypeOK, HistoryOK, LongestOK
  <1>4. /\ Duration' = Duration /\ TickAge' = TickAge /\ RunAge' = RunAge
        /\ state'.lastTurningMs = state.lastTurningMs => StartAge' = StartAge
    BY <1>1, <1>2 DEF Duration, TickAge, RunAge, StartAge, Since
  <1>5. /\ sinceTurn' = IF state'.lastTurningMs # state.lastTurningMs THEN Cap ELSE sinceTurn
        /\ stillMs' = IF TurningAllowed' THEN stillMs ELSE 0
        /\ longest' = IF TurningAllowed' THEN LongerOf(longest, RowInterval') ELSE 0
    BY DEF Others
  <1>6. TurningTypeOK' /\ HistoryOK'
    BY <1>1, <1>3, <1>5 DEF TurningTypeOK, HistoryOK, Times
  <1>7. LongestOK' /\ (TurningAllowed' => longest <= longest')
    <2>1. RowInterval' \in Nat /\ RowInterval' + TurningPeriod + MaxLoopMs <= Wrap
      BY <1>2, NextRowInterval DEF SharedTypeOK
    <2>2. CASE TurningAllowed'
      <3>1. longest' = IF longest < RowInterval' THEN RowInterval' ELSE longest
        BY <1>5, <2>2 DEF LongerOf
      <3>2. longest' \in Nat /\ longest' + TurningPeriod + MaxLoopMs <= Wrap
        BY <1>1, <1>3, <2>1, <3>1 DEF LongestOK
      <3>3. RowInterval' <= longest' /\ longest <= longest'
        BY <1>3, <2>1, <3>1
      <3> QED BY <3>2, <3>3 DEF LongestOK
    <2>3. CASE ~TurningAllowed'
      BY <1>3, <1>5, <2>3 DEF LongestOK
    <2> QED BY <2>2, <2>3
  <1>8. TickClock'
    BY <1>1, <1>4 DEF TurningIInv, TickClock, Late
  <1>9. RunClock'
    BY <1>1, <1>2, <1>4 DEF TurningIInv, RunClock
  <1>10. StartClock'
    BY <1>3, <1>4, <1>5 DEF TurningIInv, StartClock
  <1>11. StillOnlyIfAllowed'
    BY <1>5 DEF StillOnlyIfAllowed
  <1>12. StillTurning'
    BY <1>1, <1>3, <1>4, <1>5 DEF TurningIInv, StillTurning
  <1>13. StillWaiting'
    <2>1. CASE TurningAllowed'
      <3>1. longest' \in Nat /\ StartAge' = StartAge /\ stillMs' = stillMs /\ longest <= longest'
        BY <1>2, <1>4, <1>5, <1>7, <2>1 DEF LongestOK
      <3> QED BY <1>1, <1>3, <1>4, <3>1 DEF TurningIInv, StillWaiting
    <2>2. CASE ~TurningAllowed'
      <3>1. 0 < 2 * MaxGap + Duration + TickAge
        BY <1>3
      <3> QED BY <1>4, <1>5, <2>2, <3>1 DEF StillWaiting
    <2> QED BY <2>1, <2>2
  <1> QED BY <1>1, <1>2, <1>6, <1>7, <1>8, <1>9, <1>10, <1>11, <1>12, <1>13 DEF TurningIInv

\* What a tick does to the types, and to what the module does not own.
LEMMA TickType ==
  ASSUME SharedTypeOK, TurningTypeOK, TurningTick
  PROVE  /\ SharedTypeOK' /\ TurningTypeOK' /\ UNCHANGED <<now, settings>>
         /\ state' = [state EXCEPT !.on["turner"] = state'.on["turner"],
                                   !.lastTurningMs = state'.lastTurningMs]
  <1>1. state \in StateType /\ gpio \in [Outputs -> BOOLEAN] /\ now \in Times
    BY DEF SharedTypeOK
  <1>2. CASE UNCHANGED sharedVars
    <2>1. TurningTypeOK'
      BY <1>1, <1>2
         DEF TurningTick, TurningIdle, TurningPaused, TurningStop, TurningStart, TurningWait,
             TurningEnd, TurningRuns, TurnerOff, TurningTypeOK, turningVars, sharedVars, Times
    <2> QED BY <1>1, <1>2, <2>1 DEF SharedTypeOK, StateType, sharedVars, Times
  <1>3. CASE TurnerOff /\ TurningRuns
    <2>1. state' \in StateType /\ gpio' \in [Outputs -> BOOLEAN]
      BY <1>1, <1>3 DEF TurnerOff, StateType
    <2>2. state' = [state EXCEPT !.on["turner"] = state'.on["turner"],
                                 !.lastTurningMs = state'.lastTurningMs]
      BY <1>1, <1>3 DEF TurnerOff, StateType, Shown
    <2> QED BY <1>1, <1>3, <2>1, <2>2
            DEF TurnerOff, TurningRuns, SharedTypeOK, TurningTypeOK, Times
  <1>4. CASE TurningStart
    <2>1. Energised("turner", TRUE) \in BOOLEAN
      BY DEF Energised
    <2>2. state' \in StateType /\ gpio' \in [Outputs -> BOOLEAN]
      BY <1>1, <1>4, <2>1 DEF TurningStart, StateType
    <2>3. state' = [state EXCEPT !.on["turner"] = state'.on["turner"],
                                 !.lastTurningMs = state'.lastTurningMs]
      BY <1>1, <1>4 DEF TurningStart, StateType, Shown
    <2> QED BY <1>1, <1>4, <2>2, <2>3
            DEF TurningStart, TurningRuns, SharedTypeOK, TurningTypeOK, Times
  <1> QED BY <1>2, <1>3, <1>4
          DEF TurningTick, TurningIdle, TurningPaused, TurningStop, TurningWait, TurningEnd

LEMMA TurningStep ==
  ASSUME TurningIInv, Turning
  PROVE  TurningIInv'
  <1>1. /\ SharedTypeOK /\ TurningTypeOK /\ HistoryOK /\ PlanKnown /\ LongestOK
        /\ turn' = "others" /\ TurningTick /\ UNCHANGED plan
    BY DEF TurningIInv, Turning, planVars
  <1>2. SharedTypeOK' /\ TurningTypeOK' /\ UNCHANGED <<now, settings>> /\ state \in StateType
    BY <1>1, TickType DEF SharedTypeOK
  <1>3. /\ state'.manualMode = state.manualMode /\ RowInterval' = RowInterval
        /\ TurningAllowed' = TurningAllowed
    BY <1>1, <1>2, TickType DEF StateType, TurningAllowed, RowInterval
  <1>4. /\ MaxLoopMs \in Nat /\ TurningPeriod \in Nat \ {0} /\ MaxGap \in Nat
        /\ MaxGap = TurningPeriod + MaxLoopMs - 1
        /\ Duration \in Nat \ {0} /\ longest \in Nat
        /\ IntervalMs = RowInterval /\ RowInterval \in Nat
        /\ RowInterval + TurningPeriod + MaxLoopMs <= Wrap
        /\ TickAge \in Nat /\ RunAge \in Nat /\ StartAge \in Nat /\ now \in Times
        /\ runMs \in Nat /\ sinceTurn \in Nat /\ stillMs \in Nat
        /\ Duration' = Duration
    BY <1>1, <1>2, Ages, Rounds, IntervalIs, RowIntervalIs
       DEF SharedTypeOK, HistoryOK, LongestOK, Duration
  <1>5. TickAge <= MaxGap
    BY <1>4 DEF TurningIInv, TickClock, Late
  <1>6. /\ runMs' = IF gpio'["turner"] /\ ~state.manualMode THEN runMs ELSE 0
        /\ sinceTurn' = IF ~isTurning /\ isTurning' THEN 0 ELSE sinceTurn
        /\ stillMs' = IF TurningAllowed /\ ~(~isTurning /\ isTurning') THEN stillMs ELSE 0
        /\ longest' = IF ~isTurning /\ isTurning' THEN RowInterval ELSE longest
    BY DEF Turning, Starts
  <1>7. HistoryOK' /\ PlanKnown' /\ LongestOK' /\ StillOnlyIfAllowed'
    BY <1>1, <1>3, <1>4, <1>6 DEF HistoryOK, PlanKnown, LongestOK, StillOnlyIfAllowed
  <1> SUFFICES TickClock' /\ RunClock' /\ StartClock' /\ StillTurning' /\ StillWaiting'
    BY <1>2, <1>7 DEF TurningIInv
  <1>8. Since(now) = 0
    BY <1>4, SinceNow
  \* What TickClock and Late say once the tick is over.
  <1>9. TurningDue => TickAge' = 0 /\ turningLastMs' = now
    BY <1>1, <1>2, <1>8
       DEF TurningTick, TurningIdle, TurningPaused, TurningStop, TurningStart, TurningWait,
           TurningEnd, TurningRuns, TickAge, Since
  <1>10. TurningDue => TickClock'
    BY <1>1, <1>4, <1>9 DEF TickClock, Late
  <1>11. CASE TurningIdle
    <2>1. UNCHANGED <<turningLastMs, turningOnMs, isTurning, state, gpio>> /\ ~TurningDue
      BY <1>11 DEF TurningIdle, turningVars, sharedVars
    <2>2. TickAge' = TickAge /\ RunAge' = RunAge /\ StartAge' = StartAge
      BY <1>2, <2>1 DEF TickAge, RunAge, StartAge, Since
    <2>3. TickClock'
      BY <1>1, <1>4, <2>1, <2>2 DEF TickClock, Late, TurningDue, TickAge
    <2> QED BY <1>2, <1>4, <1>6, <2>1, <2>2, <2>3
            DEF TurningIInv, RunClock, StartClock, StillTurning, StillWaiting
  <1>12. CASE TurningPaused
    <2>1. TurningDue /\ state.manualMode /\ UNCHANGED <<turningOnMs, isTurning, state, gpio>>
      BY <1>12 DEF TurningPaused, sharedVars
    <2>2. StartAge' = StartAge /\ ~TurningAllowed
      BY <1>2, <2>1 DEF StartAge, Since, TurningAllowed
    <2>3. stillMs' = 0 /\ runMs' = 0 /\ sinceTurn' = sinceTurn
      BY <1>6, <2>1, <2>2
    <2> QED BY <1>4, <1>9, <1>10, <2>1, <2>2, <2>3
            DEF TurningIInv, RunClock, StartClock, StillTurning, StillWaiting
  <1>13. CASE TurningStop \/ TurningEnd
    <2>1. TurningDue /\ ~gpio'["turner"] /\ ~isTurning'
          /\ state'.lastTurningMs = state.lastTurningMs
      BY <1>1, <1>2, <1>13
         DEF TurningStop, TurningEnd, TurningRuns, TurnerOff, StateType, SharedTypeOK, Outputs,
             Shown
    <2>2. StartAge' = StartAge
      BY <1>2, <2>1 DEF StartAge, Since
    <2>3. runMs' = 0 /\ sinceTurn' = sinceTurn /\ (stillMs' = stillMs \/ stillMs' = 0)
           /\ longest' = longest
      BY <1>6, <2>1
    <2>4. RunClock' /\ StartClock' /\ StillTurning'
      <3>1. RunClock'
        BY <2>1, <2>3 DEF RunClock
      <3>2. StartClock'
        BY <2>2, <2>3 DEF TurningIInv, StartClock
      <3> QED BY <2>1, <3>1, <3>2 DEF StillTurning
    <2>5. \/ stillMs' < 2 * MaxGap + Duration
          \/ StartAge < longest /\ stillMs' < 3 * MaxGap + Duration + StartAge
      <3>1. CASE TurningStop
        <4>1. ~TurningAllowed
          BY <3>1 DEF TurningStop, TurningForbidden, TurningAllowed
        <4> QED BY <1>4, <1>6, <4>1
      <3>2. CASE TurningEnd
        <4>1. isTurning
          BY <3>2 DEF TurningEnd
        <4> QED BY <1>4, <1>5, <2>3, <4>1 DEF TurningIInv, StillTurning
      <3> QED BY <1>13, <3>1, <3>2
    <2>6. StillWaiting'
      BY <1>4, <1>9, <2>1, <2>2, <2>3, <2>5 DEF StillWaiting
    <2> QED BY <1>10, <2>1, <2>4, <2>6
  <1>14. CASE TurningStart
    <2>1. TurningDue /\ ~isTurning /\ isTurning' /\ turningOnMs' = now
          /\ state'.lastTurningMs = now
      BY <1>2, <1>14 DEF TurningStart, TurningRuns, StateType
    <2>2. RunAge' = 0 /\ StartAge' = 0
      BY <1>2, <1>8, <2>1 DEF RunAge, StartAge, Since
    <2>3. stillMs' = 0 /\ sinceTurn' = 0
      BY <1>6, <2>1
    <2>4. runMs' = 0
      <3>1. runMs = 0
        BY <1>4, <2>1 DEF TurningIInv, RunClock
      <3> QED BY <1>6, <3>1
    <2> QED BY <1>4, <1>9, <1>10, <2>1, <2>2, <2>3, <2>4
            DEF RunClock, StartClock, StillTurning, StillWaiting
  <1>15. CASE TurningWait
    <2>1. /\ TurningDue /\ ~TurningForbidden /\ ~state.manualMode
          /\ UNCHANGED <<turningOnMs, isTurning, state, gpio>>
          /\ IF isTurning THEN ~TurningDurationOver ELSE ~TurningIntervalOver
      BY <1>15 DEF TurningWait, TurningRuns, sharedVars
    <2>2. RunAge' = RunAge /\ StartAge' = StartAge
      BY <1>2, <2>1 DEF RunAge, StartAge, Since
    <2>3. isTurning => RunAge < Duration
      BY <1>4, <2>1 DEF TurningDurationOver, RunAge, Duration
    <2>4. ~isTurning => StartAge < longest
      <3>1. RowInterval <= longest
        BY <1>1, <2>1 DEF TurningForbidden, TurningAllowed, LongestOK
      <3> QED BY <1>4, <2>1, <3>1 DEF TurningIntervalOver, StartAge
    <2>5. /\ sinceTurn' = sinceTurn /\ (stillMs' = stillMs \/ stillMs' = 0)
          /\ (runMs' = runMs \/ runMs' = 0) /\ longest' = longest
      BY <1>6, <2>1
    <2>6. RunClock'
      <3>1. SUFFICES ASSUME (gpio["turner"] /\ ~state.manualMode) \/ runMs' > 0
                     PROVE  isTurning /\ runMs' <= RunAge /\ RunAge < Duration
        BY <1>4, <1>9, <2>1, <2>2 DEF RunClock
      <3>2. isTurning /\ runMs <= RunAge
        BY <1>4, <2>5, <3>1 DEF TurningIInv, RunClock
      <3> QED BY <1>4, <2>3, <2>5, <3>2
    <2>7. StartClock'
      BY <2>2, <2>5 DEF TurningIInv, StartClock
    <2>8. StillTurning'
      BY <1>4, <1>5, <1>9, <2>1, <2>2, <2>3, <2>5 DEF TurningIInv, StillTurning
    <2>9. StillWaiting'
      BY <1>4, <1>5, <1>9, <2>1, <2>2, <2>4, <2>5 DEF TurningIInv, StillWaiting
    <2> QED BY <1>10, <2>1, <2>6, <2>7, <2>8, <2>9
  <1> QED BY <1>1, <1>11, <1>12, <1>13, <1>14, <1>15 DEF TurningTick

LEMMA TurningInitInv == TurningLoopInit => TurningIInv
  <1> SUFFICES ASSUME TurningLoopInit PROVE TurningIInv
    OBVIOUS
  <1>1. SharedTypeOK /\ TurningTypeOK
    BY ZeroInStateType, TimesAreNat
       DEF TurningLoopInit, TurningInit, SharedTypeOK, TurningTypeOK, AllLow
  <1>2. HistoryOK
    BY LoopMsAssumption DEF TurningLoopInit, HistoryOK
  <1>3. PlanKnown
    BY DEF TurningLoopInit, PlanKnown
  <1>4. ~state.batchActive /\ ~gpio["turner"] /\ ~isTurning /\ runMs = 0 /\ stillMs = 0
        /\ sinceTurn = Cap /\ longest = 0
    BY DEF TurningLoopInit, TurningInit, Zero, AllLow, Outputs, Shown
  <1>5. /\ TickAge = 0 /\ MaxGap \in Nat /\ Duration \in Nat \ {0}
        /\ TurningPeriod \in Nat \ {0} /\ MaxLoopMs \in Nat
        /\ Wrap \in Nat /\ TurningPeriod + MaxLoopMs <= Wrap
    <2>1. Since(0) = 0
      BY TimesAreNat, SinceNow DEF TurningLoopInit
    <2> QED BY <1>1, <2>1, Rounds DEF SharedTypeOK, TurningLoopInit, TurningInit, TickAge
  <1>6. LongestOK /\ StillOnlyIfAllowed /\ RunClock
    BY <1>4, <1>5 DEF LongestOK, TurningAllowed, StillOnlyIfAllowed, RunClock
  <1>7. TickClock /\ StartClock /\ StillTurning /\ StillWaiting
    BY <1>4, <1>5, LoopMsAssumption DEF TickClock, Late, StartClock, StillTurning, StillWaiting
  <1> QED BY <1>1, <1>2, <1>3, <1>6, <1>7 DEF TurningIInv

LEMMA RestartStep ==
  ASSUME TurningIInv, Restart
  PROVE  TurningIInv'
  <1>1. PICK active \in BOOLEAN : state' = [Zero EXCEPT !.batchActive = active]
    BY DEF Restart
  <1>2. state' \in StateType /\ state'.lastTurningMs = 0
    BY <1>1, ZeroInStateType DEF StateType, Zero
  <1>3. SharedTypeOK' /\ TurningTypeOK'
    BY <1>2, TimesAreNat DEF Restart, SharedTypeOK, TurningTypeOK, AllLow, Times
  <1>4. PlanKnown' /\ turn' = "others" /\ runMs' = 0 /\ sinceTurn' = Cap /\ stillMs' = 0
         /\ ~isTurning' /\ ~gpio'["turner"]
         /\ longest' = IF TurningAllowed' THEN RowInterval' ELSE 0
    BY DEF Restart, PlanKnown, AllLow, Outputs, Shown
  <1> DEFINE D == settings'.turningDurationMs
  <1>5. /\ MaxGap \in Nat /\ D \in Nat \ {0} /\ TurningPeriod \in Nat \ {0}
        /\ MaxLoopMs \in Nat /\ Wrap \in Nat /\ TurningPeriod + MaxLoopMs <= Wrap
    BY <1>3, RoundsOf DEF SharedTypeOK
  <1> HIDE DEF D
  <1>6. RowInterval' \in Nat /\ RowInterval' + TurningPeriod + MaxLoopMs <= Wrap
    BY <1>3, <1>4, NextRowInterval DEF SharedTypeOK
  <1>7. TickAge' = 0
    <2>1. now' = 0 /\ turningLastMs' = 0 /\ 0 \in Times
      BY TimesAreNat DEF Restart
    <2>2. (0 - 0) % Wrap = 0
      BY ClockAssumption
    <2> QED BY <2>1, <2>2 DEF TickAge, Since
  <1>8. HistoryOK' /\ LongestOK'
    <2>1. longest' \in Nat /\ longest' + TurningPeriod + MaxLoopMs <= Wrap
      <3>1. longest' = 0 \/ longest' = RowInterval'
        BY <1>4
      <3>2. CASE longest' = 0
        BY <1>5, <3>2
      <3>3. CASE longest' = RowInterval'
        BY <1>6, <3>3
      <3> QED BY <3>1, <3>2, <3>3
    <2>2. TurningAllowed' => RowInterval' <= longest'
      BY <1>4, <1>6
    <2> QED BY <1>4, <2>1, <2>2, LoopMsAssumption DEF HistoryOK, LongestOK
  <1>9. TickClock' /\ RunClock' /\ StartClock'
    BY <1>4, <1>5, <1>7, LoopMsAssumption DEF TickClock, Late, RunClock, StartClock
  <1>10. StillOnlyIfAllowed' /\ StillTurning' /\ StillWaiting'
    <2>1. 0 < 2 * MaxGap + D + 0
      BY <1>5
    <2> QED BY <1>4, <1>7, <2>1 DEF D, Duration, StillOnlyIfAllowed, StillTurning, StillWaiting
  <1> QED BY <1>3, <1>4, <1>8, <1>9, <1>10 DEF TurningIInv

-----------------------------------------------------------------------------
(* The theorems. *)

(* The invariant holds in every reachable state.                            *)
THEOREM TurningInvariance == TurningLoopSpec => []TurningIInv
  <1>1. TurningIInv /\ [TurningLoopNext]_loopVars => TurningIInv'
    <2> SUFFICES ASSUME TurningIInv, [TurningLoopNext]_loopVars PROVE TurningIInv'
      OBVIOUS
    <2>1. ASSUME NEW d \in LoopMs, Advance(d) PROVE TurningIInv'
      BY <2>1, AdvanceStep
    <2>2. CASE Others
      BY <2>2, OthersStep
    <2>3. CASE Turning
      BY <2>3, TurningStep
    <2>4. CASE Restart
      BY <2>4, RestartStep
    <2>5. CASE UNCHANGED loopVars
      BY <2>5
         DEF TurningIInv, SharedTypeOK, TurningTypeOK, HistoryOK, PlanKnown, LongestOK,
             TickClock, RunClock, StartClock, StillOnlyIfAllowed, StillTurning, StillWaiting,
             TickAge, RunAge, StartAge, Duration, RowInterval, Late, Since, TurningAllowed,
             loopVars, sharedVars, planVars, turningVars, historyVars, Times
    <2> QED BY <2>1, <2>2, <2>3, <2>4, <2>5 DEF TurningLoopNext
  <1> QED BY <1>1, TurningInitInv, PTL DEF TurningLoopSpec

\* The numbers the bounds are made of.
LEMMA Bounds ==
  ASSUME TurningIInv
  PROVE  /\ MaxGap \in Nat /\ Duration \in Nat \ {0} /\ longest \in Nat
         /\ TickAge \in Nat /\ RunAge \in Nat /\ StartAge \in Nat /\ TickAge <= MaxGap
         /\ runMs \in Nat /\ stillMs \in Nat /\ sinceTurn \in Nat
  <1>1. SharedTypeOK /\ TurningTypeOK /\ HistoryOK /\ LongestOK /\ TickClock
    BY DEF TurningIInv
  <1>2. /\ MaxLoopMs \in Nat \ {0} /\ TurningPeriod \in Nat \ {0} /\ MaxGap \in Nat
        /\ MaxGap = TurningPeriod + MaxLoopMs - 1
        /\ Duration \in Nat \ {0} /\ longest \in Nat
        /\ TickAge \in Nat /\ RunAge \in Nat /\ StartAge \in Nat
    BY <1>1, Ages, Rounds DEF SharedTypeOK, LongestOK
  <1> QED BY <1>1, <1>2 DEF TickClock, Late, HistoryOK

(* Whatever manual mode and the scheduler do, the turner never runs by      *)
(* itself for longer than turningDurationMin and one tick (tick).           *)
THEOREM TurnBoundedHolds == TurningLoopSpec => []TurnBounded
  <1>1. TurningIInv => TurnBounded
    <2> SUFFICES ASSUME TurningIInv PROVE TurnBounded
      OBVIOUS
    <2>1. CASE runMs = 0
      BY <2>1, Bounds DEF TurnBounded, Duration
    <2>2. CASE runMs # 0
      <3>1. runMs <= RunAge /\ RunAge < Duration + TickAge
        BY <2>2, Bounds DEF TurningIInv, RunClock
      <3> QED BY <3>1, Bounds DEF TurnBounded, Duration
    <2> QED BY <2>1, <2>2
  <1> QED BY <1>1, TurningInvariance, PTL

(* While turning stays allowed the eggs never lie still for longer than the *)
(* longest interval that was in force meanwhile, a left-over turning and    *)
(* four gaps, however the day, its row and the plan change (tick).          *)
THEOREM EggsTurnedHolds == TurningLoopSpec => []EggsTurned
  <1>1. TurningIInv => EggsTurned
    <2> SUFFICES ASSUME TurningIInv PROVE stillMs < longest + Duration + 4 * MaxGap
      BY DEF EggsTurned, Duration
    <2>1. CASE isTurning
      BY <2>1, Bounds DEF TurningIInv, StillTurning
    <2>2. CASE ~isTurning
      BY <2>2, Bounds DEF TurningIInv, StillWaiting
    <2> QED BY <2>1, <2>2
  <1> QED BY <1>1, TurningInvariance, PTL

(* Before a start at least the interval of the row in force has passed since *)
(* the start before it, whatever row that one was made under and however     *)
(* often the stamp it is counted from wraps, unless FactoryReset or a        *)
(* restart has zeroed it (tick).                                            *)
THEOREM StartsSpacedHolds == TurningLoopSpec => StartsSpaced
  <1>1. ASSUME TurningIInv, Turning, Starts
        PROVE  sinceTurn >= RowInterval
    <2>1. TurningStart
      BY <1>1
         DEF Turning, Starts, TurningTick, TurningIdle, TurningPaused, TurningStop,
             TurningWait, TurningEnd, TurnerOff, turningVars
    <2>2. IntervalMs = RowInterval /\ RowInterval \in Nat /\ RowInterval <= Cap
      BY <1>1, IntervalIs, RowIntervalIs DEF TurningIInv, SharedTypeOK
    <2>3. StartAge >= RowInterval
      BY <2>1, <2>2 DEF TurningStart, TurningIntervalOver, StartAge
    <2>4. sinceTurn < Cap => StartAge <= sinceTurn
      BY <1>1 DEF TurningIInv, StartClock
    <2> QED BY <1>1, <2>2, <2>3, <2>4, Bounds, LoopMsAssumption
  <1>2. TurningIInv /\ [TurningLoopNext]_loopVars
          => [Turning /\ Starts => sinceTurn >= RowInterval]_loopVars
    BY <1>1
  <1> QED BY <1>2, TurningInvariance, PTL DEF TurningLoopSpec, StartsSpaced
=============================================================================
