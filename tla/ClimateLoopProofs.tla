-------------------------- MODULE ClimateLoopProofs --------------------------
(***************************************************************************)
(* Proofs about ClimateLoop: how often and how late the relays switch, and  *)
(* when alarms are raised, for all settings, periods and lengths of a       *)
(* round, and however often the module's stamps and accumulators wrap.      *)
(***************************************************************************)
EXTENDS ClimateLoop, ClockProofs

-----------------------------------------------------------------------------
(* The inductive invariant. *)

ConfirmMs == settings.alarmConfirmMs

\* The ages of the stamps: of the last tick that was due, and of the last
\* time the module switched a relay.
TickAge == Since(climateLastMs)
SwitchAge(c) == Since(lastSwitchMs[c])

\* How far a stamp can have aged since the tick that last looked at it.
Late == IF turn = "others" THEN 0 ELSE MaxLoopMs

TickClock == TickAge < ClimatePeriod + Late

\* Nor does the stamp of the last tick measure more than the time since it.
TickSpan == sinceTick < Cap => TickAge <= sinceTick

\* A switch stamp never measures more than the time since the relay went on.
SwitchClock ==
  \A c \in Loops :
    lastSwitchMs[c] # 0 /\ sinceOn[c] < Cap => SwitchAge(c) <= sinceOn[c]

\* A relay that has to go off waits for a tick, or for the minimum to pass; the
\* stamp it waits by has not wrapped since.
WasteClock ==
  \A c \in Loops :
    \/ wasteMs[c] <= TickAge
    \/ SwitchAge(c) < RelayMinSwitch + TickAge /\ wasteMs[c] <= MaxGap + SwitchAge(c)

\* The accumulator holds no more than the time since the module began to see
\* the reading out of band.
AlarmClock ==
  \A c \in Loops :
    IF oobMs[c] = 0 THEN alarmMs[c] = 0
                    ELSE oobMs[c] < Cap => alarmMs[c] + TickAge <= oobMs[c]

\* A reading without an alarm waits for a tick, or for the accumulator, which
\* has not wrapped since.
UnalarmedClock ==
  \A c \in Loops :
    \/ unalarmed[c] <= TickAge
    \/ alarmMs[c] < ConfirmMs /\ unalarmed[c] <= MaxGap + alarmMs[c] + TickAge

ClimateIInv ==
  /\ ClimateLoopTypeOK /\ TickClock /\ TickSpan /\ SwitchClock /\ WasteClock
  /\ AlarmClock /\ UnalarmedClock /\ AlarmNotEarly

-----------------------------------------------------------------------------
(* The constants, the histories and the ages. *)

LEMMA Rounds ==
  ASSUME settings \in SettingsVals
  PROVE  /\ MaxLoopMs \in Nat \ {0} /\ \A d \in LoopMs : d \in Nat \ {0} /\ d <= MaxLoopMs
         /\ ClimatePeriod \in Nat \ {0} /\ MaxGap \in Nat \ {0}
         /\ MaxGap = ClimatePeriod + MaxLoopMs - 1
         /\ RelayMinSwitch \in Nat /\ RelayMinSwitch <= Cap /\ Cap \in Nat \ {0}
         /\ RelayMinSwitch + ClimatePeriod + MaxLoopMs <= Wrap
         /\ ConfirmMs \in Nat /\ ConfirmMs <= Cap
         /\ ConfirmMs + ClimatePeriod + MaxLoopMs <= Wrap
  <1>1. MaxLoopMs \in LoopMs /\ \A d \in LoopMs : d <= MaxLoopMs
    BY RoundsAssumption DEF MaxLoopMs
  <1>2. MaxLoopMs \in Nat \ {0} /\ ClimatePeriod \in Nat \ {0} /\ RelayMinSwitch \in Nat
    BY <1>1, LoopMsAssumption, ClimateAssumption
  <1>3. ConfirmMs \in Nat
    BY SettingsAssumption DEF SettingsType, ConfirmMs
  <1> QED BY <1>1, <1>2, <1>3, RoundsAssumption, LoopMsAssumption DEF MaxGap, ConfirmMs

LEMMA SaturateIs ==
  ASSUME NEW n \in Nat
  PROVE  /\ Saturate(n) \in 0 .. Cap /\ Saturate(n) \in Nat /\ Saturate(n) <= n
         /\ Saturate(n) < Cap => Saturate(n) = n
         /\ n > 0 => Saturate(n) > 0
         /\ \A m \in 0 .. Cap : m <= n => m <= Saturate(n)
  BY LoopMsAssumption, RoundsAssumption DEF Saturate

LEMMA ZeroInStateType == Zero \in StateType
  BY DataAssumption, LoopsAssumption, ClockAssumption DEF Zero, StateType, Shown, Days, Times

\* What the types say of the stamps, the ages and the histories.
LEMMA Ages ==
  ASSUME ClimateLoopTypeOK
  PROVE  /\ now \in Times /\ climateLastMs \in Times /\ TickAge \in Nat
         /\ sinceTick \in 0 .. Cap /\ sinceTick \in Nat
         /\ \A c \in Loops :
              /\ lastSwitchMs[c] \in Times /\ alarmMs[c] \in Times
              /\ SwitchAge(c) \in Nat /\ alarmMs[c] \in Nat
              /\ sinceOn[c] \in Nat /\ wasteMs[c] \in Nat
              /\ oobMs[c] \in Nat /\ unalarmed[c] \in Nat
              /\ sinceOn[c] \in 0 .. Cap /\ wasteMs[c] \in 0 .. Cap
              /\ oobMs[c] \in 0 .. Cap /\ unalarmed[c] \in 0 .. Cap
  <1>1. now \in Times /\ climateLastMs \in Times /\ sinceTick \in 0 .. Cap
    BY DEF ClimateLoopTypeOK, SharedTypeOK, ClimateTypeOK
  <1>2. ASSUME NEW c \in Loops
        PROVE  /\ lastSwitchMs[c] \in Times /\ alarmMs[c] \in Times
               /\ sinceOn[c] \in 0 .. Cap /\ wasteMs[c] \in 0 .. Cap
               /\ oobMs[c] \in 0 .. Cap /\ unalarmed[c] \in 0 .. Cap
    BY <1>2 DEF ClimateLoopTypeOK, ClimateTypeOK
  <1> QED BY <1>1, <1>2, SinceIs, TimesAreNat, LoopMsAssumption DEF TickAge, SwitchAge

-----------------------------------------------------------------------------
(* The steps. *)

LEMMA AdvanceType ==
  ASSUME ClimateLoopTypeOK, NEW d \in LoopMs, Advance(d)
  PROVE  ClimateLoopTypeOK'
  <1>1. d \in Nat
    BY LoopMsAssumption
  <1>2. now \in Times /\ now' = (now + d) % Wrap /\ turn' = "climate"
        /\ UNCHANGED <<state, settings, gpio, climateLastMs, alarmMs, lastSwitchMs>>
    BY Ages DEF Advance, NextMillis, climateVars
  <1>3. now' \in Times
    <2>1. now + d \in Int
      BY <1>1, <1>2, TimesAreNat
    <2> QED BY <1>2, <2>1, ModInTimes
  <1>4. \A n \in Nat : Saturate(n + d) \in 0 .. Cap
    <2>1. \A n \in Nat : n + d \in Nat
      BY <1>1
    <2> QED BY <2>1, SaturateIs
  <1>5. /\ \A c \in Loops : Saturate(sinceOn[c] + d) \in 0 .. Cap
        /\ \A c \in Loops : Saturate(wasteMs[c] + d) \in 0 .. Cap
        /\ \A c \in Loops : Saturate(oobMs[c] + d) \in 0 .. Cap
        /\ \A c \in Loops : Saturate(unalarmed[c] + d) \in 0 .. Cap
        /\ Saturate(sinceTick + d) \in 0 .. Cap /\ 0 \in 0 .. Cap
    <2>1. /\ sinceTick \in Nat /\ 0 \in 0 .. Cap
          /\ \A c \in Loops : /\ sinceOn[c] \in Nat /\ wasteMs[c] \in Nat
                              /\ oobMs[c] \in Nat /\ unalarmed[c] \in Nat
      BY Ages, LoopMsAssumption
    <2> QED BY <1>4, <2>1
  <1>6. sinceOn' \in [Loops -> 0 .. Cap] /\ wasteMs' \in [Loops -> 0 .. Cap]
        /\ oobMs' \in [Loops -> 0 .. Cap] /\ unalarmed' \in [Loops -> 0 .. Cap]
        /\ sinceTick' \in 0 .. Cap
    BY <1>5 DEF Advance
  <1> QED BY <1>2, <1>3, <1>6 DEF ClimateLoopTypeOK, SharedTypeOK, ClimateTypeOK, Times

LEMMA AdvanceStep ==
  ASSUME ClimateIInv, NEW d \in LoopMs, Advance(d)
  PROVE  ClimateIInv'
  <1>1. /\ ClimateLoopTypeOK /\ settings \in SettingsVals
        /\ turn = "others" /\ turn' = "climate" /\ now' = (now + d) % Wrap
        /\ UNCHANGED <<state, settings, gpio, climateLastMs, alarmMs, lastSwitchMs>>
    BY DEF ClimateIInv, ClimateLoopTypeOK, SharedTypeOK, Advance, NextMillis, climateVars
  <1>2. /\ MaxLoopMs \in Nat /\ d \in Nat /\ d <= MaxLoopMs
        /\ ClimatePeriod \in Nat \ {0} /\ MaxGap \in Nat /\ RelayMinSwitch \in Nat
        /\ RelayMinSwitch + ClimatePeriod + MaxLoopMs <= Wrap
        /\ ConfirmMs \in Nat /\ Cap \in Nat \ {0} /\ ConfirmMs' = ConfirmMs
    BY <1>1, Rounds DEF ConfirmMs
  <1>3. now \in Times /\ climateLastMs \in Times /\ TickAge \in Nat /\ Wrap \in Nat
    BY <1>1, Ages, ClockAssumption
  <1>4. TickAge < ClimatePeriod
    BY <1>1, <1>2 DEF ClimateIInv, TickClock, Late
  <1>5. TickAge' = TickAge + d
    <2>1. Since(climateLastMs) + d < Wrap
      BY <1>2, <1>3, <1>4 DEF TickAge
    <2> QED BY <1>1, <1>2, <1>3, <2>1, SinceGrows DEF TickAge, Since
  <1>6. ClimateLoopTypeOK'
    BY <1>1, AdvanceType
  <1>7. TickClock'
    BY <1>1, <1>2, <1>3, <1>4, <1>5 DEF TickClock, Late
  <1>8. ASSUME NEW c \in Loops
        PROVE  /\ SwitchAge(c) \in Nat /\ SwitchAge(c)' \in Nat
               /\ SwitchAge(c)' <= SwitchAge(c) + d
               /\ SwitchAge(c) < RelayMinSwitch + TickAge => SwitchAge(c)' = SwitchAge(c) + d
    <2>1. lastSwitchMs[c] \in Times /\ SwitchAge(c) \in Nat
      BY <1>1, Ages
    <2>2. d < Wrap
      BY <1>2, <1>3
    <2>3. SwitchAge(c)' \in Nat /\ SwitchAge(c)' <= SwitchAge(c) + d
      BY <1>1, <1>2, <1>3, <2>1, <2>2, SinceAtMost DEF SwitchAge, Since
    <2>4. ASSUME SwitchAge(c) < RelayMinSwitch + TickAge
          PROVE  SwitchAge(c)' = SwitchAge(c) + d
      <3>1. Since(lastSwitchMs[c]) + d < Wrap
        BY <1>2, <1>3, <1>4, <2>1, <2>4 DEF SwitchAge
      <3> QED BY <1>1, <1>2, <1>3, <2>1, <3>1, SinceGrows DEF SwitchAge, Since
    <2> QED BY <2>1, <2>3, <2>4
  <1>9. ASSUME NEW c \in Loops
        PROVE  /\ sinceOn'[c] = Saturate(sinceOn[c] + d)
               /\ wasteMs'[c] \in Nat /\ wasteMs'[c] <= wasteMs[c] + d
               /\ oobMs'[c] = IF oobMs[c] > 0 THEN Saturate(oobMs[c] + d) ELSE 0
               /\ unalarmed'[c] \in Nat /\ unalarmed'[c] <= unalarmed[c] + d
    <2>1. wasteMs[c] + d \in Nat /\ unalarmed[c] + d \in Nat
      BY <1>1, <1>2, Ages
    <2> QED BY <1>2, <2>1, SaturateIs DEF Advance
  <1>10. SwitchClock'
    <2> SUFFICES ASSUME NEW c \in Loops, lastSwitchMs[c] # 0, sinceOn'[c] < Cap
                 PROVE  SwitchAge(c)' <= sinceOn'[c]
      BY <1>1 DEF SwitchClock
    <2>1. sinceOn[c] \in Nat /\ sinceOn[c] + d \in Nat
      BY <1>1, <1>2, Ages
    <2>2. sinceOn'[c] = sinceOn[c] + d /\ sinceOn[c] < Cap
      BY <1>2, <1>9, <2>1, SaturateIs
    <2> QED BY <1>2, <1>8, <2>1, <2>2 DEF ClimateIInv, SwitchClock
  <1>11. WasteClock'
    <2> SUFFICES ASSUME NEW c \in Loops
                 PROVE  \/ wasteMs'[c] <= TickAge + d
                        \/ /\ SwitchAge(c)' < RelayMinSwitch + TickAge + d
                           /\ wasteMs'[c] <= MaxGap + SwitchAge(c)'
      BY <1>2, <1>3, <1>5 DEF WasteClock
    <2>1. wasteMs[c] \in Nat
      BY <1>1, Ages
    <2> QED BY <1>2, <1>3, <1>8, <1>9, <2>1 DEF ClimateIInv, WasteClock
  <1>12. AlarmClock'
    <2> SUFFICES ASSUME NEW c \in Loops
                 PROVE  IF oobMs'[c] = 0 THEN alarmMs[c] = 0
                        ELSE oobMs'[c] < Cap => alarmMs[c] + TickAge + d <= oobMs'[c]
      BY <1>1, <1>2, <1>3, <1>5, Ages DEF AlarmClock
    <2>1. oobMs[c] \in Nat /\ oobMs[c] + d \in Nat /\ alarmMs[c] \in Nat
      BY <1>1, <1>2, Ages
    <2>2. CASE oobMs[c] = 0
      BY <1>9, <2>2 DEF ClimateIInv, AlarmClock
    <2>3. CASE oobMs[c] # 0
      <3>1. oobMs'[c] = Saturate(oobMs[c] + d) /\ oobMs'[c] > 0
        BY <1>2, <1>9, <2>1, <2>3, SaturateIs
      <3>2. oobMs'[c] < Cap => oobMs'[c] = oobMs[c] + d /\ oobMs[c] < Cap
        BY <1>2, <2>1, <3>1, SaturateIs
      <3> QED BY <1>2, <1>3, <2>1, <2>3, <3>1, <3>2 DEF ClimateIInv, AlarmClock
    <2> QED BY <2>2, <2>3
  <1>13. UnalarmedClock'
    <2> SUFFICES ASSUME NEW c \in Loops
                 PROVE  \/ unalarmed'[c] <= TickAge + d
                        \/ /\ alarmMs[c] < ConfirmMs
                           /\ unalarmed'[c] <= MaxGap + alarmMs[c] + TickAge + d
      BY <1>1, <1>2, <1>3, <1>5, Ages DEF UnalarmedClock
    <2>1. unalarmed[c] \in Nat /\ alarmMs[c] \in Nat
      BY <1>1, Ages
    <2> QED BY <1>2, <1>3, <1>9, <2>1 DEF ClimateIInv, UnalarmedClock
  <1>14. AlarmNotEarly'
    <2> SUFFICES ASSUME NEW c \in Loops, state.alarm[c] PROVE oobMs'[c] >= ConfirmMs
      BY <1>1 DEF AlarmNotEarly, ConfirmMs
    <2>1. oobMs[c] \in Nat /\ oobMs[c] + d \in Nat /\ oobMs[c] >= ConfirmMs
          /\ ConfirmMs \in 0 .. Cap
      BY <1>1, <1>2, Ages, Rounds DEF ClimateIInv, AlarmNotEarly, ConfirmMs
    <2>2. CASE oobMs[c] = 0
      BY <1>2, <1>9, <2>1, <2>2
    <2>3. CASE oobMs[c] # 0
      <3>1. ConfirmMs <= Saturate(oobMs[c] + d)
        <4>1. ConfirmMs <= oobMs[c] + d
          BY <1>2, <2>1
        <4> QED BY <2>1, <4>1, SaturateIs
      <3>2. Saturate(oobMs[c] + d) \in Nat
        BY <2>1, SaturateIs
      <3> QED BY <1>2, <1>9, <2>1, <2>3, <3>1, <3>2
    <2> QED BY <2>2, <2>3
  <1>15. TickSpan'
    <2>1. sinceTick \in Nat /\ sinceTick + d \in Nat /\ sinceTick' = Saturate(sinceTick + d)
      BY <1>1, <1>2, Ages DEF Advance
    <2>2. sinceTick' < Cap => sinceTick' = sinceTick + d /\ sinceTick < Cap
      BY <1>2, <2>1, SaturateIs
    <2> QED BY <1>2, <1>3, <1>5, <2>1, <2>2 DEF ClimateIInv, TickSpan
  <1> QED BY <1>6, <1>7, <1>10, <1>11, <1>12, <1>13, <1>14, <1>15 DEF ClimateIInv

\* What other components do to what the module reads: only a factory reset,
\* which leaves no batch and no alarms, changes the settings.
LEMMA OthersType ==
  ASSUME SharedTypeOK, Measure \/ Schedule \/ Forget \/ UserCommand, UNCHANGED now
  PROVE  /\ SharedTypeOK'
         /\ \A c \in Loops : state'.alarm[c] => state.alarm[c]
         /\ \/ UNCHANGED settings
            \/ ~InControl' /\ \A c \in Loops : ~state'.alarm[c]
  <1>1. state \in StateType /\ gpio \in [Outputs -> BOOLEAN] /\ settings \in SettingsVals
    BY DEF SharedTypeOK
  <1> SUFFICES /\ state' \in StateType /\ gpio' \in [Outputs -> BOOLEAN]
               /\ settings' \in SettingsVals
               /\ \A c \in Loops : state'.alarm[c] => state.alarm[c]
               /\ \/ UNCHANGED settings
                  \/ ~InControl' /\ \A c \in Loops : ~state'.alarm[c]
    BY DEF SharedTypeOK, Times
  <1>2. CASE Measure
    BY <1>1, <1>2 DEF Measure, Sensed, StateType
  <1>3. CASE Schedule
    <2>1. PICK b \in BOOLEAN, s \in BOOLEAN, t \in [Loops -> Levels] :
                 state' = [state EXCEPT !.batchActive = b, !.safeMode = @ \/ s, !.target = t]
      BY <1>3 DEF Schedule
    <2> DEFINE safe == state.safeMode \/ s
    <2>2. /\ safe \in BOOLEAN
          /\ state' = [state EXCEPT !.batchActive = b, !.safeMode = safe, !.target = t]
      BY <2>1
    <2> HIDE DEF safe
    <2> QED BY <1>1, <1>3, <2>2 DEF Schedule, StateType
  <1>4. CASE Forget
    BY <1>1, <1>4, ZeroInStateType DEF Forget, Zero, InControl
  <1>5. CASE EnterManualMode \/ ExitManualMode
    <2>1. ManualOutputsOff \in [Outputs -> BOOLEAN]
      BY DEF ManualOutputsOff
    <2>2. CASE EnterManualMode
      BY <1>1, <2>1, <2>2 DEF EnterManualMode, StateType
    <2>3. CASE ExitManualMode
      BY <1>1, <2>1, <2>3 DEF ExitManualMode, StateType
    <2> QED BY <1>5, <2>2, <2>3
  <1>6. ASSUME NEW o \in Loops, SwitchManualOff(o)
        PROVE  /\ state' \in StateType /\ gpio' \in [Outputs -> BOOLEAN] /\ UNCHANGED settings
               /\ \A c \in Loops : state'.alarm[c] => state.alarm[c]
    BY <1>1, <1>6 DEF SwitchManualOff, StateType
  <1>7. ASSUME NEW o \in Loops, SwitchManualOn(o)
        PROVE  /\ state' \in StateType /\ gpio' \in [Outputs -> BOOLEAN] /\ UNCHANGED settings
               /\ \A c \in Loops : state'.alarm[c] => state.alarm[c]
    <2> DEFINE safe == state.safeMode /\ o # "heater"
    <2>1. safe \in BOOLEAN /\ Energised(o, TRUE) \in BOOLEAN
          /\ state' = [state EXCEPT !.on[o] = TRUE, !.safeMode = safe]
      BY <1>7 DEF SwitchManualOn, Energised
    <2> HIDE DEF safe
    <2>2. gpio' \in [Outputs -> BOOLEAN] /\ UNCHANGED settings
      BY <1>1, <1>7, <2>1 DEF SwitchManualOn
    <2> QED BY <1>1, <2>1, <2>2 DEF StateType
  <1> QED BY <1>1, <1>2, <1>3, <1>4, <1>5, <1>6, <1>7 DEF UserCommand

LEMMA OthersStep ==
  ASSUME ClimateIInv, Others
  PROVE  ClimateIInv'
  <1>1. /\ ClimateLoopTypeOK /\ SharedTypeOK
        /\ UNCHANGED <<turn, now, climateLastMs, alarmMs, lastSwitchMs>>
        /\ UNCHANGED <<sinceTick, sinceOn, wasteMs, oobMs>>
    BY DEF ClimateIInv, ClimateLoopTypeOK, Others, OtherModule, climateVars
  <1>2. /\ SharedTypeOK'
        /\ \A c \in Loops : state'.alarm[c] => state.alarm[c]
        /\ \/ UNCHANGED settings
           \/ ~InControl' /\ \A c \in Loops : ~state'.alarm[c]
    BY <1>1, OthersType DEF Others, OtherModule
  <1>3. /\ unalarmed' \in [Loops -> 0 .. Cap]
        /\ \A c \in Loops : \/ unalarmed'[c] = 0
                            \/ unalarmed'[c] = unalarmed[c] /\ UNCHANGED settings
    <2>1. ASSUME NEW c \in Loops
          PROVE  /\ unalarmed[c] \in 0 .. Cap /\ 0 \in 0 .. Cap
                 /\ \/ unalarmed'[c] = 0
                    \/ unalarmed'[c] = unalarmed[c] /\ UNCHANGED settings
      BY <1>1, <1>2, LoopMsAssumption DEF Others, ClimateLoopTypeOK
    <2> QED BY <2>1 DEF Others
  <1>4. ClimateLoopTypeOK'
    BY <1>1, <1>2, <1>3 DEF ClimateLoopTypeOK, ClimateTypeOK, Times
  <1>5. TickClock' /\ TickSpan' /\ SwitchClock' /\ WasteClock' /\ AlarmClock'
    BY <1>1, <1>2
       DEF ClimateIInv, TickClock, TickSpan, SwitchClock, WasteClock, AlarmClock, Late, TickAge,
           SwitchAge, Since
  <1>6. UnalarmedClock'
    <2> SUFFICES ASSUME NEW c \in Loops
                 PROVE  \/ unalarmed'[c] <= TickAge
                        \/ /\ alarmMs[c] < ConfirmMs'
                           /\ unalarmed'[c] <= MaxGap + alarmMs[c] + TickAge
      BY <1>1 DEF UnalarmedClock, TickAge, Since
    <2>1. TickAge \in Nat
      BY <1>1, Ages
    <2>2. CASE unalarmed'[c] = 0
      BY <2>1, <2>2
    <2>3. CASE unalarmed'[c] = unalarmed[c] /\ ConfirmMs' = ConfirmMs
      BY <2>3 DEF ClimateIInv, UnalarmedClock
    <2> QED BY <1>3, <2>2, <2>3 DEF ConfirmMs
  <1>7. AlarmNotEarly'
    BY <1>1, <1>2 DEF ClimateIInv, AlarmNotEarly
  <1> QED BY <1>4, <1>5, <1>6, <1>7 DEF ClimateIInv

\* What a tick does to the types, and to what the module does not own.
LEMMA TickType ==
  ASSUME SharedTypeOK, ClimateTypeOK, ClimateTick
  PROVE  SharedTypeOK' /\ ClimateTypeOK' /\ UNCHANGED <<now, settings>>
  <1>1. /\ state \in StateType /\ gpio \in [Outputs -> BOOLEAN] /\ now \in Times
        /\ climateLastMs \in Times /\ alarmMs \in [Loops -> Times]
        /\ lastSwitchMs \in [Loops -> Times]
    BY DEF SharedTypeOK, ClimateTypeOK
  <1>2. CASE ClimateIdle
    BY <1>1, <1>2 DEF ClimateIdle, climateVars, sharedVars, SharedTypeOK, ClimateTypeOK, Times
  <1>3. CASE ClimatePaused
    BY <1>1, <1>3 DEF ClimatePaused, sharedVars, SharedTypeOK, ClimateTypeOK, Times
  <1>4. CASE ClimateAllOff
    <2> DEFINE on == [o \in Shown |-> state.on[o] /\ o \notin Loops]
               quiet == [c \in Loops |-> FALSE]
               low == [o \in Outputs |-> gpio[o] /\ o \notin Loops \cup {"buzzer"}]
    <2>1. on \in [Shown -> BOOLEAN] /\ quiet \in [Loops -> BOOLEAN]
          /\ low \in [Outputs -> BOOLEAN]
      OBVIOUS
    <2>2. gpio' = low /\ state' = [state EXCEPT !.on = on, !.alarm = quiet]
      BY <1>4 DEF ClimateAllOff
    <2> HIDE DEF on, quiet, low
    <2>3. state' \in StateType
      BY <1>1, <2>1, <2>2 DEF StateType
    <2> QED BY <1>1, <1>4, <2>1, <2>2, <2>3
            DEF ClimateAllOff, SharedTypeOK, ClimateTypeOK, Times
  <1>5. CASE ClimateControl
    <2> DEFINE on == [o \in Shown |-> IF o \in Loops THEN RelayNext(o) ELSE state.on[o]]
               alarm == [c \in Loops |-> AlarmNext(c)]
               pins == [o \in Outputs |-> CASE o \in Loops -> RelayNext(o)
                                            [] o = "buzzer" -> Energised(o, BuzzerNext)
                                            [] OTHER -> gpio[o]]
    <2>1. /\ \A c \in Loops : RelayNext(c) \in BOOLEAN /\ AlarmNext(c) \in BOOLEAN
          /\ Energised("buzzer", BuzzerNext) \in BOOLEAN
      BY DEF RelayNext, Energised, AlarmNext, Confirmed
    <2>2. on \in [Shown -> BOOLEAN] /\ alarm \in [Loops -> BOOLEAN]
      BY <1>1, <2>1 DEF StateType
    <2>3. pins \in [Outputs -> BOOLEAN]
      <3>1. ASSUME NEW o \in Outputs PROVE pins[o] \in BOOLEAN
        BY <1>1, <2>1
      <3> QED BY <3>1
    <2>4. gpio' = pins /\ state' = [state EXCEPT !.on = on, !.alarm = alarm]
      BY <1>5 DEF ClimateControl
    <2> HIDE DEF on, alarm, pins
    <2>5. state' \in StateType
      BY <1>1, <2>2, <2>4 DEF StateType
    <2>6. lastSwitchMs' \in [Loops -> Times]
      BY <1>1, <1>5 DEF ClimateControl
    <2>7. alarmMs' \in [Loops -> Times]
      <3>1. ASSUME NEW c \in Loops PROVE AlarmMsNext(c) \in Times
        <4>1. Since(climateLastMs) \in Nat /\ alarmMs[c] \in Nat
          BY <1>1, SinceIs, TimesAreNat
        <4>2. alarmMs[c] + Since(climateLastMs) \in Int
          BY <4>1
        <4> QED BY <4>2, ModInTimes, TimesAreNat DEF AlarmMsNext
      <3> QED BY <1>5, <3>1 DEF ClimateControl
    <2> QED BY <1>1, <1>5, <2>3, <2>4, <2>5, <2>6, <2>7
            DEF ClimateControl, SharedTypeOK, ClimateTypeOK, Times
  <1> QED BY <1>2, <1>3, <1>4, <1>5 DEF ClimateTick

\* The accumulator over a tick: it adds the gap, unless that wraps it.
LEMMA Accumulates ==
  ASSUME ClimateLoopTypeOK, NEW c \in Loops, OutOfBand(c)
  PROVE  /\ AlarmMsNext(c) \in Nat /\ AlarmMsNext(c) <= alarmMs[c] + TickAge
         /\ alarmMs[c] + TickAge < Wrap => AlarmMsNext(c) = alarmMs[c] + TickAge
  <1>1. alarmMs[c] \in Times /\ alarmMs[c] \in Nat /\ TickAge \in Nat /\ TickAge < Wrap
    BY Ages, SinceIs DEF TickAge
  <1>2. AlarmMsNext(c) = (alarmMs[c] + TickAge) % Wrap
    BY DEF AlarmMsNext, TickAge
  <1>3. /\ (alarmMs[c] + TickAge) % Wrap \in Times
        /\ (alarmMs[c] + TickAge) % Wrap
             = IF alarmMs[c] + TickAge < Wrap THEN alarmMs[c] + TickAge
                                              ELSE alarmMs[c] + TickAge - Wrap
    BY <1>1, ModOfSum
  <1> QED BY <1>1, <1>2, <1>3, TimesAreNat, ClockAssumption

\* A step of the module as each loop sees it.
LEMMA ClimateType ==
  ASSUME ClimateLoopTypeOK, Climate
  PROVE  /\ ClimateLoopTypeOK' /\ UNCHANGED <<now, settings>>
         /\ \A c \in Loops :
              /\ sinceOn'[c] = IF ~gpio[c] /\ gpio'[c] THEN 0 ELSE sinceOn[c]
              /\ wasteMs'[c] = IF gpio'[c] /\ MustGoOff(c) THEN wasteMs[c] ELSE 0
              /\ unalarmed'[c] = IF InControl /\ OutOfBand(c) /\ ~state'.alarm[c]
                                 THEN unalarmed[c] ELSE 0
  <1>1. /\ sinceOn' = [c \in Loops |-> IF ~gpio[c] /\ gpio'[c] THEN 0 ELSE sinceOn[c]]
        /\ wasteMs' = [c \in Loops |-> IF gpio'[c] /\ MustGoOff(c) THEN wasteMs[c] ELSE 0]
        /\ unalarmed' = [c \in Loops |-> IF InControl /\ OutOfBand(c) /\ ~state'.alarm[c]
                                         THEN unalarmed[c] ELSE 0]
    BY DEF Climate, ModuleTick
  <1>2. SharedTypeOK' /\ ClimateTypeOK' /\ UNCHANGED <<now, settings>> /\ turn' = "others"
    BY TickType DEF ClimateLoopTypeOK, Climate, ModuleTick
  <1>3. 0 \in 0 .. Cap
    BY LoopMsAssumption
  <1>4. sinceOn' \in [Loops -> 0 .. Cap] /\ wasteMs' \in [Loops -> 0 .. Cap]
        /\ unalarmed' \in [Loops -> 0 .. Cap]
    BY <1>1, <1>3, Ages
  <1>5. oobMs' \in [Loops -> 0 .. Cap] /\ sinceTick' \in 0 .. Cap
    BY <1>3, Ages DEF Climate, ModuleTick
  <1> QED BY <1>1, <1>2, <1>4, <1>5 DEF ClimateLoopTypeOK

\* A tick that neither switches nor accumulates.
LEMMA QuietStep ==
  ASSUME ClimateIInv, Climate, UNCHANGED <<alarmMs, lastSwitchMs>>,
         \/ ~ClimateDue /\ UNCHANGED climateLastMs
         \/ /\ ClimateDue /\ climateLastMs' = now /\ ~InControl
            /\ \A c \in Loops : ~(gpio'[c] /\ MustGoOff(c)),
         \A c \in Loops : /\ ~(~gpio[c] /\ gpio'[c])
                          /\ state'.alarm[c] => state.alarm[c]
  PROVE  ClimateIInv'
  <1>1. ClimateLoopTypeOK /\ settings \in SettingsVals /\ turn' = "others"
    BY DEF ClimateIInv, ClimateLoopTypeOK, SharedTypeOK, Climate, ModuleTick
  <1>2. /\ ClimateLoopTypeOK' /\ UNCHANGED <<now, settings>>
        /\ \A c \in Loops : sinceOn'[c] = sinceOn[c]
        /\ \A c \in Loops : wasteMs'[c] = wasteMs[c] \/ wasteMs'[c] = 0
        /\ \A c \in Loops : unalarmed'[c] = unalarmed[c] \/ unalarmed'[c] = 0
        /\ \A c \in Loops : ClimateDue => unalarmed'[c] = 0 /\ wasteMs'[c] = 0
    BY <1>1, ClimateType
  <1>3. \A c \in Loops : oobMs'[c] = oobMs[c]
    BY DEF Climate, ModuleTick
  <1>4. /\ TickAge \in Nat /\ TickAge' \in Nat /\ ClimatePeriod \in Nat \ {0}
        /\ MaxLoopMs \in Nat /\ MaxGap \in Nat /\ RelayMinSwitch \in Nat
        /\ MaxGap = ClimatePeriod + MaxLoopMs - 1 /\ ConfirmMs \in Nat
        /\ ConfirmMs' = ConfirmMs
    <2>1. Since(climateLastMs') \in Nat /\ TickAge' = Since(climateLastMs')
      BY <1>1, <1>2, Ages, SinceIs DEF TickAge, Since, ClimateLoopTypeOK, ClimateTypeOK, Times
    <2> QED BY <1>1, <1>2, <2>1, Ages, Rounds DEF ConfirmMs
  <1>5. TickAge <= MaxGap /\ (~ClimateDue => TickAge < ClimatePeriod)
    BY <1>4 DEF ClimateIInv, TickClock, Late, ClimateDue, TickAge
  <1>6. (~ClimateDue /\ TickAge' = TickAge) \/ (ClimateDue /\ TickAge' = 0)
    BY <1>1, <1>2, Ages, SinceNow DEF TickAge, Since
  <1>7. ASSUME NEW c \in Loops
        PROVE  /\ SwitchAge(c)' = SwitchAge(c) /\ SwitchAge(c) \in Nat /\ alarmMs[c] \in Nat
               /\ wasteMs[c] \in Nat /\ unalarmed[c] \in Nat /\ oobMs[c] \in Nat
    BY <1>1, <1>2, Ages DEF SwitchAge, Since
  <1>8. TickClock'
    BY <1>1, <1>4, <1>5, <1>6 DEF TickClock, Late
  <1>9. SwitchClock'
    BY <1>2, <1>7 DEF ClimateIInv, SwitchClock
  <1>10. AlarmClock'
    BY <1>3, <1>4, <1>6, <1>7 DEF ClimateIInv, AlarmClock
  <1>11. UnalarmedClock'
    BY <1>2, <1>4, <1>6, <1>7 DEF ClimateIInv, UnalarmedClock
  <1>12. AlarmNotEarly'
    BY <1>2, <1>3 DEF ClimateIInv, AlarmNotEarly
  <1>13. WasteClock'
    BY <1>2, <1>4, <1>6, <1>7 DEF ClimateIInv, WasteClock
  <1>14. TickSpan'
    <2>1. sinceTick' = (IF ClimateDue THEN 0 ELSE sinceTick) /\ sinceTick' \in Nat
      BY <1>1, <1>2, Ages, LoopMsAssumption DEF Climate
    <2> QED BY <1>4, <1>6, <2>1 DEF ClimateIInv, TickSpan
  <1> QED BY <1>1, <1>2, <1>8, <1>9, <1>10, <1>11, <1>12, <1>13, <1>14 DEF ClimateIInv

\* A tick that controls, for the relays.
LEMMA RelayStep ==
  ASSUME ClimateIInv, Climate, ClimateControl
  PROVE  SwitchClock' /\ WasteClock'
  <1>1. /\ ClimateLoopTypeOK /\ settings \in SettingsVals /\ turn = "climate"
        /\ ClimateDue /\ InControl /\ UNCHANGED <<now, settings>>
        /\ climateLastMs' = now /\ gpio \in [Outputs -> BOOLEAN] /\ state \in StateType
    BY DEF ClimateIInv, ClimateLoopTypeOK, SharedTypeOK, Climate, ModuleTick, ClimateControl,
           ClimateInhibited, InControl
  <1>2. /\ TickAge \in Nat /\ TickAge' = 0 /\ MaxGap \in Nat /\ RelayMinSwitch \in Nat
        /\ TickAge <= MaxGap /\ Since(now) = 0
    BY <1>1, Ages, Rounds, SinceNow DEF ClimateIInv, TickClock, Late, TickAge, Since
  <1> SUFFICES ASSUME NEW c \in Loops
               PROVE  /\ lastSwitchMs'[c] # 0 /\ sinceOn'[c] < Cap => SwitchAge(c)' <= sinceOn'[c]
                      /\ \/ wasteMs'[c] <= TickAge'
                         \/ /\ SwitchAge(c)' < RelayMinSwitch + TickAge'
                            /\ wasteMs'[c] <= MaxGap + SwitchAge(c)'
    BY DEF SwitchClock, WasteClock
  <1>3. /\ lastSwitchMs'[c] = IF SwitchesOn(c) \/ SwitchesOff(c) THEN now ELSE lastSwitchMs[c]
        /\ gpio'[c] = RelayNext(c)
    <2>1. c \in Outputs /\ c # "buzzer"
      BY LoopsAssumption DEF AllLoops, Outputs, Shown
    <2> QED BY <2>1 DEF ClimateControl
  <1>4. /\ sinceOn'[c] = IF ~gpio[c] /\ gpio'[c] THEN 0 ELSE sinceOn[c]
        /\ wasteMs'[c] = IF gpio'[c] /\ MustGoOff(c) THEN wasteMs[c] ELSE 0
    BY <1>1, ClimateType
  <1>5. SwitchAge(c) \in Nat /\ wasteMs[c] \in Nat /\ sinceOn[c] \in Nat
    BY <1>1, Ages
  <1>6. CASE SwitchesOn(c) \/ SwitchesOff(c)
    <2>1. SwitchAge(c)' = 0 /\ sinceOn'[c] \in Nat
      BY <1>1, <1>2, <1>3, <1>4, <1>5, <1>6 DEF SwitchAge, Since
    <2>2. ~(gpio'[c] /\ MustGoOff(c))
      <3>1. CASE SwitchesOff(c)
        BY <1>3, <3>1 DEF RelayNext, Energised
      <3>2. CASE SwitchesOn(c)
        <4>1. /\ state.cur[c] \in Int /\ state.target[c] \in Int /\ settings.hyst[c] \in Nat
          BY <1>1, DataAssumption, SettingsAssumption DEF StateType, SettingsType
        <4>2. state.sensorOk /\ ~TooHigh(c)
          BY <3>2, <4>1 DEF SwitchesOn, TooLow, TooHigh
        <4> QED BY <1>1, <4>2 DEF MustGoOff, InControl
      <3> QED BY <1>6, <3>1, <3>2
    <2> QED BY <1>2, <1>4, <2>1, <2>2
  <1>7. CASE ~SwitchesOn(c) /\ ~SwitchesOff(c)
    <2>1. SwitchAge(c)' = SwitchAge(c) /\ lastSwitchMs'[c] = lastSwitchMs[c]
      BY <1>1, <1>3, <1>7 DEF SwitchAge, Since
    <2>2. sinceOn'[c] = sinceOn[c] /\ (gpio'[c] => gpio[c])
      BY <1>3, <1>4, <1>7 DEF RelayNext, Energised
    <2>3. CASE gpio'[c] /\ MustGoOff(c)
      <3>1. ~CanSwitch(c)
        BY <1>1, <1>7, <2>2, <2>3 DEF SwitchesOff, MustGoOff, InControl
      <3>2. SwitchAge(c) < RelayMinSwitch
        BY <1>2, <1>5, <3>1 DEF CanSwitch, SwitchAge
      <3> QED BY <1>2, <1>4, <1>5, <2>1, <2>2, <2>3, <3>2
              DEF ClimateIInv, SwitchClock, WasteClock
    <2>4. CASE ~(gpio'[c] /\ MustGoOff(c))
      BY <1>2, <1>4, <2>1, <2>2, <2>4 DEF ClimateIInv, SwitchClock
    <2> QED BY <2>3, <2>4
  <1> QED BY <1>6, <1>7

\* A tick that controls, for the alarms.
LEMMA AlarmStep ==
  ASSUME ClimateIInv, Climate, ClimateControl
  PROVE  AlarmClock' /\ UnalarmedClock' /\ AlarmNotEarly'
  <1>1. /\ ClimateLoopTypeOK /\ settings \in SettingsVals /\ turn = "climate"
        /\ ClimateDue /\ InControl /\ UNCHANGED <<now, settings>>
        /\ climateLastMs' = now /\ state \in StateType
    BY DEF ClimateIInv, ClimateLoopTypeOK, SharedTypeOK, Climate, ModuleTick, ClimateControl,
           ClimateInhibited, InControl
  <1>2. /\ TickAge \in Nat /\ TickAge' = 0 /\ MaxGap \in Nat /\ TickAge <= MaxGap
        /\ ConfirmMs \in Nat /\ ConfirmMs <= Cap /\ Cap \in Nat \ {0} /\ TickAge > 0
        /\ ConfirmMs + TickAge <= Wrap /\ ConfirmMs' = ConfirmMs
    <2>1. TickAge' = 0
      BY <1>1, Ages, SinceNow DEF TickAge, Since
    <2>2. TickAge \in Nat /\ TickAge >= ClimatePeriod /\ TickAge < ClimatePeriod + MaxLoopMs
      BY <1>1, Ages DEF ClimateIInv, TickClock, Late, ClimateDue, TickAge
    <2> QED BY <1>1, <2>1, <2>2, Rounds, ClockAssumption DEF ConfirmMs
  <1> SUFFICES ASSUME NEW c \in Loops
               PROVE  /\ IF oobMs'[c] = 0 THEN alarmMs'[c] = 0
                         ELSE oobMs'[c] < Cap => alarmMs'[c] + TickAge' <= oobMs'[c]
                      /\ \/ unalarmed'[c] <= TickAge'
                         \/ /\ alarmMs'[c] < ConfirmMs
                            /\ unalarmed'[c] <= MaxGap + alarmMs'[c] + TickAge'
                      /\ state'.alarm[c] => oobMs'[c] >= ConfirmMs
    BY <1>2 DEF AlarmClock, UnalarmedClock, AlarmNotEarly, ConfirmMs
  <1>3. alarmMs'[c] = AlarmMsNext(c) /\ state'.alarm[c] = AlarmNext(c)
    BY <1>1 DEF ClimateControl, StateType
  <1>4. /\ oobMs'[c] = IF ~OutOfBand(c) THEN 0
                       ELSE IF oobMs[c] = 0 THEN sinceTick ELSE oobMs[c]
        /\ unalarmed'[c] = IF OutOfBand(c) /\ ~state'.alarm[c] THEN unalarmed[c] ELSE 0
    BY <1>1, ClimateType DEF Climate, ModuleTick
  <1>5. alarmMs[c] \in Nat /\ unalarmed[c] \in Nat /\ oobMs[c] \in Nat
    BY <1>1, Ages
  <1>6. CASE ~OutOfBand(c)
    <2>1. alarmMs'[c] = 0 /\ ~state'.alarm[c] /\ oobMs'[c] = 0 /\ unalarmed'[c] = 0
      BY <1>3, <1>4, <1>6 DEF AlarmMsNext, AlarmNext, Confirmed
    <2> QED BY <1>2, <2>1
  <1>7. CASE OutOfBand(c)
    <2>1. /\ AlarmMsNext(c) \in Nat /\ AlarmMsNext(c) <= alarmMs[c] + TickAge
          /\ alarmMs[c] + TickAge < Wrap => AlarmMsNext(c) = alarmMs[c] + TickAge
      BY <1>1, <1>7, Accumulates
    <2>2. /\ oobMs'[c] \in Nat /\ oobMs'[c] > 0
          /\ oobMs'[c] < Cap => AlarmMsNext(c) <= oobMs'[c]
      <3>1. CASE oobMs[c] = 0
        <4>1. oobMs'[c] = sinceTick /\ alarmMs[c] = 0
          BY <1>4, <1>7, <3>1 DEF ClimateIInv, AlarmClock
        <4>2. sinceTick \in 0 .. Cap /\ (sinceTick < Cap => TickAge <= sinceTick)
          BY <1>1, Ages DEF ClimateIInv, TickSpan
        <4> QED BY <1>2, <2>1, <4>1, <4>2
      <3>2. CASE oobMs[c] # 0
        <4>1. oobMs'[c] = oobMs[c] /\ (oobMs[c] < Cap => alarmMs[c] + TickAge <= oobMs[c])
          BY <1>4, <1>7, <3>2 DEF ClimateIInv, AlarmClock
        <4> QED BY <1>2, <1>5, <2>1, <3>2, <4>1
      <3> QED BY <3>1, <3>2
    <2>3. state'.alarm[c] => oobMs'[c] >= ConfirmMs
      <3>1. CASE Confirmed(c)
        <4>1. AlarmMsNext(c) >= ConfirmMs
          BY <3>1 DEF Confirmed, ConfirmMs
        <4> QED BY <1>2, <2>1, <2>2, <4>1
      <3>2. CASE state.alarm[c]
        <4>1. oobMs[c] >= ConfirmMs
          BY <3>2 DEF ClimateIInv, AlarmNotEarly, ConfirmMs
        <4>2. oobMs[c] = 0 \/ oobMs'[c] = oobMs[c]
          BY <1>4, <1>7
        <4> QED BY <1>2, <1>5, <2>2, <4>1, <4>2
      <3> QED BY <1>3, <3>1, <3>2 DEF AlarmNext
    <2>4. \/ unalarmed'[c] = 0
          \/ AlarmMsNext(c) < ConfirmMs /\ unalarmed'[c] <= MaxGap + AlarmMsNext(c)
      <3> SUFFICES ASSUME ~state'.alarm[c]
                   PROVE  /\ AlarmMsNext(c) < ConfirmMs
                          /\ unalarmed[c] <= MaxGap + AlarmMsNext(c)
        BY <1>4
      <3>1. AlarmMsNext(c) < ConfirmMs
        <4>1. ~Confirmed(c)
          BY <1>3 DEF AlarmNext
        <4>2. ~(AlarmMsNext(c) >= ConfirmMs)
          BY <1>7, <4>1 DEF Confirmed, ConfirmMs
        <4> QED BY <1>2, <2>1, <4>2
      <3>2. CASE unalarmed[c] <= TickAge
        BY <1>2, <1>5, <2>1, <3>1, <3>2
      <3>3. CASE alarmMs[c] < ConfirmMs /\ unalarmed[c] <= MaxGap + alarmMs[c] + TickAge
        <4>1. alarmMs[c] + TickAge < Wrap
          BY <1>2, <1>5, <3>3, ClockAssumption
        <4> QED BY <1>2, <1>5, <2>1, <3>1, <3>3, <4>1
      <3> QED BY <3>2, <3>3 DEF ClimateIInv, UnalarmedClock
    <2> QED BY <1>2, <1>3, <2>1, <2>2, <2>3, <2>4
  <1> QED BY <1>6, <1>7

LEMMA ClimateStep ==
  ASSUME ClimateIInv, Climate
  PROVE  ClimateIInv'
  <1>1. ClimateTick /\ ClimateLoopTypeOK /\ state \in StateType
    BY DEF Climate, ModuleTick, ClimateIInv, ClimateLoopTypeOK, SharedTypeOK
  <1>2. CASE ClimateIdle
    BY <1>2, QuietStep DEF ClimateIdle, climateVars, sharedVars
  <1>3. CASE ClimatePaused
    <2>1. ~InControl /\ \A c \in Loops : ~MustGoOff(c)
      BY <1>3 DEF ClimatePaused, InControl, MustGoOff
    <2> QED BY <1>3, <2>1, QuietStep DEF ClimatePaused, sharedVars
  <1>4. CASE ClimateAllOff
    <2>1. ~InControl
      BY <1>4 DEF ClimateAllOff, ClimateInhibited, InControl
    <2>2. ASSUME NEW c \in Loops PROVE ~gpio'[c] /\ ~state'.alarm[c]
      <3>1. c \in Outputs
        BY DEF Outputs, Shown
      <3>2. gpio'[c] = (gpio[c] /\ c \notin Loops \cup {"buzzer"})
        BY <1>4, <3>1 DEF ClimateAllOff
      <3>3. state'.alarm[c] = FALSE
        BY <1>1, <1>4 DEF ClimateAllOff, StateType
      <3> QED BY <3>2, <3>3
    <2> QED BY <1>4, <2>1, <2>2, QuietStep DEF ClimateAllOff
  <1>5. CASE ClimateControl
    <2>1. ClimateLoopTypeOK'
      BY <1>1, ClimateType
    <2>2. TickClock'
      <3>1. TickAge' = 0 /\ turn' = "others"
        BY <1>1, <1>5, Ages, SinceNow DEF ClimateControl, Climate, ModuleTick, TickAge, Since
      <3> QED BY <3>1, ClimateAssumption DEF TickClock, Late
    <2>3. TickSpan'
      <3>1. TickAge' = 0 /\ sinceTick' \in Nat
        BY <1>1, <1>5, <2>1, Ages, SinceNow, LoopMsAssumption
           DEF ClimateControl, Climate, ModuleTick, TickAge, Since, ClimateLoopTypeOK
      <3> QED BY <3>1 DEF TickSpan
    <2> QED BY <1>5, <2>1, <2>2, <2>3, RelayStep, AlarmStep DEF ClimateIInv
  <1> QED BY <1>1, <1>2, <1>3, <1>4, <1>5 DEF ClimateTick

LEMMA ClimateInitInv == ClimateLoopInit => ClimateIInv
  <1> SUFFICES ASSUME ClimateLoopInit PROVE ClimateIInv
    OBVIOUS
  <1>1. 0 \in Times /\ 0 \in 0 .. Cap /\ Cap \in 0 .. Cap /\ Cap \in Nat
    BY TimesAreNat, LoopMsAssumption
  <1>2. SharedTypeOK /\ ClimateTypeOK
    <2>1. state \in StateType
      BY ZeroInStateType DEF ClimateLoopInit, RoundsInit, Booted, StateType
    <2> QED BY <1>1, <2>1
            DEF ClimateLoopInit, RoundsInit, ClimateInit, SharedTypeOK, ClimateTypeOK, AllLow
  <1>3. ClimateLoopTypeOK
    BY <1>1, <1>2 DEF ClimateLoopInit, RoundsInit, ClimateLoopTypeOK
  <1>4. /\ TickAge = 0 /\ sinceTick = 0 /\ turn = "others" /\ ClimatePeriod \in Nat \ {0}
        /\ \A c \in Loops : /\ sinceOn[c] = Cap /\ wasteMs[c] = 0 /\ oobMs[c] = 0
                            /\ alarmMs[c] = 0 /\ unalarmed[c] = 0 /\ state.alarm[c] = FALSE
    BY <1>1, SinceNow, ClimateAssumption
       DEF ClimateLoopInit, RoundsInit, Booted, ClimateInit, Zero, TickAge
  <1>5. TickClock /\ TickSpan /\ WasteClock /\ AlarmClock /\ UnalarmedClock /\ AlarmNotEarly
    BY <1>4 DEF TickClock, TickSpan, Late, WasteClock, AlarmClock, UnalarmedClock, AlarmNotEarly
  <1>6. SwitchClock
    BY <1>1, <1>4 DEF SwitchClock
  <1> QED BY <1>3, <1>5, <1>6 DEF ClimateIInv

LEMMA RestartStep == Restart => ClimateIInv'
  <1>1. Restart => ClimateLoopInit'
    BY DEF Restart, Reboot, ClimateLoopInit, RoundsInit, Booted, ClimateInit
  <1>2. ClimateLoopInit' => ClimateIInv'
    BY ClimateInitInv, PTL
  <1> QED BY <1>1, <1>2

-----------------------------------------------------------------------------
(* The theorems. *)

(* The invariant holds in every reachable state.                            *)
THEOREM ClimateInvariance == ClimateLoopSpec => []ClimateIInv
  <1>1. ClimateIInv /\ [ClimateLoopNext]_loopVars => ClimateIInv'
    <2> SUFFICES ASSUME ClimateIInv, [ClimateLoopNext]_loopVars PROVE ClimateIInv'
      OBVIOUS
    <2>1. ASSUME NEW d \in LoopMs, Advance(d) PROVE ClimateIInv'
      BY <2>1, AdvanceStep
    <2>2. CASE Others
      BY <2>2, OthersStep
    <2>3. CASE Climate
      BY <2>3, ClimateStep
    <2>4. CASE Restart
      BY <2>4, RestartStep
    <2>5. CASE UNCHANGED loopVars
      BY <2>5
         DEF ClimateIInv, ClimateLoopTypeOK, SharedTypeOK, ClimateTypeOK, TickClock,
             TickSpan, SwitchClock, WasteClock, AlarmClock, UnalarmedClock, AlarmNotEarly, TickAge,
             SwitchAge, ConfirmMs, Late, Since, loopVars, roundVars, sharedVars, climateVars,
             historyVars, Times
    <2> QED BY <2>1, <2>2, <2>3, <2>4, <2>5 DEF ClimateLoopNext
  <1> QED BY <1>1, ClimateInitInv, PTL DEF ClimateLoopSpec

(* Stamps and accumulators stay within the clock's width (checkAlarms).     *)
THEOREM ClimateTypeCorrect == ClimateLoopSpec => []ClimateLoopTypeOK
  <1>1. ClimateIInv => ClimateLoopTypeOK
    BY DEF ClimateIInv
  <1> QED BY <1>1, ClimateInvariance, PTL

\* The numbers the bounds are made of.
LEMMA Bounds ==
  ASSUME ClimateIInv
  PROVE  /\ MaxGap \in Nat \ {0} /\ TickAge \in Nat /\ TickAge <= MaxGap
         /\ RelayMinSwitch \in Nat /\ RelayMinSwitch <= Cap /\ Cap \in Nat
         /\ ConfirmMs \in Nat
  <1>1. ClimateLoopTypeOK /\ settings \in SettingsVals /\ TickClock
    BY DEF ClimateIInv, ClimateLoopTypeOK, SharedTypeOK
  <1>2. /\ MaxLoopMs \in Nat \ {0} /\ ClimatePeriod \in Nat \ {0} /\ MaxGap \in Nat \ {0}
        /\ MaxGap = ClimatePeriod + MaxLoopMs - 1
        /\ RelayMinSwitch \in Nat /\ RelayMinSwitch <= Cap /\ Cap \in Nat
        /\ ConfirmMs \in Nat /\ TickAge \in Nat
    BY <1>1, Rounds, Ages
  <1> QED BY <1>1, <1>2 DEF TickClock, Late

(* No relay is switched on twice within kRelayMinSwitchMs, whatever switched *)
(* it off in between (canSwitch).                                           *)
THEOREM OnEdgesSpacedHolds == ClimateLoopSpec => OnEdgesSpaced
  <1>1. ASSUME ClimateIInv, Climate, NEW c \in Loops, ~gpio[c], gpio'[c], lastSwitchMs[c] # 0
        PROVE  sinceOn[c] >= RelayMinSwitch
    <2>1. c \in Outputs /\ c # "buzzer" /\ gpio \in [Outputs -> BOOLEAN]
      BY <1>1, LoopsAssumption
         DEF AllLoops, Outputs, Shown, ClimateIInv, ClimateLoopTypeOK, SharedTypeOK
    <2>2. ClimateControl
      BY <1>1, <2>1
         DEF Climate, ModuleTick, ClimateTick, ClimateIdle, ClimatePaused, ClimateAllOff, sharedVars
    <2>3. gpio'[c] = RelayNext(c)
      BY <2>1, <2>2 DEF ClimateControl
    <2>4. SwitchesOn(c)
      BY <1>1, <2>3 DEF RelayNext, Energised
    <2>5. SwitchAge(c) >= RelayMinSwitch
      BY <1>1, <2>4 DEF SwitchesOn, CanSwitch, SwitchAge
    <2>6. sinceOn[c] \in 0 .. Cap /\ SwitchAge(c) \in Nat
      BY <1>1, Ages DEF ClimateIInv
    <2> QED BY <1>1, <2>5, <2>6, Bounds DEF ClimateIInv, SwitchClock
  <1>2. ClimateIInv /\ [ClimateLoopNext]_loopVars
          => [\A c \in Loops : ~gpio[c] /\ gpio'[c] /\ Climate /\ lastSwitchMs[c] # 0
                               => sinceOn[c] >= RelayMinSwitch]_loopVars
    BY <1>1
  <1> QED BY <1>2, ClimateInvariance, PTL DEF ClimateLoopSpec, OnEdgesSpaced

(* Outside manual mode no relay outstays its reason by more than the        *)
(* minimum and two gaps (canSwitch, allOff, the tick gate).                 *)
THEOREM RelayGoesOffHolds == ClimateLoopSpec => []RelayGoesOff
  <1>1. ClimateIInv => RelayGoesOff
    <2> SUFFICES ASSUME ClimateIInv, NEW c \in Loops
                 PROVE  wasteMs[c] < RelayMinSwitch + 2 * MaxGap
      BY DEF RelayGoesOff
    <2>1. wasteMs[c] \in Nat /\ SwitchAge(c) \in Nat
      BY Ages DEF ClimateIInv
    <2> QED BY <2>1, Bounds DEF ClimateIInv, WasteClock
  <1> QED BY <1>1, ClimateInvariance, PTL

(* No alarm is raised before a reading was out of band for alarmConfirmMs   *)
(* (checkAlarms).                                                           *)
THEOREM AlarmNotEarlyHolds == ClimateLoopSpec => []AlarmNotEarly
  <1>1. ClimateIInv => AlarmNotEarly
    BY DEF ClimateIInv
  <1> QED BY <1>1, ClimateInvariance, PTL

(* None is raised later than alarmConfirmMs and two gaps, however often the *)
(* accumulator wraps (checkAlarms).                                         *)
THEOREM AlarmNotLateHolds == ClimateLoopSpec => []AlarmNotLate
  <1>1. ClimateIInv => AlarmNotLate
    <2> SUFFICES ASSUME ClimateIInv, NEW c \in Loops
                 PROVE  unalarmed[c] < ConfirmMs + 2 * MaxGap
      BY DEF AlarmNotLate, ConfirmMs
    <2>1. unalarmed[c] \in Nat /\ alarmMs[c] \in Nat
      BY Ages DEF ClimateIInv
    <2> QED BY <2>1, Bounds DEF ClimateIInv, UnalarmedClock
  <1> QED BY <1>1, ClimateInvariance, PTL
=============================================================================
