----------------------------- MODULE ClimateLoop -----------------------------
(***************************************************************************)
(* The real-time behaviour of ClimateModule.  History variables added to    *)
(* ClimateRounds measure how long things have lasted, so that the           *)
(* properties speak of time rather than of the module's own stamps.         *)
(***************************************************************************)
EXTENDS ClimateRounds

CONSTANT Cap   \* the history variables saturate here

VARIABLES
  sinceTick, \* time since the module's last tick that was due
  sinceOn,   \* time since the module last switched each relay on
  wasteMs,   \* how long each relay has been on while it has to go off
  oobMs,     \* how long ago the module began to see each reading out of band
  unalarmed  \* how long a reading has been out of band, under uninterrupted
             \* control, without an alarm

historyVars == <<sinceTick, sinceOn, wasteMs, oobMs, unalarmed>>
loopVars == <<roundVars, historyVars>>

ASSUME LoopMsAssumption == LoopMs \subseteq Nat \ {0} /\ Cap \in Nat

Saturate(n) == IF n > Cap THEN Cap ELSE n
MaxLoopMs == CHOOSE d \in LoopMs : \A e \in LoopMs : e <= d

\* The longest time between two ticks that get past the period gate.
MaxGap == ClimatePeriod + MaxLoopMs - 1

\* What is timed is shorter than millis() takes to wrap, and than Cap.
ASSUME RoundsAssumption ==
  /\ \E d \in LoopMs : \A e \in LoopMs : e <= d
  /\ RelayMinSwitch + ClimatePeriod + MaxLoopMs <= Wrap
  /\ RelayMinSwitch <= Cap /\ 0 < Cap
  /\ \A s \in SettingsVals : /\ s.alarmConfirmMs + ClimatePeriod + MaxLoopMs <= Wrap
                             /\ s.alarmConfirmMs <= Cap

ClimateLoopTypeOK ==
  /\ SharedTypeOK /\ ClimateTypeOK
  /\ turn \in {"others", "climate"}
  /\ sinceTick \in 0 .. Cap
  /\ sinceOn \in [Loops -> 0 .. Cap]
  /\ wasteMs \in [Loops -> 0 .. Cap]
  /\ oobMs \in [Loops -> 0 .. Cap]
  /\ unalarmed \in [Loops -> 0 .. Cap]

ClimateLoopInit ==
  /\ RoundsInit
  /\ sinceTick = 0
  /\ sinceOn = [c \in Loops |-> Cap]
  /\ wasteMs = [c \in Loops |-> 0]
  /\ oobMs = [c \in Loops |-> 0]
  /\ unalarmed = [c \in Loops |-> 0]

-----------------------------------------------------------------------------
\* The module is in charge of the relays and the alarms.
InControl == ~state.manualMode /\ ~state.safeMode /\ state.batchActive

\* A relay the module has to bring down: no control to run, or a reading
\* above the band.
MustGoOff(c) ==
  /\ ~state.manualMode
  /\ state.safeMode \/ ~state.batchActive \/ ~state.sensorOk \/ TooHigh(c)

Advance(d) ==
  /\ NextMillis(d)
  /\ sinceTick' = Saturate(sinceTick + d)
  /\ sinceOn' = [c \in Loops |-> Saturate(sinceOn[c] + d)]
  /\ wasteMs' = [c \in Loops |-> IF gpio[c] /\ MustGoOff(c)
                                 THEN Saturate(wasteMs[c] + d) ELSE 0]
  /\ oobMs' = [c \in Loops |-> IF oobMs[c] > 0 THEN Saturate(oobMs[c] + d) ELSE 0]
  /\ unalarmed' = [c \in Loops |-> IF InControl /\ OutOfBand(c) /\ ~state.alarm[c]
                                   THEN Saturate(unalarmed[c] + d) ELSE 0]

Others ==
  /\ OtherModule
  /\ unalarmed' = [c \in Loops |-> IF (InControl /\ OutOfBand(c) /\ ~state.alarm[c])'
                                   THEN unalarmed[c] ELSE 0]
  /\ UNCHANGED <<sinceTick, sinceOn, wasteMs, oobMs>>

Climate ==
  /\ ModuleTick
  /\ sinceTick' = IF ClimateDue THEN 0 ELSE sinceTick
  /\ sinceOn' = [c \in Loops |-> IF ~gpio[c] /\ gpio'[c] THEN 0 ELSE sinceOn[c]]
  /\ wasteMs' = [c \in Loops |-> IF gpio'[c] /\ MustGoOff(c) THEN wasteMs[c] ELSE 0]
  /\ oobMs' = [c \in Loops |->
       IF ~(ClimateDue /\ InControl) THEN oobMs[c]
       ELSE IF ~OutOfBand(c) THEN 0
       ELSE IF oobMs[c] = 0 THEN sinceTick ELSE oobMs[c]]
  /\ unalarmed' = [c \in Loops |-> IF InControl /\ OutOfBand(c) /\ ~state'.alarm[c]
                                   THEN unalarmed[c] ELSE 0]

\* What was measured before a restart is of no account after it.
Restart ==
  /\ Reboot
  /\ sinceTick' = 0
  /\ sinceOn' = [c \in Loops |-> Cap]
  /\ wasteMs' = [c \in Loops |-> 0]
  /\ oobMs' = [c \in Loops |-> 0]
  /\ unalarmed' = [c \in Loops |-> 0]

-----------------------------------------------------------------------------
(* Properties *)

(* A relay is never switched on by the module again within                  *)
(* kRelayMinSwitchMs of the last time it was (canSwitch), whatever shut it  *)
(* off in between, short of a restart, which forgets the stamp.  The other  *)
(* exception is a stamp that is 0 because the clock was exactly 0 when the  *)
(* relay switched.                                                          *)
OnEdgesSpaced ==
  [][\A c \in Loops : ~gpio[c] /\ gpio'[c] /\ Climate /\ lastSwitchMs[c] # 0
                      => sinceOn[c] >= RelayMinSwitch]_loopVars

(* Outside manual mode no relay stays on longer than kRelayMinSwitchMs and  *)
(* two ticks once it has to go off (canSwitch, allOff, the tick gate).  One *)
(* tick would be enough if the age of the stamp did not wrap: a stamp 49.7  *)
(* days old looks fresh again.                                              *)
RelayGoesOff == \A c \in Loops : wasteMs[c] < RelayMinSwitch + 2 * MaxGap

(* An alarm is raised only for a reading the module has seen out of band    *)
(* for alarmConfirmMs, interrupted control included (checkAlarms): since    *)
(* the tick before the one that first saw it, if an interruption, however   *)
(* long, is not taken for a tick.                                           *)
AlarmNotEarly ==
  \A c \in Loops : state.alarm[c] => oobMs[c] >= settings.alarmConfirmMs

(* A reading that stays out of band under uninterrupted control is alarmed  *)
(* within alarmConfirmMs and two ticks, the second one for the accumulator  *)
(* that wraps (checkAlarms adds the whole delta).                           *)
AlarmNotLate ==
  \A c \in Loops : unalarmed[c] < settings.alarmConfirmMs + 2 * MaxGap

ClimateLoopNext == (\E d \in LoopMs : Advance(d)) \/ Others \/ Climate \/ Restart
ClimateLoopSpec == ClimateLoopInit /\ [][ClimateLoopNext]_loopVars
=============================================================================
