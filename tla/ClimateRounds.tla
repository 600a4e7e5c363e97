---------------------------- MODULE ClimateRounds ----------------------------
(***************************************************************************)
(* ClimateModule in the main loop: each round the clock advances and        *)
(* ClimateModule::tick runs, and around it the other components act on the  *)
(* state, the settings and the pins it shares with them; a restart sets     *)
(* everything back.  The other components are here only by what they can do *)
(* to what the module reads or switches.  Incubator, which has all of them, *)
(* implements this specification.                                           *)
(***************************************************************************)
EXTENDS ClimateModule, OutputCommands

CONSTANT LoopMs   \* how far the clock can move between two rounds

VARIABLE turn     \* "others" or "climate": the module has had its tick or not

roundVars == <<sharedVars, climateVars, turn>>

\* The state after setup(): a stored batch goes on.
Booted == {[Zero EXCEPT !.batchActive = b] : b \in BOOLEAN}

RoundsInit ==
  /\ now = 0 /\ state \in Booted /\ settings \in SettingsVals /\ gpio = AllLow
  /\ ClimateInit
  /\ turn = "others"

\* The next round of loop() begins.
NextMillis(d) ==
  /\ turn = "others" /\ turn' = "climate"
  /\ now' = (now + d) % Wrap
  /\ UNCHANGED <<state, settings, gpio, climateVars>>

\* SensorManager::tick.
Measure == Sensed /\ UNCHANGED <<settings, gpio>>

\* Batches start and stop, rows are applied, and a missing row or a write that
\* failed sets safeMode.
Schedule ==
  /\ \E b, s \in BOOLEAN, t \in [Loops -> Levels] :
       state' = [state EXCEPT !.batchActive = b, !.safeMode = @ \/ s, !.target = t]
  /\ UNCHANGED <<settings, gpio>>

\* cmdFactoryReset: the state and the settings as constructed, under the
\* outputs' feet.
Forget ==
  /\ ~state.manualMode
  /\ state' = Zero /\ settings' \in SettingsVals
  /\ UNCHANGED gpio

UserCommand ==
  \/ ~state.manualMode /\ EnterManualMode
  \/ state.manualMode /\ ExitManualMode
  \/ state.manualMode /\ \E o \in Loops : SwitchManualOn(o) \/ SwitchManualOff(o)

\* Before the module's tick, the sensor and the scheduler; after it, the user.
OtherModule ==
  /\ Measure \/ Schedule \/ Forget \/ UserCommand
  /\ UNCHANGED <<turn, now, climateVars>>

ModuleTick ==
  /\ turn = "climate" /\ turn' = "others"
  /\ ClimateTick

\* rebootClick, the watchdog, or the power.
Reboot ==
  /\ now' = 0 /\ state' \in Booted /\ settings' \in SettingsVals /\ gpio' = AllLow
  /\ climateLastMs' = 0
  /\ alarmMs' = [c \in Loops |-> 0] /\ lastSwitchMs' = [c \in Loops |-> 0]
  /\ turn' = "others"

RoundsNext == (\E d \in LoopMs : NextMillis(d)) \/ OtherModule \/ ModuleTick \/ Reboot
RoundsSpec == RoundsInit /\ [][RoundsNext]_roundVars
=============================================================================
