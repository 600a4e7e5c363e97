------------------------------ MODULE Incubator ------------------------------
(***************************************************************************)
(* The firmware as main.cpp composes it.  loop() samples the clock once and *)
(* runs the modules one after the other; they share the state, the pins and *)
(* the plan without locks.  A module's tick is one step here, so that the   *)
(* properties hold between any two of them, and a command that writes to    *)
(* storage is several.  The watchdog or a power failure can restart the     *)
(* firmware at any of these points.                                         *)
(***************************************************************************)
EXTENDS ClimateModule, TurningModule, IncubationScheduler, UiController

CONSTANT LoopMs   \* how far the clock can move between two rounds

VARIABLE pc       \* whose turn it is in loop()

vars == <<sharedVars, planVars, storageVars, commandVars, climateVars, turningVars,
          schedulerVars, uiVars, pc>>

LoopSteps == {"sensor", "scheduler", "climate", "turning", "ui", "command"}

ASSUME LoopMsAssumption == LoopMs \subseteq Nat \ {0}

\* PinConfig.h: the heater and the humidifier have pins.
ASSUME WiringAssumption == Loops \subseteq Wired

TypeOK ==
  /\ SharedTypeOK /\ PlanTypeOK /\ AppTypeOK
  /\ ClimateTypeOK /\ TurningTypeOK /\ SchedulerTypeOK /\ UiTypeOK
  /\ pc \in LoopSteps

\* A factory-fresh device after setup().
Init ==
  /\ now = 0 /\ state = Zero /\ settings \in SettingsVals /\ gpio = AllLow
  /\ batch = EmptyBatch /\ plan = <<>>
  /\ nvsBatch = EmptyBatch /\ planFile = <<>>
  /\ busy = "none" /\ result = "none"
  /\ ClimateInit /\ TurningInit
  /\ SchedulerInit /\ epoch \in Epochs
  /\ screen = "Main" /\ asked = FALSE /\ uiOn = [o \in Shown |-> FALSE]
  /\ pc = "command"

-----------------------------------------------------------------------------
(* loop(), one disjunct per module *)

Turn(here, next) == pc = here /\ pc' = next

Sense ==
  /\ Turn("sensor", "scheduler")
  /\ Sensed
  /\ UNCHANGED <<now, settings, gpio, planVars, storageVars, commandVars,
                 climateVars, turningVars, schedulerVars, uiVars>>

Schedule ==
  /\ Turn("scheduler", "climate")
  /\ SchedulerTick
  /\ UNCHANGED <<storageVars, commandVars, climateVars, turningVars, uiVars>>

Climate ==
  /\ Turn("climate", "turning")
  /\ ClimateTick
  /\ UNCHANGED <<planVars, storageVars, commandVars, turningVars, schedulerVars, uiVars>>

Turning ==
  /\ Turn("turning", "ui")
  /\ TurningTick
  /\ UNCHANGED <<planVars, storageVars, commandVars, climateVars, schedulerVars, uiVars>>

\* UiController::tick; the command it issues may take more steps.
Ui ==
  /\ Turn("ui", "command")
  /\ UiTick
  /\ UNCHANGED <<climateVars, turningVars, schedulerVars>>

Write ==
  /\ Turn("command", "command")
  /\ CommandStep
  /\ UNCHANGED <<climateVars, turningVars, schedulerVars, uiVars>>

Returned ==
  /\ Turn("command", "command")
  /\ UiReturns
  /\ UNCHANGED <<climateVars, turningVars, schedulerVars>>

\* The end of loop() and the millis() of the next; the wall clock goes on,
\* or SNTP sets it, forward or backward.
NextRound ==
  /\ Turn("command", "sensor")
  /\ Idle /\ result = "none"
  /\ \E d \in LoopMs : now' = (now + d) % Wrap
  /\ epoch' \in Epochs
  /\ UNCHANGED <<state, settings, gpio, planVars, storageVars, commandVars,
                 climateVars, turningVars, schedulerLastMs, uiVars>>

\* rebootClick, the watchdog, or the power: setup() on fresh memory.
Restart ==
  /\ Boot
  /\ now' = 0 /\ schedulerLastMs' = 0 /\ epoch' \in Epochs
  /\ climateLastMs' = 0
  /\ alarmMs' = [c \in Loops |-> 0] /\ lastSwitchMs' = [c \in Loops |-> 0]
  /\ turningLastMs' = 0 /\ turningOnMs' = 0 /\ isTurning' = FALSE
  /\ screen' = "Main" /\ asked' = FALSE /\ uiOn' = [o \in Shown |-> FALSE]
  /\ pc' = "command"

LoopStep ==
  Sense \/ Schedule \/ Climate \/ Turning \/ Ui \/ Write \/ Returned \/ NextRound

Next == LoopStep \/ Restart
Spec == Init /\ [][Next]_vars

\* The main task runs loop() for ever.
FairSpec == Spec /\ WF_vars(LoopStep)

-----------------------------------------------------------------------------
(* Properties *)

(* Manual mode and its screen go together (enterManual, exitManual): with   *)
(* one and not the other, every automatic control would be suspended with   *)
(* no way for the user to end it, or the switches would fight the modules.  *)
ManualScreen == state.manualMode <=> screen = "Manual"

(* A turner that runs outside manual mode is one TurningModule knows to be  *)
(* running, whatever manual mode, a factory reset or a restart did before:  *)
(* its tick switches nothing off that it does not believe to be on.         *)
TurnerOwned == gpio["turner"] /\ ~state.manualMode => isTurning

(* The relays shown to the user in manual mode are the relays that are on   *)
(* (cmdEnterManualMode, HeaterOn, cmdFactoryReset, allOff).                  *)
ManualRelaysShown == state.manualMode => MirrorAgrees(Loops)

(* In manual mode only the user's clicks switch outputs: each module honours*)
(* the flag, and no command that is still in progress interferes.           *)
ManualIsManual ==
  [][state.manualMode /\ state'.manualMode /\ gpio' # gpio => pc = "ui"]_vars

\* ClimateModule's view of the firmware: the part of the state and the pins
\* that its tick reads or writes.  The rest is as in Zero.
View(cur, target, sensorOk, on, alarm, safeMode, batchActive, manualMode) ==
  [cur |-> cur, target |-> target, sensorOk |-> sensorOk,
   on |-> on, alarm |-> alarm, safeMode |-> safeMode, batchActive |-> batchActive,
   lockdownActive |-> FALSE, turningEnabled |-> TRUE, manualMode |-> manualMode,
   currentDay |-> 1, totalDays |-> DefaultDays, lastTurningMs |-> 0]
Flags(on) == [o \in Shown |-> o \in Loops /\ on[o]]
Pins(levels) == [o \in Outputs |-> o \in Loops \cup {"buzzer"} /\ levels[o]]

Rounds == INSTANCE ClimateRounds
  WITH state <- View(state.cur, state.target, state.sensorOk, Flags(state.on),
                     state.alarm, state.safeMode, state.batchActive, state.manualMode),
       gpio <- Pins(gpio),
       turn <- IF pc \in {"sensor", "scheduler", "climate"} THEN "climate" ELSE "others"

(* To ClimateModule the rest of the firmware, with its commands cut at their*)
(* writes, its failures and its restarts, is what ClimateRounds has in its  *)
(* place: whatever is shown there of the relays and the alarms is true of   *)
(* the composed firmware.                                                   *)
ClimateAsInRounds == Rounds!RoundsSpec

(* Safe mode without manual mode brings all relays down (allOff), even when *)
(* they were left on by a factory reset or a failed start.                  *)
SafeModeCools ==
  (state.safeMode /\ ~state.manualMode)
    ~> (~state.safeMode \/ state.manualMode \/ \A c \in Loops : ~gpio[c])

(* A turner that runs outside manual mode is switched off in the end.       *)
TurnerStops ==
  (gpio["turner"] /\ ~state.manualMode) ~> (~gpio["turner"] \/ state.manualMode)

(* "Runtime Core v1" design, line 62: RuntimeState is the only truth of the *)
(* state of the system, and manual mode shows the turner from it.           *)
ManualTurnerShown == state.manualMode => MirrorAgrees({"turner"})
=============================================================================
