--------------------------- MODULE IncubatorProofs ---------------------------
(***************************************************************************)
(* Proofs about Incubator.                                                  *)
(***************************************************************************)
EXTENDS Incubator, BatchLifecycleProofs

-----------------------------------------------------------------------------
(* The modules' ticks preserve the types of what they touch. *)

LEMMA ClimateTickType ==
  ASSUME SharedTypeOK, ClimateTypeOK, ClimateTick
  PROVE  SharedTypeOK' /\ ClimateTypeOK'
  <1> USE DEF SharedTypeOK, ClimateTypeOK
  <1>1. CASE ClimateIdle
    BY <1>1 DEF ClimateIdle, climateVars, sharedVars
  <1>2. CASE ClimatePaused
    BY <1>2 DEF ClimatePaused, sharedVars
  <1>3. CASE ClimateAllOff
    <2>1. gpio' \in [Outputs -> BOOLEAN]
      BY <1>3 DEF ClimateAllOff
    <2>2. state' \in StateType
      BY <1>3 DEF ClimateAllOff, StateType
    <2> QED BY <1>3, <2>1, <2>2 DEF ClimateAllOff
  <1>4. CASE ClimateControl
    <2>1. \A o \in Loops : RelayNext(o) \in BOOLEAN
      BY DEF RelayNext, Energised
    <2>2. \A c \in Loops : AlarmNext(c) \in BOOLEAN
      BY DEF AlarmNext
    <2>3. gpio' \in [Outputs -> BOOLEAN]
      <3>1. Energised("buzzer", BuzzerNext) \in BOOLEAN
        BY DEF Energised
      <3> QED BY <1>4, <2>1, <3>1 DEF ClimateControl
    <2>4. state' \in StateType
      BY <1>4, <2>1, <2>2 DEF ClimateControl, StateType
    <2>5. alarmMs' \in [Loops -> Times]
      <3>1. \A c \in Loops : AlarmMsNext(c) \in Times
        <4> SUFFICES ASSUME NEW c \in Loops PROVE AlarmMsNext(c) \in Times
          OBVIOUS
        <4>1. 0 \in Times /\ alarmMs[c] \in Int /\ Since(climateLastMs) \in Int
          BY SinceTimes, ClockAssumption DEF Times
        <4> QED BY <4>1, ModTimes DEF AlarmMsNext
      <3> QED BY <1>4, <3>1 DEF ClimateControl
    <2>6. lastSwitchMs' \in [Loops -> Times] /\ climateLastMs' \in Times
      BY <1>4 DEF ClimateControl
    <2> QED BY <1>4, <2>3, <2>4, <2>5, <2>6 DEF ClimateControl
  <1> QED BY <1>1, <1>2, <1>3, <1>4 DEF ClimateTick

LEMMA TurningTickType ==
  ASSUME SharedTypeOK, TurningTypeOK, TurningTick
  PROVE  SharedTypeOK' /\ TurningTypeOK'
  <1> USE DEF SharedTypeOK, TurningTypeOK
  <1>1. CASE TurningIdle
    BY <1>1 DEF TurningIdle, turningVars, sharedVars
  <1>2. CASE TurningPaused
    BY <1>2 DEF TurningPaused, sharedVars
  <1>3. CASE TurningRuns /\ TurnerOff
    BY <1>3 DEF TurningRuns, TurnerOff, StateType, Shown
  <1>4. CASE TurningStart
    BY <1>4 DEF TurningStart, TurningRuns, Energised, StateType, Shown
  <1>5. CASE TurningWait
    BY <1>5 DEF TurningWait, TurningRuns, sharedVars
  <1> QED BY <1>1, <1>2, <1>3, <1>4, <1>5 DEF TurningTick, TurningStop, TurningEnd

-----------------------------------------------------------------------------
(* The inductive invariant. *)

\* A command occupies the main task until the screen has followed it.
CommandPhase == pc # "command" => busy = "none" /\ result = "none"

\* No command that writes is issued by the manual screen.
CommandScreen == busy # "none" \/ result # "none" => screen # "Manual"

IInv ==
  /\ TypeOK
  /\ CommandPhase /\ CommandScreen /\ PlanReady
  /\ ManualScreen /\ TurnerOwned /\ ManualRelaysShown

LEMMA UiTickType ==
  ASSUME CommandTypeOK, UiTypeOK, UiTick
  PROVE  CommandTypeOK' /\ UiTypeOK'
  <1>1. uiOn' \in [Shown -> BOOLEAN]
    BY DEF UiTick, Refresh, UiTypeOK, CommandTypeOK, SharedTypeOK, StateType
  <1>2. UiTypeOK'
    BY <1>1 DEF UiTick, UiTypeOK, HandleInput, Stay, OpenItem, ClickStartDate, ClickPreset,
                ClickPlan, ClickManual, ClickConfirm, HoldFactoryReset, LongPress, Go, Screens
  <1> SUFFICES CommandTypeOK'
    BY <1>2
  <1>3. CASE NoCommand
    BY <1>3 DEF NoCommand, CommandTypeOK, SharedTypeOK, PlanTypeOK, AppTypeOK, sharedVars,
                planVars, storageVars, commandVars
  <1>4. ASSUME OutputsOnly,
               \/ EnterManualMode \/ ExitManualMode \/ UnhandledCommand
               \/ \E o \in Loops \cup {"turner"} : SwitchManualOff(o) \/ SwitchManualOn(o)
        PROVE  CommandTypeOK'
    <2>1. SharedTypeOK'
      BY <1>4, OutputCommandType DEF CommandTypeOK
    <2> QED BY <1>4, <2>1 DEF OutputsOnly, CommandTypeOK, PlanTypeOK, AppTypeOK,
                              planVars, storageVars, commandVars
  <1>5. ASSUME NEW s \in Species, NEW e \in StartDates, StartBatch(s, e)
        PROVE  CommandTypeOK'
    BY <1>5, StartBatchType, InputAssumption
  <1>6. ASSUME NEW d \in EditDays, NEW r \in EditRows, PatchPlanRow(d, r)
        PROVE  CommandTypeOK'
    BY <1>6, PatchPlanRowType, InputAssumption
  <1>7. CASE FactoryReset
    BY <1>7, FactoryResetType
  <1>8. CASE ClickManual
    BY <1>4, <1>8 DEF ClickManual
  <1>9. CASE LongPress
    BY <1>3, <1>4, <1>9 DEF LongPress
  <1>10. CASE OpenItem
    BY <1>3, <1>4, <1>10 DEF OpenItem
  <1>11. CASE Stay \/ ClickConfirm \/ HoldFactoryReset
    BY <1>3, <1>7, <1>11 DEF Stay, ClickConfirm, HoldFactoryReset
  <1>12. CASE ClickStartDate
    BY <1>3, <1>5, <1>12, PlanAssumption DEF ClickStartDate
  <1>13. CASE ClickPreset
    BY <1>3, <1>5, <1>13 DEF ClickPreset
  <1>14. CASE ClickPlan
    BY <1>3, <1>6, <1>14 DEF ClickPlan
  <1> QED BY <1>2, <1>8, <1>9, <1>10, <1>11, <1>12, <1>13, <1>14 DEF UiTick, HandleInput

-----------------------------------------------------------------------------
LEMMA InitInv == Init => IInv
  <1> SUFFICES ASSUME Init PROVE IInv
    OBVIOUS
  <1>1. SharedTypeOK /\ PlanTypeOK /\ AppTypeOK
    BY ZeroType, AllLowType, EmptyBatchType, EmptyPlanType, ClockAssumption
       DEF Init, SharedTypeOK, PlanTypeOK, AppTypeOK, Writes, Times
  <1>2. ClimateTypeOK /\ TurningTypeOK /\ SchedulerTypeOK
    <2>1. 0 \in Times
      BY ClockAssumption DEF Times
    <2>2. ClimateTypeOK
      BY <2>1 DEF Init, ClimateInit, ClimateTypeOK
    <2>3. TurningTypeOK /\ SchedulerTypeOK
      BY <2>1 DEF Init, TurningInit, SchedulerInit, TurningTypeOK, SchedulerTypeOK
    <2> QED BY <2>2, <2>3
  <1>3. UiTypeOK /\ pc \in LoopSteps
    BY DEF Init, UiTypeOK, LoopSteps, Screens
  <1>4. ManualScreen /\ TurnerOwned /\ ManualRelaysShown
    <2>1. ~state.manualMode
      BY DEF Init, Zero
    <2>2. ~gpio["turner"]
      BY DEF Init, AllLow, Outputs, Shown
    <2>3. screen # "Manual"
      BY DEF Init
    <2> QED BY <2>1, <2>2, <2>3 DEF ManualScreen, TurnerOwned, ManualRelaysShown
  <1>5. CommandPhase /\ CommandScreen /\ PlanReady
    BY DEF Init, CommandPhase, CommandScreen, PlanReady
  <1> QED BY <1>1, <1>2, <1>3, <1>4, <1>5 DEF IInv, TypeOK

LEMMA TypeStep == IInv /\ [Next]_vars => TypeOK'
  <1> SUFFICES ASSUME IInv, [Next]_vars PROVE TypeOK'
    OBVIOUS
  <1>0. TypeOK /\ PlanReady
    BY DEF IInv
  <1> USE DEF TypeOK, Turn, LoopSteps
  <1>1. CASE Sense
    BY <1>0, <1>1 DEF Sense, Sensed, SharedTypeOK, StateType, PlanTypeOK, AppTypeOK, ClimateTypeOK,
       TurningTypeOK, SchedulerTypeOK, UiTypeOK, planVars, storageVars, commandVars,
       climateVars, turningVars, schedulerVars, uiVars
  <1>2. CASE Schedule
    BY <1>0, <1>2, SchedulerTickType DEF Schedule, AppTypeOK, ClimateTypeOK, TurningTypeOK,
       UiTypeOK, storageVars, commandVars, climateVars, turningVars, uiVars
  <1>3. CASE Climate
    BY <1>0, <1>3, ClimateTickType DEF Climate, PlanTypeOK, AppTypeOK, SchedulerTypeOK,
       TurningTypeOK, UiTypeOK, planVars, storageVars, commandVars, turningVars,
       schedulerVars, uiVars
  <1>4. CASE Turning
    BY <1>0, <1>4, TurningTickType DEF Turning, PlanTypeOK, AppTypeOK, SchedulerTypeOK,
       ClimateTypeOK, UiTypeOK, planVars, storageVars, commandVars, climateVars,
       schedulerVars, uiVars
  <1>5. CASE Ui
    BY <1>0, <1>5, UiTickType DEF Ui, CommandTypeOK, ClimateTypeOK, TurningTypeOK,
       SchedulerTypeOK, climateVars, turningVars, schedulerVars
  <1>6. CASE Write
    <2>1. PlanToApply
      BY <1>0 DEF PlanReady, PlanToApply
    <2> QED BY <1>0, <1>6, <2>1, CommandStepType DEF Write, CommandTypeOK, ClimateTypeOK,
       TurningTypeOK, SchedulerTypeOK, UiTypeOK, climateVars, turningVars, schedulerVars, uiVars
  <1>7. CASE Returned
    BY <1>0, <1>7 DEF Returned, UiReturns, Go, AfterCommand, Screens, SharedTypeOK, PlanTypeOK,
       AppTypeOK, ClimateTypeOK, TurningTypeOK, SchedulerTypeOK, UiTypeOK, sharedVars,
       planVars, storageVars, climateVars, turningVars, schedulerVars
  <1>8. CASE NextRound
    <2>1. now' \in Times
      <3>1. PICK d \in LoopMs : now' = (now + d) % Wrap
        BY <1>8 DEF NextRound
      <3>2. now + d \in Int
        BY <1>0, LoopMsAssumption, ClockAssumption DEF SharedTypeOK, Times
      <3> QED BY <3>1, <3>2, ModTimes
    <2> QED BY <1>0, <1>8, <2>1 DEF NextRound, SharedTypeOK, PlanTypeOK, AppTypeOK,
       ClimateTypeOK, TurningTypeOK, SchedulerTypeOK, UiTypeOK, planVars, storageVars,
       commandVars, climateVars, turningVars, uiVars
  <1>9. CASE Restart
    <2>1. 0 \in Times
      BY ClockAssumption DEF Times
    <2>2. CommandTypeOK'
      BY <1>0, <1>9, <2>1, BootType DEF Restart, CommandTypeOK
    <2> QED BY <1>9, <2>1, <2>2 DEF Restart, CommandTypeOK, ClimateTypeOK, TurningTypeOK,
       SchedulerTypeOK, UiTypeOK, Screens
  <1>10. CASE UNCHANGED vars
    BY <1>0, <1>10 DEF vars, SharedTypeOK, PlanTypeOK, AppTypeOK, ClimateTypeOK, TurningTypeOK,
       SchedulerTypeOK, UiTypeOK, sharedVars, planVars, storageVars, commandVars, climateVars,
       turningVars, schedulerVars, uiVars
  <1> QED BY <1>1, <1>2, <1>3, <1>4, <1>5, <1>6, <1>7, <1>8, <1>9, <1>10 DEF Next, LoopStep

\* A restart begins outside manual mode with every output off.
LEMMA BootSafe == Boot => ~state'.manualMode /\ gpio' = AllLow
  <1>1. ~Zero.manualMode /\ ~BatchApplied(Zero, nvsBatch).manualMode
    BY DEF Zero, BatchApplied
  <1> QED BY <1>1 DEF Boot

LEMMA PhaseStep == IInv /\ [Next]_vars => CommandPhase' /\ CommandScreen' /\ PlanReady'
  <1> SUFFICES ASSUME IInv, [Next]_vars
               PROVE  CommandPhase' /\ CommandScreen' /\ PlanReady'
    OBVIOUS
  <1> USE DEF CommandPhase, CommandScreen, PlanReady, Turn
  <1>0. TypeOK /\ CommandPhase /\ CommandScreen /\ PlanReady
    BY DEF IInv
  <1>1. CASE Sense \/ Schedule \/ Climate \/ Turning
    <2>1. UNCHANGED <<busy, result, screen, plan>> /\ pc # "command"
      BY <1>1 DEF Sense, Schedule, Climate, Turning, commandVars, uiVars, planVars,
         SchedulerTick, SchedulerNoBatch, SchedulerIdle, SchedulerRowMissing, SchedulerApply
    <2> QED BY <1>0, <2>1
  <1>2. CASE Ui
    <2>1. busy = "none" /\ result = "none" /\ pc' = "command"
      BY <1>0, <1>2 DEF Ui
    <2>2. CASE UNCHANGED <<busy, result>>
      BY <2>1, <2>2
    <2>3. ASSUME NEW s \in Species, NEW e \in StartDates, StartBatch(s, e), screen # "Manual", Go(screen)
          PROVE  CommandPhase' /\ CommandScreen' /\ PlanReady'
      <3>1. plan' = Generated(s) /\ Len(Generated(s)) > 0
        BY <2>3, GeneratedType DEF StartBatch
      <3> QED BY <2>1, <2>3, <3>1 DEF Go
    <2>4. ASSUME NEW d \in EditDays, NEW r \in EditRows, PatchPlanRow(d, r), screen # "Manual",
                 screen' = screen
          PROVE  CommandPhase' /\ CommandScreen' /\ PlanReady'
      BY <2>1, <2>4 DEF PatchPlanRow, Continue, Return
    <2>5. CASE HoldFactoryReset
      BY <2>1, <2>5 DEF HoldFactoryReset, FactoryReset, Continue, Go
    <2>6. CASE Stay \/ OpenItem \/ ClickManual \/ ClickConfirm \/ LongPress
      <3>1. UNCHANGED <<busy, result>>
        BY <2>6 DEF Stay, OpenItem, ClickManual, ClickConfirm, LongPress, NoCommand,
           OutputsOnly, commandVars
      <3> QED BY <2>2, <3>1
    <2>7. CASE ClickStartDate \/ ClickPreset
      <3>1. CASE NoCommand
        BY <2>2, <3>1 DEF NoCommand, commandVars
      <3> QED BY <2>3, <2>7, <3>1, PlanAssumption DEF ClickStartDate, ClickPreset
    <2>8. CASE ClickPlan
      <3>1. CASE NoCommand
        BY <2>2, <3>1 DEF NoCommand, commandVars
      <3> QED BY <2>4, <2>8, <3>1 DEF ClickPlan, Go
    <2> QED BY <1>2, <2>5, <2>6, <2>7, <2>8 DEF Ui, UiTick, HandleInput
  <1>3. CASE Write
    <2>1. busy # "none" /\ screen' = screen /\ pc' = "command" /\ plan' \in {plan, <<>>}
            /\ busy' # "savePlan"
            /\ (busy' = "saveBatch" => busy = "savePlan" /\ plan' = plan)
      BY <1>3 DEF Write, CommandStep, ResetSavesPlan, ResetSavesBatch, StartSavesBatch,
         StopSavesBatch, PatchSavesPlan, ResetErasesNvs, ResetErasesPlan, RepairSavesPlan,
         Continue, Return, uiVars, planVars
    <2> QED BY <1>0, <2>1
  <1>4. CASE Returned
    BY <1>0, <1>4 DEF Returned, UiReturns, Idle, Go, planVars
  <1>5. CASE NextRound
    BY <1>0, <1>5 DEF NextRound, Idle, commandVars
  <1>6. CASE Restart
    BY <1>6 DEF Restart, Boot, Continue, Return
  <1>7. CASE UNCHANGED vars
    BY <1>0, <1>7 DEF vars, commandVars, uiVars, planVars
  <1> QED BY <1>1, <1>2, <1>3, <1>4, <1>5, <1>6, <1>7 DEF Next, LoopStep

LEMMA ModeStep ==
  IInv /\ [Next]_vars => ManualScreen' /\ TurnerOwned' /\ ManualRelaysShown'
  <1> SUFFICES ASSUME IInv, [Next]_vars
               PROVE  ManualScreen' /\ TurnerOwned' /\ ManualRelaysShown'
    OBVIOUS
  <1> USE DEF ManualScreen, TurnerOwned, ManualRelaysShown, MirrorAgrees
  <1>0. ManualScreen /\ TurnerOwned /\ ManualRelaysShown /\ state \in StateType
          /\ gpio \in [Outputs -> BOOLEAN] /\ TypeOK
    BY DEF IInv, TypeOK, SharedTypeOK
  <1>o. Loops \subseteq Shown /\ "turner" \in Shown /\ Shown \subseteq Outputs
          /\ "turner" \notin Loops /\ "buzzer" \notin Shown
    BY LoopsAssumption DEF Shown, Outputs, AllLoops
  <1>1. CASE Sense
    BY <1>0, <1>1 DEF Sense, Sensed, StateType, uiVars, turningVars
  <1>2. CASE Schedule
    <2>1. UNCHANGED <<gpio, screen, isTurning>>
      BY <1>2 DEF Schedule, SchedulerTick, SchedulerNoBatch, SchedulerIdle,
         SchedulerRowMissing, SchedulerApply, sharedVars, uiVars, turningVars
    <2>2. state'.manualMode = state.manualMode /\ \A c \in Loops : state'.on[c] = state.on[c]
      <3>1. Dated.manualMode = state.manualMode /\ Dated.on = state.on
        BY <1>0 DEF Dated, StateType
      <3>2. [Dated EXCEPT !.safeMode = TRUE].manualMode = Dated.manualMode
              /\ [Dated EXCEPT !.safeMode = TRUE].on = Dated.on
        BY <1>0 DEF Dated, StateType
      <3>3. ASSUME NEW row
            PROVE  /\ RowApplied(Dated, row).manualMode = Dated.manualMode
                   /\ \A c \in Loops : RowApplied(Dated, row).on[c] = Dated.on[c]
        BY <1>0, <1>o, <3>1 DEF RowApplied, Dated, StateType
      <3>4. CASE SchedulerNoBatch
        BY <1>0, <3>4 DEF SchedulerNoBatch, StateType
      <3>5. CASE SchedulerIdle
        BY <3>5 DEF SchedulerIdle, sharedVars
      <3>6. CASE SchedulerRowMissing
        BY <3>1, <3>2, <3>6 DEF SchedulerRowMissing
      <3>7. CASE SchedulerApply
        BY <3>1, <3>3, <3>7 DEF SchedulerApply
      <3> QED BY <1>2, <3>4, <3>5, <3>6, <3>7 DEF Schedule, SchedulerTick
    <2> QED BY <1>0, <2>1, <2>2
  <1>3. CASE Climate
    <2>1. UNCHANGED <<screen, isTurning>>
      BY <1>3 DEF Climate, uiVars, turningVars
    <2>2. state'.manualMode = state.manualMode /\ gpio'["turner"] = gpio["turner"]
      BY <1>0, <1>o, <1>3 DEF Climate, ClimateTick, ClimateIdle, ClimatePaused, ClimateAllOff,
         ClimateControl, StateType, sharedVars
    <2>3. state.manualMode => UNCHANGED <<state, gpio>>
      BY <1>3 DEF Climate, ClimateTick, ClimateIdle, ClimatePaused, ClimateAllOff,
         ClimateControl, sharedVars
    <2> QED BY <1>0, <2>1, <2>2, <2>3
  <1>4. CASE Turning
    <2>1. UNCHANGED screen
      BY <1>4 DEF Turning, uiVars
    <2>2. state.manualMode => UNCHANGED <<state, gpio>>
      BY <1>4 DEF Turning, TurningTick, TurningIdle, TurningPaused, TurningRuns, TurningStop,
         TurningStart, TurningWait, TurningEnd, sharedVars
    <2>3. state'.manualMode = state.manualMode
      BY <1>0, <1>4 DEF Turning, TurningTick, TurningIdle, TurningPaused, TurningStop,
         TurningStart, TurningWait, TurningEnd, TurnerOff, StateType, sharedVars
    <2>4. ~state.manualMode /\ gpio'["turner"] => isTurning'
      BY <1>0, <1>o, <1>4 DEF Turning, TurningTick, TurningIdle, TurningPaused, TurningStop,
         TurningStart, TurningWait, TurningEnd, TurnerOff, Energised, turningVars, sharedVars
    <2> QED BY <1>0, <2>1, <2>2, <2>3, <2>4
  <1>5. CASE Ui
    <2>0. UNCHANGED isTurning
      BY <1>5 DEF Ui, turningVars
    <2>1. CASE NoCommand /\ screen' = screen
      BY <1>0, <2>0, <2>1 DEF NoCommand, sharedVars
    <2>2. CASE NoCommand /\ screen # "Manual" /\ screen' # "Manual"
      BY <1>0, <2>0, <2>2 DEF NoCommand, sharedVars
    <2>3. CASE EnterManualMode /\ screen' = "Manual"
      BY <1>0, <1>o, <2>3 DEF EnterManualMode, ManualOutputsOff, ManualOutputs, StateType
    <2>4. CASE ExitManualMode /\ screen' # "Manual"
      BY <1>0, <1>o, <2>4 DEF ExitManualMode, ManualOutputsOff, ManualOutputs, StateType
    <2>5. ASSUME NEW o \in Loops \cup {"turner"}, SwitchManualOn(o) \/ SwitchManualOff(o),
                 screen = "Manual", screen' = screen
          PROVE  ManualScreen' /\ TurnerOwned' /\ ManualRelaysShown'
      <3>1. state.manualMode /\ state'.manualMode
        BY <1>0, <2>5 DEF SwitchManualOn, SwitchManualOff, StateType
      <3>2. ASSUME NEW c \in Loops PROVE state'.on[c] = gpio'[c]
        <4>1. state.on[c] = gpio[c]
          BY <1>0, <3>1
        <4>2. Energised(c, TRUE) = TRUE
          BY WiringAssumption DEF Energised
        <4>3. CASE SwitchManualOn(o)
          BY <1>0, <1>o, <4>1, <4>2, <4>3 DEF SwitchManualOn, StateType
        <4>4. CASE SwitchManualOff(o)
          BY <1>0, <1>o, <4>1, <4>4 DEF SwitchManualOff, StateType
        <4> QED BY <2>5, <4>3, <4>4
      <3> QED BY <2>5, <3>1, <3>2
    <2>6. CASE screen' = screen /\ UNCHANGED sharedVars
      BY <1>0, <2>0, <2>6 DEF sharedVars
    <2>7. CASE Stay \/ OpenItem \/ ClickConfirm \/ LongPress
      BY <2>1, <2>2, <2>3, <2>4, <2>7 DEF Stay, OpenItem, ClickConfirm, LongPress, Go
    <2>8. CASE ClickManual
      BY <2>5, <2>6, <2>8 DEF ClickManual, Go, UnhandledCommand
    <2>9. CASE HoldFactoryReset \/ ClickStartDate \/ ClickPreset \/ ClickPlan
      BY <2>1, <2>2, <2>6, <2>9 DEF HoldFactoryReset, ClickStartDate, ClickPreset, ClickPlan,
         Go, FactoryReset, StartBatch, PatchPlanRow
    <2> QED BY <1>5, <2>7, <2>8, <2>9 DEF Ui, UiTick, HandleInput
  <1>6. CASE Write
    <2>1. UNCHANGED <<screen, isTurning, gpio>> /\ screen # "Manual"
      BY <1>6 DEF IInv, CommandScreen, Write, CommandStep, ResetSavesPlan, ResetSavesBatch,
         StartSavesBatch, StopSavesBatch, PatchSavesPlan, ResetErasesNvs, ResetErasesPlan,
         RepairSavesPlan, uiVars, turningVars, sharedVars
    <2>2. ~state'.manualMode
      <3>1. ~state.manualMode /\ ~Zero.manualMode
        BY <1>0, <2>1 DEF Zero
      <3>2. EnterSafeMode => ~state'.manualMode
        BY <1>0, <3>1 DEF EnterSafeMode, StateType
      <3>3. ASSUME NEW t, NEW e
            PROVE  ~[BatchApplied(state, batch) EXCEPT !.target = t,
                                                       !.turningEnabled = e].manualMode
        <4>1. /\ BatchApplied(state, batch) \in StateType
              /\ ~BatchApplied(state, batch).manualMode
          BY <1>0, <3>1, BatchAppliedType
             DEF TypeOK, PlanTypeOK, BatchApplied, StateType
        <4> QED BY <4>1 DEF StateType
      <3> QED BY <1>6, <3>1, <3>2, <3>3 DEF Write, CommandStep, ResetSavesPlan,
            ResetSavesBatch, StartSavesBatch, StopSavesBatch, PatchSavesPlan,
            ResetErasesNvs, ResetErasesPlan, RepairSavesPlan, sharedVars
    <2> QED BY <1>0, <2>1, <2>2
  <1>7. CASE Returned
    <2>1. screen # "Manual" /\ screen' # "Manual"
      BY <1>7 DEF IInv, CommandScreen, Returned, UiReturns, Go, AfterCommand
    <2> QED BY <1>0, <1>7, <2>1 DEF Returned, UiReturns, sharedVars, turningVars
  <1>8. CASE NextRound
    BY <1>0, <1>8 DEF NextRound, uiVars, turningVars
  <1>9. CASE Restart
    BY <1>9, <1>o, BootSafe DEF Restart, AllLow
  <1>10. CASE UNCHANGED vars
    BY <1>0, <1>10 DEF vars, sharedVars, uiVars, turningVars
  <1> QED BY <1>1, <1>2, <1>3, <1>4, <1>5, <1>6, <1>7, <1>8, <1>9, <1>10 DEF Next, LoopStep

-----------------------------------------------------------------------------
(* What ClimateModule sees of the firmware's steps. *)

Seen(s) ==
  View(s.cur, s.target, s.sensorOk, Flags(s.on), s.alarm, s.safeMode, s.batchActive,
       s.manualMode)

\* What the view hides is as in Zero.
Hidden(v) ==
  /\ v.lockdownActive = FALSE /\ v.turningEnabled = TRUE
  /\ v.currentDay = 1 /\ v.totalDays = DefaultDays /\ v.lastTurningMs = 0

LEMMA SeenType ==
  ASSUME NEW s \in StateType
  PROVE  /\ Seen(s) \in StateType /\ Hidden(Seen(s)) /\ Flags(s.on) \in [Shown -> BOOLEAN]
         /\ Seen(s).cur = s.cur /\ Seen(s).target = s.target
         /\ Seen(s).sensorOk = s.sensorOk /\ Seen(s).on = Flags(s.on)
         /\ Seen(s).alarm = s.alarm /\ Seen(s).safeMode = s.safeMode
         /\ Seen(s).batchActive = s.batchActive /\ Seen(s).manualMode = s.manualMode
  <1> DEFINE flags == Flags(s.on)
  <1>1. flags \in [Shown -> BOOLEAN]
    BY DEF StateType, Flags
  <1> HIDE DEF flags
  <1> QED BY <1>1, DataAssumption, ClockAssumption
          DEF Seen, Hidden, View, StateType, Times, flags

\* Two states that agree on every field are one.
LEMMA SeenIs ==
  ASSUME NEW s \in StateType, NEW v \in StateType, Hidden(v),
         v.cur = s.cur, v.target = s.target, v.sensorOk = s.sensorOk,
         v.on = Flags(s.on), v.alarm = s.alarm, v.safeMode = s.safeMode,
         v.batchActive = s.batchActive, v.manualMode = s.manualMode
  PROVE  Seen(s) = v
  <1> DEFINE w == Seen(s)
  <1>1. /\ w \in StateType /\ Hidden(w)
        /\ w.cur = v.cur /\ w.target = v.target /\ w.sensorOk = v.sensorOk /\ w.on = v.on
        /\ w.alarm = v.alarm /\ w.safeMode = v.safeMode /\ w.batchActive = v.batchActive
        /\ w.manualMode = v.manualMode
    BY SeenType
  <1> HIDE DEF w
  <1>2. w = v
    BY <1>1 DEF StateType, Hidden
  <1> QED BY <1>2 DEF w

\* What leaves the sensor's data, the alarms, the mode and the relays alone, and
\* does not leave safe mode, is the scheduler's doing, or nobody's.
LeftAlone ==
  /\ UNCHANGED settings /\ Pins(gpio') = Pins(gpio)
  /\ state'.cur = state.cur /\ state'.sensorOk = state.sensorOk
  /\ state'.alarm = state.alarm /\ state'.manualMode = state.manualMode
  /\ Flags(state'.on) = Flags(state.on) /\ (state.safeMode => state'.safeMode)

LEMMA ScheduleSeen ==
  ASSUME SharedTypeOK, SharedTypeOK', LeftAlone
  PROVE  Rounds!Schedule
  <1> USE DEF LeftAlone
  <1>0. state \in StateType /\ state' \in StateType
    BY DEF SharedTypeOK
  <1> DEFINE v == Seen(state)
             b == state'.batchActive
             s == state'.safeMode
             t == state'.target
             w == [v EXCEPT !.batchActive = b, !.safeMode = @ \/ s, !.target = t]
  <1>1. b \in BOOLEAN /\ s \in BOOLEAN /\ t \in [Loops -> Levels]
    BY <1>0 DEF StateType
  <1>2. /\ v \in StateType /\ Hidden(v) /\ v.cur = state.cur /\ v.sensorOk = state.sensorOk
        /\ v.alarm = state.alarm /\ v.manualMode = state.manualMode
        /\ v.on = Flags(state.on) /\ v.safeMode = state.safeMode
    BY <1>0, SeenType
  <1>3. (v.safeMode \/ s) = s
    BY <1>1, <1>2 DEF StateType
  <1>4. w = [v EXCEPT !.batchActive = b, !.safeMode = s, !.target = t]
    BY <1>3
  <1> HIDE DEF v, b, s, t, w
  <1>5. /\ w \in StateType /\ Hidden(w) /\ w.cur = v.cur /\ w.sensorOk = v.sensorOk
        /\ w.alarm = v.alarm /\ w.manualMode = v.manualMode /\ w.on = v.on
        /\ w.batchActive = b /\ w.safeMode = s /\ w.target = t
    BY <1>1, <1>2, <1>4 DEF StateType, Hidden
  <1>6. Seen(state') = w
    <2>1. /\ w.cur = state'.cur /\ w.sensorOk = state'.sensorOk /\ w.alarm = state'.alarm
          /\ w.manualMode = state'.manualMode /\ w.on = Flags(state'.on)
          /\ w.batchActive = state'.batchActive /\ w.safeMode = state'.safeMode
          /\ w.target = state'.target
      BY <1>2, <1>5 DEF b, s, t
    <2> QED BY <1>0, <1>5, <2>1, SeenIs
  <1>7. (\E bb, ss \in BOOLEAN, tt \in [Loops -> Levels] :
           Seen(state') = [v EXCEPT !.batchActive = bb, !.safeMode = @ \/ ss, !.target = tt])
    BY <1>1, <1>6, Zenon DEF w
  <1> QED BY <1>7, Zenon DEF Rounds!Schedule, Seen, v

LEMMA SenseSeen ==
  ASSUME SharedTypeOK, SharedTypeOK', Sensed, UNCHANGED <<settings, gpio>>
  PROVE  Rounds!Measure
  <1> DEFINE v == Seen(state)
  <1>z. state \in StateType /\ state' \in StateType
    BY DEF SharedTypeOK
  <1>0. /\ v \in StateType /\ Hidden(v) /\ v.cur = state.cur /\ v.target = state.target
        /\ v.sensorOk = state.sensorOk /\ v.on = Flags(state.on) /\ v.alarm = state.alarm
        /\ v.safeMode = state.safeMode /\ v.batchActive = state.batchActive
        /\ v.manualMode = state.manualMode
    BY <1>z, SeenType
  <1>1. ASSUME NEW r \in [Loops -> Levels], state' = [state EXCEPT !.cur = r, !.sensorOk = TRUE]
        PROVE  Rounds!Measure
    <2> DEFINE w == [v EXCEPT !.cur = r, !.sensorOk = TRUE]
    <2> HIDE DEF v
    <2>1. /\ w \in StateType /\ Hidden(w) /\ w.cur = r /\ w.target = v.target
          /\ w.sensorOk = TRUE /\ w.on = v.on /\ w.alarm = v.alarm
          /\ w.safeMode = v.safeMode /\ w.batchActive = v.batchActive
          /\ w.manualMode = v.manualMode
      BY <1>0, <1>1 DEF StateType, Hidden
    <2> HIDE DEF w
    <2>2. /\ state'.cur = r /\ state'.target = state.target /\ state'.sensorOk = TRUE
          /\ state'.on = state.on /\ state'.alarm = state.alarm
          /\ state'.safeMode = state.safeMode /\ state'.batchActive = state.batchActive
          /\ state'.manualMode = state.manualMode
      BY <1>z, <1>1 DEF StateType
    <2>3. Seen(state') = w
      BY <1>z, <1>0, <2>1, <2>2, SeenIs
    <2>4. \E q \in [Loops -> Levels] :
             Seen(state') = [v EXCEPT !.cur = q, !.sensorOk = TRUE]
      BY <1>1, <2>3, Zenon DEF w
    <2> QED BY <2>4, Zenon DEF Rounds!Measure, Rounds!Sensed, Seen, v
  <1>2. ASSUME state' = [state EXCEPT !.sensorOk = FALSE]
        PROVE  Rounds!Measure
    <2> DEFINE w == [v EXCEPT !.sensorOk = FALSE]
    <2> HIDE DEF v
    <2>1. /\ w \in StateType /\ Hidden(w) /\ w.cur = v.cur /\ w.target = v.target
          /\ w.sensorOk = FALSE /\ w.on = v.on /\ w.alarm = v.alarm
          /\ w.safeMode = v.safeMode /\ w.batchActive = v.batchActive
          /\ w.manualMode = v.manualMode
      BY <1>0 DEF StateType, Hidden
    <2> HIDE DEF w
    <2>2. /\ state'.cur = state.cur /\ state'.target = state.target /\ state'.sensorOk = FALSE
          /\ state'.on = state.on /\ state'.alarm = state.alarm
          /\ state'.safeMode = state.safeMode /\ state'.batchActive = state.batchActive
          /\ state'.manualMode = state.manualMode
      BY <1>z, <1>2 DEF StateType
    <2>3. Seen(state') = w
      BY <1>z, <1>0, <2>1, <2>2, SeenIs
    <2> QED BY <2>3, Zenon DEF Rounds!Measure, Rounds!Sensed, Seen, v, w
  <1>3. UNCHANGED state => Rounds!Measure
    BY DEF Rounds!Measure, Rounds!Sensed, Seen
  <1> QED BY <1>1, <1>2, <1>3 DEF Sensed

\* The names that are the same in both.
LEMMA SameNames ==
  /\ Rounds!Shown = Shown /\ Rounds!Outputs = Outputs /\ Rounds!ManualOutputs = ManualOutputs
  /\ Rounds!Zero = Zero /\ Rounds!AllLow = AllLow
  /\ \A o, want : Rounds!Energised(o, want) <=> Energised(o, want)
  /\ \A t : Rounds!Since(t) = Since(t)
  /\ Rounds!ClimateDue <=> ClimateDue
  BY DEF Rounds!Shown, Shown, Rounds!Outputs, Outputs, Rounds!ManualOutputs, ManualOutputs,
         Rounds!Zero, Zero, Rounds!AllLow, AllLow, Rounds!Energised, Energised,
         Rounds!Since, Since, Rounds!ClimateDue, ClimateDue

LEMMA PinsType ==
  ASSUME NEW g \in [Outputs -> BOOLEAN]
  PROVE  /\ Pins(g) \in [Outputs -> BOOLEAN]
         /\ \A o \in Loops \cup {"buzzer"} : Pins(g)[o] = g[o]
         /\ \A o \in Outputs \ (Loops \cup {"buzzer"}) : Pins(g)[o] = FALSE
  BY DEF Pins, Outputs, Shown

LEMMA EnterSeen ==
  ASSUME SharedTypeOK, SharedTypeOK', EnterManualMode
  PROVE  Rounds!EnterManualMode
  <1> DEFINE v == Seen(state)
             off == [o \in Shown |-> FALSE]
             w == [v EXCEPT !.manualMode = TRUE, !.safeMode = FALSE, !.on = off]
  <1>0. state \in StateType /\ state' \in StateType
    BY DEF SharedTypeOK
  <1>1. /\ v \in StateType /\ Hidden(v) /\ v.cur = state.cur /\ v.target = state.target
        /\ v.sensorOk = state.sensorOk /\ v.alarm = state.alarm
        /\ v.batchActive = state.batchActive
    BY <1>0, SeenType
  <1>2. off \in [Shown -> BOOLEAN] /\ Flags(off) = off
    BY DEF Flags
  <1> HIDE DEF v, off
  <1>3. /\ w \in StateType /\ Hidden(w) /\ w.cur = v.cur /\ w.target = v.target
        /\ w.sensorOk = v.sensorOk /\ w.alarm = v.alarm /\ w.batchActive = v.batchActive
        /\ w.manualMode = TRUE /\ w.safeMode = FALSE /\ w.on = off
    BY <1>1, <1>2 DEF StateType, Hidden
  <1> HIDE DEF w
  <1>4. state' = [state EXCEPT !.manualMode = TRUE, !.safeMode = FALSE, !.on = off]
    BY DEF EnterManualMode, off
  <1>5. /\ state'.cur = state.cur /\ state'.target = state.target
        /\ state'.sensorOk = state.sensorOk /\ state'.alarm = state.alarm
        /\ state'.batchActive = state.batchActive /\ state'.manualMode = TRUE
        /\ state'.safeMode = FALSE /\ state'.on = off
    BY <1>0, <1>2, <1>4 DEF StateType
  <1>6. Seen(state') = w
    BY <1>0, <1>1, <1>2, <1>3, <1>5, SeenIs
  <1>7. Pins(gpio') = [o \in Outputs |-> Pins(gpio)[o] /\ o \notin ManualOutputs]
    BY DEF EnterManualMode, ManualOutputsOff, Pins
  <1>8. now' = now /\ settings' = settings
    BY DEF EnterManualMode
  <1> QED BY <1>6, <1>7, <1>8, SameNames
          DEF Rounds!EnterManualMode, Rounds!ManualOutputsOff, Seen, v, off, w

LEMMA ExitSeen ==
  ASSUME SharedTypeOK, SharedTypeOK', ExitManualMode
  PROVE  Rounds!ExitManualMode
  <1> DEFINE v == Seen(state)
             off == [o \in Shown |-> FALSE]
             w == [v EXCEPT !.manualMode = FALSE, !.on = off]
  <1>0. state \in StateType /\ state' \in StateType
    BY DEF SharedTypeOK
  <1>1. /\ v \in StateType /\ Hidden(v) /\ v.cur = state.cur /\ v.target = state.target
        /\ v.sensorOk = state.sensorOk /\ v.alarm = state.alarm
        /\ v.batchActive = state.batchActive /\ v.safeMode = state.safeMode
    BY <1>0, SeenType
  <1>2. off \in [Shown -> BOOLEAN] /\ Flags(off) = off
    BY DEF Flags
  <1> HIDE DEF v, off
  <1>3. /\ w \in StateType /\ Hidden(w) /\ w.cur = v.cur /\ w.target = v.target
        /\ w.sensorOk = v.sensorOk /\ w.alarm = v.alarm /\ w.batchActive = v.batchActive
        /\ w.manualMode = FALSE /\ w.safeMode = v.safeMode /\ w.on = off
    BY <1>1, <1>2 DEF StateType, Hidden
  <1> HIDE DEF w
  <1>4. state' = [state EXCEPT !.manualMode = FALSE, !.on = off]
    BY DEF ExitManualMode, off
  <1>5. /\ state'.cur = state.cur /\ state'.target = state.target
        /\ state'.sensorOk = state.sensorOk /\ state'.alarm = state.alarm
        /\ state'.batchActive = state.batchActive /\ state'.manualMode = FALSE
        /\ state'.safeMode = state.safeMode /\ state'.on = off
    BY <1>0, <1>2, <1>4 DEF StateType
  <1>6. Seen(state') = w
    BY <1>0, <1>1, <1>2, <1>3, <1>5, SeenIs
  <1>7. Pins(gpio') = [o \in Outputs |-> Pins(gpio)[o] /\ o \notin ManualOutputs]
    BY DEF ExitManualMode, ManualOutputsOff, Pins
  <1>8. now' = now /\ settings' = settings
    BY DEF ExitManualMode
  <1> QED BY <1>6, <1>7, <1>8, SameNames
          DEF Rounds!ExitManualMode, Rounds!ManualOutputsOff, Seen, v, off, w

LEMMA SwitchOnSeen ==
  ASSUME SharedTypeOK, SharedTypeOK', NEW o \in Loops, SwitchManualOn(o)
  PROVE  Rounds!SwitchManualOn(o)
  <1> DEFINE v == Seen(state)
             safe == state.safeMode /\ o # "heater"
             w == [v EXCEPT !.on[o] = TRUE, !.safeMode = @ /\ o # "heater"]
  <1>0. state \in StateType /\ state' \in StateType /\ o \in Shown
    BY DEF SharedTypeOK, Shown
  <1>1. /\ v \in StateType /\ Hidden(v) /\ v.cur = state.cur /\ v.target = state.target
        /\ v.sensorOk = state.sensorOk /\ v.alarm = state.alarm /\ v.on = Flags(state.on)
        /\ v.batchActive = state.batchActive /\ v.safeMode = state.safeMode
        /\ v.manualMode = state.manualMode
    BY <1>0, SeenType
  <1>2. (v.safeMode /\ o # "heater") = safe /\ safe \in BOOLEAN
    BY <1>1
  <1>3. w = [v EXCEPT !.on[o] = TRUE, !.safeMode = safe]
    BY <1>2
  <1>4. state' = [state EXCEPT !.on[o] = TRUE, !.safeMode = safe]
    BY DEF SwitchManualOn
  <1> HIDE DEF v, w, safe
  <1>5. /\ w \in StateType /\ Hidden(w) /\ w.cur = v.cur /\ w.target = v.target
        /\ w.sensorOk = v.sensorOk /\ w.alarm = v.alarm /\ w.batchActive = v.batchActive
        /\ w.manualMode = v.manualMode /\ w.safeMode = safe
        /\ w.on = [v.on EXCEPT ![o] = TRUE]
    BY <1>0, <1>1, <1>2, <1>3 DEF StateType, Hidden
  <1>6. /\ state'.cur = state.cur /\ state'.target = state.target
        /\ state'.sensorOk = state.sensorOk /\ state'.alarm = state.alarm
        /\ state'.batchActive = state.batchActive /\ state'.manualMode = state.manualMode
        /\ state'.safeMode = safe /\ state'.on = [state.on EXCEPT ![o] = TRUE]
    BY <1>0, <1>2, <1>4 DEF StateType
  <1>7. Flags(state'.on) = [Flags(state.on) EXCEPT ![o] = TRUE]
    BY <1>0, <1>6 DEF Flags, StateType
  <1>8. Seen(state') = w
    BY <1>0, <1>1, <1>5, <1>6, <1>7, SeenIs
  <1>9. Pins(gpio') = [Pins(gpio) EXCEPT ![o] = Energised(o, TRUE)]
    BY DEF SwitchManualOn, Pins, SharedTypeOK, Energised
  <1>10. now' = now /\ settings' = settings
    BY DEF SwitchManualOn
  <1>11. Rounds!Energised(o, TRUE) = Energised(o, TRUE)
    BY DEF Rounds!Energised, Energised
  <1> QED BY <1>8, <1>9, <1>10, <1>11 DEF Rounds!SwitchManualOn, Seen, v, w

LEMMA SwitchOffSeen ==
  ASSUME SharedTypeOK, SharedTypeOK', NEW o \in Loops, SwitchManualOff(o)
  PROVE  Rounds!SwitchManualOff(o)
  <1> DEFINE v == Seen(state)
             w == [v EXCEPT !.on[o] = FALSE]
  <1>0. state \in StateType /\ state' \in StateType /\ o \in Shown
    BY DEF SharedTypeOK, Shown
  <1>1. /\ v \in StateType /\ Hidden(v) /\ v.cur = state.cur /\ v.target = state.target
        /\ v.sensorOk = state.sensorOk /\ v.alarm = state.alarm /\ v.on = Flags(state.on)
        /\ v.batchActive = state.batchActive /\ v.safeMode = state.safeMode
        /\ v.manualMode = state.manualMode
    BY <1>0, SeenType
  <1>4. state' = [state EXCEPT !.on[o] = FALSE]
    BY DEF SwitchManualOff
  <1> HIDE DEF v
  <1>5. /\ w \in StateType /\ Hidden(w) /\ w.cur = v.cur /\ w.target = v.target
        /\ w.sensorOk = v.sensorOk /\ w.alarm = v.alarm /\ w.batchActive = v.batchActive
        /\ w.manualMode = v.manualMode /\ w.safeMode = v.safeMode
        /\ w.on = [v.on EXCEPT ![o] = FALSE]
    BY <1>0, <1>1 DEF StateType, Hidden
  <1>6. /\ state'.cur = state.cur /\ state'.target = state.target
        /\ state'.sensorOk = state.sensorOk /\ state'.alarm = state.alarm
        /\ state'.batchActive = state.batchActive /\ state'.manualMode = state.manualMode
        /\ state'.safeMode = state.safeMode /\ state'.on = [state.on EXCEPT ![o] = FALSE]
    BY <1>0, <1>4 DEF StateType
  <1>7. Flags(state'.on) = [Flags(state.on) EXCEPT ![o] = FALSE]
    BY <1>0, <1>6 DEF Flags, StateType
  <1> HIDE DEF w
  <1>8. Seen(state') = w
    BY <1>0, <1>1, <1>5, <1>6, <1>7, SeenIs
  <1>9. Pins(gpio') = [Pins(gpio) EXCEPT ![o] = FALSE]
    BY DEF SwitchManualOff, Pins, SharedTypeOK
  <1>10. now' = now /\ settings' = settings
    BY DEF SwitchManualOff
  <1> QED BY <1>8, <1>9, <1>10 DEF Rounds!SwitchManualOff, Seen, v, w

\* The turner is not among what the module sees.
LEMMA TurnerSeen ==
  ASSUME SharedTypeOK, SharedTypeOK', SwitchManualOn("turner") \/ SwitchManualOff("turner")
  PROVE  Rounds!Schedule
  <1>0. state \in StateType /\ state' \in StateType /\ gpio \in [Outputs -> BOOLEAN]
        /\ "turner" \notin Loops \cup {"buzzer"} /\ UNCHANGED settings
    BY LoopsAssumption DEF SharedTypeOK, AllLoops, SwitchManualOn, SwitchManualOff
  <1>1. PICK x \in BOOLEAN, y \in BOOLEAN :
          /\ state' = [state EXCEPT !.on["turner"] = x, !.safeMode = @]
          /\ gpio' = [gpio EXCEPT !["turner"] = y]
    <2>1. CASE SwitchManualOn("turner")
      <3>1. state.safeMode = (state.safeMode /\ "turner" # "heater")
        BY <1>0 DEF StateType
      <3>2. state' = [state EXCEPT !.on["turner"] = TRUE, !.safeMode = @]
        BY <2>1, <3>1 DEF SwitchManualOn
      <3> QED BY <2>1, <3>2 DEF SwitchManualOn, Energised
    <2>2. CASE SwitchManualOff("turner")
      <3>1. state' = [state EXCEPT !.on["turner"] = FALSE, !.safeMode = @]
        BY <1>0, <2>2 DEF SwitchManualOff, StateType
      <3> QED BY <2>2, <3>1 DEF SwitchManualOff
    <2> QED BY <2>1, <2>2
  <1>2. /\ state'.cur = state.cur /\ state'.sensorOk = state.sensorOk
        /\ state'.alarm = state.alarm /\ state'.manualMode = state.manualMode
        /\ state'.safeMode = state.safeMode /\ state'.on = [state.on EXCEPT !["turner"] = x]
    BY <1>0, <1>1 DEF StateType
  <1>3. Flags(state'.on) = Flags(state.on)
    BY <1>0, <1>2 DEF Flags, StateType
  <1>4. Pins(gpio') = Pins(gpio)
    BY <1>0, <1>1 DEF Pins
  <1> QED BY <1>0, <1>2, <1>3, <1>4, ScheduleSeen DEF LeftAlone

\* The module decides by what it sees.
LEMMA SameReadings ==
  ASSUME SharedTypeOK
  PROVE  /\ \A c \in Loops : Rounds!TooLow(c) <=> TooLow(c)
         /\ \A c \in Loops : Rounds!TooHigh(c) <=> TooHigh(c)
         /\ \A c \in Loops : Rounds!CanSwitch(c) <=> CanSwitch(c)
         /\ \A c \in Loops : Rounds!OutOfBand(c) <=> OutOfBand(c)
         /\ \A c \in Loops : Rounds!AlarmMsNext(c) = AlarmMsNext(c)
  <1> DEFINE v == Seen(state)
  <1>1. v.cur = state.cur /\ v.target = state.target /\ v.sensorOk = state.sensorOk
    BY SeenType DEF SharedTypeOK
  <1>2. ASSUME NEW c \in Loops PROVE Rounds!TooLow(c) <=> TooLow(c)
    <2>1. Rounds!TooLow(c) <=> v.cur[c] < v.target[c] - settings.hyst[c]
      BY DEF Rounds!TooLow, Seen
    <2> QED BY <1>1, <2>1 DEF TooLow
  <1>3. ASSUME NEW c \in Loops PROVE Rounds!TooHigh(c) <=> TooHigh(c)
    <2>1. Rounds!TooHigh(c) <=> v.cur[c] > v.target[c] + settings.hyst[c]
      BY DEF Rounds!TooHigh, Seen
    <2> QED BY <1>1, <2>1 DEF TooHigh
  <1>4. ASSUME NEW c \in Loops PROVE Rounds!CanSwitch(c) <=> CanSwitch(c)
    BY SameNames DEF Rounds!CanSwitch, CanSwitch
  <1>5. ASSUME NEW c \in Loops PROVE Rounds!OutOfBand(c) <=> OutOfBand(c)
    <2>1. Rounds!OutOfBand(c)
            <=> /\ v.sensorOk
                /\ \/ v.cur[c] - v.target[c] > settings.alarmHigh[c]
                   \/ v.cur[c] - v.target[c] < -settings.alarmLow[c]
      BY DEF Rounds!OutOfBand, Seen
    <2> QED BY <1>1, <2>1 DEF OutOfBand
  <1>6. ASSUME NEW c \in Loops PROVE Rounds!AlarmMsNext(c) = AlarmMsNext(c)
    BY <1>5, SameNames DEF Rounds!AlarmMsNext, AlarmMsNext
  <1> QED BY <1>2, <1>3, <1>4, <1>5, <1>6

LEMMA SameDecisions ==
  ASSUME SharedTypeOK
  PROVE  /\ \A c \in Loops : Rounds!SwitchesOn(c) <=> SwitchesOn(c)
         /\ \A c \in Loops : Rounds!SwitchesOff(c) <=> SwitchesOff(c)
         /\ \A c \in Loops : Rounds!RelayNext(c) = RelayNext(c)
         /\ \A c \in Loops : Rounds!AlarmNext(c) = AlarmNext(c)
         /\ Rounds!Energised("buzzer", Rounds!BuzzerNext) = Energised("buzzer", BuzzerNext)
         /\ Rounds!ClimateInhibited <=> ClimateInhibited
  <1> DEFINE v == Seen(state)
             p == Pins(gpio)
  <1>1. /\ v.sensorOk = state.sensorOk /\ v.alarm = state.alarm
        /\ v.safeMode = state.safeMode /\ v.batchActive = state.batchActive
    BY SeenType DEF SharedTypeOK
  <1>2. \A o \in Loops \cup {"buzzer"} : p[o] = gpio[o]
    BY PinsType DEF SharedTypeOK
  <1>3. ASSUME NEW c \in Loops PROVE Rounds!SwitchesOn(c) <=> SwitchesOn(c)
    <2>1. Rounds!SwitchesOn(c)
            <=> v.sensorOk /\ Rounds!TooLow(c) /\ ~p[c] /\ Rounds!CanSwitch(c)
      BY DEF Rounds!SwitchesOn, Seen
    <2> QED BY <1>1, <1>2, <2>1, SameReadings DEF SwitchesOn
  <1>4. ASSUME NEW c \in Loops PROVE Rounds!SwitchesOff(c) <=> SwitchesOff(c)
    <2>1. Rounds!SwitchesOff(c)
            <=> (v.sensorOk => Rounds!TooHigh(c)) /\ p[c] /\ Rounds!CanSwitch(c)
      BY DEF Rounds!SwitchesOff, Seen
    <2> QED BY <1>1, <1>2, <2>1, SameReadings DEF SwitchesOff
  <1>5. ASSUME NEW c \in Loops PROVE Rounds!RelayNext(c) = RelayNext(c)
    BY <1>2, <1>3, <1>4
       DEF Rounds!RelayNext, RelayNext, Rounds!Energised, Energised
  <1>6. ASSUME NEW c \in Loops PROVE Rounds!Confirmed(c) <=> Confirmed(c)
    BY SameReadings DEF Rounds!Confirmed, Confirmed
  <1>7. ASSUME NEW c \in Loops PROVE Rounds!AlarmNext(c) = AlarmNext(c)
    <2>1. Rounds!AlarmNext(c) = (Rounds!Confirmed(c) \/ (Rounds!OutOfBand(c) /\ v.alarm[c]))
      BY DEF Rounds!AlarmNext, Seen
    <2> QED BY <1>1, <1>6, <2>1, SameReadings DEF AlarmNext
  <1>8. Rounds!BuzzerNext <=> BuzzerNext
    BY <1>2, <1>6, <1>7 DEF Rounds!BuzzerNext, BuzzerNext
  <1>9. Rounds!Energised("buzzer", Rounds!BuzzerNext) = Energised("buzzer", BuzzerNext)
    BY <1>8 DEF Rounds!Energised, Energised
  <1>10. Rounds!ClimateInhibited <=> ClimateInhibited
    <2>1. Rounds!ClimateInhibited <=> v.safeMode \/ ~v.batchActive
      BY DEF Rounds!ClimateInhibited, Seen
    <2> QED BY <1>1, <2>1 DEF ClimateInhibited
  <1> QED BY <1>3, <1>4, <1>5, <1>7, <1>9, <1>10

LEMMA ClimateTickSeen ==
  ASSUME SharedTypeOK, SharedTypeOK', ClimateTick
  PROVE  Rounds!ClimateTick
  <1> DEFINE v == Seen(state)
  <1>0. state \in StateType /\ state' \in StateType /\ gpio \in [Outputs -> BOOLEAN]
        /\ Loops \subseteq Shown
    BY DEF SharedTypeOK, Shown
  <1>1. /\ v \in StateType /\ Hidden(v) /\ v.cur = state.cur /\ v.target = state.target
        /\ v.sensorOk = state.sensorOk /\ v.alarm = state.alarm /\ v.on = Flags(state.on)
        /\ v.batchActive = state.batchActive /\ v.safeMode = state.safeMode
        /\ v.manualMode = state.manualMode
    BY <1>0, SeenType
  <1>2. CASE ClimateIdle
    BY <1>2, SameNames
       DEF ClimateIdle, climateVars, sharedVars, Rounds!ClimateTick, Rounds!ClimateIdle,
           Rounds!climateVars, Rounds!sharedVars
  <1>3. CASE ClimatePaused
    <2>1. Rounds!ClimatePaused
            <=> /\ Rounds!ClimateDue /\ v.manualMode
                /\ climateLastMs' = now
                /\ UNCHANGED <<alarmMs, lastSwitchMs, now, settings>>
                /\ Seen(state') = Seen(state) /\ Pins(gpio') = Pins(gpio)
      BY DEF Rounds!ClimatePaused, Rounds!sharedVars, Seen
    <2>2. Rounds!ClimatePaused
      BY <1>1, <1>3, <2>1, SameNames DEF ClimatePaused, sharedVars
    <2> QED BY <2>2 DEF Rounds!ClimateTick
  \* The relays and the alarms that both write.
  <1>4. ASSUME NEW relay \in [Loops -> BOOLEAN], NEW alarm \in [Loops -> BOOLEAN],
               state' = [state EXCEPT
                           !.on = [o \in Shown |-> IF o \in Loops THEN relay[o] ELSE @[o]],
                           !.alarm = alarm]
        PROVE  Seen(state') = [v EXCEPT
                           !.on = [o \in Shown |-> IF o \in Loops THEN relay[o] ELSE @[o]],
                           !.alarm = alarm]
    <2> DEFINE on == [o \in Shown |-> IF o \in Loops THEN relay[o] ELSE state.on[o]]
               onSeen == [o \in Shown |-> IF o \in Loops THEN relay[o] ELSE v.on[o]]
               w == [v EXCEPT !.on = onSeen, !.alarm = alarm]
    <2>1. on \in [Shown -> BOOLEAN] /\ onSeen \in [Shown -> BOOLEAN]
      BY <1>0, <1>1 DEF StateType
    <2>2. Flags(on) = onSeen
      BY <1>1, <2>1 DEF Flags
    <2>3. state' = [state EXCEPT !.on = on, !.alarm = alarm]
      BY <1>4
    <2> HIDE DEF v, on, onSeen
    <2>4. /\ w \in StateType /\ Hidden(w) /\ w.cur = v.cur /\ w.target = v.target
          /\ w.sensorOk = v.sensorOk /\ w.alarm = alarm /\ w.batchActive = v.batchActive
          /\ w.manualMode = v.manualMode /\ w.safeMode = v.safeMode /\ w.on = onSeen
      BY <1>1, <1>4, <2>1 DEF StateType, Hidden
    <2>5. /\ state'.cur = state.cur /\ state'.target = state.target
          /\ state'.sensorOk = state.sensorOk /\ state'.alarm = alarm
          /\ state'.batchActive = state.batchActive
          /\ state'.manualMode = state.manualMode
          /\ state'.safeMode = state.safeMode /\ state'.on = on
      BY <1>0, <1>4, <2>1, <2>3 DEF StateType
    <2> HIDE DEF w
    <2>6. Seen(state') = w
      BY <1>0, <1>1, <2>2, <2>4, <2>5, SeenIs
    <2> QED BY <2>6 DEF w, onSeen
  <1>5. CASE ClimateAllOff
    <2> DEFINE relay == [c \in Loops |-> FALSE]
    <2>0. relay \in [Loops -> BOOLEAN]
      OBVIOUS
    <2>1. [o \in Shown |-> state.on[o] /\ o \notin Loops]
            = [o \in Shown |-> IF o \in Loops THEN relay[o] ELSE state.on[o]]
      BY <1>0 DEF StateType
    <2>2. [o \in Shown |-> v.on[o] /\ o \notin Loops]
            = [o \in Shown |-> IF o \in Loops THEN relay[o] ELSE v.on[o]]
      BY <1>1 DEF StateType
    <2>3. Seen(state') = [v EXCEPT !.on = [o \in Shown |-> @[o] /\ o \notin Loops],
                                   !.alarm = [c \in Loops |-> FALSE]]
      <3>1. state' = [state EXCEPT
                        !.on = [o \in Shown |-> IF o \in Loops THEN relay[o] ELSE @[o]],
                        !.alarm = relay]
        BY <1>5, <2>1 DEF ClimateAllOff
      <3> HIDE DEF relay, v
      <3>2. Seen(state') = [v EXCEPT
                        !.on = [o \in Shown |-> IF o \in Loops THEN relay[o] ELSE @[o]],
                        !.alarm = relay]
        BY <1>4, <2>0, <3>1
      <3> QED BY <2>2, <3>2 DEF relay
    <2>4. Pins(gpio') = [o \in Outputs |-> Pins(gpio)[o] /\ o \notin Loops \cup {"buzzer"}]
      BY <1>5 DEF ClimateAllOff, Pins
    <2>5. Rounds!ClimateDue /\ ~v.manualMode /\ Rounds!ClimateInhibited
      BY <1>1, <1>5, SameNames, SameDecisions DEF ClimateAllOff
    <2>6. Rounds!ClimateAllOff
      BY <1>5, <2>3, <2>4, <2>5, SameNames DEF ClimateAllOff, Rounds!ClimateAllOff, Seen
    <2> QED BY <2>6 DEF Rounds!ClimateTick
  <1>6. CASE ClimateControl
    <2> DEFINE relay == [c \in Loops |-> RelayNext(c)]
               alarm == [c \in Loops |-> AlarmNext(c)]
    <2>1. relay \in [Loops -> BOOLEAN] /\ alarm \in [Loops -> BOOLEAN]
      BY DEF RelayNext, Energised, AlarmNext
    <2>2. state' = [state EXCEPT
                      !.on = [o \in Shown |-> IF o \in Loops THEN relay[o] ELSE @[o]],
                      !.alarm = alarm]
      BY <1>6 DEF ClimateControl
    <2>3. Seen(state') = [v EXCEPT
                      !.on = [o \in Shown |-> IF o \in Loops THEN relay[o] ELSE @[o]],
                      !.alarm = alarm]
      BY <1>4, <2>1, <2>2
    <2>4. Seen(state') = [v EXCEPT
                 !.on = [o \in Shown |-> IF o \in Loops THEN Rounds!RelayNext(o) ELSE @[o]],
                 !.alarm = [c \in Loops |-> Rounds!AlarmNext(c)]]
      BY <2>3, SameDecisions DEF SharedTypeOK
    <2>5. Pins(gpio') = [o \in Outputs |->
                            CASE o \in Loops -> Rounds!RelayNext(o)
                              [] o = "buzzer" -> Rounds!Energised("buzzer", Rounds!BuzzerNext)
                              [] OTHER -> Pins(gpio)[o]]
      <3>1. gpio' = [o \in Outputs |-> CASE o \in Loops -> RelayNext(o)
                                         [] o = "buzzer" -> Energised("buzzer", BuzzerNext)
                                         [] OTHER -> gpio[o]]
        BY <1>6 DEF ClimateControl
      <3>2. "buzzer" \notin Loops
        BY LoopsAssumption DEF AllLoops
      <3>3. ASSUME NEW o \in Outputs
            PROVE  (o \in Loops \cup {"buzzer"} /\ gpio'[o])
                     = CASE o \in Loops -> RelayNext(o)
                         [] o = "buzzer" -> Energised("buzzer", BuzzerNext)
                         [] OTHER -> Pins(gpio)[o]
        <4>1. CASE o \in Loops
          <5>1. gpio'[o] = RelayNext(o)
            BY <3>1, <3>2, <4>1
          <5>2. RelayNext(o) \in BOOLEAN
            BY DEF RelayNext, Energised
          <5> QED BY <3>2, <4>1, <5>1, <5>2
        <4>2. CASE o = "buzzer"
          <5>1. gpio'[o] = Energised("buzzer", BuzzerNext)
            BY <3>1, <3>2, <4>2
          <5>2. Energised("buzzer", BuzzerNext) \in BOOLEAN
            BY DEF Energised
          <5> QED BY <3>2, <4>2, <5>1, <5>2
        <4>3. CASE o \notin Loops \cup {"buzzer"}
          BY <1>0, <4>3, PinsType
        <4> QED BY <4>1, <4>2, <4>3
      <3>4. Pins(gpio') = [o \in Outputs |->
                             CASE o \in Loops -> RelayNext(o)
                               [] o = "buzzer" -> Energised("buzzer", BuzzerNext)
                               [] OTHER -> Pins(gpio)[o]]
        BY <3>3, Zenon DEF Pins
      <3> QED BY <3>4, SameDecisions
    <2>6. Rounds!ClimateDue /\ ~v.manualMode /\ ~Rounds!ClimateInhibited
      BY <1>1, <1>6, SameNames, SameDecisions DEF ClimateControl
    <2>7. /\ lastSwitchMs' = [c \in Loops |-> IF Rounds!SwitchesOn(c) \/ Rounds!SwitchesOff(c)
                                              THEN now ELSE lastSwitchMs[c]]
          /\ alarmMs' = [c \in Loops |-> Rounds!AlarmMsNext(c)]
          /\ climateLastMs' = now /\ UNCHANGED <<now, settings>>
      BY <1>6, SameReadings, SameDecisions DEF ClimateControl
    <2>8. Rounds!ClimateControl
      BY <2>4, <2>5, <2>6, <2>7, SameNames DEF Rounds!ClimateControl, Seen
    <2> QED BY <2>8 DEF Rounds!ClimateTick
  <1> QED BY <1>2, <1>3, <1>5, <1>6 DEF ClimateTick

LEMMA FlagsSame ==
  ASSUME NEW f, NEW g, \A c \in Loops : f[c] = g[c]
  PROVE  Flags(f) = Flags(g)
  BY DEF Flags

LEMMA SchedulerSeen ==
  ASSUME SharedTypeOK, SchedulerTick
  PROVE  LeftAlone
  <1>0. state \in StateType /\ "turner" \notin Loops
    BY LoopsAssumption DEF SharedTypeOK, AllLoops
  <1>1. UNCHANGED <<settings, gpio>>
    BY DEF SchedulerTick, SchedulerNoBatch, SchedulerIdle, SchedulerRowMissing, SchedulerApply,
           sharedVars
  <1>2. ASSUME NEW s, s = Dated
        PROVE  /\ s.cur = state.cur /\ s.sensorOk = state.sensorOk
               /\ s.alarm = state.alarm /\ s.manualMode = state.manualMode
               /\ s.on = state.on /\ s.safeMode = state.safeMode
    BY <1>0, <1>2 DEF Dated, StateType
  <1>3. CASE SchedulerNoBatch
    BY <1>0, <1>1, <1>3 DEF SchedulerNoBatch, StateType, LeftAlone
  <1>4. CASE SchedulerIdle
    BY <1>1, <1>4 DEF SchedulerIdle, sharedVars, LeftAlone
  <1>5. CASE SchedulerRowMissing
    <2>1. /\ state'.cur = Dated.cur /\ state'.sensorOk = Dated.sensorOk
          /\ state'.alarm = Dated.alarm /\ state'.manualMode = Dated.manualMode
          /\ state'.on = Dated.on /\ state'.safeMode
      BY <1>0, <1>5 DEF SchedulerRowMissing, Dated, StateType
    <2> QED BY <1>1, <1>2, <2>1 DEF LeftAlone
  <1>6. CASE SchedulerApply
    <2>1. /\ state'.cur = Dated.cur /\ state'.sensorOk = Dated.sensorOk
          /\ state'.alarm = Dated.alarm /\ state'.manualMode = Dated.manualMode
          /\ state'.safeMode = Dated.safeMode
          /\ \A c \in Loops : state'.on[c] = Dated.on[c]
      BY <1>0, <1>6 DEF SchedulerApply, RowApplied, Dated, StateType, Shown
    <2> QED BY <1>1, <1>2, <2>1, FlagsSame DEF LeftAlone
  <1> QED BY <1>3, <1>4, <1>5, <1>6 DEF SchedulerTick

LEMMA TurningSeen ==
  ASSUME SharedTypeOK, TurningTick
  PROVE  LeftAlone
  <1>0. state \in StateType /\ gpio \in [Outputs -> BOOLEAN] /\ UNCHANGED settings
        /\ "turner" \notin Loops \cup {"buzzer"}
    BY LoopsAssumption DEF SharedTypeOK, AllLoops, TurningTick, TurningIdle, TurningPaused,
       TurningStop, TurningStart, TurningWait, TurningEnd, TurnerOff, sharedVars
  <1>1. CASE UNCHANGED <<state, gpio>>
    BY <1>0, <1>1 DEF LeftAlone
  <1>2. CASE TurnerOff
    <2>1. /\ state'.cur = state.cur /\ state'.sensorOk = state.sensorOk
          /\ state'.alarm = state.alarm /\ state'.manualMode = state.manualMode
          /\ state'.safeMode = state.safeMode /\ \A c \in Loops : state'.on[c] = state.on[c]
      BY <1>0, <1>2 DEF TurnerOff, StateType, Shown
    <2>2. Pins(gpio') = Pins(gpio)
      BY <1>0, <1>2 DEF TurnerOff, Pins
    <2> QED BY <1>0, <2>1, <2>2, FlagsSame DEF LeftAlone
  <1>3. CASE TurningStart
    <2>1. /\ state'.cur = state.cur /\ state'.sensorOk = state.sensorOk
          /\ state'.alarm = state.alarm /\ state'.manualMode = state.manualMode
          /\ state'.safeMode = state.safeMode /\ \A c \in Loops : state'.on[c] = state.on[c]
      BY <1>0, <1>3 DEF TurningStart, StateType, Shown
    <2>2. Pins(gpio') = Pins(gpio)
      BY <1>0, <1>3 DEF TurningStart, Pins
    <2> QED BY <1>0, <2>1, <2>2, FlagsSame DEF LeftAlone
  <1> QED BY <1>1, <1>2, <1>3
          DEF TurningTick, TurningIdle, TurningPaused, TurningStop, TurningWait, TurningEnd,
              sharedVars

\* The steps of a command, but for the last one of a factory reset.
LEMMA WriteSeen ==
  ASSUME TypeOK, ~state.manualMode, CommandStep
  PROVE  LeftAlone \/ Rounds!Forget
  <1>0. state \in StateType /\ batch \in BatchType
    BY DEF TypeOK, SharedTypeOK, PlanTypeOK
  <1>1. CASE UNCHANGED <<state, settings, gpio>>
    BY <1>1 DEF LeftAlone
  <1>2. ASSUME EnterSafeMode, UNCHANGED <<settings, gpio>> PROVE LeftAlone
    BY <1>0, <1>2 DEF EnterSafeMode, LeftAlone, StateType
  <1>3. ASSUME NEW ok \in BOOLEAN, ResetSavesBatch(ok)
        PROVE  LeftAlone
    <2> DEFINE s == BatchApplied(state, batch)
    <2>1. CASE ok
      <3>1. s \in StateType
        BY <1>0, BatchAppliedType
      <3>2. /\ s.cur = state.cur /\ s.sensorOk = state.sensorOk /\ s.alarm = state.alarm
            /\ s.manualMode = state.manualMode /\ s.on = state.on
            /\ s.safeMode = state.safeMode
        BY <1>0 DEF BatchApplied, StateType
      <3>3. /\ state' = [s EXCEPT !.target = plan[1].target,
                                  !.turningEnabled = plan[1].turning]
            /\ UNCHANGED <<settings, gpio>>
        BY <1>3, <2>1 DEF ResetSavesBatch
      <3> HIDE DEF s
      <3>4. /\ state'.cur = s.cur /\ state'.sensorOk = s.sensorOk /\ state'.alarm = s.alarm
            /\ state'.manualMode = s.manualMode /\ state'.on = s.on
            /\ state'.safeMode = s.safeMode
        BY <3>1, <3>3 DEF StateType
      <3> QED BY <3>2, <3>3, <3>4 DEF LeftAlone
    <2>2. CASE ~ok
      BY <1>2, <1>3, <2>2 DEF ResetSavesBatch
    <2> QED BY <2>1, <2>2
  <1>4. ASSUME NEW ok \in BOOLEAN, ResetErasesPlan(ok)
        PROVE  Rounds!Forget
    <2>1. Zero \in StateType /\ Hidden(Zero) /\ Flags(Zero.on) = Zero.on
      BY ZeroType DEF Zero, Hidden, Flags
    <2>2. Seen(Zero) = Zero
      BY <2>1, SeenIs
    <2>3. Seen(state).manualMode = state.manualMode
      BY <1>0, SeenType
    <2>4. state' = Zero /\ settings' \in SettingsVals /\ gpio' = gpio
      BY <1>4 DEF ResetErasesPlan
    <2>5. Seen(state') = Rounds!Zero
      BY <2>2, <2>4, SameNames
    <2> QED BY <2>3, <2>4, <2>5 DEF Rounds!Forget, Seen
  <1> QED BY <1>1, <1>2, <1>3, <1>4
          DEF CommandStep, ResetSavesPlan, StartSavesBatch, StopSavesBatch, PatchSavesPlan,
              ResetErasesNvs, RepairSavesPlan, sharedVars

\* The user, by the screens: manual mode goes with its screen.
LEMMA UiSeen ==
  ASSUME IInv, SharedTypeOK', UiTick
  PROVE  LeftAlone \/ Rounds!Schedule \/ Rounds!UserCommand
  <1>0. SharedTypeOK /\ Seen(state).manualMode = state.manualMode
        /\ (state.manualMode <=> screen = "Manual")
    BY SeenType DEF IInv, TypeOK, SharedTypeOK, ManualScreen
  <1>1. CASE UNCHANGED sharedVars
    BY <1>1 DEF LeftAlone, sharedVars
  <1>2. CASE EnterManualMode /\ ~state.manualMode
    <2>1. ~Seen(state).manualMode /\ Rounds!EnterManualMode
      BY <1>0, <1>2, EnterSeen
    <2> QED BY <2>1 DEF Rounds!UserCommand, Seen
  <1>3. CASE ExitManualMode /\ state.manualMode
    <2>1. Seen(state).manualMode /\ Rounds!ExitManualMode
      BY <1>0, <1>3, ExitSeen
    <2> QED BY <2>1 DEF Rounds!UserCommand, Seen
  <1>4. ASSUME NEW o \in Loops, SwitchManualOn(o) \/ SwitchManualOff(o), state.manualMode
        PROVE  Rounds!UserCommand
    <2>1. Seen(state).manualMode /\ (Rounds!SwitchManualOn(o) \/ Rounds!SwitchManualOff(o))
      BY <1>0, <1>4, SwitchOnSeen, SwitchOffSeen
    <2> QED BY <2>1 DEF Rounds!UserCommand, Seen
  <1>5. CASE SwitchManualOn("turner") \/ SwitchManualOff("turner")
    BY <1>0, <1>5, TurnerSeen
  <1>6. CASE Stay \/ ClickConfirm \/ HoldFactoryReset \/ ClickStartDate \/ ClickPreset \/ ClickPlan
    BY <1>1, <1>6 DEF Stay, ClickConfirm, HoldFactoryReset, ClickStartDate, ClickPreset,
       ClickPlan, NoCommand, FactoryReset, StartBatch, PatchPlanRow
  <1>7. CASE OpenItem
    BY <1>0, <1>1, <1>2, <1>7 DEF OpenItem, NoCommand
  <1>8. CASE LongPress
    BY <1>0, <1>1, <1>3, <1>8 DEF LongPress, NoCommand
  <1>9. CASE ClickManual
    BY <1>0, <1>1, <1>4, <1>5, <1>9 DEF ClickManual, UnhandledCommand
  <1> QED BY <1>6, <1>7, <1>8, <1>9 DEF UiTick, HandleInput

\* An initial state of the firmware, before or after a restart.
LEMMA InitSeen == Init => Rounds!RoundsInit
  <1> SUFFICES ASSUME Init PROVE Rounds!RoundsInit
    OBVIOUS
  <1>1. Zero \in StateType /\ Hidden(Zero) /\ Flags(Zero.on) = Zero.on
    BY ZeroType DEF Zero, Hidden, Flags
  <1>2. Seen(state) = Zero
    BY <1>1, SeenIs DEF Init
  <1>3. Zero \in Rounds!Booted
    <2>1. Zero = [Zero EXCEPT !.batchActive = FALSE]
      BY <1>1 DEF Zero, StateType
    <2> QED BY <2>1, SameNames DEF Rounds!Booted
  <1>4. Pins(gpio) = AllLow
    BY DEF Init, Pins, AllLow
  <1> QED BY <1>2, <1>3, <1>4, SameNames
          DEF Init, ClimateInit, Rounds!RoundsInit, Rounds!ClimateInit, Seen

LEMMA RestartSeen ==
  ASSUME TypeOK, Restart
  PROVE  Rounds!Reboot
  <1> DEFINE booted(b) == [Zero EXCEPT !.batchActive = b]
  <1>1. PICK b \in BOOLEAN :
          /\ state' \in StateType /\ Hidden(booted(b)) /\ booted(b) \in StateType
          /\ state'.cur = booted(b).cur /\ state'.target = booted(b).target
          /\ state'.sensorOk = booted(b).sensorOk /\ Flags(state'.on) = booted(b).on
          /\ state'.alarm = booted(b).alarm /\ state'.safeMode = booted(b).safeMode
          /\ state'.batchActive = booted(b).batchActive
          /\ state'.manualMode = booted(b).manualMode
    <2>1. Zero \in StateType /\ Hidden(Zero) /\ Flags(Zero.on) = Zero.on
      BY ZeroType DEF Zero, Hidden, Flags
    <2>2. ASSUME NEW b \in BOOLEAN
          PROVE  /\ booted(b) \in StateType /\ Hidden(booted(b))
                 /\ booted(b).cur = Zero.cur /\ booted(b).target = Zero.target
                 /\ booted(b).sensorOk = Zero.sensorOk /\ booted(b).on = Zero.on
                 /\ booted(b).alarm = Zero.alarm /\ booted(b).safeMode = Zero.safeMode
                 /\ booted(b).batchActive = b /\ booted(b).manualMode = Zero.manualMode
      BY <2>1 DEF StateType, Hidden
    <2>3. CASE state' = Zero
      <3>1. Zero.batchActive \in BOOLEAN
        BY <2>1 DEF StateType
      <3> QED BY <2>1, <2>2, <2>3, <3>1
    <2>4. CASE state' = BatchApplied(Zero, nvsBatch) /\ BatchIsValid(nvsBatch)
      <3>1. nvsBatch \in BatchType
        BY DEF TypeOK, AppTypeOK
      <3>2. state' \in StateType /\ nvsBatch.active \in BOOLEAN
        BY <2>1, <2>4, <3>1, BatchAppliedType DEF BatchType
      <3>3. /\ state'.cur = Zero.cur /\ state'.target = Zero.target
            /\ state'.sensorOk = Zero.sensorOk /\ state'.on = Zero.on
            /\ state'.alarm = Zero.alarm /\ state'.safeMode = Zero.safeMode
            /\ state'.batchActive = nvsBatch.active /\ state'.manualMode = Zero.manualMode
        BY <2>1, <2>4 DEF BatchApplied, StateType
      <3> QED BY <2>1, <2>2, <3>2, <3>3
    <2> QED BY <2>3, <2>4 DEF Restart, Boot
  <1>2. Seen(state') = booted(b)
    BY <1>1, SeenIs
  <1>3. Seen(state') \in Rounds!Booted
    BY <1>2, SameNames DEF Rounds!Booted
  <1>4. Pins(gpio') = AllLow
    BY BootSafe DEF Restart, Pins, AllLow
  <1> QED BY <1>3, <1>4, SameNames DEF Restart, Boot, Rounds!Reboot, Seen

\* Every step of the firmware is a step of ClimateRounds, or none.
LEMMA StepSeen ==
  ASSUME IInv, TypeOK', Next
  PROVE  Rounds!RoundsNext \/ UNCHANGED Rounds!roundVars
  <1>0. TypeOK /\ SharedTypeOK /\ SharedTypeOK'
    BY DEF IInv, TypeOK
  <1> DEFINE inTurn == IF pc \in {"sensor", "scheduler", "climate"} THEN "climate" ELSE "others"
  <1>1. ASSUME Rounds!Measure \/ Rounds!Schedule \/ Rounds!Forget \/ Rounds!UserCommand,
               UNCHANGED <<inTurn, now, climateVars>>
        PROVE  Rounds!RoundsNext
    BY <1>1 DEF Rounds!RoundsNext, Rounds!OtherModule, climateVars, Rounds!climateVars
  <1>2. ASSUME LeftAlone, UNCHANGED <<inTurn, now, climateVars>>
        PROVE  Rounds!RoundsNext
    BY <1>0, <1>1, <1>2, ScheduleSeen
  <1>3. CASE Sense
    BY <1>0, <1>1, <1>3, SenseSeen DEF Sense, Turn
  <1>4. CASE Schedule
    <2>1. UNCHANGED <<inTurn, now, climateVars>> /\ SchedulerTick
      BY <1>4 DEF Schedule, Turn, SchedulerTick, SchedulerNoBatch, SchedulerIdle,
         SchedulerRowMissing, SchedulerApply, sharedVars
    <2> QED BY <1>0, <1>2, <2>1, SchedulerSeen
  <1>5. CASE Climate
    <2>1. Rounds!ClimateTick /\ inTurn = "climate" /\ inTurn' = "others"
      BY <1>0, <1>5, ClimateTickSeen DEF Climate, Turn
    <2> QED BY <2>1 DEF Rounds!RoundsNext, Rounds!ModuleTick
  <1>6. CASE Turning
    <2>1. UNCHANGED <<inTurn, now, climateVars>> /\ TurningTick
      BY <1>6 DEF Turning, Turn, TurningTick, TurningIdle, TurningPaused, TurningStop,
         TurningStart, TurningWait, TurningEnd, TurnerOff, sharedVars
    <2> QED BY <1>0, <1>2, <2>1, TurningSeen
  <1>7. CASE Ui
    <2>1. UNCHANGED <<inTurn, now, climateVars>> /\ UiTick
      BY <1>7 DEF Ui, Turn, UiTick, HandleInput, Stay, OpenItem, ClickStartDate, ClickPreset,
         ClickPlan, ClickManual, ClickConfirm, HoldFactoryReset, LongPress, NoCommand,
         StartBatch, PatchPlanRow, FactoryReset, EnterManualMode, ExitManualMode,
         SwitchManualOn, SwitchManualOff, UnhandledCommand, sharedVars
    <2> QED BY <1>0, <1>1, <1>2, <2>1, UiSeen
  <1>8. CASE Write
    <2>1. UNCHANGED <<inTurn, now, climateVars>> /\ CommandStep
      BY <1>8 DEF Write, Turn, CommandStep, ResetSavesPlan, ResetSavesBatch, StartSavesBatch,
         StopSavesBatch, PatchSavesPlan, ResetErasesNvs, ResetErasesPlan, RepairSavesPlan,
         sharedVars
    <2>2. ~state.manualMode
      <3>1. busy # "none"
        BY <2>1 DEF CommandStep, ResetSavesPlan, ResetSavesBatch, StartSavesBatch,
           StopSavesBatch, PatchSavesPlan, ResetErasesNvs, ResetErasesPlan, RepairSavesPlan
      <3> QED BY <3>1 DEF IInv, CommandScreen, ManualScreen
    <2> QED BY <1>0, <1>1, <1>2, <2>1, <2>2, WriteSeen
  <1>9. CASE Returned
    BY <1>9 DEF Returned, UiReturns, Turn, sharedVars, climateVars, Rounds!roundVars,
       Rounds!sharedVars, Rounds!climateVars
  <1>10. CASE NextRound
    BY <1>10 DEF NextRound, Turn, Rounds!RoundsNext, Rounds!NextMillis, Rounds!climateVars,
       climateVars
  <1>11. CASE Restart
    <2>1. inTurn' = "others"
      BY <1>11 DEF Restart
    <2> QED BY <1>0, <1>11, RestartSeen DEF Rounds!RoundsNext
  <1> QED BY <1>3, <1>4, <1>5, <1>6, <1>7, <1>8, <1>9, <1>10, <1>11 DEF Next, LoopStep

-----------------------------------------------------------------------------
(* The theorems. *)

(* IInv holds throughout: every module of loop(), every step of a command    *)
(* and a restart at any point preserve it.                                   *)
THEOREM Invariance == Spec => []IInv
  <1>1. IInv /\ [Next]_vars => IInv'
    BY TypeStep, PhaseStep, ModeStep DEF IInv
  <1> QED BY InitInv, <1>1, PTL DEF Spec

(* Every variable of the firmware keeps its type, the day within the plan's *)
(* bounds and each time stamp within the clock's (uint16_t, uint32_t).      *)
THEOREM TypeCorrect == Spec => []TypeOK
  <1>1. IInv => TypeOK
    BY DEF IInv
  <1> QED BY Invariance, <1>1, PTL

(* Manual mode and the Manual screen go together (enterManual, exitManual), *)
(* whatever commands fail and wherever the firmware restarts.               *)
THEOREM ManualScreenHolds == Spec => []ManualScreen
  <1>1. IInv => ManualScreen
    BY DEF IInv
  <1> QED BY Invariance, <1>1, PTL

(* Outside manual mode the turner's pin is on only while m_isTurning is set,*)
(* so that TurningModule::tick is there to switch it off.                   *)
THEOREM TurnerOwnedHolds == Spec => []TurnerOwned
  <1>1. IInv => TurnerOwned
    BY DEF IInv
  <1> QED BY Invariance, <1>1, PTL

(* In manual mode heaterOn and humidifierOn are what their pins are.        *)
THEOREM ManualRelaysShownHolds == Spec => []ManualRelaysShown
  <1>1. IInv => ManualRelaysShown
    BY DEF IInv
  <1> QED BY Invariance, <1>1, PTL

(* While manual mode lasts, outputs change in UiController's tick and in no *)
(* other step of loop() or of a command.                                    *)
THEOREM ManualIsManualHolds == Spec => ManualIsManual
  <1> DEFINE Honoured == state.manualMode /\ state'.manualMode /\ gpio' # gpio => pc = "ui"
  <1>1. IInv /\ [Next]_vars => [Honoured]_vars
    <2> SUFFICES ASSUME Next, state.manualMode, state'.manualMode, gpio' # gpio
                 PROVE  pc = "ui"
      BY DEF vars
    <2>1. CASE Sense \/ Schedule \/ Returned \/ NextRound
      BY <2>1 DEF Sense, Schedule, Returned, UiReturns, NextRound, SchedulerTick, sharedVars,
         SchedulerNoBatch, SchedulerIdle, SchedulerRowMissing, SchedulerApply
    <2>2. CASE Climate
      BY <2>2 DEF Climate, ClimateTick, ClimateIdle, ClimatePaused, ClimateAllOff,
         ClimateControl, sharedVars
    <2>3. CASE Turning
      BY <2>3 DEF Turning, TurningTick, TurningIdle, TurningPaused, TurningRuns, TurningStop,
         TurningStart, TurningWait, TurningEnd, sharedVars
    <2>4. CASE Ui
      BY <2>4 DEF Ui, Turn
    <2>5. CASE Write
      BY <2>5 DEF Write, CommandStep, ResetSavesPlan, ResetSavesBatch, StartSavesBatch,
         StopSavesBatch, PatchSavesPlan, ResetErasesNvs, ResetErasesPlan, RepairSavesPlan,
         sharedVars
    <2>6. CASE Restart
      BY <2>6, BootSafe DEF Restart
    <2> QED BY <2>1, <2>2, <2>3, <2>4, <2>5, <2>6 DEF Next, LoopStep
  <1> QED BY Invariance, <1>1, PTL DEF ManualIsManual, Spec

(* To ClimateModule the whole firmware is the rounds of ClimateRounds: what *)
(* every other module, every step of a command, a round of loop() and a     *)
(* restart do to the state and the pins it shares is one of the steps       *)
(* ClimateRounds allows, or nothing.                                        *)
THEOREM ClimateAsInRoundsHolds == Spec => ClimateAsInRounds
  <1>1. IInv /\ IInv' /\ [Next]_vars => [Rounds!RoundsNext]_(Rounds!roundVars)
    <2> SUFFICES ASSUME IInv, IInv', [Next]_vars
                 PROVE  [Rounds!RoundsNext]_(Rounds!roundVars)
      OBVIOUS
    <2>1. CASE Next
      <3>1. TypeOK'
        BY DEF IInv
      <3> QED BY <2>1, <3>1, StepSeen
    <2>2. CASE UNCHANGED vars
      BY <2>2 DEF vars, sharedVars, climateVars, Rounds!roundVars, Rounds!sharedVars,
         Rounds!climateVars
    <2> QED BY <2>1, <2>2
  <1> QED BY <1>1, InitSeen, Invariance, PTL DEF Spec, ClimateAsInRounds, Rounds!RoundsSpec
=============================================================================
