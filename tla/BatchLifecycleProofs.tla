------------------------- MODULE BatchLifecycleProofs -------------------------
(***************************************************************************)
(* Proofs about BatchLifecycle: what was announced survives, memory and     *)
(* storage differ only in safe mode, and the batch is a DurableValue.       *)
(*                                                                         *)
(* The first two parts are about AppController and IncubationScheduler      *)
(* alone: what the scheduler, the commands and a restart do to the types of *)
(* the data they touch.  IncubatorProofs cites them as well.                *)
(***************************************************************************)
EXTENDS BatchLifecycle, SequenceTheorems, TLAPS

-----------------------------------------------------------------------------
(* The data and the scheduler. *)

LEMMA ModTimes == ASSUME NEW n \in Int PROVE n % Wrap \in Times
  BY ClockAssumption DEF Times

LEMMA DivNat == ASSUME NEW n \in Nat PROVE n \div DaySecs \in Nat
  BY PlanAssumption

LEMMA SinceTimes == ASSUME now \in Times, NEW t \in Times PROVE Since(t) \in Times
  <1>1. now - t \in Int
    BY ClockAssumption DEF Times
  <1> QED BY <1>1, ModTimes DEF Since

LEMMA ZeroType == Zero \in StateType
  BY DataAssumption, LoopsAssumption, ClockAssumption
     DEF Zero, StateType, Shown, Days, Times

LEMMA AllLowType == AllLow \in [Outputs -> BOOLEAN]
  BY DEF AllLow

LEMMA EmptyBatchType == EmptyBatch \in BatchType
  BY PlanAssumption, DataAssumption DEF EmptyBatch, BatchType, Days

LEMMA GeneratedType ==
  ASSUME NEW s \in Species
  PROVE  Generated(s) \in Seq(Row) /\ Len(Generated(s)) = Preset[s].days
                                   /\ Preset[s].days \in 1 .. MaxRows
  <1> DEFINE n == Preset[s].days
             g == [d \in 1 .. n |->
                     IF d < Preset[s].lockdown THEN Preset[s].early ELSE Preset[s].late]
  <1>1. Preset[s] \in PresetType
    BY PlanAssumption
  <1>2. n \in Nat /\ n \in 1 .. MaxRows
    BY <1>1, PresetAssumption, PlanAssumption, DataAssumption DEF PresetType, Days
  <1>3. g \in [1 .. n -> Row]
    BY <1>1 DEF PresetType
  <1>4. g \in Seq(Row) /\ Len(g) = n
    BY <1>2, <1>3
  <1> QED BY <1>2, <1>4 DEF Generated

LEMMA ResolveType ==
  ASSUME NEW s \in Epochs, NEW e \in Epochs, NEW t \in Days
  PROVE  Resolve(s, e, t) \in Days
  <1>1. s \in Nat /\ e \in Nat /\ t \in Nat /\ t <= MaxDay /\ MaxDay \in Nat /\ 1 <= MaxDay
    BY PlanAssumption, DataAssumption DEF Days
  <1>2. CASE t = 0
    BY <1>1, <1>2 DEF Resolve, Days
  <1>3. CASE t # 0 /\ e <= s
    BY <1>1, <1>3 DEF Resolve, Days
  <1>4. CASE t # 0 /\ ~(e <= s)
    <2> DEFINE q == (e - s) \div DaySecs
    <2>1. q \in Nat
      BY <1>1, <1>4, DivNat
    <2>2. Resolve(s, e, t) = IF q + 1 > t THEN t ELSE q + 1
      BY <1>1, <1>4 DEF Resolve
    <2> HIDE DEF q
    <2> QED BY <1>1, <1>4, <2>1, <2>2 DEF Days
  <1> QED BY <1>1, <1>2, <1>3, <1>4

LEMMA SchedulerTickType ==
  ASSUME SharedTypeOK, PlanTypeOK, SchedulerTypeOK, SchedulerTick
  PROVE  SharedTypeOK' /\ PlanTypeOK' /\ SchedulerTypeOK'
  <1> USE DEF SharedTypeOK, PlanTypeOK, SchedulerTypeOK
  <1>1. Today \in Days /\ LockdownOn(Today) \in BOOLEAN
    BY ResolveType DEF Today, BatchType, LockdownOn
  <1>2. Dated \in StateType
    BY <1>1 DEF Dated, StateType, BatchType
  <1>3. CASE SchedulerNoBatch
    BY <1>3 DEF SchedulerNoBatch, schedulerVars, planVars, StateType
  <1>4. CASE SchedulerIdle
    BY <1>4 DEF SchedulerIdle, schedulerVars, planVars, sharedVars
  <1>5. CASE SchedulerRowMissing
    BY <1>2, <1>5 DEF SchedulerRowMissing, schedulerVars, planVars, StateType
  <1>6. CASE SchedulerApply
    <2>1. Today \in 1 .. Len(plan)
      BY <1>1, <1>6, DataAssumption DEF SchedulerApply, HasRow, Days
    <2>2. plan[Today] \in Row
      BY <2>1
    <2>3. RowApplied(Dated, plan[Today]) \in StateType
      BY <1>2, <2>2 DEF RowApplied, StateType, Row, Shown
    <2> QED BY <1>6, <2>3 DEF SchedulerApply, planVars
  <1> QED BY <1>3, <1>4, <1>5, <1>6 DEF SchedulerTick

-----------------------------------------------------------------------------
(* The commands. *)

CommandTypeOK == SharedTypeOK /\ PlanTypeOK /\ AppTypeOK

LEMMA BatchAppliedType ==
  ASSUME NEW s \in StateType, NEW b \in BatchType
  PROVE  BatchApplied(s, b) \in StateType
  BY DataAssumption DEF BatchApplied, StateType, BatchType, Days

LEMMA WithPresetDaysType ==
  ASSUME NEW b \in BatchType
  PROVE  WithPresetDays(b) \in BatchType
  BY PlanAssumption DEF WithPresetDays, BatchType, PresetType

LEMMA EmptyPlanType == <<>> \in Seq(Row) /\ Len(<<>>) <= MaxRows
  BY PlanAssumption

LEMMA StartBatchType ==
  ASSUME CommandTypeOK, NEW s \in Species, NEW e \in Epochs, StartBatch(s, e)
  PROVE  CommandTypeOK'
  <1> USE DEF CommandTypeOK
  <1>1. batch' \in BatchType
    <2>1. [species |-> s, totalDays |-> 0, lockdownStartDay |-> 0,
           active |-> TRUE, startEpoch |-> e] \in BatchType
      BY DataAssumption DEF BatchType, Days
    <2> QED BY <2>1, WithPresetDaysType DEF StartBatch
  <1>2. plan' \in Seq(Row) /\ Len(plan') <= MaxRows
    BY GeneratedType, PlanAssumption DEF StartBatch
  <1> QED BY <1>1, <1>2 DEF StartBatch, Continue, SharedTypeOK, PlanTypeOK, AppTypeOK,
             Writes, storageVars, sharedVars

LEMMA PatchPlanRowType ==
  ASSUME CommandTypeOK, NEW day \in Days, NEW row \in Row, PatchPlanRow(day, row)
  PROVE  CommandTypeOK'
  <1> USE DEF CommandTypeOK
  <1>1. plan' \in Seq(Row) /\ Len(plan') <= MaxRows
    BY PlanAssumption DEF PatchPlanRow, PlanTypeOK
  <1> QED BY <1>1 DEF PatchPlanRow, Continue, Return, SharedTypeOK, PlanTypeOK, AppTypeOK,
             Writes, storageVars, sharedVars

LEMMA FactoryResetType ==
  ASSUME CommandTypeOK, FactoryReset
  PROVE  CommandTypeOK'
  BY DEF CommandTypeOK, FactoryReset, Continue, SharedTypeOK, PlanTypeOK, AppTypeOK,
         Writes, storageVars, sharedVars, planVars

LEMMA PlanSaveType ==
  ASSUME CommandTypeOK, NEW ok \in BOOLEAN, PlanSave(ok)
  PROVE  planFile' \in Seq(Row)
  BY EmptyPlanType DEF CommandTypeOK, PlanSave, Damaged, AppTypeOK, PlanTypeOK

LEMMA BatchSaveType ==
  ASSUME CommandTypeOK, NEW ok \in BOOLEAN, BatchSave(ok)
  PROVE  nvsBatch' \in BatchType
  BY DEF CommandTypeOK, BatchSave, AppTypeOK, PlanTypeOK

\* In the middle of a StartBatch the plan in memory is a preset's, whose first
\* row is applied.
PlanToApply == busy = "saveBatch" => Len(plan) > 0

LEMMA CommandStepType ==
  ASSUME CommandTypeOK, PlanToApply, CommandStep
  PROVE  CommandTypeOK'
  <1> USE DEF CommandTypeOK
  <1> PICK ok \in BOOLEAN :
        \/ ResetSavesPlan(ok) \/ ResetSavesBatch(ok) \/ StartSavesBatch(ok)
        \/ StopSavesBatch(ok) \/ PatchSavesPlan(ok)
        \/ ResetErasesNvs(ok) \/ ResetErasesPlan(ok) \/ RepairSavesPlan(ok)
    BY DEF CommandStep
  <1> USE DEF Continue, Return, Writes, SharedTypeOK, PlanTypeOK, AppTypeOK, planVars,
          sharedVars
  <1>0. [state EXCEPT !.safeMode = TRUE] \in StateType
    BY DEF StateType
  <1>1. CASE ResetSavesPlan(ok)
    BY <1>0, <1>1, PlanSaveType DEF ResetSavesPlan, EnterSafeMode
  <1>2. CASE ResetSavesBatch(ok)
    <2>1. plan[1] \in Row
      BY <1>2 DEF ResetSavesBatch, PlanToApply
    <2>2. [BatchApplied(state, batch) EXCEPT !.target = plan[1].target,
                                             !.turningEnabled = plan[1].turning] \in StateType
      BY <2>1, BatchAppliedType DEF StateType, Row
    <2> QED BY <1>0, <1>2, <2>2, BatchSaveType DEF ResetSavesBatch, EnterSafeMode
  <1>3. CASE StartSavesBatch(ok)
    BY <1>0, <1>3, BatchSaveType DEF StartSavesBatch, EnterSafeMode
  <1>4. CASE StopSavesBatch(ok)
    BY <1>4, BatchSaveType DEF StopSavesBatch
  <1>5. CASE PatchSavesPlan(ok)
    BY <1>5, PlanSaveType DEF PatchSavesPlan
  <1>6. CASE ResetErasesNvs(ok)
    BY <1>6, EmptyBatchType DEF ResetErasesNvs
  <1>7. CASE ResetErasesPlan(ok)
    BY <1>7, EmptyBatchType, EmptyPlanType, ZeroType DEF ResetErasesPlan
  <1>8. CASE RepairSavesPlan(ok)
    BY <1>8, PlanSaveType DEF RepairSavesPlan
  <1> QED BY <1>1, <1>2, <1>3, <1>4, <1>5, <1>6, <1>7, <1>8

LEMMA BootType ==
  ASSUME CommandTypeOK, Boot, now' \in Times
  PROVE  CommandTypeOK'
  <1> USE DEF CommandTypeOK
  <1>1. Restored \in BatchType
    BY EmptyBatchType DEF Restored, AppTypeOK
  <1>2. state' \in StateType
    BY ZeroType, BatchAppliedType DEF Boot, AppTypeOK
  <1>3. batch' \in BatchType
    BY <1>1, WithPresetDaysType DEF Boot
  <1>4. plan' \in Seq(Row) /\ Len(plan') <= MaxRows
    <2>1. Generated(Restored.species) \in Seq(Row)
            /\ Len(Generated(Restored.species)) <= MaxRows
      BY <1>1, GeneratedType, PlanAssumption DEF BatchType
    <2> QED BY <2>1, EmptyPlanType DEF Boot, PlanUsable, PlanIsValid, AppTypeOK
  <1> QED BY <1>2, <1>3, <1>4, AllLowType
          DEF Boot, Continue, Return, Writes, SharedTypeOK, PlanTypeOK, AppTypeOK, storageVars

LEMMA OutputCommandType ==
  ASSUME SharedTypeOK,
         \/ EnterManualMode \/ ExitManualMode \/ UnhandledCommand
         \/ \E o \in Loops \cup {"turner"} : SwitchManualOff(o) \/ SwitchManualOn(o)
  PROVE  SharedTypeOK'
  <1> USE DEF SharedTypeOK
  <1>1. ManualOutputsOff \in [Outputs -> BOOLEAN]
    BY DEF ManualOutputsOff
  <1>2. CASE EnterManualMode
    BY <1>1, <1>2 DEF EnterManualMode, StateType
  <1>3. CASE ExitManualMode
    BY <1>1, <1>3 DEF ExitManualMode, StateType
  <1>4. CASE UnhandledCommand
    BY <1>4 DEF UnhandledCommand, sharedVars
  <1>5. ASSUME NEW o \in Loops \cup {"turner"}, SwitchManualOff(o)
        PROVE  SharedTypeOK'
    BY <1>5 DEF SwitchManualOff, StateType, Shown
  <1>6. ASSUME NEW o \in Loops \cup {"turner"}, SwitchManualOn(o)
        PROVE  SharedTypeOK'
    <2>1. Energised(o, TRUE) \in BOOLEAN /\ (state.safeMode /\ o # "heater") \in BOOLEAN
      BY DEF Energised
    <2> HIDE DEF SharedTypeOK
    <2>2. gpio' \in [Outputs -> BOOLEAN]
      BY <1>6, <2>1 DEF SwitchManualOn, SharedTypeOK
    <2>3. state' \in StateType
      BY <1>6, <2>1 DEF SwitchManualOn, SharedTypeOK, StateType
    <2> QED BY <1>6, <2>2, <2>3 DEF SwitchManualOn, SharedTypeOK
  <1> QED BY <1>2, <1>3, <1>4, <1>5, <1>6

-----------------------------------------------------------------------------
(* The inductive invariant. *)

\* The wall clock is not ahead of the true date.
ClockBehind == epoch <= trueEpoch

PlanReady == busy \in {"savePlan", "saveBatch"} => Len(plan) > 0

IdleWhenOff == ~powered => busy = "none"

\* A batch has the days its preset gave it, in memory and in storage.
FromPreset(b) == b = EmptyBatch \/ b = WithPresetDays(b)
DaysFromPreset == FromPreset(batch) /\ FromPreset(nvsBatch)

\* A factory reset has withdrawn what was announced before it erases.
NothingToErase == busy \in {"eraseNvs", "erasePlan"} => acked = NoBatch

AckedStored == acked # NoBatch => nvsBatch = acked /\ (powered => batch = acked)

\* Between the writes of these commands memory may be ahead of storage, or
\* behind it.
Unsettled == {"savePlan", "saveBatch", "commitBatch", "stopBatch", "erasePlan"}
SettledIsSafe ==
  powered /\ busy \notin Unsettled /\ batch.active /\ batch # nvsBatch
    => state.safeMode \/ waived
StoppedIsInactive == busy = "stopBatch" => ~batch.active

\* A row known to be kept is in the file, and nothing is about to replace it.
RowStored ==
  edit.kept =>
    /\ busy = "none"
    /\ PlanIsValid(planFile) /\ HasRow(planFile, edit.day)
    /\ planFile[edit.day] = edit.row
    /\ powered /\ batch.active => plan[edit.day] = edit.row
RowPatched ==
  busy = "patchRow" => HasRow(plan, edit.day) /\ plan[edit.day] = edit.row

LifeIInv ==
  /\ LifeTypeOK /\ ClockBehind /\ PlanReady /\ IdleWhenOff /\ DaysFromPreset
  /\ NothingToErase /\ AckedStored
  /\ SettledIsSafe /\ StoppedIsInactive
  /\ RowStored /\ RowPatched

-----------------------------------------------------------------------------
(* The types. *)

LEMMA NoEditType == NoEdit \in [day : Days, row : Row, kept : BOOLEAN] /\ ~NoEdit.kept
  <1>1. (CHOOSE r \in EditRows : TRUE) \in Row
    BY LifeAssumption, InputAssumption
  <1> QED BY <1>1, DataAssumption DEF NoEdit

LEMMA EpochIsDate == ASSUME NEW n \in Nat, n <= LastDay PROVE n \in Epochs
  BY LifeAssumption

LEMMA LifeTypeStep ==
  ASSUME LifeIInv, [LifeNext]_lifeVars
  PROVE  LifeTypeOK' /\ ClockBehind'
  <1>0. LifeTypeOK /\ ClockBehind /\ CommandTypeOK
    BY DEF LifeIInv, LifeTypeOK, CommandTypeOK
  <1>1. LifeTypeOK' <=>
          /\ CommandTypeOK' /\ SchedulerTypeOK' /\ powered' \in BOOLEAN
          /\ trueEpoch' \in FirstDay .. LastDay /\ acked' \in BatchType
          /\ edit' \in [day : Days, row : Row, kept : BOOLEAN]
          /\ torn' \in BOOLEAN /\ waived' \in BOOLEAN /\ locked' \in BOOLEAN
    BY DEF LifeTypeOK, CommandTypeOK
  <1>2. ASSUME UNCHANGED <<epoch, trueEpoch>> PROVE ClockBehind'
    BY <1>0, <1>2 DEF ClockBehind
  <1>3. ASSUME UNCHANGED <<schedulerLastMs, epoch>> PROVE SchedulerTypeOK'
    BY <1>0, <1>3 DEF SchedulerTypeOK, LifeTypeOK
  <1>4. NoBatch \in BatchType /\ NoEdit \in [day : Days, row : Row, kept : BOOLEAN]
    BY EmptyBatchType, NoEditType DEF NoBatch
  <1>5. CASE Command
    <2> UNCHANGED <<schedulerLastMs, epoch, powered, trueEpoch>>
      BY <1>5 DEF Command, schedulerVars
    <2> SUFFICES /\ CommandTypeOK' /\ acked' \in BatchType
                 /\ edit' \in [day : Days, row : Row, kept : BOOLEAN]
                 /\ torn' \in BOOLEAN /\ waived' \in BOOLEAN /\ locked' \in BOOLEAN
      BY <1>0, <1>1, <1>2, <1>3 DEF LifeTypeOK
    <2>1. ASSUME NEW s \in Species, NEW e \in StartDates, NewBatch(s, e)
          PROVE  CommandTypeOK'
      BY <1>0, <2>1, InputAssumption, StartBatchType DEF NewBatch
    <2>2. ASSUME EndBatch PROVE CommandTypeOK'
      BY <1>0, <2>2
         DEF EndBatch, StopBatch, Continue, CommandTypeOK, SharedTypeOK, PlanTypeOK,
             AppTypeOK, BatchType, Writes, storageVars, sharedVars
    <2>3. ASSUME NEW d \in EditDays, NEW r \in EditRows, EditRow(d, r)
          PROVE  CommandTypeOK' /\ edit' \in [day : Days, row : Row, kept : BOOLEAN]
      <3>1. d \in Days /\ r \in Row
        BY InputAssumption
      <3> QED BY <1>0, <2>3, <3>1, PatchPlanRowType DEF EditRow, LifeTypeOK
    <2>4. ASSUME EraseAll PROVE CommandTypeOK'
      BY <1>0, <2>4, FactoryResetType DEF EraseAll
    <2>5. ASSUME LeaveSafeMode PROVE CommandTypeOK'
      BY <1>0, <2>5
         DEF LeaveSafeMode, ClearSafeMode, CommandTypeOK, SharedTypeOK, PlanTypeOK,
             AppTypeOK, StateType, planVars, storageVars, commandVars
    <2>6. CASE WriteStep
      <3>1. CommandTypeOK'
        BY <1>0, <2>6, CommandStepType DEF WriteStep, LifeIInv, PlanReady, PlanToApply
      <3>2. acked' \in BatchType
        BY <1>0, <2>6 DEF WriteStep, LifeTypeOK, PlanTypeOK
      <3>3. [edit EXCEPT !.kept = (result' = "ok")] \in [day : Days, row : Row, kept : BOOLEAN]
        BY <1>0 DEF LifeTypeOK
      <3>4. edit' \in [day : Days, row : Row, kept : BOOLEAN]
        BY <1>0, <1>4, <2>6, <3>3 DEF WriteStep, LifeTypeOK
      <3>5. torn' \in BOOLEAN /\ waived' \in BOOLEAN /\ locked' \in BOOLEAN
        BY <1>0, <2>6 DEF WriteStep, ForeignPlan, LifeTypeOK
      <3> QED BY <3>1, <3>2, <3>4, <3>5
    <2> QED BY <1>0, <1>4, <1>5, <2>1, <2>2, <2>3, <2>4, <2>5, <2>6
            DEF Command, NewBatch, EndBatch, EditRow, EraseAll, LeaveSafeMode, LifeTypeOK
  <1>6. CASE Scheduler
    <2>1. SharedTypeOK' /\ PlanTypeOK' /\ SchedulerTypeOK'
      BY <1>0, <1>6, SchedulerTickType DEF Scheduler, LifeTypeOK
    <2>2. epoch' = epoch
      BY <1>6 DEF Scheduler, SchedulerTick, SchedulerNoBatch, SchedulerIdle,
                  SchedulerRowMissing, SchedulerApply, schedulerVars
    <2>3. AppTypeOK'
      BY <1>0, <1>6 DEF Scheduler, LifeTypeOK, AppTypeOK, storageVars, commandVars
    <2>4. locked' \in BOOLEAN
      BY <1>6 DEF Scheduler
    <2> QED BY <1>0, <1>1, <1>2, <1>6, <2>1, <2>2, <2>3, <2>4
            DEF Scheduler, LifeTypeOK, CommandTypeOK
  <1>7. CASE Round
    <2>1. now' \in Times
      BY <1>0, <1>7, ModTimes, ClockAssumption DEF Round, CommandTypeOK, SharedTypeOK, Times
    <2> QED BY <1>0, <1>1, <1>2, <1>3, <1>7, <2>1
            DEF Round, LifeTypeOK, CommandTypeOK, SharedTypeOK, PlanTypeOK, AppTypeOK,
                planVars, storageVars, schedulerVars, lifeHistory
  <1>8. CASE DayPasses
    <2>1. epoch \in Nat /\ trueEpoch \in Nat /\ epoch <= trueEpoch /\ LastDay \in Nat
           /\ FirstDay \in Nat
      BY <1>0, PlanAssumption, LifeAssumption DEF ClockBehind, LifeTypeOK, SchedulerTypeOK
    <2>2. trueEpoch' \in FirstDay .. LastDay /\ epoch' <= trueEpoch' /\ epoch' \in Nat
           /\ epoch' <= LastDay
      BY <1>0, <1>8, <2>1 DEF DayPasses, LifeTypeOK
    <2>3. epoch' \in Epochs
      BY <2>2, EpochIsDate
    <2> QED BY <1>0, <1>1, <1>8, <2>2, <2>3
            DEF DayPasses, LifeTypeOK, CommandTypeOK, SharedTypeOK, PlanTypeOK, AppTypeOK,
                SchedulerTypeOK, ClockBehind, planVars, storageVars, commandVars, sharedVars,
                lifeHistory
  <1>9. CASE Sync
    <2>1. trueEpoch \in Nat /\ trueEpoch <= LastDay
      BY <1>0, LifeAssumption DEF LifeTypeOK
    <2>2. epoch' \in Epochs /\ epoch' <= trueEpoch'
      BY <1>9, <2>1, EpochIsDate DEF Sync
    <2> QED BY <1>0, <1>1, <1>9, <2>2
            DEF Sync, LifeTypeOK, CommandTypeOK, SharedTypeOK, PlanTypeOK, AppTypeOK,
                SchedulerTypeOK, ClockBehind, planVars, storageVars, commandVars, sharedVars,
                lifeHistory
  <1>10. CASE PowerFails
    <2>1. 0 \in Times /\ 0 \in Epochs /\ 0 <= trueEpoch
      BY <1>0, ClockAssumption, PlanAssumption, LifeAssumption DEF Times, LifeTypeOK
    <2>2. CommandTypeOK'
      BY <1>0, <1>10, <2>1, ZeroType, AllLowType, EmptyBatchType, EmptyPlanType
         DEF PowerFails, CommandTypeOK, SharedTypeOK, PlanTypeOK, AppTypeOK, Writes,
             storageVars
    <2> QED BY <1>0, <1>1, <1>10, <2>1, <2>2
            DEF PowerFails, LifeTypeOK, SchedulerTypeOK, ClockBehind
  <1>11. CASE PowerReturns
    <2>1. CommandTypeOK'
      BY <1>0, <1>11, BootType DEF PowerReturns, CommandTypeOK, SharedTypeOK
    <2> QED BY <1>0, <1>1, <1>2, <1>3, <1>11, <2>1
            DEF PowerReturns, LifeTypeOK, schedulerVars, lifeHistory
  <1>12. CASE Reboot
    <2>1. now' \in Times /\ schedulerLastMs' \in Times
      BY <1>12, ClockAssumption DEF Reboot, Times
    <2>2. CommandTypeOK'
      BY <1>0, <1>12, <2>1, BootType DEF Reboot
    <2> QED BY <1>0, <1>1, <1>2, <1>12, <2>1, <2>2 DEF Reboot, LifeTypeOK, SchedulerTypeOK
  <1>13. CASE UNCHANGED lifeVars
    BY <1>0, <1>1, <1>2, <1>3, <1>13
       DEF LifeTypeOK, CommandTypeOK, SharedTypeOK, PlanTypeOK, AppTypeOK, lifeVars,
           planVars, storageVars, commandVars, sharedVars, schedulerVars, lifeHistory
  <1> QED BY <1>5, <1>6, <1>7, <1>8, <1>9, <1>10, <1>11, <1>12, <1>13 DEF LifeNext

LEMMA InitLifeIInv == LifeInit => LifeIInv
  <1> SUFFICES ASSUME LifeInit PROVE LifeIInv
    OBVIOUS
  <1> USE DEF LifeInit
  <1>1. LifeTypeOK
    <2>1. SharedTypeOK /\ PlanTypeOK /\ AppTypeOK
      BY ZeroType, AllLowType, EmptyBatchType, EmptyPlanType, ClockAssumption
         DEF SharedTypeOK, PlanTypeOK, AppTypeOK, Times, Writes
    <2>2. SchedulerTypeOK
      BY ClockAssumption, PlanAssumption DEF SchedulerInit, SchedulerTypeOK, Times
    <2>3. NoEdit \in [day : Days, row : Row, kept : BOOLEAN]
      BY NoEditType
    <2>4. trueEpoch \in FirstDay .. LastDay
      BY LifeAssumption
    <2> QED BY <2>1, <2>2, <2>3, <2>4, EmptyBatchType DEF LifeTypeOK, NoBatch
  <1>2. ClockBehind
    BY LifeAssumption DEF ClockBehind
  <1> QED BY <1>1, <1>2
          DEF LifeIInv, PlanReady, IdleWhenOff, FromPreset, DaysFromPreset, NothingToErase,
              AckedStored, NoBatch, SettledIsSafe, StoppedIsInactive, RowStored, RowPatched,
              NoEdit

-----------------------------------------------------------------------------
(* What a restart finds. *)

\* A stored batch is valid unless storage is empty, so it comes back as it was.
LEMMA BootFindsBatch ==
  ASSUME CommandTypeOK, DaysFromPreset, Boot
  PROVE  /\ batch' = nvsBatch
         /\ batch'.active /\ PlanIsValid(planFile) => plan' = planFile /\ busy' = "none"
         /\ busy' \in {"none", "repairPlan"}
  <1>1. Restored = nvsBatch
    <2>1. CASE nvsBatch = EmptyBatch
      BY <2>1 DEF Restored
    <2>2. CASE nvsBatch = WithPresetDays(nvsBatch)
      <3>1. nvsBatch.species \in Species /\ nvsBatch \in BatchType
        BY DEF CommandTypeOK, AppTypeOK, BatchType
      <3>2. nvsBatch.totalDays = Preset[nvsBatch.species].days
            /\ nvsBatch.lockdownStartDay = Preset[nvsBatch.species].lockdown
        BY <2>2, <3>1 DEF WithPresetDays, BatchType
      <3>3. Preset[nvsBatch.species].days \in Nat /\ Preset[nvsBatch.species].lockdown \in Nat
        BY <3>1, PlanAssumption, DataAssumption DEF PresetType, Days
      <3>4. BatchIsValid(nvsBatch)
        BY <3>1, <3>2, <3>3, PresetAssumption DEF BatchIsValid
      <3> QED BY <3>4 DEF Restored
    <2> QED BY <2>1, <2>2 DEF DaysFromPreset, FromPreset
  <1>2. nvsBatch.active => WithPresetDays(nvsBatch) = nvsBatch
    BY DEF DaysFromPreset, FromPreset, EmptyBatch
  <1> QED BY <1>1, <1>2 DEF Boot, PlanUsable, Continue, Return

-----------------------------------------------------------------------------
(* Every step keeps the rest of the invariant. *)

BatchKept == DaysFromPreset /\ NothingToErase /\ AckedStored
SafeKept == SettledIsSafe /\ StoppedIsInactive
RowKept == RowStored /\ RowPatched

LEMMA StoppedFromPreset ==
  ASSUME batch \in BatchType, FromPreset(batch), batch.active
  PROVE  FromPreset([batch EXCEPT !.active = FALSE])
  <1>1. batch = WithPresetDays(batch)
    BY DEF FromPreset, EmptyBatch
  <1> QED BY <1>1 DEF FromPreset, WithPresetDays, BatchType

LEMMA CommandKeeps ==
  ASSUME LifeIInv, powered, UNCHANGED powered,
         \/ \E s \in Species, e \in StartDates : NewBatch(s, e)
         \/ EndBatch
         \/ \E d \in EditDays, r \in EditRows : EditRow(d, r)
         \/ EraseAll
         \/ LeaveSafeMode
  PROVE  PlanReady' /\ BatchKept' /\ SafeKept' /\ RowKept'
  <1> USE DEF Idle, Continue, Return, BatchKept, SafeKept, RowKept
  <1>0. LifeTypeOK /\ Idle /\ DaysFromPreset /\ AckedStored /\ SettledIsSafe /\ RowStored
    BY DEF LifeIInv, NewBatch, StartBatch, EndBatch, StopBatch, EditRow, PatchPlanRow,
           EraseAll, FactoryReset, LeaveSafeMode
  <1>1. ASSUME NEW s \in Species, NEW e \in StartDates, NewBatch(s, e)
        PROVE  PlanReady' /\ BatchKept' /\ SafeKept' /\ RowKept'
    <2> DEFINE new == [species |-> s, totalDays |-> 0, lockdownStartDay |-> 0,
                       active |-> TRUE, startEpoch |-> e]
    <2>1. WithPresetDays(new) = WithPresetDays(WithPresetDays(new))
      BY DEF WithPresetDays
    <2>2. FromPreset(batch)'
      BY <1>1, <2>1 DEF NewBatch, StartBatch, FromPreset
    <2>3. Len(plan') > 0
      BY <1>1, GeneratedType, PlanAssumption, DataAssumption DEF NewBatch, StartBatch
    <2>4. UNCHANGED nvsBatch /\ busy' = "savePlan" /\ acked' = NoBatch /\ ~edit'.kept
      BY <1>1, NoEditType DEF NewBatch, StartBatch, storageVars
    <2> QED BY <1>0, <2>2, <2>3, <2>4
            DEF PlanReady, DaysFromPreset, FromPreset, NothingToErase, AckedStored,
                SettledIsSafe, Unsettled, StoppedIsInactive, RowStored, RowPatched
  <1>2. ASSUME EndBatch PROVE PlanReady' /\ BatchKept' /\ SafeKept' /\ RowKept'
    <2>1. FromPreset(batch)' /\ ~batch'.active
      BY <1>0, <1>2, StoppedFromPreset
         DEF EndBatch, StopBatch, DaysFromPreset, FromPreset, LifeTypeOK, PlanTypeOK, BatchType
    <2>2. UNCHANGED nvsBatch /\ busy' = "stopBatch" /\ acked' = NoBatch /\ ~edit'.kept
      BY <1>2, NoEditType DEF EndBatch, StopBatch, storageVars
    <2> QED BY <1>0, <2>1, <2>2
            DEF PlanReady, DaysFromPreset, FromPreset, NothingToErase, AckedStored,
                SettledIsSafe, Unsettled, StoppedIsInactive, RowStored, RowPatched
  <1>3. ASSUME NEW d \in EditDays, NEW r \in EditRows, EditRow(d, r)
        PROVE  PlanReady' /\ BatchKept' /\ SafeKept' /\ RowKept'
    <2>1. UNCHANGED <<batch, nvsBatch, planFile, state, acked, waived>>
           /\ busy' \in {"none", "patchRow"}
      BY <1>3 DEF EditRow, PatchPlanRow, storageVars, sharedVars
    <2>2. CASE HasRow(plan, d)
      <3>1. d \in 1 .. Len(plan)
        BY <2>2, InputAssumption, DataAssumption, <1>0
           DEF HasRow, Days, LifeTypeOK, PlanTypeOK
      <3>2. plan'[d] = r /\ HasRow(plan', d)
        BY <1>0, <1>3, <2>2, <3>1 DEF EditRow, PatchPlanRow, HasRow, LifeTypeOK, PlanTypeOK
      <3>3. edit' = [day |-> d, row |-> r, kept |-> FALSE]
        BY <1>3, <2>2 DEF EditRow
      <3> QED BY <1>0, <2>1, <3>2, <3>3
              DEF PlanReady, DaysFromPreset, FromPreset, NothingToErase, AckedStored,
                  SettledIsSafe, Unsettled, StoppedIsInactive, RowStored, RowPatched
    <2>3. CASE ~HasRow(plan, d)
      <3>1. UNCHANGED <<plan, edit>> /\ busy' = "none"
        BY <1>3, <2>3 DEF EditRow, PatchPlanRow
      <3> QED BY <1>0, <2>1, <3>1
              DEF PlanReady, DaysFromPreset, FromPreset, NothingToErase, AckedStored,
                  SettledIsSafe, Unsettled, StoppedIsInactive, RowStored, RowPatched
    <2> QED BY <2>2, <2>3
  <1>4. ASSUME EraseAll PROVE PlanReady' /\ BatchKept' /\ SafeKept' /\ RowKept'
    <2>1. UNCHANGED <<batch, nvsBatch, state, waived>> /\ busy' = "eraseNvs"
           /\ acked' = NoBatch /\ ~edit'.kept
      BY <1>4, NoEditType DEF EraseAll, FactoryReset, storageVars, planVars, sharedVars
    <2> QED BY <1>0, <2>1
            DEF PlanReady, DaysFromPreset, FromPreset, NothingToErase, AckedStored,
                SettledIsSafe, Unsettled, StoppedIsInactive, RowStored, RowPatched
  <1>5. ASSUME LeaveSafeMode PROVE PlanReady' /\ BatchKept' /\ SafeKept' /\ RowKept'
    <2>1. UNCHANGED <<planVars, storageVars, busy, acked, edit>> /\ waived' = (batch # nvsBatch)
      BY <1>5 DEF LeaveSafeMode, commandVars
    <2> QED BY <1>0, <2>1
            DEF planVars, storageVars, PlanReady, DaysFromPreset, FromPreset, NothingToErase,
                AckedStored, SettledIsSafe, Unsettled, StoppedIsInactive, RowStored, RowPatched
  <1> QED BY <1>1, <1>2, <1>3, <1>4, <1>5

LEMMA WriteKeeps ==
  ASSUME LifeIInv, powered, UNCHANGED powered, WriteStep
  PROVE  PlanReady' /\ BatchKept' /\ SafeKept' /\ RowKept'
  <1> USE DEF Continue, Return, BatchKept, SafeKept, RowKept
  <1>0. /\ LifeTypeOK /\ PlanReady /\ DaysFromPreset /\ NothingToErase /\ AckedStored
        /\ SettledIsSafe /\ StoppedIsInactive /\ RowStored /\ RowPatched
        /\ waived' = (waived /\ nvsBatch' # batch')
        /\ acked' = IF busy = "commitBatch" /\ result' = "ok" THEN batch ELSE acked
    BY DEF LifeIInv, WriteStep
  <1> PICK ok \in BOOLEAN :
        \/ ResetSavesPlan(ok) \/ ResetSavesBatch(ok) \/ StartSavesBatch(ok)
        \/ StopSavesBatch(ok) \/ PatchSavesPlan(ok)
        \/ ResetErasesNvs(ok) \/ ResetErasesPlan(ok) \/ RepairSavesPlan(ok)
    BY DEF WriteStep, CommandStep
  <1>1. ~edit.kept /\ state \in StateType /\ [state EXCEPT !.safeMode = TRUE].safeMode
    BY <1>0
       DEF RowStored, LifeTypeOK, SharedTypeOK, StateType, ResetSavesPlan, ResetSavesBatch,
           StartSavesBatch, StopSavesBatch, PatchSavesPlan, ResetErasesNvs, ResetErasesPlan,
           RepairSavesPlan
  <1>2. ASSUME busy # "patchRow" PROVE ~edit'.kept
    BY <1>1, <1>2, NoEditType DEF WriteStep
  <1>3. CASE ResetSavesPlan(ok)
    <2>1. UNCHANGED <<batch, plan, nvsBatch, acked>> /\ ~edit'.kept
           /\ busy' \in {"saveBatch", "none"} /\ (busy' = "none" => state'.safeMode)
           /\ busy = "savePlan"
      BY <1>0, <1>1, <1>2, <1>3 DEF ResetSavesPlan, EnterSafeMode, planVars
    <2> QED BY <1>0, <2>1
            DEF PlanReady, DaysFromPreset, FromPreset, NothingToErase, AckedStored,
                SettledIsSafe, Unsettled, StoppedIsInactive, RowStored, RowPatched
  <1>4. CASE ResetSavesBatch(ok)
    <2>1. UNCHANGED <<batch, plan, acked>> /\ ~edit'.kept /\ nvsBatch' \in {nvsBatch, batch}
           /\ busy' \in {"commitBatch", "none"} /\ (busy' = "none" => state'.safeMode)
      BY <1>0, <1>1, <1>2, <1>4 DEF ResetSavesBatch, BatchSave, EnterSafeMode, planVars
    <2> QED BY <1>0, <2>1
            DEF PlanReady, DaysFromPreset, FromPreset, NothingToErase, AckedStored,
                SettledIsSafe, Unsettled, StoppedIsInactive, RowStored, RowPatched
  <1>5. CASE StartSavesBatch(ok)
    <2>1. UNCHANGED <<batch, plan>> /\ ~edit'.kept /\ nvsBatch' \in {nvsBatch, batch}
           /\ busy' = "none"
      BY <1>0, <1>1, <1>2, <1>5 DEF StartSavesBatch, BatchSave, EnterSafeMode, planVars
    <2>2. CASE ok
      <3>1. nvsBatch' = batch /\ acked' = batch
        BY <1>0, <1>5, <2>2 DEF StartSavesBatch, BatchSave
      <3> QED BY <1>0, <2>1, <3>1
              DEF PlanReady, DaysFromPreset, FromPreset, NothingToErase, AckedStored,
                  SettledIsSafe, Unsettled, StoppedIsInactive, RowStored, RowPatched
    <2>3. CASE ~ok
      <3>1. state'.safeMode /\ acked' = acked
        BY <1>0, <1>1, <1>5, <2>3 DEF StartSavesBatch, EnterSafeMode
      <3> QED BY <1>0, <2>1, <3>1
              DEF PlanReady, DaysFromPreset, FromPreset, NothingToErase, AckedStored,
                  SettledIsSafe, Unsettled, StoppedIsInactive, RowStored, RowPatched
    <2> QED BY <2>2, <2>3
  <1>6. CASE StopSavesBatch(ok)
    <2>1. UNCHANGED <<batch, plan, acked>> /\ ~edit'.kept /\ nvsBatch' \in {nvsBatch, batch}
           /\ busy' = "none" /\ ~batch.active
      BY <1>0, <1>1, <1>2, <1>6 DEF StopSavesBatch, BatchSave, StoppedIsInactive, planVars
    <2> QED BY <1>0, <2>1
            DEF PlanReady, DaysFromPreset, FromPreset, NothingToErase, AckedStored,
                SettledIsSafe, Unsettled, StoppedIsInactive, RowStored, RowPatched
  <1>7. CASE PatchSavesPlan(ok)
    <2>1. UNCHANGED <<batch, plan, nvsBatch, state, acked>> /\ busy = "patchRow"
           /\ busy' = "none" /\ waived' = (waived /\ nvsBatch # batch)
      BY <1>0, <1>7 DEF PatchSavesPlan, planVars, sharedVars
    <2>2. RowStored'
      <3>1. CASE planFile' = plan
        <4>1. edit' = [edit EXCEPT !.kept = (result' = "ok")]
          BY <2>1, <3>1 DEF WriteStep
        <4>2. edit'.day = edit.day /\ edit'.row = edit.row
          BY <1>0, <4>1 DEF LifeTypeOK
        <4>3. edit.day \in Nat /\ HasRow(plan, edit.day) /\ plan[edit.day] = edit.row
          BY <1>0, <2>1, DataAssumption DEF RowPatched, LifeTypeOK, Days
        <4>4. PlanIsValid(plan)
          BY <1>0, <4>3 DEF PlanIsValid, HasRow, LifeTypeOK, PlanTypeOK
        <4> QED BY <2>1, <3>1, <4>2, <4>3, <4>4 DEF RowStored
      <3>2. CASE planFile' # plan
        <4>1. ~edit'.kept
          BY <2>1, <3>2, NoEditType DEF WriteStep
        <4> QED BY <4>1 DEF RowStored
      <3> QED BY <3>1, <3>2
    <2> QED BY <1>0, <2>1, <2>2
            DEF PlanReady, DaysFromPreset, FromPreset, NothingToErase, AckedStored,
                SettledIsSafe, Unsettled, StoppedIsInactive, RowPatched
  <1>8. CASE ResetErasesNvs(ok)
    <2>1. UNCHANGED <<batch, plan, acked>> /\ ~edit'.kept /\ nvsBatch' \in {nvsBatch, EmptyBatch}
           /\ busy = "eraseNvs" /\ busy' = "erasePlan"
      BY <1>0, <1>1, <1>2, <1>8 DEF ResetErasesNvs, planVars
    <2> QED BY <1>0, <2>1
            DEF PlanReady, DaysFromPreset, FromPreset, NothingToErase, AckedStored,
                SettledIsSafe, Unsettled, StoppedIsInactive, RowStored, RowPatched
  <1>9. CASE ResetErasesPlan(ok)
    <2>1. UNCHANGED <<nvsBatch, acked>> /\ ~edit'.kept /\ batch' = EmptyBatch
           /\ busy = "erasePlan" /\ busy' = "none"
      BY <1>0, <1>1, <1>2, <1>9 DEF ResetErasesPlan
    <2>2. ~EmptyBatch.active
      BY DEF EmptyBatch
    <2> QED BY <1>0, <2>1, <2>2
            DEF PlanReady, DaysFromPreset, FromPreset, NothingToErase, AckedStored, NoBatch,
                SettledIsSafe, Unsettled, StoppedIsInactive, RowStored, RowPatched
  <1>10. CASE RepairSavesPlan(ok)
    <2>1. UNCHANGED <<batch, plan, nvsBatch, state, acked>> /\ ~edit'.kept
           /\ busy = "repairPlan" /\ busy' = "none"
      BY <1>0, <1>1, <1>2, <1>10 DEF RepairSavesPlan, planVars, sharedVars
    <2> QED BY <1>0, <2>1
            DEF PlanReady, DaysFromPreset, FromPreset, NothingToErase, AckedStored,
                SettledIsSafe, Unsettled, StoppedIsInactive, RowStored, RowPatched
  <1> QED BY <1>3, <1>4, <1>5, <1>6, <1>7, <1>8, <1>9, <1>10

LEMMA BootKeeps ==
  ASSUME LifeIInv, Boot, powered', UNCHANGED <<acked, edit>>
  PROVE  PlanReady' /\ BatchKept' /\ SafeKept' /\ RowKept'
  <1>0. CommandTypeOK /\ DaysFromPreset /\ AckedStored /\ RowStored
    BY DEF LifeIInv, LifeTypeOK, CommandTypeOK
  <1>1. UNCHANGED <<nvsBatch, planFile>> /\ batch' = nvsBatch
         /\ busy' \in {"none", "repairPlan"}
         /\ (batch'.active /\ PlanIsValid(planFile) => plan' = planFile /\ busy' = "none")
    BY <1>0, BootFindsBatch DEF Boot, storageVars
  <1>2. RowStored'
    <2>1. CASE ~edit.kept
      BY <2>1 DEF RowStored
    <2>2. CASE edit.kept
      <3>1. PlanIsValid(planFile) /\ HasRow(planFile, edit.day) /\ planFile[edit.day] = edit.row
        BY <1>0, <2>2 DEF RowStored
      <3>2. busy' = "none"
        <4>1. ~PlanUsable => FALSE
          BY <3>1 DEF PlanUsable
        <4> QED BY <4>1 DEF Boot, Return
      <3> QED BY <1>1, <3>1, <3>2 DEF RowStored
    <2> QED BY <2>1, <2>2
  <1> QED BY <1>0, <1>1, <1>2
          DEF PlanReady, BatchKept, SafeKept, RowKept, DaysFromPreset, FromPreset,
              NothingToErase, AckedStored, SettledIsSafe, Unsettled, StoppedIsInactive,
              RowPatched

\* The scheduler, the clocks and the passing of time leave the batch, the plan
\* and storage alone, and never leave safe mode.
LEMMA QuietKeeps ==
  ASSUME LifeIInv,
         UNCHANGED <<planVars, storageVars, busy, acked, edit, waived, powered>>,
         state.safeMode => state'.safeMode
  PROVE  PlanReady' /\ BatchKept' /\ SafeKept' /\ RowKept'
  BY DEF LifeIInv, planVars, storageVars, PlanReady, BatchKept, SafeKept, RowKept,
         DaysFromPreset, FromPreset, NothingToErase, AckedStored, SettledIsSafe, Unsettled,
         StoppedIsInactive, RowStored, RowPatched

LEMMA SchedulerStaysSafe ==
  ASSUME SharedTypeOK, SchedulerTick, state.safeMode
  PROVE  state'.safeMode
  <1>1. CASE SchedulerApply
    <2>1. Dated.safeMode
      BY DEF SharedTypeOK, StateType, Dated
    <2> QED BY <1>1, <2>1 DEF SchedulerApply, RowApplied, Dated, SharedTypeOK, StateType
  <1> QED BY <1>1 DEF SchedulerTick, SchedulerNoBatch, SchedulerIdle, SchedulerRowMissing,
                      Dated, SharedTypeOK, StateType, sharedVars

LEMMA StepLifeIInv ==
  ASSUME LifeIInv, [LifeNext]_lifeVars
  PROVE  LifeIInv'
  <1>1. LifeTypeOK' /\ ClockBehind'
    BY LifeTypeStep
  <1>2. IdleWhenOff'
    <2>1. IdleWhenOff
      BY DEF LifeIInv
    <2>2. CASE UNCHANGED lifeVars
      BY <2>1, <2>2 DEF IdleWhenOff, lifeVars, commandVars
    <2> QED BY <2>1, <2>2
            DEF IdleWhenOff, LifeNext, Command, Scheduler, Round, DayPasses, Sync, PowerFails,
                PowerReturns, Reboot, commandVars
  <1>3. PlanReady' /\ BatchKept' /\ SafeKept' /\ RowKept'
    <2>1. CASE Command
      BY <2>1, CommandKeeps, WriteKeeps DEF Command
    <2>2. CASE Scheduler
      <3>1. UNCHANGED planVars
        BY <2>2 DEF Scheduler, SchedulerTick, SchedulerNoBatch, SchedulerIdle,
                    SchedulerRowMissing, SchedulerApply
      <3>2. state.safeMode => state'.safeMode
        BY <2>2, SchedulerStaysSafe DEF Scheduler, LifeIInv, LifeTypeOK
      <3> QED BY <2>2, <3>1, <3>2, QuietKeeps DEF Scheduler, commandVars
    <2>3. CASE Round \/ DayPasses \/ Sync \/ UNCHANGED lifeVars
      <3>1. UNCHANGED <<planVars, storageVars, busy, acked, edit, waived, powered, state>>
        BY <2>3 DEF Round, DayPasses, Sync, lifeVars, lifeHistory, commandVars, sharedVars
      <3> QED BY <3>1, QuietKeeps
    <2>4. CASE PowerFails
      <3>1. ~powered' /\ busy' = "none" /\ batch' = EmptyBatch
             /\ UNCHANGED <<nvsBatch, planFile, acked, edit>>
        BY <2>4 DEF PowerFails, storageVars
      <3>2. /\ DaysFromPreset /\ AckedStored /\ RowStored
        BY DEF LifeIInv
      <3> QED BY <3>1, <3>2
              DEF PlanReady, BatchKept, SafeKept, RowKept, DaysFromPreset, FromPreset,
                  NothingToErase, AckedStored, SettledIsSafe, StoppedIsInactive, RowStored,
                  RowPatched
    <2>5. CASE PowerReturns \/ Reboot
      <3>1. Boot /\ powered' /\ UNCHANGED <<acked, edit>>
        BY <2>5 DEF PowerReturns, Reboot, lifeHistory
      <3> QED BY <3>1, BootKeeps
    <2>6. CASE UNCHANGED lifeVars
      BY <2>3, <2>6
    <2> QED BY <2>1, <2>2, <2>3, <2>4, <2>5, <2>6 DEF LifeNext
  <1> QED BY <1>1, <1>2, <1>3 DEF LifeIInv, BatchKept, SafeKept, RowKept

(* The inductive invariant holds for every choice of species, dates, rows,   *)
(* storage faults and restarts.                                             *)
THEOREM LifeInvariance == LifeSpec => []LifeIInv
  BY InitLifeIInv, StepLifeIInv, PTL DEF LifeSpec

(* The types of the batch's life, for every instance.                       *)
THEOREM LifeTypeCorrect == LifeSpec => []LifeTypeOK
  <1>1. LifeIInv => LifeTypeOK
    BY DEF LifeIInv
  <1> QED BY <1>1, LifeInvariance, PTL

(* No power failure, failed write or reboot loses a batch whose start was    *)
(* announced (cmdStartBatch, restoreFromStorage).                           *)
THEOREM AckedBatchIsKept == LifeSpec => []AckedBatchKept
  <1>1. LifeIInv => AckedBatchKept
    BY DEF LifeIInv, AckedStored, AckedBatchKept
  <1> QED BY <1>1, LifeInvariance, PTL

(* A patched row that was announced and did reach the file is in the plan    *)
(* the batch follows after any restart and any repair (cmdPatchPlanRow,     *)
(* restoreFromStorage, validateAndRepairPlan).                              *)
THEOREM StoredRowIsKept == LifeSpec => []StoredRowKept
  <1>1. LifeIInv => StoredRowKept
    BY DEF LifeIInv, RowStored, StoredRowKept
  <1> QED BY <1>1, LifeInvariance, PTL

(* An active batch that storage does not hold is worked in safe mode until   *)
(* the user leaves it (cmdStartBatch).                                      *)
THEOREM DivergenceIsSafe == LifeSpec => []DivergedIsSafe
  <1>1. LifeIInv => DivergedIsSafe
    BY DEF LifeIInv, SettledIsSafe, DivergedIsSafe, Idle, Unsettled
  <1> QED BY <1>1, LifeInvariance, PTL

-----------------------------------------------------------------------------
(* The refinement. *)

DurableStep == Durable!Next \/ UNCHANGED <<powered, batch, nvsBatch, acked>>

LEMMA WriteIsDurable ==
  ASSUME LifeIInv, powered, UNCHANGED powered, WriteStep
  PROVE  DurableStep
  <1> USE DEF Continue, Return, Durable!Next, Durable!Keep, Durable!Work, Durable!Erase,
          DurableStep
  <1>0. /\ NothingToErase
        /\ acked' = IF busy = "commitBatch" /\ result' = "ok" THEN batch ELSE acked
    BY DEF LifeIInv, WriteStep
  <1> PICK ok \in BOOLEAN :
        \/ ResetSavesPlan(ok) \/ ResetSavesBatch(ok) \/ StartSavesBatch(ok)
        \/ StopSavesBatch(ok) \/ PatchSavesPlan(ok)
        \/ ResetErasesNvs(ok) \/ ResetErasesPlan(ok) \/ RepairSavesPlan(ok)
    BY DEF WriteStep, CommandStep
  <1>1. CASE ResetSavesPlan(ok) \/ PatchSavesPlan(ok) \/ RepairSavesPlan(ok)
    BY <1>0, <1>1 DEF ResetSavesPlan, PatchSavesPlan, RepairSavesPlan, planVars
  <1>2. CASE ResetSavesBatch(ok)
    BY <1>0, <1>2 DEF ResetSavesBatch, BatchSave, planVars
  <1>3. CASE StartSavesBatch(ok)
    BY <1>0, <1>3 DEF StartSavesBatch, BatchSave, planVars
  <1>4. CASE StopSavesBatch(ok)
    BY <1>0, <1>4 DEF StopSavesBatch, BatchSave, planVars
  <1>5. CASE ResetErasesNvs(ok)
    BY <1>0, <1>5 DEF ResetErasesNvs, NothingToErase, NoBatch, planVars
  <1>6. CASE ResetErasesPlan(ok)
    BY <1>0, <1>6 DEF ResetErasesPlan, NothingToErase, NoBatch
  <1> QED BY <1>1, <1>2, <1>3, <1>4, <1>5, <1>6

LEMMA StepIsDurable ==
  ASSUME LifeIInv, [LifeNext]_lifeVars
  PROVE  DurableStep
  <1>1. CASE Command
    <2>1. ASSUME NEW s \in Species, NEW e \in StartDates, NewBatch(s, e) PROVE Durable!Work
      BY <1>1, <2>1 DEF Command, NewBatch, StartBatch, storageVars, NoBatch, Durable!Work
    <2>2. ASSUME EndBatch PROVE Durable!Work
      BY <1>1, <2>2 DEF Command, EndBatch, StopBatch, storageVars, NoBatch, Durable!Work
    <2>3. ASSUME NEW d \in EditDays, NEW r \in EditRows, EditRow(d, r) PROVE DurableStep
      BY <1>1, <2>3 DEF Command, EditRow, PatchPlanRow, storageVars, DurableStep
    <2>4. ASSUME EraseAll PROVE Durable!Work
      BY <1>1, <2>4 DEF Command, EraseAll, FactoryReset, storageVars, NoBatch, Durable!Work
    <2>5. ASSUME LeaveSafeMode PROVE DurableStep
      BY <1>1, <2>5 DEF Command, LeaveSafeMode, storageVars, planVars, DurableStep
    <2> QED BY <1>1, <2>1, <2>2, <2>3, <2>4, <2>5, WriteIsDurable
            DEF Command, DurableStep, Durable!Next
  <1>2. CASE Scheduler
    BY <1>2 DEF Scheduler, SchedulerTick, SchedulerNoBatch, SchedulerIdle,
                SchedulerRowMissing, SchedulerApply, planVars, storageVars, DurableStep
  <1>3. CASE Round \/ DayPasses \/ Sync \/ UNCHANGED lifeVars
    BY <1>3 DEF Round, DayPasses, Sync, lifeVars, lifeHistory, planVars, storageVars,
                DurableStep
  <1>4. CASE PowerFails
    BY <1>4 DEF PowerFails, storageVars, DurableStep, Durable!Next, Durable!Fail
  <1>5. CASE PowerReturns \/ Reboot
    <2>1. batch' = nvsBatch
      BY <1>5, BootFindsBatch DEF PowerReturns, Reboot, LifeIInv, LifeTypeOK, CommandTypeOK
    <2> QED BY <1>5, <2>1 DEF PowerReturns, Reboot, Boot, storageVars, lifeHistory,
                              DurableStep, Durable!Next, Durable!Recover
  <1>6. CASE UNCHANGED lifeVars
    BY <1>3, <1>6
  <1> QED BY <1>1, <1>2, <1>3, <1>4, <1>5, <1>6 DEF LifeNext

(* The firmware's handling of its batch implements a value kept in flash:    *)
(* each of its steps is a step of DurableValue or changes none of its state. *)
THEOREM BatchRefinesDurable == LifeSpec => BatchIsDurable
  <1>1. LifeInit => Durable!Init
    BY DEF LifeInit, Durable!Init, NoBatch
  <1>2. LifeIInv /\ [LifeNext]_lifeVars => [Durable!Next]_(Durable!durableVars)
    BY StepIsDurable DEF DurableStep, Durable!durableVars
  <1> QED BY <1>1, <1>2, LifeInvariance, PTL DEF LifeSpec, BatchIsDurable, Durable!Spec

(* So the batch keeps the abstract promise: one the user was told is stored  *)
(* is in storage, and the device works with it (cmdStartBatch).             *)
THEOREM ToldIsAlwaysKept == LifeSpec => []Durable!ToldIsKept
  <1>1. Durable!Init => Durable!ToldIsKept
    BY DEF Durable!Init, Durable!ToldIsKept
  <1>2. Durable!ToldIsKept /\ [Durable!Next]_(Durable!durableVars) => (Durable!ToldIsKept)'
    BY DEF Durable!ToldIsKept, Durable!Next, Durable!Work, Durable!Keep, Durable!Erase,
           Durable!Fail, Durable!Recover, Durable!durableVars
  <1>3. BatchIsDurable => []Durable!ToldIsKept
    BY <1>1, <1>2, PTL DEF BatchIsDurable, Durable!Spec
  <1> QED BY <1>3, BatchRefinesDurable, PTL

-----------------------------------------------------------------------------
(* The plan has a row for every day, unless storage is torn. *)

Starting == {"savePlan", "saveBatch", "commitBatch"}
RowsWhileStarting == busy \in Starting => Len(plan) = batch.totalDays
StoredWhileCommitting == busy = "commitBatch" => nvsBatch = batch
RowsWhileRepairing == busy = "repairPlan" => batch = nvsBatch /\ Len(plan) = batch.totalDays
RowsInMemory == ~torn /\ powered /\ batch.active => Len(plan) = batch.totalDays
RowsInStorage ==
  ~torn /\ nvsBatch.active /\ PlanIsValid(planFile) => Len(planFile) = nvsBatch.totalDays

RowsIInv ==
  /\ RowsWhileStarting /\ StoredWhileCommitting /\ RowsWhileRepairing
  /\ RowsInMemory /\ RowsInStorage

LEMMA CommandKeepsRows ==
  ASSUME LifeIInv, RowsIInv, powered, UNCHANGED powered,
         \/ \E s \in Species, e \in StartDates : NewBatch(s, e)
         \/ EndBatch
         \/ \E d \in EditDays, r \in EditRows : EditRow(d, r)
         \/ EraseAll
         \/ LeaveSafeMode
  PROVE  RowsIInv'
  <1> USE DEF Idle, Continue, Return, RowsIInv, RowsWhileStarting, StoredWhileCommitting,
          RowsWhileRepairing, RowsInMemory, RowsInStorage, Starting
  <1>0. LifeTypeOK /\ Idle
    BY DEF LifeIInv, NewBatch, StartBatch, EndBatch, StopBatch, EditRow, PatchPlanRow,
           EraseAll, FactoryReset, LeaveSafeMode
  <1>1. ASSUME NEW s \in Species, NEW e \in StartDates, NewBatch(s, e)
        PROVE  RowsIInv'
    <2>1. Len(plan') = batch'.totalDays
      BY <1>1, GeneratedType DEF NewBatch, StartBatch, WithPresetDays
    <2> QED BY <1>1, <2>1 DEF NewBatch, StartBatch, storageVars
  <1>2. ASSUME EndBatch PROVE RowsIInv'
    <2>1. ~batch'.active
      BY <1>0, <1>2 DEF EndBatch, StopBatch, LifeTypeOK, PlanTypeOK, BatchType
    <2> QED BY <1>2, <2>1 DEF EndBatch, StopBatch, storageVars
  <1>3. ASSUME NEW d \in EditDays, NEW r \in EditRows, EditRow(d, r)
        PROVE  RowsIInv'
    <2>1. Len(plan') = Len(plan) /\ UNCHANGED <<batch, nvsBatch, planFile, torn>>
           /\ busy' \in {"none", "patchRow"}
      BY <1>0, <1>3
         DEF EditRow, PatchPlanRow, LifeTypeOK, PlanTypeOK, storageVars
    <2> QED BY <2>1
  <1>4. ASSUME EraseAll PROVE RowsIInv'
    BY <1>4 DEF EraseAll, FactoryReset, storageVars, planVars
  <1>5. ASSUME LeaveSafeMode PROVE RowsIInv'
    BY <1>5 DEF LeaveSafeMode, storageVars, planVars, commandVars
  <1> QED BY <1>1, <1>2, <1>3, <1>4, <1>5

LEMMA WriteKeepsRows ==
  ASSUME LifeIInv, RowsIInv, powered, UNCHANGED powered, WriteStep
  PROVE  RowsIInv'
  <1> USE DEF Continue, Return, RowsIInv, RowsWhileStarting, StoredWhileCommitting,
          RowsWhileRepairing, RowsInMemory, RowsInStorage, Starting
  <1> DEFINE tearing == planFile' # planFile /\ planFile' = plan /\ nvsBatch # batch
  <1>0. torn' = CASE busy = "saveBatch" /\ nvsBatch' = batch -> ForeignPlan
                  [] tearing -> TRUE
                  [] OTHER -> torn
    BY DEF WriteStep
  <1>1. ~PlanIsValid(<<>>) /\ ~EmptyBatch.active
    BY DEF PlanIsValid, EmptyBatch
  <1> PICK ok \in BOOLEAN :
        \/ ResetSavesPlan(ok) \/ ResetSavesBatch(ok) \/ StartSavesBatch(ok)
        \/ StopSavesBatch(ok) \/ PatchSavesPlan(ok)
        \/ ResetErasesNvs(ok) \/ ResetErasesPlan(ok) \/ RepairSavesPlan(ok)
    BY DEF WriteStep, CommandStep
  <1>2. CASE ResetSavesPlan(ok)
    <2>1. UNCHANGED <<batch, plan, nvsBatch>> /\ busy = "savePlan"
           /\ busy' \in {"saveBatch", "none"}
           /\ planFile' \in {planFile, plan, <<>>} /\ (~torn' => ~tearing /\ ~torn)
      BY <1>0, <1>2 DEF ResetSavesPlan, PlanSave, Damaged, planVars
    <2> QED BY <1>1, <2>1
  <1>3. CASE ResetSavesBatch(ok)
    <2>1. UNCHANGED <<batch, plan, planFile>> /\ busy = "saveBatch"
           /\ busy' \in {"commitBatch", "none"} /\ nvsBatch' \in {nvsBatch, batch}
           /\ (nvsBatch' # batch => torn' = torn)
           /\ (busy' = "commitBatch" => nvsBatch' = batch)
      BY <1>0, <1>3 DEF ResetSavesBatch, BatchSave, planVars
    <2>2. ASSUME nvsBatch' = batch, ~torn' PROVE planFile' \in {plan, <<>>}
      BY <1>0, <2>1, <2>2 DEF ForeignPlan
    <2> QED BY <1>1, <2>1, <2>2
  <1>4. CASE StartSavesBatch(ok)
    <2>1. UNCHANGED <<batch, plan, planFile, torn>> /\ busy = "commitBatch"
           /\ busy' = "none" /\ nvsBatch' \in {nvsBatch, batch}
      BY <1>0, <1>4 DEF StartSavesBatch, BatchSave, planVars
    <2> QED BY <2>1
  <1>5. CASE StopSavesBatch(ok)
    <2>1. UNCHANGED <<batch, plan, planFile, torn>> /\ ~batch.active
           /\ busy' = "none" /\ nvsBatch' \in {nvsBatch, batch}
      BY <1>0, <1>5 DEF StopSavesBatch, BatchSave, planVars, LifeIInv, StoppedIsInactive
    <2> QED BY <2>1
  <1>6. CASE PatchSavesPlan(ok) \/ RepairSavesPlan(ok)
    <2>1. UNCHANGED <<batch, plan, nvsBatch>> /\ busy \in {"patchRow", "repairPlan"}
           /\ busy' = "none" /\ planFile' \in {planFile, plan, <<>>}
           /\ (~torn' => ~tearing /\ ~torn)
      BY <1>0, <1>6 DEF PatchSavesPlan, RepairSavesPlan, PlanSave, Damaged, planVars
    <2> QED BY <1>1, <2>1
  <1>7. CASE ResetErasesNvs(ok)
    <2>1. UNCHANGED <<batch, plan, planFile, torn>> /\ nvsBatch' \in {nvsBatch, EmptyBatch}
           /\ busy' = "erasePlan"
      BY <1>0, <1>7 DEF ResetErasesNvs, planVars
    <2> QED BY <1>1, <2>1
  <1>8. CASE ResetErasesPlan(ok)
    <2>1. UNCHANGED nvsBatch /\ batch' = EmptyBatch /\ planFile' \in {planFile, <<>>}
           /\ busy = "erasePlan" /\ busy' = "none" /\ (~torn' => ~tearing /\ ~torn)
      BY <1>0, <1>8 DEF ResetErasesPlan
    <2> QED BY <1>1, <2>1
  <1> QED BY <1>2, <1>3, <1>4, <1>5, <1>6, <1>7, <1>8

LEMMA BootKeepsRows ==
  ASSUME LifeIInv, RowsIInv, Boot, powered', UNCHANGED torn
  PROVE  RowsIInv'
  <1>0. CommandTypeOK /\ DaysFromPreset
    BY DEF LifeIInv, LifeTypeOK, CommandTypeOK
  <1>1. UNCHANGED <<nvsBatch, planFile>> /\ batch' = nvsBatch
         /\ busy' \in {"none", "repairPlan"}
         /\ (batch'.active /\ PlanIsValid(planFile) => plan' = planFile /\ busy' = "none")
    BY <1>0, BootFindsBatch DEF Boot, storageVars
  <1>2. ASSUME busy' = "repairPlan" \/ (batch'.active /\ ~PlanIsValid(planFile))
        PROVE  Len(plan') = batch'.totalDays
    <2>1. batch' = WithPresetDays(Restored) /\ plan' = Generated(Restored.species)
      BY <1>1, <1>2, EmptyBatchType
         DEF Boot, PlanUsable, Continue, Return, Restored, WithPresetDays, EmptyBatch,
             BatchType, CommandTypeOK, AppTypeOK
    <2>2. Restored \in BatchType
      BY <1>0, EmptyBatchType DEF Restored, CommandTypeOK, AppTypeOK
    <2>3. batch'.totalDays = Preset[Restored.species].days /\ Restored.species \in Species
      BY <2>1, <2>2 DEF WithPresetDays, BatchType
    <2> QED BY <2>1, <2>3, GeneratedType
  <1> QED BY <1>1, <1>2 DEF RowsIInv, RowsWhileStarting, StoredWhileCommitting,
          RowsWhileRepairing, RowsInMemory, RowsInStorage, Starting

LEMMA StepRowsIInv ==
  ASSUME LifeIInv, RowsIInv, [LifeNext]_lifeVars
  PROVE  RowsIInv'
  <1>1. CASE Command
    BY <1>1, CommandKeepsRows, WriteKeepsRows DEF Command
  <1>2. CASE Scheduler \/ Round \/ DayPasses \/ Sync \/ UNCHANGED lifeVars
    <2>1. UNCHANGED <<planVars, storageVars, busy, torn, powered>>
      BY <1>2 DEF Scheduler, SchedulerTick, SchedulerNoBatch, SchedulerIdle,
                  SchedulerRowMissing, SchedulerApply, Round, DayPasses, Sync, lifeVars,
                  lifeHistory, commandVars
    <2> QED BY <2>1 DEF planVars, storageVars, RowsIInv, RowsWhileStarting,
            StoredWhileCommitting, RowsWhileRepairing, RowsInMemory, RowsInStorage
  <1>3. CASE PowerFails
    BY <1>3 DEF PowerFails, storageVars, RowsIInv, RowsWhileStarting, StoredWhileCommitting,
                RowsWhileRepairing, RowsInMemory, RowsInStorage, Starting
  <1>4. CASE PowerReturns \/ Reboot
    BY <1>4, BootKeepsRows DEF PowerReturns, Reboot, lifeHistory
  <1>5. CASE UNCHANGED lifeVars
    BY <1>2, <1>5
  <1> QED BY <1>1, <1>2, <1>3, <1>4, <1>5 DEF LifeNext

\* DayResolver never goes past the last day of the batch.
LEMMA ResolveInBatch ==
  ASSUME NEW s \in Epochs, NEW e \in Epochs, NEW t \in Days, t # 0
  PROVE  Resolve(s, e, t) # 0 /\ Resolve(s, e, t) <= t
  <1>1. s \in Nat /\ e \in Nat /\ t \in Nat /\ 1 <= t
    BY PlanAssumption, DataAssumption DEF Days
  <1>2. CASE e <= s
    BY <1>1, <1>2 DEF Resolve
  <1>3. CASE ~(e <= s)
    <2> DEFINE q == (e - s) \div DaySecs
    <2>1. q \in Nat
      BY <1>1, <1>3, DivNat
    <2>2. Resolve(s, e, t) = IF q + 1 > t THEN t ELSE q + 1
      BY <1>1, <1>3 DEF Resolve
    <2> HIDE DEF q
    <2> QED BY <1>1, <2>1, <2>2
  <1> QED BY <1>2, <1>3

LEMMA EveryDayHasItsRow ==
  ASSUME LifeIInv, RowsIInv, Scheduler, SchedulerRowMissing
  PROVE  torn
  <1>1. SUFFICES ASSUME ~torn PROVE FALSE
    OBVIOUS
  <1>2. batch.active /\ powered /\ ~HasRow(plan, Today) /\ batch \in BatchType
         /\ epoch \in Epochs
    BY DEF Scheduler, SchedulerRowMissing, LifeIInv, LifeTypeOK, PlanTypeOK, SchedulerTypeOK
  <1>3. Len(plan) = batch.totalDays
    BY <1>1, <1>2 DEF RowsIInv, RowsInMemory
  <1>4. batch.totalDays # 0
    <2>1. batch = WithPresetDays(batch)
      BY <1>2 DEF LifeIInv, DaysFromPreset, FromPreset, EmptyBatch
    <2>2. batch.totalDays = Preset[batch.species].days /\ batch.species \in Species
      BY <1>2, <2>1 DEF WithPresetDays, BatchType
    <2> QED BY <2>2, GeneratedType, PlanAssumption, DataAssumption
  <1> QED BY <1>2, <1>3, <1>4, ResolveInBatch DEF Today, HasRow, BatchType

(* The scheduler falls into safe mode for want of a row only when storage    *)
(* holds a plan that was written for another batch (cmdResetPlan,           *)
(* DayResolver, IncubationScheduler).                                       *)
THEOREM RowsNeverMissing == LifeSpec => RowMissingNeedsTear
  <1>1. LifeInit => RowsIInv
    BY DEF LifeInit, EmptyBatch, RowsIInv, RowsWhileStarting, StoredWhileCommitting,
           RowsWhileRepairing, RowsInMemory, RowsInStorage, Starting
  <1>2. LifeIInv /\ RowsIInv /\ [LifeNext]_lifeVars => RowsIInv'
    BY StepRowsIInv
  <1>3. LifeIInv /\ RowsIInv /\ [LifeNext]_lifeVars
          => [Scheduler /\ SchedulerRowMissing => torn]_lifeVars
    BY EveryDayHasItsRow
  <1> QED BY <1>1, <1>2, <1>3, LifeInvariance, PTL DEF LifeSpec, RowMissingNeedsTear
=============================================================================
