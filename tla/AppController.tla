---------------------------- MODULE AppController ----------------------------
(***************************************************************************)
(* app/AppController.cpp: the commands that change the batch and the plan   *)
(* and what they leave in storage, NvsStorage (the batch blob) and          *)
(* PlanStorage (the plan file).  A command that writes is cut at its        *)
(* writes, so that the power can fail between any two of them; "busy" is    *)
(* the write the command in progress makes next.  Nothing but a power       *)
(* failure happens while a command is busy: the main task runs it.          *)
(*                                                                         *)
(* An empty planFile is a file that is missing or does not parse, an        *)
(* EmptyBatch in nvsBatch a blob that is missing: both fail to load.        *)
(* Op_Xyz is Op as a plausible bug would have it.                           *)
(***************************************************************************)
EXTENDS OutputCommands, PlanTable

CONSTANTS
  StorageFails,   \* a write can fail (LittleFS or NVS)
  StartDates,     \* the start dates a user enters
  EditRows,       \* the rows a user saves
  EditDays        \* and the days they are saved under

VARIABLES
  nvsBatch,   \* the blob under kKeyBatch
  planFile,   \* the rows in kPlanPath
  busy,       \* what the command in progress writes next
  result      \* what the last command returned

storageVars == <<nvsBatch, planFile>>
commandVars == <<busy, result>>

Writes == {"none", "savePlan", "saveBatch", "commitBatch", "stopBatch",
           "patchRow", "eraseNvs", "erasePlan", "repairPlan"}

ASSUME StorageAssumption == StorageFails \in BOOLEAN
ASSUME InputAssumption ==
  StartDates \subseteq Epochs /\ EditRows \subseteq Row /\ EditDays \subseteq Days \ {0}

AppTypeOK ==
  /\ nvsBatch \in BatchType
  /\ planFile \in Seq(Row)
  /\ busy \in Writes
  /\ result \in {"none", "ok", "failed"}

Idle == busy = "none"
Continue(next) == busy' = next /\ result' = "none"
Return(r)      == busy' = "none" /\ result' = r
EnterSafeMode_Forgotten == UNCHANGED state
EnterSafeMode  == state' = [state EXCEPT !.safeMode = TRUE]

\* What a write that goes wrong leaves of the file: the old one, or one that
\* does not parse.
Damaged == {planFile, <<>>}
\* PlanStorage::save.  Only a write of no bytes at all is noticed; a short one
\* is not, and the file is committed in close(), whose result is dropped: a
\* save may return true and leave what a failed one leaves.
PlanSave(ok) ==
  /\ ok \/ StorageFails
  /\ planFile' \in (IF ok THEN {plan} ELSE {}) \cup (IF StorageFails THEN Damaged ELSE {})

BatchSave_Unchecked(ok) ==
  /\ ok \/ StorageFails
  /\ nvsBatch' \in {nvsBatch, batch}
\* NvsStorage::saveBlob.  It also fails if only the commit does.
BatchSave(ok) ==
  /\ ok \/ StorageFails
  /\ nvsBatch' \in IF ok THEN {batch} ELSE {nvsBatch, batch}

\* applyBatchToState.
BatchApplied(s, b) ==
  [s EXCEPT !.batchActive = b.active, !.currentDay = 1, !.totalDays = b.totalDays,
            !.lockdownActive = FALSE]

-----------------------------------------------------------------------------
(* cmdStartBatch, with the cmdResetPlan it calls. *)

StartBatch(s, start) ==
  /\ Idle
  /\ batch' = WithPresetDays([species |-> s, totalDays |-> 0, lockdownStartDay |-> 0,
                              active |-> TRUE, startEpoch |-> start])
  /\ plan' = Generated(s)
  /\ Continue("savePlan")
  /\ UNCHANGED <<storageVars, sharedVars>>

ResetSavesPlan(ok) ==
  /\ busy = "savePlan"
  /\ PlanSave(ok)
  /\ IF ok THEN Continue("saveBatch") /\ UNCHANGED state
           ELSE Return("failed") /\ EnterSafeMode
  /\ UNCHANGED <<nvsBatch, planVars, now, settings, gpio>>

ResetSavesBatch(ok) ==
  /\ busy = "saveBatch"
  /\ BatchSave(ok)
  /\ IF ok THEN /\ Continue("commitBatch")
                /\ state' = [BatchApplied(state, batch) EXCEPT
                               !.target = plan[1].target,
                               !.turningEnabled = plan[1].turning]
           ELSE Return("failed") /\ EnterSafeMode
  /\ UNCHANGED <<planFile, planVars, now, settings, gpio>>

StartSavesBatch(ok) ==
  /\ busy = "commitBatch"
  /\ BatchSave(ok)
  /\ IF ok THEN Return("ok") /\ UNCHANGED state
           ELSE Return("failed") /\ EnterSafeMode
  /\ UNCHANGED <<planFile, planVars, now, settings, gpio>>

\* cmdStopBatch: the result of the save is not looked at.
StopBatch ==
  /\ Idle
  /\ batch' = [batch EXCEPT !.active = FALSE]
  /\ Continue("stopBatch")
  /\ UNCHANGED <<storageVars, plan, sharedVars>>

StopSavesBatch(ok) ==
  /\ busy = "stopBatch"
  /\ BatchSave(ok)
  /\ Return("ok")
  /\ UNCHANGED <<planFile, planVars, sharedVars>>

\* cmdPatchPlanRow: the row in memory is replaced whatever the save returns.
PatchPlanRow(day, row) ==
  /\ Idle
  /\ IF HasRow(plan, day)
       THEN plan' = [plan EXCEPT ![day] = row] /\ Continue("patchRow")
       ELSE UNCHANGED plan /\ Return("failed")
  /\ UNCHANGED <<storageVars, batch, sharedVars>>

PatchSavesPlan(ok) ==
  /\ busy = "patchRow"
  /\ PlanSave(ok)
  /\ Return(IF ok THEN "ok" ELSE "failed")
  /\ UNCHANGED <<nvsBatch, planVars, sharedVars>>

\* cmdFactoryReset: neither erase is checked, and the outputs are not touched.
FactoryReset ==
  /\ Idle
  /\ Continue("eraseNvs")
  /\ UNCHANGED <<storageVars, planVars, sharedVars>>

ResetErasesNvs(ok) ==
  /\ busy = "eraseNvs"
  /\ ok \/ StorageFails
  /\ nvsBatch' = IF ok THEN EmptyBatch ELSE nvsBatch
  /\ Continue("erasePlan")
  /\ UNCHANGED <<planFile, planVars, sharedVars>>

ResetErasesPlan(ok) ==
  /\ busy = "erasePlan"
  /\ ok \/ StorageFails
  /\ planFile' = IF ok THEN <<>> ELSE planFile
  /\ batch' = EmptyBatch /\ plan' = <<>>
  /\ settings' \in SettingsVals
  /\ state' = Zero
  /\ Return("ok")
  /\ UNCHANGED <<nvsBatch, now, gpio>>

-----------------------------------------------------------------------------
(* restoreFromStorage and validateAndRepairPlan, as setup() calls them on    *)
(* memory that was just initialised.                                         *)

Restored == IF BatchIsValid(nvsBatch) THEN nvsBatch ELSE EmptyBatch

PlanUsable == PlanIsValid(planFile)

Boot ==
  /\ state' = IF BatchIsValid(nvsBatch) THEN BatchApplied(Zero, nvsBatch) ELSE Zero
  /\ gpio' = AllLow
  /\ settings' \in SettingsVals
  /\ IF Restored.active /\ ~PlanUsable
       THEN /\ batch' = WithPresetDays(Restored)
            /\ plan' = Generated(Restored.species)
            /\ Continue("repairPlan")
       ELSE /\ batch' = Restored
            /\ plan' = IF Restored.active THEN planFile ELSE <<>>
            /\ Return("none")
  /\ UNCHANGED storageVars

RepairSavesPlan(ok) ==
  /\ busy = "repairPlan"
  /\ PlanSave(ok)
  /\ Return("none")
  /\ UNCHANGED <<nvsBatch, planVars, sharedVars>>

CommandStep ==
  \E ok \in BOOLEAN :
    \/ ResetSavesPlan(ok) \/ ResetSavesBatch(ok) \/ StartSavesBatch(ok)
    \/ StopSavesBatch(ok) \/ PatchSavesPlan(ok)
    \/ ResetErasesNvs(ok) \/ ResetErasesPlan(ok) \/ RepairSavesPlan(ok)
=============================================================================
