--------------------------- MODULE BatchLifecycle ---------------------------
(***************************************************************************)
(* The life of a batch across restarts: AppController's commands and their  *)
(* storage, IncubationScheduler, the wall clock and power failures.  The    *)
(* wall clock starts in 1970 after a power failure, survives a reboot       *)
(* (esp_restart, the watchdog), and is set when SNTP answers.               *)
(***************************************************************************)
EXTENDS AppController, IncubationScheduler

CONSTANTS
  FirstDay,     \* the true date when the device is first switched on
  LastDay,      \* bound: the true date the instance ends at
  SyncWorks     \* the device reaches a time server

VARIABLES
  powered,    \* the firmware runs
  trueEpoch,  \* what the wall clock ought to show
  acked,      \* history: the batch the last successful StartBatch announced
  edit,       \* history: the row last patched, and whether it is known to be kept
  torn,       \* history: storage holds a batch and a plan not written for it
  waived,     \* history: safe mode was left while memory and storage differed
  locked      \* history: the scheduler has put this batch into lockdown

lifeHistory == <<acked, edit, torn, waived, locked>>
lifeVars == <<sharedVars, planVars, storageVars, commandVars, schedulerVars,
              powered, trueEpoch, lifeHistory>>

NoBatch == EmptyBatch
NoEdit == [day |-> 1, row |-> CHOOSE r \in EditRows : TRUE, kept |-> FALSE]

ASSUME LifeAssumption ==
  /\ EditRows # {}
  /\ FirstDay \in Nat /\ LastDay \in Nat /\ FirstDay <= LastDay
  /\ 0 .. LastDay \subseteq Epochs /\ SyncWorks \in BOOLEAN

LifeTypeOK ==
  /\ SharedTypeOK /\ PlanTypeOK /\ SchedulerTypeOK /\ AppTypeOK
  /\ powered \in BOOLEAN
  /\ trueEpoch \in FirstDay .. LastDay
  /\ acked \in BatchType
  /\ edit \in [day : Days, row : Row, kept : BOOLEAN]
  /\ torn \in BOOLEAN /\ waived \in BOOLEAN /\ locked \in BOOLEAN

\* A factory-fresh device: storage is empty and the first boot is over.
LifeInit ==
  /\ now = 0 /\ state = Zero /\ settings \in SettingsVals /\ gpio = AllLow
  /\ batch = EmptyBatch /\ plan = <<>>
  /\ nvsBatch = EmptyBatch /\ planFile = <<>>
  /\ busy = "none" /\ result = "none"
  /\ SchedulerInit /\ epoch = 0
  /\ powered = TRUE /\ trueEpoch = FirstDay
  /\ acked = NoBatch /\ edit = NoEdit
  /\ torn = FALSE /\ waived = FALSE /\ locked = FALSE

-----------------------------------------------------------------------------
NewBatch(s, start) ==
  /\ StartBatch(s, start)
  /\ acked' = NoBatch /\ edit' = NoEdit /\ locked' = FALSE
  /\ UNCHANGED <<torn, waived>>

\* Only the cloud issues StopBatch.
EndBatch ==
  /\ batch.active /\ StopBatch
  /\ acked' = NoBatch /\ edit' = NoEdit
  /\ UNCHANGED <<torn, waived, locked>>

EditRow(day, row) ==
  /\ PatchPlanRow(day, row)
  /\ edit' = IF HasRow(plan, day) THEN [day |-> day, row |-> row, kept |-> FALSE] ELSE edit
  /\ UNCHANGED <<acked, torn, waived, locked>>

EraseAll ==
  /\ FactoryReset
  /\ acked' = NoBatch /\ edit' = NoEdit /\ locked' = FALSE
  /\ UNCHANGED <<torn, waived>>

\* ClearSafeMode, and HeaterOn and EnterManualMode, which clear it too.
LeaveSafeMode ==
  /\ Idle /\ state.safeMode
  /\ ClearSafeMode
  /\ waived' = (batch # nvsBatch)
  /\ UNCHANGED <<planVars, storageVars, commandVars, acked, edit, torn, locked>>

\* The plan file when the new batch reaches storage: it may be another batch's.
ForeignPlan == planFile \notin {plan, <<>>}

WriteStep ==
  /\ CommandStep
  /\ acked' = IF busy = "commitBatch" /\ result' = "ok" THEN batch ELSE acked
  /\ edit' = CASE busy = "patchRow" /\ planFile' # plan -> NoEdit
               [] busy = "patchRow" /\ planFile' = plan -> [edit EXCEPT !.kept = (result' = "ok")]
               [] OTHER -> edit
  /\ torn' = CASE busy = "saveBatch" /\ nvsBatch' = batch -> ForeignPlan
               [] planFile' # planFile /\ planFile' = plan /\ nvsBatch # batch -> TRUE
               [] OTHER -> torn
  /\ waived' = (waived /\ nvsBatch' # batch')
  /\ UNCHANGED locked

Command ==
  /\ powered
  /\ \/ \E s \in Species, e \in StartDates : NewBatch(s, e)
     \/ EndBatch
     \/ \E d \in EditDays, r \in EditRows : EditRow(d, r)
     \/ EraseAll
     \/ LeaveSafeMode
     \/ WriteStep
  /\ UNCHANGED <<schedulerVars, powered, trueEpoch>>

Scheduler ==
  /\ powered /\ Idle
  /\ SchedulerTick
  /\ locked' = (locked \/ (batch.active /\ SchedulerDue /\ state'.lockdownActive))
  /\ UNCHANGED <<storageVars, commandVars, powered, trueEpoch, acked, edit, torn, waived>>

\* The caller has used what its command returned.
Round ==
  /\ powered /\ Idle
  /\ now' = (now + 1) % Wrap
  /\ result' = "none"
  /\ UNCHANGED <<state, settings, gpio, planVars, storageVars, busy,
                 schedulerVars, powered, trueEpoch, lifeHistory>>

DayPasses ==
  /\ trueEpoch < LastDay
  /\ trueEpoch' = trueEpoch + 1
  /\ epoch' = IF powered THEN epoch + 1 ELSE epoch
  /\ UNCHANGED <<sharedVars, planVars, storageVars, commandVars, schedulerLastMs,
                 powered, lifeHistory>>

Sync ==
  /\ SyncWorks /\ powered
  /\ epoch' = trueEpoch
  /\ UNCHANGED <<sharedVars, planVars, storageVars, commandVars, schedulerLastMs,
                 powered, trueEpoch, lifeHistory>>

\* Memory, the outputs and both clocks are lost.
PowerFails ==
  /\ powered /\ powered' = FALSE
  /\ state' = Zero /\ gpio' = AllLow /\ now' = 0
  /\ batch' = EmptyBatch /\ plan' = <<>>
  /\ busy' = "none" /\ result' = "none"
  /\ schedulerLastMs' = 0 /\ epoch' = 0
  /\ waived' = FALSE
  /\ UNCHANGED <<settings, storageVars, trueEpoch, acked, edit, torn, locked>>

PowerReturns ==
  /\ ~powered /\ powered' = TRUE
  /\ Boot
  /\ UNCHANGED <<now, schedulerVars, trueEpoch, lifeHistory>>

\* esp_restart and the watchdog keep the wall clock.
Reboot ==
  /\ powered /\ Idle
  /\ Boot
  /\ now' = 0 /\ schedulerLastMs' = 0
  /\ waived' = FALSE
  /\ UNCHANGED <<epoch, powered, trueEpoch, acked, edit, torn, locked>>

-----------------------------------------------------------------------------
(* Properties *)

(* A batch whose start was announced is the batch the firmware works with   *)
(* until a command ends it, whatever restarts happen (cmdStartBatch,        *)
(* restoreFromStorage).                                                     *)
AckedBatchKept == powered /\ acked # NoBatch => batch = acked

(* The last patched row, if its save was announced and did reach the file,   *)
(* stays in the plan of the active batch through any restart and any repair  *)
(* (cmdPatchPlanRow, restoreFromStorage, validateAndRepairPlan).  The        *)
(* announcement alone promises nothing: PlanSave.                           *)
StoredRowKept ==
  powered /\ batch.active /\ edit.kept => plan[edit.day] = edit.row

(* When memory holds an active batch that storage does not, the device is   *)
(* in safe mode until the user leaves it: a failed cmdStartBatch leaves its *)
(* batch behind, and a restart would bring back another one.                *)
DivergedIsSafe ==
  powered /\ Idle /\ batch.active /\ batch # nvsBatch => state.safeMode \/ waived

(* The scheduler finds a row for every day of the batch, unless storage     *)
(* holds a plan written for another batch: a StartBatch that got no further *)
(* than its plan, a row patched after one that failed, or a StartBatch that *)
(* stored its batch but, unnoticed, not its plan (cmdResetPlan).            *)
RowMissingNeedsTear == [][Scheduler /\ SchedulerRowMissing => torn]_lifeVars

(* prompt-01-1.md, 284-285: the plan table is the single truth and all      *)
(* logic follows it, so a batch has the days its table has.                 *)
TableIsTheTruth ==
  powered /\ Idle /\ batch.active /\ ~state.safeMode => Len(plan) = batch.totalDays

(* prompt-01-1.md, 291: without WiFi the device works from the last date    *)
(* and time it saved, so a batch in lockdown is in lockdown after a restart.*)
LockdownSurvives ==
  [][Scheduler /\ batch.active /\ SchedulerDue /\ locked => state'.lockdownActive]_lifeVars

LifeNext == Command \/ Scheduler \/ Round \/ DayPasses \/ Sync \/ PowerFails \/ PowerReturns \/ Reboot
LifeSpec == LifeInit /\ [][LifeNext]_lifeVars

Durable == INSTANCE DurableValue WITH
  Blank <- EmptyBatch, on <- powered, live <- batch, kept <- nvsBatch, told <- acked

(* The batch is a value kept in flash: saveBlob only ever stores the batch   *)
(* in memory, cmdStartBatch reports success only of a batch that is stored,  *)
(* a factory reset withdraws the report before it erases, and a restart      *)
(* finds the stored batch, with the days its preset gave it.                 *)
BatchIsDurable == Durable!Spec
=============================================================================
