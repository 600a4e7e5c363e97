------------------------- MODULE IncubationScheduler -------------------------
(***************************************************************************)
(* modules/IncubationScheduler.cpp: every ten seconds the day of the batch  *)
(* is worked out from the wall clock and its row is applied to the state.   *)
(* Dated_Recovered is Dated as a plausible bug would have it.               *)
(***************************************************************************)
EXTENDS PlanTable

CONSTANT SchedulerPeriod   \* kTickIntervalMs, 10000

VARIABLES
  schedulerLastMs,   \* m_lastMs
  epoch              \* time(nullptr)

schedulerVars == <<schedulerLastMs, epoch>>

ASSUME SchedulerAssumption == SchedulerPeriod \in Nat \ {0}

SchedulerTypeOK == schedulerLastMs \in Times /\ epoch \in Epochs

SchedulerInit == schedulerLastMs = 0

SchedulerDue == Since(schedulerLastMs) >= SchedulerPeriod

Today == Resolve(batch.startEpoch, epoch, batch.totalDays)
LockdownOn(day) == day >= batch.lockdownStartDay

Dated_Recovered ==
  [state EXCEPT !.currentDay = Today, !.totalDays = batch.totalDays,
                !.batchActive = TRUE, !.lockdownActive = LockdownOn(Today),
                !.safeMode = FALSE]
\* What tick() assigns before it looks for the row.
Dated ==
  [state EXCEPT !.currentDay = Today, !.totalDays = batch.totalDays,
                !.batchActive = TRUE, !.lockdownActive = LockdownOn(Today)]

\* applyRow.  It switches the turner's mirror off with turning, not the turner.
RowApplied(s, row) ==
  [s EXCEPT !.target = row.target,
            !.turningEnabled = row.turning /\ ~s.lockdownActive,
            !.on["turner"] = row.turning /\ ~s.lockdownActive /\ @]

-----------------------------------------------------------------------------
(* tick(nowMs), one disjunct per way through it. *)

SchedulerNoBatch ==
  /\ ~batch.active
  /\ state' = [state EXCEPT !.batchActive = FALSE]
  /\ UNCHANGED <<schedulerVars, planVars, now, settings, gpio>>

SchedulerIdle ==
  /\ batch.active /\ ~SchedulerDue
  /\ UNCHANGED <<schedulerVars, planVars, sharedVars>>

\* The gate is left open: the next round tries again.
SchedulerRowMissing ==
  /\ batch.active /\ SchedulerDue /\ ~HasRow(plan, Today)
  /\ state' = [Dated EXCEPT !.safeMode = TRUE]
  /\ UNCHANGED <<schedulerVars, planVars, now, settings, gpio>>

SchedulerApply ==
  /\ batch.active /\ SchedulerDue /\ HasRow(plan, Today)
  /\ schedulerLastMs' = now
  /\ state' = RowApplied(Dated, plan[Today])
  /\ UNCHANGED <<epoch, planVars, now, settings, gpio>>

SchedulerTick ==
  SchedulerNoBatch \/ SchedulerIdle \/ SchedulerRowMissing \/ SchedulerApply
=============================================================================
