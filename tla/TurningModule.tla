---------------------------- MODULE TurningModule ----------------------------
(***************************************************************************)
(* modules/TurningModule.cpp: the egg turner runs for turningDurationMin    *)
(* every turningIntervalMin of the current day's row.  Op_Xyz is Op as a    *)
(* plausible bug would have it.                                             *)
(***************************************************************************)
EXTENDS PlanTable

CONSTANT TurningPeriod   \* kTickIntervalMs, 1000

VARIABLES
  turningLastMs,   \* m_lastMs
  turningOnMs,     \* m_turningOnMs
  isTurning        \* m_isTurning

turningVars == <<turningLastMs, turningOnMs, isTurning>>

ASSUME TurningAssumption == TurningPeriod \in Nat \ {0}

TurningTypeOK ==
  /\ turningLastMs \in Times
  /\ turningOnMs \in Times
  /\ isTurning \in BOOLEAN

TurningInit == turningLastMs = 0 /\ turningOnMs = 0 /\ isTurning = FALSE

TurningDue == Since(turningLastMs) >= TurningPeriod

TurningForbidden ==
  \/ ~state.batchActive \/ state.lockdownActive
  \/ ~state.turningEnabled \/ state.safeMode

IntervalMs_NextDay ==
  IF HasRow(plan, state.currentDay + 1) THEN plan[state.currentDay + 1].intervalMs ELSE 0
\* No row, no interval: the turner is due at every tick.
IntervalMs ==
  IF HasRow(plan, state.currentDay) THEN plan[state.currentDay].intervalMs ELSE 0

TurningIntervalOver_Overflows == now >= (state.lastTurningMs + IntervalMs) % Wrap
TurningIntervalOver == Since(state.lastTurningMs) >= IntervalMs
TurningDurationOver_SinceTick == Since(turningLastMs) >= settings.turningDurationMs
TurningDurationOver_PinOnly ==
  gpio["turner"] /\ Since(turningOnMs) >= settings.turningDurationMs
TurningDurationOver == Since(turningOnMs) >= settings.turningDurationMs

-----------------------------------------------------------------------------
(* tick(nowMs), one disjunct per way through it. *)

TurningIdle ==
  /\ ~TurningDue
  /\ UNCHANGED <<turningVars, sharedVars>>

\* isTurning keeps its value: whoever enters manual mode switches the pin off.
TurningPaused ==
  /\ TurningDue /\ state.manualMode
  /\ turningLastMs' = now
  /\ UNCHANGED <<turningOnMs, isTurning, sharedVars>>

TurningRuns == TurningDue /\ ~state.manualMode /\ turningLastMs' = now

TurnerOff_FlagsOnly ==
  /\ isTurning' = FALSE
  /\ state' = [state EXCEPT !.on["turner"] = FALSE]
  /\ UNCHANGED <<turningOnMs, now, settings, gpio>>
TurnerOff ==
  /\ gpio' = [gpio EXCEPT !["turner"] = FALSE]
  /\ isTurning' = FALSE
  /\ state' = [state EXCEPT !.on["turner"] = FALSE]
  /\ UNCHANGED <<turningOnMs, now, settings>>

TurningStop == TurningRuns /\ TurningForbidden /\ TurnerOff

TurningStart ==
  /\ TurningRuns /\ ~TurningForbidden
  /\ ~isTurning /\ TurningIntervalOver
  /\ gpio' = [gpio EXCEPT !["turner"] = Energised("turner", TRUE)]
  /\ isTurning' = TRUE
  /\ turningOnMs' = now
  /\ state' = [state EXCEPT !.on["turner"] = TRUE, !.lastTurningMs = now]
  /\ UNCHANGED <<now, settings>>

TurningWait ==
  /\ TurningRuns /\ ~TurningForbidden
  /\ IF isTurning THEN ~TurningDurationOver ELSE ~TurningIntervalOver
  /\ UNCHANGED <<turningOnMs, isTurning, sharedVars>>

TurningEnd ==
  TurningRuns /\ ~TurningForbidden /\ isTurning /\ TurningDurationOver /\ TurnerOff

TurningTick ==
  TurningIdle \/ TurningPaused \/ TurningStop \/ TurningStart \/ TurningWait \/ TurningEnd
=============================================================================
