----------------------------- MODULE TurningLoop -----------------------------
(***************************************************************************)
(* TurningModule under the real-time behaviour of the main loop.  As in     *)
(* ClimateLoop, each round the clock advances, other components may act on  *)
(* what the module reads or switches, and TurningModule::tick runs; history *)
(* variables measure the time that passes.  The module reads the plan       *)
(* itself, so that the row of the day can change under a running interval.  *)
(***************************************************************************)
EXTENDS TurningModule, OutputCommands

CONSTANTS
  Plans,    \* the plans that commands, edits and restarts leave in memory
  LoopMs,   \* how far the clock can move between two rounds
  Cap       \* the history variables saturate here

VARIABLES
  turn,       \* "others" or "turning": who acts next in the round
  runMs,      \* how long the turner has been on outside manual mode
  sinceTurn,  \* time since the module last started the turner
  stillMs,    \* how long turning has been allowed without a start
  longest     \* the longest interval that was in force meanwhile

historyVars == <<runMs, sinceTurn, stillMs, longest>>
loopVars == <<sharedVars, planVars, turningVars, turn, historyVars>>

ASSUME LoopMsAssumption == LoopMs \subseteq Nat \ {0} /\ Cap \in Nat

Saturate(n) == IF n > Cap THEN Cap ELSE n
MaxLoopMs == CHOOSE d \in LoopMs : \A e \in LoopMs : e <= d
MaxGap == TurningPeriod + MaxLoopMs - 1

\* What is timed is shorter than millis() takes to wrap; AppSettings::isValid
\* refuses a duration of 0.
ASSUME RoundsAssumption ==
  /\ \E d \in LoopMs : \A e \in LoopMs : e <= d
  /\ \A s \in SettingsVals :
       /\ s.turningDurationMs > 0
       /\ s.turningDurationMs + TurningPeriod + MaxLoopMs <= Wrap
  /\ Plans \subseteq Seq(Row) /\ <<>> \in Plans
  /\ \A p \in Plans : \A d \in DOMAIN p :
       p[d].intervalMs <= Cap /\ p[d].intervalMs + TurningPeriod + MaxLoopMs <= Wrap

\* The module does not read the batch.
TurningLoopInit ==
  /\ now = 0 /\ state = Zero /\ settings \in SettingsVals /\ gpio = AllLow
  /\ batch = EmptyBatch /\ plan \in Plans
  /\ TurningInit
  /\ turn = "others"
  /\ runMs = 0 /\ sinceTurn = Cap /\ stillMs = 0 /\ longest = 0

-----------------------------------------------------------------------------
(* What the other components do to the variables TurningModule reads. *)

\* The scheduler moves on to a day, whose row allows turning or not; a batch
\* starts, with a plan of its own, or stops; a row is edited; a missing row or
\* a write that failed sets safeMode, which the user can clear.
Schedule ==
  /\ \/ \E day \in Days : state' = [state EXCEPT !.currentDay = day] /\ UNCHANGED plan
     \/ \E lockdown, turning \in BOOLEAN :
          /\ state' = [state EXCEPT !.lockdownActive = lockdown, !.turningEnabled = turning]
          /\ UNCHANGED plan
     \/ \E active \in BOOLEAN : state' = [state EXCEPT !.batchActive = active] /\ UNCHANGED plan
     \/ \E safe \in BOOLEAN : state' = [state EXCEPT !.safeMode = safe] /\ UNCHANGED plan
     \/ plan' \in Plans /\ UNCHANGED state
  /\ UNCHANGED <<settings, gpio>>

\* cmdFactoryReset: lastTurningMs goes back to 0, the turner is left alone.
\* No command sets turningDurationMin, so its default is what it was.
Forget ==
  /\ ~state.manualMode
  /\ state' = Zero /\ plan' = <<>>
  /\ UNCHANGED <<settings, gpio>>

UserCommand ==
  /\ \/ ~state.manualMode /\ EnterManualMode
     \/ state.manualMode /\ ExitManualMode
     \/ state.manualMode /\ (SwitchManualOn("turner") \/ SwitchManualOff("turner"))
  /\ UNCHANGED plan

TurningAllowed ==
  /\ ~state.manualMode /\ ~state.safeMode
  /\ state.batchActive /\ ~state.lockdownActive /\ state.turningEnabled

\* What the plan asks for on the current day; nothing, if it has no such row.
RowInterval ==
  IF state.currentDay \in DOMAIN plan THEN plan[state.currentDay].intervalMs ELSE 0
LongerOf(m, n) == IF m < n THEN n ELSE m

Advance(d) ==
  /\ turn = "others" /\ turn' = "turning"
  /\ now' = (now + d) % Wrap
  /\ runMs' = IF gpio["turner"] /\ ~state.manualMode THEN Saturate(runMs + d) ELSE 0
  /\ sinceTurn' = Saturate(sinceTurn + d)
  /\ stillMs' = IF TurningAllowed THEN Saturate(stillMs + d) ELSE 0
  /\ UNCHANGED <<state, settings, gpio, planVars, turningVars, longest>>

Others ==
  /\ Schedule \/ UserCommand \/ Forget
  /\ sinceTurn' = IF state'.lastTurningMs # state.lastTurningMs THEN Cap ELSE sinceTurn
  /\ stillMs' = IF TurningAllowed' THEN stillMs ELSE 0
  /\ longest' = IF TurningAllowed' THEN LongerOf(longest, RowInterval') ELSE 0
  /\ UNCHANGED <<turn, now, batch, turningVars, runMs>>

Starts == ~isTurning /\ isTurning'

Turning ==
  /\ turn = "turning" /\ turn' = "others"
  /\ TurningTick
  /\ runMs' = IF gpio'["turner"] /\ ~state.manualMode THEN runMs ELSE 0
  /\ sinceTurn' = IF Starts THEN 0 ELSE sinceTurn
  /\ stillMs' = IF TurningAllowed /\ ~Starts THEN stillMs ELSE 0
  /\ longest' = IF Starts THEN RowInterval ELSE longest
  /\ UNCHANGED planVars

\* rebootClick, the watchdog, or the power: lastTurningMs is not stored.
Restart ==
  /\ now' = 0 /\ settings' \in SettingsVals /\ gpio' = AllLow
  /\ \E active \in BOOLEAN : state' = [Zero EXCEPT !.batchActive = active]
  /\ plan' \in Plans
  /\ turningLastMs' = 0 /\ turningOnMs' = 0 /\ isTurning' = FALSE
  /\ turn' = "others"
  /\ runMs' = 0 /\ sinceTurn' = Cap /\ stillMs' = 0
  /\ longest' = IF TurningAllowed' THEN RowInterval' ELSE 0
  /\ UNCHANGED batch

-----------------------------------------------------------------------------
(* Properties *)

(* The turner never runs by itself for longer than turningDurationMin and   *)
(* one tick, whatever manual mode and the scheduler do in between (the      *)
(* m_turningOnMs branch of tick; manual mode leaves isTurning standing).    *)
TurnBounded == runMs < settings.turningDurationMs + MaxGap

(* Between two starts of the turner lies at least the interval of the row    *)
(* in force at the second, whatever row was in force when it began           *)
(* (lastTurningMs), unless a factory reset or a restart zeroed the stamp.   *)
StartsSpaced ==
  [][Turning /\ Starts => sinceTurn >= RowInterval]_loopVars

(* Eggs do not lie still: while turning is allowed without interruption the *)
(* turner starts within the longest interval that was in force meanwhile    *)
(* (the day and its row may change), a left-over duration (isTurning kept   *)
(* across manual mode) and four gaps between ticks: one until the module    *)
(* looks, one until the left-over turning has ended, one may fall where the *)
(* age of lastTurningMs wraps, and one is the lateness of the start.        *)
EggsTurned ==
  stillMs < longest + settings.turningDurationMs + 4 * MaxGap

TurningLoopNext == (\E d \in LoopMs : Advance(d)) \/ Others \/ Turning \/ Restart
TurningLoopSpec == TurningLoopInit /\ [][TurningLoopNext]_loopVars
=============================================================================
