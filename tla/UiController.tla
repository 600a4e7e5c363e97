----------------------------- MODULE UiController -----------------------------
(***************************************************************************)
(* ui/UiController.cpp: the screens, the commands each of them issues and   *)
(* the copy of the state the manual switches are toggled by.  One event of  *)
(* the encoder is handled per round.  Cursors and edit fields are the       *)
(* user's choice, so that turning the knob changes nothing here.  This      *)
(* build has no Bluetooth: provisioning is never active.                    *)
(*                                                                         *)
(* A command that writes to storage takes several steps (AppController);    *)
(* the screen follows when it has returned.  LongPress_NoExit is LongPress  *)
(* as a plausible bug would have it.                                        *)
(***************************************************************************)
EXTENDS AppController

VARIABLES
  screen,   \* m_model.screen
  asked,    \* m_model.presetConfirm
  uiOn      \* m_model.heaterOn, humidifierOn, turnerOn, fanOn

uiVars == <<screen, asked, uiOn>>

Screens == {"Main", "Menu", "StartDate", "Preset", "PlanList", "PlanEdit",
            "Manual", "WifiReset", "RebootConfirm", "FactoryReset"}

UiTypeOK ==
  /\ screen \in Screens
  /\ asked \in BOOLEAN
  /\ uiOn \in [Shown -> BOOLEAN]

Go(s) == screen' = s /\ UNCHANGED asked
NoCommand == UNCHANGED <<sharedVars, planVars, storageVars, commandVars>>
OutputsOnly == UNCHANGED <<planVars, storageVars, commandVars>>

\* syncFromState, every kSyncIntervalMs: in some rounds and not in others.
Refresh == uiOn' \in {uiOn, state.on}

-----------------------------------------------------------------------------
(* handleInput *)

\* No input, the knob, a click that only moves a cursor or toggles editing.
Stay == Go(screen) /\ NoCommand

\* enterMenuItem; item 5 asks for provisioning and goes home.
OpenItem ==
  /\ screen = "Menu"
  /\ \/ \E s \in {"StartDate", "PlanList", "WifiReset", "RebootConfirm",
                  "FactoryReset", "Main"} : Go(s) /\ NoCommand
     \/ screen' = "Preset" /\ asked' = FALSE /\ NoCommand
     \/ Go("Manual") /\ EnterManualMode /\ OutputsOnly

ClickStartDate ==
  /\ screen = "StartDate"
  /\ \/ Go("Menu") /\ NoCommand
     \/ \E e \in StartDates : Go(screen) /\ StartBatch(Chicken, e)

ClickPreset ==
  /\ screen = "Preset"
  /\ \/ ~asked /\ asked' = TRUE /\ UNCHANGED screen /\ NoCommand
     \/ asked /\ Go("Menu") /\ NoCommand
     \/ asked /\ \E s \in Species, e \in StartDates : Go(screen) /\ StartBatch(s, e)

ClickPlan ==
  \/ screen = "PlanList" /\ Go("PlanEdit") /\ NoCommand
  \/ /\ screen = "PlanEdit"
     /\ \/ Go("PlanList") /\ NoCommand
        \/ \E d \in EditDays, r \in EditRows : Go(screen) /\ PatchPlanRow(d, r)

\* page2Click toggles by the model's copy, refreshed or not; the fan's command
\* is refused.
ClickManual ==
  /\ screen = "Manual" /\ Go(screen) /\ OutputsOnly
  /\ \/ \E o \in Loops \cup {"turner"} :
          IF uiOn'[o] THEN SwitchManualOff(o) ELSE SwitchManualOn(o)
     \/ UnhandledCommand

\* wifiResetClick and rebootClick; the restart itself is Incubator's.
ClickConfirm ==
  screen \in {"WifiReset", "RebootConfirm"} /\ Go("Menu") /\ NoCommand

\* factoryTick when the button has been down for ten seconds.
HoldFactoryReset ==
  screen = "FactoryReset" /\ Go(screen) /\ FactoryReset

LongPress_NoExit ==
  \/ screen = "Menu" /\ Go("Main") /\ NoCommand
  \/ screen = "PlanEdit" /\ Go("PlanList") /\ NoCommand
  \/ screen \notin {"Menu", "PlanEdit"} /\ Go("Menu") /\ NoCommand
LongPress ==
  \/ screen = "Manual" /\ Go("Menu") /\ ExitManualMode /\ OutputsOnly
  \/ screen = "Menu" /\ Go("Main") /\ NoCommand
  \/ screen = "PlanEdit" /\ Go("PlanList") /\ NoCommand
  \/ screen \notin {"Manual", "Menu", "PlanEdit"} /\ Go("Menu") /\ NoCommand

HandleInput ==
  \/ Stay \/ OpenItem \/ ClickStartDate \/ ClickPreset \/ ClickPlan
  \/ ClickManual \/ ClickConfirm \/ HoldFactoryReset \/ LongPress

\* What the handler that issued the command does when it has returned.
AfterCommand ==
  CASE screen = "StartDate" -> IF result = "ok" THEN "Menu" ELSE "StartDate"
    [] screen = "PlanEdit" -> "PlanList"
    [] screen = "FactoryReset" -> "Main"
    [] OTHER -> "Menu"

UiReturns ==
  /\ Idle /\ result # "none"
  /\ Go(AfterCommand) /\ result' = "none"
  /\ UNCHANGED <<uiOn, sharedVars, planVars, storageVars, busy>>

UiTick == Refresh /\ HandleInput
=============================================================================
