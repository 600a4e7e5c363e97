--------------------------- MODULE OutputCommands ---------------------------
(***************************************************************************)
(* The commands of app/AppController.cpp that touch only RuntimeState and   *)
(* the outputs: manual mode, the manual relay switches and ClearSafeMode.   *)
(* The user interface issues them; nothing is stored.  Op_Xyz is Op as a    *)
(* plausible bug would have it.                                             *)
(***************************************************************************)
EXTENDS RuntimeState

ManualOutputs == Shown   \* heater, humidifier, turner, fan

\* HeaterOn, HumidOn, TurnerOn.  HeaterOn also leaves safe mode.
SwitchManualOn(o) ==
  /\ gpio' = [gpio EXCEPT ![o] = Energised(o, TRUE)]
  /\ state' = [state EXCEPT !.on[o] = TRUE,
                            !.safeMode = @ /\ o # "heater"]
  /\ UNCHANGED <<now, settings>>

\* HeaterOff, HumidOff, TurnerOff.
SwitchManualOff(o) ==
  /\ gpio' = [gpio EXCEPT ![o] = FALSE]
  /\ state' = [state EXCEPT !.on[o] = FALSE]
  /\ UNCHANGED <<now, settings>>

\* FanSetDuty and SyncNow have no case in applyCommand: they are refused.
UnhandledCommand == UNCHANGED sharedVars

ClearSafeMode ==
  /\ state' = [state EXCEPT !.safeMode = FALSE]
  /\ UNCHANGED <<now, settings, gpio>>

\* cmdEnterManualMode and cmdExitManualMode switch the same four outputs off.
ManualOutputsOff_Relays == [o \in Outputs |-> gpio[o] /\ o \notin Loops]
ManualOutputsOff == [o \in Outputs |-> gpio[o] /\ o \notin ManualOutputs]

EnterManualMode_PinsLeft ==
  /\ state' = [state EXCEPT !.manualMode = TRUE, !.safeMode = FALSE,
                            !.on = [o \in Shown |-> FALSE]]
  /\ UNCHANGED <<now, settings, gpio>>
EnterManualMode ==
  /\ gpio' = ManualOutputsOff
  /\ state' = [state EXCEPT !.manualMode = TRUE, !.safeMode = FALSE,
                            !.on = [o \in Shown |-> FALSE]]
  /\ UNCHANGED <<now, settings>>

ExitManualMode ==
  /\ gpio' = ManualOutputsOff
  /\ state' = [state EXCEPT !.manualMode = FALSE,
                            !.on = [o \in Shown |-> FALSE]]
  /\ UNCHANGED <<now, settings>>
=============================================================================
