----------------------------- MODULE WifiSettings -----------------------------
(***************************************************************************)
(* The network the device knows: ProvisioningManager in its two tasks, the  *)
(* commands and settings of AppController and UiController that bear on it, *)
(* the phone, the access points, and power failures.                        *)
(*                                                                         *)
(* A WiFi event is handled in the round in which it is posted, whose steps  *)
(* it falls between: its task has a higher priority than the main task.     *)
(***************************************************************************)
EXTENDS ProvisioningManager

CONSTANTS
  LoopMs,       \* how far the clock can move between two rounds
  UptimeLags,   \* how old RuntimeState::uptimeMs can be
  Cap           \* the history variables saturate here

VARIABLES
  phone,      \* external: "ready" to send credentials in the next session or in
              \* this, "sent", "failed" until the manager has been reset, or "done"
  heard,      \* history: time since the session last heard of the phone
  promised,   \* history: and the window it was given then
  shown,      \* history: time since the session found its network
  user,       \* history: the user "gave" the credentials last, "dropped" them
              \* since, or "reset" the device
  unsaved     \* history: the last write failed, or fell into a factory reset

wifiHistory == <<heard, promised, shown, user, unsaved>>
wifiVars == <<now, provVars, phone, wifiHistory>>

ASSUME WifiAssumption ==
  /\ LoopMs \subseteq Nat \ {0} /\ UptimeLags \subseteq Nat
  /\ Cap \in Nat

Saturate(n) == IF n > Cap THEN Cap ELSE n
MaxLoopMs == CHOOSE d \in LoopMs : \A e \in LoopMs : e <= d

\* A handler is done before the next round samples millis(), and a window is
\* over before the age of its beginning wraps, where the last measurement, which
\* begins the menu's, is not as old as that itself; Cap does not cut windows off.
ASSUME WindowsAssumption ==
  /\ \E d \in LoopMs : \A e \in LoopMs : e <= d
  /\ Lags # {} /\ \A lag \in Lags, d \in LoopMs : lag <= d
  /\ \A w \in {BootWindow, MenuWindow, SaveWindow} : w <= Cap /\ w + MaxLoopMs <= Wrap
  /\ \A lag \in UptimeLags : lag + MaxLoopMs < Wrap
  /\ FinishMs <= Cap /\ \A lag \in Lags : lag + FinishMs < Wrap

\* A factory-fresh device that was not yet switched on.
WifiInit ==
  /\ bluedroid \in BOOLEAN
  /\ now = 0 /\ prov = Fresh
  /\ ssid = NoNetwork /\ ssidStored = NoNetwork
  /\ pc = [main |-> "off", event |-> "idle"]
  /\ events = <<>>
  /\ link = NoNetwork /\ creds = NoNetwork /\ joining = FALSE /\ stack = FALSE
  /\ phone = "ready"
  /\ heard = 0 /\ promised = 0 /\ shown = 0
  /\ user = "gave" /\ unsaved = FALSE

-----------------------------------------------------------------------------
(* The main task: loop(), and the commands the user interface issues. *)

Round(d) ==
  /\ MainAt("slept") /\ MainGoes("tick")
  /\ EventAt("idle") /\ events = <<>>
  /\ now' = (now + d) % Wrap
  /\ heard' = IF prov.active THEN Saturate(heard + d) ELSE 0
  /\ shown' = IF prov.finishAtMs > 0 THEN Saturate(shown + d) ELSE 0
  /\ UNCHANGED <<bluedroid, sessionVars, networkVars, events, driverVars, phone,
                 promised, user, unsaved>>

WriteEnds ==
  \/ MainAt("save") /\ ~MainAt("save")'
  \/ pc.event \in {"save", "failSave"} /\ pc'.event # pc.event

\* The phone was heard, or the window of a session that waits for an address
\* begins anew.
Renewed ==
  \/ events' # events /\ Head(events) \in {"recv", "success", "fail"}
  \/ MainAt("tick") /\ ~MainAt("tick")' /\ ~Connected
       /\ prov.active /\ prov.state = "Saving" /\ WindowOver

\* What tick, or a handler, means for the histories and the phone.
Remembered ==
  /\ heard' = IF Renewed \/ ~prov'.active THEN 0 ELSE heard
  /\ promised' = IF ~prov'.active THEN 0 ELSE IF Renewed THEN SaveWindow ELSE promised
  /\ shown' = IF prov.finishAtMs = 0 /\ prov'.finishAtMs # 0 THEN 0 ELSE shown
  /\ unsaved' = IF WriteEnds THEN ssidStored' # ssid' /\ (unsaved \/ SaveFails) ELSE unsaved
  /\ phone' = IF ~stack' \/ (phone = "failed" /\ EventAt("failSave") /\ creds' = NoNetwork)
               THEN "ready" ELSE phone
  /\ UNCHANGED <<now, user>>

TickStep == (Tick \/ MarkConnected("main", "finish")) /\ Remembered
EventStep == EventTask /\ Remembered

UiIdles ==
  /\ MainAt("ui") /\ MainGoes("slept")
  /\ UNCHANGED <<now, bluedroid, sessionVars, networkVars, events, driverVars, phone,
                 wifiHistory>>

\* A long press, which is all handleInput looks at during a session.
UiCancels ==
  /\ MainAt("ui") /\ MainGoes("slept")
  /\ Cancel
  /\ phone' = "ready" /\ heard' = 0 /\ promised' = 0
  /\ UNCHANGED <<now, bluedroid, networkVars, shown, user, unsaved>>

UiStartsSession(lag) ==
  /\ MainAt("ui") /\ ~prov.active /\ MainGoes("slept")
  /\ RequestMenuProvisioning((now - lag) % Wrap)
  /\ phone' = "ready" /\ user' = "dropped"
  /\ heard' = 0 /\ promised' = IF prov'.active /\ lag < MenuWindow THEN MenuWindow - lag ELSE 0
  /\ UNCHANGED <<now, bluedroid, networkVars, shown, unsaved>>

\* cmdClearWifiInfo: the driver's credentials, the settings, and their copy.
UiClearsWifi ==
  /\ MainAt("ui") /\ ~prov.active /\ MainGoes("clearSave")
  /\ creds' = NoNetwork
  /\ ssid' = NoNetwork /\ user' = "dropped"
  /\ UNCHANGED <<now, bluedroid, sessionVars, ssidStored, events, link, joining, phone,
                 heard, promised, shown, unsaved>>

ClearSaved_NotSaved ==
  /\ MainAt("clearSave") /\ MainGoes("slept")
  /\ UNCHANGED <<now, bluedroid, sessionVars, networkVars, events, driverVars, phone,
                 wifiHistory>>
ClearSaved ==
  /\ MainAt("clearSave") /\ MainGoes("slept")
  /\ SaveSettings
  /\ unsaved' = (SaveFails /\ ssidStored' # ssid')
  /\ UNCHANGED <<now, bluedroid, sessionVars, events, driverVars, phone,
                 heard, promised, shown, user>>

\* cmdFactoryReset: the erase is not checked, and the driver is not told.
UiResets ==
  /\ MainAt("ui") /\ ~prov.active /\ MainGoes("resetRam")
  /\ ssidStored' \in IF SaveFails THEN {NoNetwork, ssidStored} ELSE {NoNetwork}
  /\ UNCHANGED <<now, bluedroid, sessionVars, ssid, events, driverVars, phone,
                 wifiHistory>>

ResetDefaults ==
  /\ MainAt("resetRam") /\ MainGoes("slept")
  /\ ssid' = NoNetwork
  /\ user' = IF user = "gave" THEN "reset" ELSE user
  /\ unsaved' = (ssidStored # NoNetwork)
  /\ UNCHANGED <<now, bluedroid, sessionVars, ssidStored, events, driverVars, phone,
                 heard, promised, shown>>

\* The power fails at any moment; a reboot, from the menu or by the watchdog,
\* does the same.
PowerFails ==
  /\ pc.main # "off"
  /\ pc' = [main |-> "off", event |-> "idle"]
  /\ now' = 0 /\ prov' = Fresh /\ stack' = FALSE
  /\ ssid' = NoNetwork /\ events' = <<>>
  /\ link' = NoNetwork /\ joining' = FALSE
  /\ phone' = "ready" /\ heard' = 0 /\ promised' = 0 /\ shown' = 0
  /\ UNCHANGED <<bluedroid, ssidStored, creds, user, unsaved>>

\* setup(): restoreFromStorage, init and startBootProvisioning.
PowerReturns ==
  /\ MainAt("off") /\ MainGoes("slept")
  /\ ssid' = ssidStored
  /\ InitProvisioning
  /\ phone' = "ready" /\ heard' = 0 /\ promised' = IF prov'.active THEN BootWindow ELSE 0
  /\ UNCHANGED <<now, bluedroid, ssidStored, shown, user, unsaved>>

MainTask ==
  \/ \E d \in LoopMs : Round(d)
  \/ TickStep \/ UiIdles \/ UiCancels \/ UiClearsWifi \/ ClearSaved \/ UiResets \/ ResetDefaults
  \/ \E lag \in UptimeLags : UiStartsSession(lag)
  \/ PowerReturns

-----------------------------------------------------------------------------
(* The phone and the access points. *)

\* The phone and the network take longer than what is left of a handler and
\* of markConnected; a link may break at any moment.
Unhurried ==
  /\ EventAt("idle") /\ events = <<>> /\ ~Connected
  /\ pc.main \in {"tick", "ui", "slept"}

PhoneSends(n) ==
  /\ Unhurried /\ stack /\ phone = "ready"
  /\ phone' = "sent" /\ creds' = n /\ joining' = TRUE
  /\ Post(<<"recv">>)
  /\ user' = "gave"
  /\ UNCHANGED link

\* The address and the acceptance are told in either order.
PhoneAccepted ==
  /\ Unhurried /\ stack /\ phone = "sent"
  /\ phone' = "done" /\ link' = creds
  /\ Post(<<"gotIp", "success">>) \/ Post(<<"success", "gotIp">>)
  /\ UNCHANGED <<creds, joining, user>>

PhoneRefused ==
  /\ Unhurried /\ stack /\ phone = "sent"
  /\ phone' = "failed" /\ joining' = FALSE
  /\ Post(<<"fail">>)
  /\ UNCHANGED <<link, creds, user>>

LinkUp ==
  /\ Unhurried /\ joining /\ creds # NoNetwork /\ ~(stack /\ phone = "sent")
  /\ link' = creds
  /\ Post(<<"gotIp">>)
  /\ UNCHANGED <<phone, creds, joining, user>>

LinkDown ==
  /\ Connected /\ link' = NoNetwork
  /\ Post(<<"disconnected">>)
  /\ UNCHANGED <<phone, creds, joining, user>>

Outside ==
  /\ pc.main # "off"
  /\ (\E n \in Networks : PhoneSends(n)) \/ PhoneAccepted \/ PhoneRefused \/ LinkUp \/ LinkDown
  /\ UNCHANGED <<now, bluedroid, sessionVars, networkVars, pc, heard, promised, shown,
                 unsaved>>

-----------------------------------------------------------------------------
(* Properties *)

WifiTypeOK ==
  /\ now \in Times /\ ProvTypeOK
  /\ phone \in {"ready", "sent", "failed", "done"}
  /\ {heard, promised, shown} \subseteq Nat
  /\ user \in {"gave", "dropped", "reset"} /\ unsaved \in BOOLEAN

Writing ==
  \/ pc.main \in {"copy", "save", "clearSave", "resetRam"}
  \/ pc.event \in {"copy", "save", "failSave"}

(* Whichever of the two tasks changes the network last, and however their   *)
(* writes mix, the blob holds what the settings hold when both are done,    *)
(* unless a write failed or one fell into a factory reset (markConnected,   *)
(* handleEvent, cmdClearWifiInfo).                                          *)
SettingsReachStorage == pc.main # "off" /\ ~Writing => ssidStored = ssid \/ unsaved

(* The BLE stack is up exactly while a session is: every way out of one     *)
(* stops it, and none is entered without it (start, stopProvisioning).      *)
SessionHasStack == prov.active = stack

(* A device whose settings name a network has credentials for one, at every *)
(* step of the two tasks, unless the user dropped them by a session from    *)
(* the menu or by clearing the WiFi data: it would neither connect nor      *)
(* offer a session at its next start.                                       *)
StrandedOnlyByHand ==
  Configured => creds # NoNetwork \/ user = "dropped" \/ unsaved

(* A session is given up only when its window is over, which begins anew    *)
(* with everything that is heard of the phone, or in the round in which it  *)
(* was heard: the event's time is then ahead of that round's (tick).        *)
WindowNotCut ==
  [][Tick /\ prov'.state = "TimedOut" /\ prov.active => heard >= promised \/ heard = 0]_wifiVars

(* When the network is found the phone has fifteen seconds to ask for the   *)
(* result before its session ends, unless the end wraps: it is then less    *)
(* than the time the network was found (markConnected, tick).               *)
SuccessIsShown ==
  [][TickFinishes /\ FinishDue =>
       shown >= FinishMs \/ prov.finishAtMs < (now - shown) % Wrap]_wifiVars

(* A session of which nothing is heard ends with its window, unless it has  *)
(* found its network or waits for an address, which may never come (tick).  *)
SessionEndsInTime ==
  [][MainAt("tick") /\ Tick /\ ~Connected /\ prov.active /\ prov'.active =>
       prov.state \in {"Saving", "Succeeded"} \/ \E lag \in Lags : heard < promised + lag]_wifiVars

(* prompt-01-1.md, 267: a factory reset deletes all settings, the WiFi      *)
(* information and the plan.                                                *)
FactoryForgetsWifi ==
  user = "reset" /\ ~Writing => ssid = NoNetwork /\ ssidStored = NoNetwork

WifiNext == MainTask \/ EventStep \/ PowerFails \/ Outside
WifiSpec == WifiInit /\ [][WifiNext]_wifiVars
=============================================================================
