------------------------- MODULE ProvisioningManager -------------------------
(***************************************************************************)
(* infra/ProvisioningManager.cpp: the session in which a phone gives the    *)
(* device its network over Bluetooth, and what is noted of the network in   *)
(* the settings.  tick() runs in the main task, handleEvent in the task     *)
(* that delivers the WiFi events; what they do is cut where the other task  *)
(* can see it.                                                              *)
(*                                                                         *)
(* External, and modelled from the calls the code makes: the WiFi driver,   *)
(* with credentials of its own in flash, and the BLE stack.  The password   *)
(* in the settings is never set; PROV_END and SNTP change nothing here.     *)
(* Op_Xyz is Op as a plausible bug would have it.                           *)
(***************************************************************************)
EXTENDS Clock, Sequences

CONSTANTS
  Networks,      \* the networks of the instance
  NoNetwork,     \* wifiConfigured is FALSE; no link; no credentials
  Unnamed,       \* wifiConfigured is TRUE and wifiSsid is empty
  BootWindow,    \* bootProvisionTimeoutMs, 120000
  MenuWindow,    \* menuProvisionTimeoutMs, 90000
  SaveWindow,    \* 60000 in handleEvent and tick
  FinishMs,      \* 15000 in markConnected
  ReconnectMs,   \* 10000 in tick
  Lags,          \* how far millis() can be past the time of the round
  StackFails,    \* the BLE stack can fail to start, or to be reset
  SaveFails      \* a write to NVS can fail

VARIABLES
  bluedroid,   \* CONFIG_BLUEDROID_ENABLED of the build
  prov,        \* the manager's own fields
  ssid,        \* AppSettings::wifiConfigured and wifiSsid
  ssidStored,  \* and their copy in the blob under kKeySettings
  pc,          \* where the two tasks are
  events,      \* the WiFi events that are posted and not yet handled
  link,        \* external: the network the driver is connected to
  creds,       \* external: the network the driver has credentials of
  joining,     \* external: the driver was told to connect
  stack        \* external: the BLE stack is up

driverVars == <<link, creds, joining>>
networkVars == <<ssid, ssidStored>>
sessionVars == <<prov, stack>>
provVars == <<bluedroid, sessionVars, networkVars, pc, events, driverVars>>

ASSUME ProvAssumption ==
  /\ NoNetwork \notin Networks /\ Unnamed \notin Networks /\ Unnamed # NoNetwork
  /\ {BootWindow, MenuWindow, SaveWindow, FinishMs, ReconnectMs} \subseteq Times \ {0}
  /\ Lags \subseteq Nat /\ StackFails \in BOOLEAN /\ SaveFails \in BOOLEAN

States == {"Idle", "Advertising", "Saving", "Succeeded", "TimedOut", "LocalMode", "Failed"}
MainSteps == {"off", "tick", "mark", "copy", "save", "succeed", "finish", "ui",
              "clearSave", "resetRam", "slept"}
EventSteps == {"idle", "mark", "copy", "save", "succeed", "failSave"}
Kinds == {"start", "recv", "success", "fail", "gotIp", "disconnected"}

ProvTypeOK ==
  /\ bluedroid \in BOOLEAN
  /\ prov \in [state : States, active : BOOLEAN, startedStack : BOOLEAN, startedAtMs : Times,
               timeoutMs : Times, lastConnectLogMs : Times, finishAtMs : Times]
  /\ {ssid, ssidStored} \subseteq Networks \cup {NoNetwork, Unnamed}
  /\ pc \in [main : MainSteps, event : EventSteps]
  /\ events \in Seq(Kinds)
  /\ link \in Networks \cup {NoNetwork} /\ creds \in Networks \cup {NoNetwork}
  /\ joining \in BOOLEAN /\ stack \in BOOLEAN

Fresh ==
  [state |-> "Idle", active |-> FALSE, startedStack |-> FALSE, startedAtMs |-> 0,
   timeoutMs |-> 0, lastConnectLogMs |-> 0, finishAtMs |-> 0]

Connected == link # NoNetwork
Configured == ssid # NoNetwork

\* WiFi.onEvent is called in this build only.
Post(es) == events' = IF bluedroid THEN events \o es ELSE events

\* WiFi.SSID(), whether the link is still there or not.
NameOfLink == IF Connected THEN link ELSE Unnamed

Stops(p) == bluedroid /\ p.startedStack
StopProvisioning(p) ==
  IF Stops(p) THEN [p EXCEPT !.startedStack = FALSE, !.finishAtMs = 0] ELSE p

\* How the tasks go on; UNCHANGED of what a step leaves alone is in the steps.
MainAt(step) == pc.main = step
EventAt(step) == pc.event = step
MainGoes(step) == pc' = [pc EXCEPT !.main = step]
EventGoes(step) == pc' = [pc EXCEPT !.event = step]

\* saveBlob: nobody looks at what it returns.
SaveSettings ==
  /\ ssidStored' \in IF SaveFails THEN {ssid, ssidStored} ELSE {ssid}
  /\ UNCHANGED ssid

-----------------------------------------------------------------------------
(* start, one disjunct per way through it, and its callers *)

Opened(at, window) ==
  [StopProvisioning(prov) EXCEPT
     !.active = TRUE, !.startedStack = FALSE, !.finishAtMs = 0, !.state = "Advertising",
     !.startedAtMs = at, !.timeoutMs = window]

\* The link may go down later than WiFi.disconnect returns.
Disconnects(posted) ==
  /\ joining' = FALSE /\ link' \in {link, NoNetwork}
  /\ events' = events \o posted
                 \o IF Connected /\ link' = NoNetwork THEN <<"disconnected">> ELSE <<>>

StackStillUp == stack /\ ~(prov.active /\ Stops(prov))

StartRuns(at, window) ==
  /\ bluedroid /\ ~StackStillUp
  /\ prov' = [Opened(at, window) EXCEPT !.startedStack = TRUE]
  /\ stack' = TRUE
  /\ creds' \in IF StackFails THEN {NoNetwork, creds} ELSE {NoNetwork}
  /\ Disconnects(<<"start">>)

StartFails(at, window) ==
  /\ bluedroid /\ (StackFails \/ StackStillUp)
  /\ prov' = [Opened(at, window) EXCEPT !.state = "Failed", !.active = FALSE]
  /\ stack' = StackStillUp
  /\ creds' \in {creds, NoNetwork}
  /\ Disconnects(<<>>)

StartRefused(at, window) ==
  /\ ~bluedroid
  /\ prov' = [Opened(at, window) EXCEPT !.state = "Failed", !.active = FALSE]
  /\ UNCHANGED <<stack, driverVars, events>>

Start(at, window) == StartRuns(at, window) \/ StartFails(at, window) \/ StartRefused(at, window)

\* requestMenuProvisioning, with the uptime the state shows.
RequestMenuProvisioning(uptimeMs) == Start(uptimeMs, MenuWindow)

\* init and startBootProvisioning.
InitProvisioning_Always == Start(now, BootWindow)
InitProvisioning ==
  \/ ssid' = NoNetwork /\ Start(now, BootWindow)
  \/ ssid' # NoNetwork /\ joining' = TRUE /\ UNCHANGED <<sessionVars, creds, link, events>>

Cancel ==
  /\ prov.active
  /\ prov' = [StopProvisioning(prov) EXCEPT !.active = FALSE, !.state = "LocalMode"]
  /\ stack' = (stack /\ ~Stops(prov))
  /\ UNCHANGED <<events, driverVars>>

-----------------------------------------------------------------------------
(* markConnected, in either task: the settings, their copy in storage, and   *)
(* the session.  WiFi.SSID() is asked twice, and the link may be gone.       *)

Mark ==
  \/ ssid # NameOfLink /\ ssid' = Unnamed
  \/ ssid = NameOfLink /\ UNCHANGED ssid

Copy == ssid' = NameOfLink /\ UNCHANGED ssidStored

FinishAt_FromStart(millis) == (prov.startedAtMs + FinishMs) % Wrap
FinishAt_Wide(millis) ==
  IF prov.finishAtMs = 0 THEN millis + FinishMs ELSE prov.finishAtMs
FinishAt(millis) ==
  IF prov.finishAtMs = 0 THEN (millis + FinishMs) % Wrap ELSE prov.finishAtMs

Succeed(millis) ==
  IF prov.active
    THEN /\ prov' = [prov EXCEPT !.state = "Succeeded", !.finishAtMs = FinishAt(millis)]
         /\ UNCHANGED stack
    ELSE IF prov.state = "Succeeded" THEN UNCHANGED sessionVars
    ELSE /\ prov' = [StopProvisioning(prov) EXCEPT !.state = "Succeeded"]
         /\ stack' = (stack /\ ~Stops(prov))

MarkConnected(task, last) ==
  /\ UNCHANGED <<bluedroid, events, driverVars>>
  /\ \/ /\ pc[task] = "mark" /\ Mark
        /\ pc' = [pc EXCEPT ![task] = IF ssid # NameOfLink THEN "copy" ELSE "succeed"]
        /\ UNCHANGED <<ssidStored, sessionVars>>
     \/ /\ pc[task] = "copy" /\ Copy
        /\ pc' = [pc EXCEPT ![task] = "save"]
        /\ UNCHANGED sessionVars
     \/ /\ pc[task] = "save" /\ SaveSettings
        /\ pc' = [pc EXCEPT ![task] = "succeed"]
        /\ UNCHANGED sessionVars
     \/ /\ pc[task] = "succeed"
        /\ \E lag \in Lags : Succeed((now + lag) % Wrap)
        /\ pc' = [pc EXCEPT ![task] = last]
        /\ UNCHANGED networkVars

-----------------------------------------------------------------------------
(* tick *)

TickConnected ==
  /\ MainAt("tick") /\ Connected /\ MainGoes("mark")
  /\ UNCHANGED <<sessionVars, networkVars, events, driverVars>>

\* After markConnected.
FinishDue == prov.active /\ prov.state = "Succeeded" /\ prov.finishAtMs > 0
               /\ now >= prov.finishAtMs
TickFinishes ==
  /\ MainAt("finish") /\ MainGoes("ui")
  /\ IF FinishDue THEN /\ prov' = [StopProvisioning(prov) EXCEPT !.active = FALSE]
                       /\ stack' = (stack /\ ~Stops(prov))
                  ELSE UNCHANGED sessionVars
  /\ UNCHANGED <<networkVars, events, driverVars>>

ReconnectDue == Configured /\ Since(prov.lastConnectLogMs) > ReconnectMs
TickIdles ==
  /\ MainAt("tick") /\ ~Connected /\ ~prov.active /\ MainGoes("ui")
  /\ IF ReconnectDue THEN prov' = [prov EXCEPT !.lastConnectLogMs = now] /\ joining' = TRUE
                     ELSE UNCHANGED <<prov, joining>>
  /\ UNCHANGED <<stack, networkVars, events, link, creds>>

WindowOver == prov.timeoutMs > 0 /\ Since(prov.startedAtMs) >= prov.timeoutMs
TickWaits ==
  /\ MainAt("tick") /\ ~Connected /\ prov.active /\ MainGoes("ui")
  /\ ~WindowOver
  /\ UNCHANGED <<sessionVars, networkVars, events, driverVars>>

TickExtends_Failed ==
  /\ MainAt("tick") /\ ~Connected /\ prov.active /\ MainGoes("ui")
  /\ WindowOver /\ prov.state \in {"Saving", "Failed"}
  /\ prov' = [prov EXCEPT !.startedAtMs = now, !.timeoutMs = SaveWindow]
  /\ UNCHANGED <<stack, networkVars, events, driverVars>>
TickExtends ==
  /\ MainAt("tick") /\ ~Connected /\ prov.active /\ MainGoes("ui")
  /\ WindowOver /\ prov.state = "Saving"
  /\ prov' = [prov EXCEPT !.startedAtMs = now, !.timeoutMs = SaveWindow]
  /\ UNCHANGED <<stack, networkVars, events, driverVars>>

TimedOut_StackLeft == [prov EXCEPT !.active = FALSE, !.state = "TimedOut"]
TimedOut == [StopProvisioning(prov) EXCEPT !.active = FALSE, !.state = "TimedOut"]
TickTimesOut ==
  /\ MainAt("tick") /\ ~Connected /\ prov.active /\ MainGoes("ui")
  /\ WindowOver /\ prov.state # "Saving"
  /\ prov' = TimedOut
  /\ stack' = (stack /\ ~(Stops(prov) /\ ~prov'.startedStack))
  /\ UNCHANGED <<networkVars, events, driverVars>>

Tick ==
  /\ TickConnected \/ TickFinishes \/ TickIdles \/ TickWaits \/ TickExtends \/ TickTimesOut
  /\ UNCHANGED bluedroid

-----------------------------------------------------------------------------
(* handleEvent, in the event task *)

Handled(kind) ==
  /\ EventAt("idle") /\ events # <<>> /\ Head(events) = kind /\ events' = Tail(events)
  /\ UNCHANGED bluedroid

HandleStart ==
  /\ Handled("start")
  /\ prov' = [prov EXCEPT !.active = TRUE, !.state = "Advertising"]
  /\ UNCHANGED <<stack, networkVars, pc, driverVars>>

Heard_NoWindow(state, millis) == [prov EXCEPT !.state = state, !.timeoutMs = SaveWindow]
Heard(state, millis) ==
  [prov EXCEPT !.state = state, !.startedAtMs = millis, !.timeoutMs = SaveWindow]

\* PROV_CRED_RECV and PROV_CRED_SUCCESS.
HandleCreds ==
  /\ Handled("recv") \/ Handled("success")
  /\ \E lag \in Lags : prov' = Heard("Saving", (now + lag) % Wrap)
  /\ UNCHANGED <<stack, networkVars, pc, driverVars>>

HandleFail ==
  /\ Handled("fail")
  /\ \E lag \in Lags : prov' = Heard("Failed", (now + lag) % Wrap)
  /\ ssid' = NoNetwork
  /\ EventGoes("failSave")
  /\ UNCHANGED <<stack, ssidStored, driverVars>>

\* The reset of the state machine drops the driver's credentials.
FailSaved ==
  /\ EventAt("failSave") /\ EventGoes("idle")
  /\ SaveSettings
  /\ creds' \in IF StackFails THEN {NoNetwork, creds} ELSE {NoNetwork}
  /\ UNCHANGED <<bluedroid, sessionVars, events, link, joining>>

HandleGotIp ==
  /\ Handled("gotIp") /\ EventGoes("mark")
  /\ UNCHANGED <<sessionVars, networkVars, driverVars>>

HandleDisconnected ==
  /\ Handled("disconnected")
  /\ joining' = (joining \/ (Configured /\ ~prov.active))
  /\ UNCHANGED <<sessionVars, networkVars, pc, link, creds>>

EventTask ==
  \/ HandleStart \/ HandleCreds \/ HandleFail \/ FailSaved \/ HandleGotIp
  \/ HandleDisconnected \/ MarkConnected("event", "idle")
=============================================================================
