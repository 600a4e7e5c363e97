-------------------------- MODULE WifiSettingsProofs --------------------------
(***************************************************************************)
(* Proofs about WifiSettings: its types, that the BLE stack is up exactly    *)
(* while a session is, that the settings reach the storage, that only the   *)
(* user strands the device, and when a session ends.                        *)
(***************************************************************************)
EXTENDS WifiSettings, ClockProofs, SequenceTheorems

-----------------------------------------------------------------------------
(* The inductive invariant. *)

ManagerType ==
  [state : States, active : BOOLEAN, startedStack : BOOLEAN, startedAtMs : Times,
   timeoutMs : Times, lastConnectLogMs : Times, finishAtMs : Times]

\* What the manager knows of the stack is what the stack is.
StackIsStarted == prov.startedStack = stack /\ (stack => bluedroid)

Pending(kind) == \E i \in 1 .. Len(events) : events[i] = kind

\* The event of a session that starts is handled before anything can end it.
StartPending == Pending("start")
StartIsAwaited == StartPending => MainAt("slept") /\ prov.active

WifiIInv ==
  WifiTypeOK /\ SessionHasStack /\ StackIsStarted /\ StartIsAwaited /\ SettingsReachStorage

\* The invariant in the parts that different steps disturb.
SessionOK ==
  prov \in ManagerType /\ stack \in BOOLEAN /\ SessionHasStack /\ StackIsStarted
NetworkOK ==
  /\ {ssid, ssidStored} \subseteq Networks \cup {NoNetwork, Unnamed}
  /\ link \in Networks \cup {NoNetwork} /\ creds \in Networks \cup {NoNetwork}
  /\ joining \in BOOLEAN
PcOK == pc \in [main : MainSteps, event : EventSteps]
EventsOK == events \in Seq(Kinds) /\ StartIsAwaited
HistoryOK ==
  /\ now \in Times
  /\ phone \in {"ready", "sent", "failed", "done"}
  /\ {heard, promised, shown} \subseteq Nat
  /\ user \in {"gave", "dropped", "reset"} /\ unsaved \in BOOLEAN

LEMMA Parts ==
  WifiIInv <=> /\ bluedroid \in BOOLEAN /\ SessionOK /\ NetworkOK /\ PcOK /\ EventsOK
               /\ HistoryOK /\ SettingsReachStorage
  BY DEF WifiIInv, WifiTypeOK, ProvTypeOK, ManagerType, SessionOK, NetworkOK, PcOK, EventsOK,
         HistoryOK

LEMMA PartsNext ==
  ASSUME bluedroid' \in BOOLEAN, SessionOK', NetworkOK', PcOK', EventsOK', HistoryOK',
         SettingsReachStorage'
  PROVE  WifiIInv'
  BY DEF WifiIInv, WifiTypeOK, ProvTypeOK, ManagerType, SessionOK, NetworkOK, PcOK, EventsOK,
         HistoryOK

-----------------------------------------------------------------------------
(* The queue of events. *)

LEMMA PendingPosted ==
  ASSUME events \in Seq(Kinds), NEW es \in Seq(Kinds), events' = events \o es, NEW kind,
         \A i \in 1 .. Len(es) : es[i] # kind
  PROVE  events' \in Seq(Kinds) /\ (Pending(kind)' => Pending(kind))
  <1>1. events' \in Seq(Kinds) /\ Len(events') = Len(events) + Len(es)
    BY ConcatProperties
  <1>2. \A i \in 1 .. Len(events) + Len(es) :
          events'[i] = IF i <= Len(events) THEN events[i] ELSE es[i - Len(events)]
    BY ConcatProperties
  <1>3. Len(events) \in Nat /\ Len(es) \in Nat
    BY LenProperties
  <1>4. ASSUME NEW i \in 1 .. Len(events'), events'[i] = kind PROVE Pending(kind)
    <2>1. CASE i <= Len(events)
      BY <1>1, <1>2, <1>3, <1>4, <2>1 DEF Pending
    <2>2. CASE i > Len(events)
      BY <1>1, <1>2, <1>3, <1>4, <2>2
    <2> QED BY <1>3, <2>1, <2>2
  <1> QED BY <1>1, <1>4 DEF Pending

LEMMA PendingTaken ==
  ASSUME events \in Seq(Kinds), NEW kind, Handled(kind)
  PROVE  /\ events' \in Seq(Kinds) /\ Pending(kind) /\ events # <<>>
         /\ \A k : Pending(k)' => Pending(k)
  <1>1. events # <<>> /\ Head(events) = kind /\ events' = Tail(events)
    BY DEF Handled
  <1>2. /\ events' \in Seq(Kinds) /\ Len(events') = Len(events) - 1
        /\ \A i \in 1 .. Len(events') : events'[i] = events[i + 1]
    BY <1>1, HeadTailProperties
  <1>3. Len(events) \in Nat \ {0} /\ Head(events) = events[1]
    BY <1>1, EmptySeq
  <1>4. ASSUME NEW k, Pending(k)' PROVE Pending(k)
    BY <1>2, <1>3, <1>4 DEF Pending
  <1>5. Pending(kind)
    BY <1>1, <1>3 DEF Pending
  <1> QED BY <1>1, <1>2, <1>4, <1>5

LEMMA NonePending == events = <<>> => \A k : ~Pending(k)
  BY DEF Pending

LEMMA EventsPosted ==
  ASSUME events \in Seq(Kinds), NEW es \in Seq(Kinds),
         \A i \in 1 .. Len(es) : es[i] # "start",
         events' = events \o es
  PROVE  events' \in Seq(Kinds) /\ (StartPending' => StartPending)
  BY PendingPosted DEF StartPending

LEMMA EventTaken ==
  ASSUME events \in Seq(Kinds), NEW kind, Handled(kind)
  PROVE  /\ events' \in Seq(Kinds)
         /\ StartPending' => StartPending
         /\ kind = "start" => StartPending
  BY PendingTaken DEF StartPending

LEMMA NoneOfThese ==
  /\ <<>> \in Seq(Kinds) /\ Len(<<>>) = 0
  /\ \A k \in Kinds : <<k>> \in Seq(Kinds) /\ Len(<<k>>) = 1 /\ <<k>>[1] = k
  /\ \A k, l \in Kinds :
       <<k, l>> \in Seq(Kinds) /\ Len(<<k, l>>) = 2 /\ <<k, l>>[1] = k /\ <<k, l>>[2] = l
  OBVIOUS

-----------------------------------------------------------------------------
(* The manager and its stack. *)

LEMMA StartKeepsSession ==
  ASSUME SessionOK, NEW at \in Times, NEW window \in Times, bluedroid' = bluedroid,
         bluedroid \in BOOLEAN, Start(at, window)
  PROVE  SessionOK'
  <1>1. ~StackStillUp
    BY DEF SessionOK, SessionHasStack, StackIsStarted, StackStillUp, Stops, ManagerType
  <1>2. Opened(at, window) \in ManagerType
        /\ Opened(at, window).active /\ ~Opened(at, window).startedStack
    BY TimesAreNat DEF SessionOK, Opened, StopProvisioning, ManagerType, States
  <1>3. CASE StartRuns(at, window)
    BY <1>2, <1>3 DEF StartRuns, SessionOK, SessionHasStack, StackIsStarted, ManagerType
  <1>4. CASE StartFails(at, window)
    <2>1. stack' = FALSE
      BY <1>1, <1>4 DEF StartFails, StackStillUp
    <2>2. prov' \in ManagerType /\ prov'.active = FALSE /\ prov'.startedStack = FALSE
      BY <1>2, <1>4 DEF StartFails, ManagerType, States
    <2> QED BY <2>1, <2>2 DEF SessionOK, SessionHasStack, StackIsStarted
  <1>5. CASE StartRefused(at, window)
    BY <1>2, <1>5
       DEF StartRefused, SessionOK, SessionHasStack, StackIsStarted, ManagerType, States
  <1> QED BY <1>3, <1>4, <1>5 DEF Start

\* The four ways out of a session that stop the stack are one.
LEMMA StopKeepsSession ==
  ASSUME SessionOK, bluedroid' = bluedroid, NEW st \in States,
         prov' = [StopProvisioning(prov) EXCEPT !.active = FALSE, !.state = st],
         stack' = (stack /\ ~Stops(prov))
  PROVE  SessionOK'
  BY TimesAreNat
     DEF SessionOK, SessionHasStack, StackIsStarted, StopProvisioning, Stops, ManagerType

LEMMA SucceedKeepsSession ==
  ASSUME SessionOK, bluedroid' = bluedroid, NEW millis \in Times, Succeed(millis)
  PROVE  SessionOK'
  <1>1. FinishAt(millis) \in Times
    <2>1. (millis + FinishMs) % Wrap \in Times
      BY ModInTimes, TimesAreNat, ProvAssumption
    <2> QED BY <2>1 DEF FinishAt, SessionOK, ManagerType
  <1>2. CASE prov.active
    BY <1>1, <1>2
       DEF Succeed, SessionOK, SessionHasStack, StackIsStarted, ManagerType, States
  <1>3. CASE ~prov.active
    BY <1>3, TimesAreNat
       DEF Succeed, SessionOK, SessionHasStack, StackIsStarted, StopProvisioning, Stops,
           ManagerType, States, sessionVars
  <1> QED BY <1>2, <1>3

LEMMA MarkKeepsSession ==
  ASSUME SessionOK, HistoryOK, NEW task, NEW last, MarkConnected(task, last)
  PROVE  SessionOK'
  <1>1. ASSUME NEW lag \in Lags PROVE (now + lag) % Wrap \in Times
    BY ModInTimes, TimesAreNat, ProvAssumption DEF HistoryOK
  <1>2. bluedroid' = bluedroid
    BY DEF MarkConnected
  <1>3. CASE UNCHANGED sessionVars
    BY <1>2, <1>3 DEF sessionVars, SessionOK, SessionHasStack, StackIsStarted
  <1>4. CASE \E lag \in Lags : Succeed((now + lag) % Wrap)
    BY <1>1, <1>2, <1>4, SucceedKeepsSession
  <1> QED BY <1>3, <1>4 DEF MarkConnected

LEMMA TickKeepsSession ==
  ASSUME SessionOK, HistoryOK, Tick
  PROVE  SessionOK'
  <1>0. bluedroid' = bluedroid
    BY DEF Tick
  <1>1. CASE UNCHANGED sessionVars
    BY <1>0, <1>1 DEF sessionVars, SessionOK, SessionHasStack, StackIsStarted
  <1>2. CASE TickFinishes /\ FinishDue
    <2>1. prov' = [StopProvisioning(prov) EXCEPT !.active = FALSE, !.state = prov.state]
      BY <1>2 DEF TickFinishes, SessionOK, StopProvisioning, ManagerType
    <2>2. stack' = (stack /\ ~Stops(prov)) /\ prov.state \in States
      BY <1>2 DEF TickFinishes, SessionOK, ManagerType
    <2> QED BY <1>0, <2>1, <2>2, StopKeepsSession
  <1>3. CASE TickTimesOut
    <2>1. stack' = (stack /\ ~Stops(prov)) /\ "TimedOut" \in States
      BY <1>3 DEF TickTimesOut, TimedOut, StopProvisioning, Stops, SessionOK, ManagerType, States
    <2> QED BY <1>0, <1>3, <2>1, StopKeepsSession DEF TickTimesOut, TimedOut
  <1>4. ASSUME UNCHANGED stack, \/ prov' = [prov EXCEPT !.lastConnectLogMs = now]
                                \/ prov' = [prov EXCEPT !.startedAtMs = now,
                                                       !.timeoutMs = SaveWindow]
        PROVE  SessionOK'
    BY <1>0, <1>4, ProvAssumption
       DEF SessionOK, SessionHasStack, StackIsStarted, ManagerType, HistoryOK
  <1>5. CASE TickExtends \/ TickIdles
    BY <1>1, <1>4, <1>5 DEF TickExtends, TickIdles, sessionVars
  <1> QED BY <1>1, <1>2, <1>3, <1>5 DEF Tick, TickConnected, TickFinishes, TickWaits

LEMMA EventKeepsSession ==
  ASSUME SessionOK, EventsOK, HistoryOK, EventTask
  PROVE  SessionOK'
  <1>1. ASSUME NEW lag \in Lags PROVE (now + lag) % Wrap \in Times
    BY ModInTimes, TimesAreNat, ProvAssumption DEF HistoryOK
  <1>2. CASE UNCHANGED <<bluedroid, sessionVars>>
    BY <1>2 DEF sessionVars, SessionOK, SessionHasStack, StackIsStarted
  <1>3. CASE HandleStart
    <2>1. prov.active /\ bluedroid' = bluedroid
      BY <1>3, EventTaken DEF HandleStart, EventsOK, StartIsAwaited, Handled
    <2> QED BY <1>3, <2>1
            DEF HandleStart, SessionOK, SessionHasStack, StackIsStarted, ManagerType, States
  <1>4. CASE HandleCreds \/ HandleFail
    <2>1. bluedroid' = bluedroid /\ stack' = stack
      BY <1>4 DEF HandleCreds, HandleFail, Handled
    <2>2. PICK lag \in Lags, st \in {"Saving", "Failed"} : prov' = Heard(st, (now + lag) % Wrap)
      BY <1>4 DEF HandleCreds, HandleFail
    <2> QED BY <1>1, <2>1, <2>2, ProvAssumption
            DEF Heard, SessionOK, SessionHasStack, StackIsStarted, ManagerType, States
  <1>5. CASE MarkConnected("event", "idle")
    BY <1>5, MarkKeepsSession
  <1> QED BY <1>2, <1>3, <1>4, <1>5
          DEF EventTask, FailSaved, HandleGotIp, HandleDisconnected, Handled

-----------------------------------------------------------------------------
(* What the steps do to the queue, the network, the histories and storage. *)

LEMMA QuietEvents ==
  ASSUME EventsOK, UNCHANGED events,
         StartPending => MainAt("slept")' /\ prov'.active
  PROVE  EventsOK'
  BY DEF EventsOK, StartIsAwaited, StartPending, Pending

LEMMA PostKeepsEvents ==
  ASSUME EventsOK, bluedroid \in BOOLEAN, UNCHANGED <<pc, prov>>, NEW es \in Seq(Kinds),
         \A i \in 1 .. Len(es) : es[i] # "start", Post(es)
  PROVE  EventsOK'
  <1>1. CASE bluedroid
    BY <1>1, EventsPosted DEF Post, EventsOK, StartIsAwaited, MainAt
  <1>2. CASE ~bluedroid
    BY <1>2, QuietEvents DEF Post, EventsOK, StartIsAwaited, MainAt
  <1> QED BY <1>1, <1>2

LEMMA StartKeepsEvents ==
  ASSUME EventsOK, SessionOK, ~MainAt("slept"), MainGoes("slept"), PcOK,
         NEW at, NEW window, Start(at, window)
  PROVE  EventsOK'
  <1> DEFINE gone == IF Connected /\ link' = NoNetwork THEN <<"disconnected">> ELSE <<>>
  <1>0. MainAt("slept")'
    BY DEF MainGoes, MainAt, PcOK
  <1>1. ~StartPending /\ events \in Seq(Kinds)
    BY DEF EventsOK, StartIsAwaited
  <1>2. gone \in Seq(Kinds) /\ \A i \in 1 .. Len(gone) : gone[i] # "start"
    <2>1. CASE Connected /\ link' = NoNetwork
      BY <2>1, NoneOfThese DEF Kinds
    <2>2. CASE ~(Connected /\ link' = NoNetwork)
      BY <2>2, NoneOfThese
    <2> QED BY <2>1, <2>2
  <1>3. CASE StartRuns(at, window)
    <2>1. prov'.active
      BY <1>3 DEF StartRuns, Opened, StopProvisioning, SessionOK, ManagerType
    <2>2. <<"start">> \in Seq(Kinds)
      BY NoneOfThese DEF Kinds
    <2>3. events \o <<"start">> \in Seq(Kinds)
      BY <1>1, <2>2, ConcatProperties
    <2>4. events' = (events \o <<"start">>) \o gone
      BY <1>3 DEF StartRuns, Disconnects
    <2>5. events' \in Seq(Kinds)
      BY <1>2, <2>3, <2>4, ConcatProperties
    <2> QED BY <1>0, <2>1, <2>5 DEF EventsOK, StartIsAwaited
  <1>4. CASE StartFails(at, window)
    <2>1. events' = (events \o <<>>) \o gone
      BY <1>4 DEF StartFails, Disconnects
    <2>2. events \o <<>> = events
      BY <1>1, ConcatEmptySeq
    <2>3. events' = events \o gone
      BY <2>1, <2>2
    <2>4. events' \in Seq(Kinds) /\ ~StartPending'
      BY <1>1, <1>2, <2>3, EventsPosted
    <2> QED BY <2>4 DEF EventsOK, StartIsAwaited
  <1>5. CASE StartRefused(at, window)
    BY <1>1, <1>5 DEF StartRefused, EventsOK, StartIsAwaited, StartPending, Pending
  <1> QED BY <1>3, <1>4, <1>5 DEF Start

LEMMA StartKeepsNetwork ==
  ASSUME NetworkOK, UNCHANGED ssidStored, {ssid'} \subseteq Networks \cup {NoNetwork, Unnamed},
         NEW at, NEW window, Start(at, window)
  PROVE  NetworkOK'
  BY DEF NetworkOK, Start, StartRuns, StartFails, StartRefused, Disconnects, driverVars

LEMMA MarkKeepsNetwork ==
  ASSUME NetworkOK, NEW task, NEW last, MarkConnected(task, last)
  PROVE  NetworkOK'
  BY DEF NetworkOK, MarkConnected, Mark, Copy, SaveSettings, NameOfLink, Connected,
         networkVars, driverVars

LEMMA HistoryRemembered ==
  ASSUME HistoryOK, Remembered
  PROVE  HistoryOK'
  <1>1. phone' \in {phone, "ready"}
    BY DEF Remembered
  <1>2. heard' \in {0, heard} /\ promised' \in {0, SaveWindow, promised} /\ shown' \in {0, shown}
    BY DEF Remembered
  <1>3. unsaved' \in BOOLEAN
    BY DEF Remembered, HistoryOK
  <1>4. UNCHANGED <<now, user>>
    BY DEF Remembered
  <1> QED BY <1>1, <1>2, <1>3, <1>4, TimesAreNat, ProvAssumption DEF HistoryOK

\* The settings and their copy, of a step that writes and of one that does not.
LEMMA WrittenSettings ==
  ASSUME SaveSettings, WriteEnds, Remembered
  PROVE  SettingsReachStorage'
  <1>1. ssidStored' = ssid' \/ SaveFails
    BY DEF SaveSettings
  <1>2. unsaved' = (ssidStored' # ssid' /\ (unsaved \/ SaveFails))
    BY DEF Remembered
  <1> QED BY <1>1, <1>2 DEF SettingsReachStorage

LEMMA SettingsLeftAlone ==
  ASSUME SettingsReachStorage, UNCHANGED networkVars, unsaved' = unsaved,
         ~Writing' => ~Writing, ~MainAt("off")' => ~MainAt("off")
  PROVE  SettingsReachStorage'
  BY DEF SettingsReachStorage, networkVars, MainAt, Writing

LEMMA SettingsUnderWay ==
  ASSUME Writing' PROVE SettingsReachStorage'
  BY DEF SettingsReachStorage

LEMMA PcMoves ==
  ASSUME PcOK
  PROVE  /\ \A s \in MainSteps : MainGoes(s) => PcOK'
         /\ \A s \in EventSteps : EventGoes(s) => PcOK'
         /\ pc' = pc => PcOK'
  BY DEF PcOK, MainGoes, EventGoes

LEMMA MarkMovesPc ==
  ASSUME PcOK, MarkConnected("main", "finish") \/ MarkConnected("event", "idle")
  PROVE  PcOK'
  BY DEF PcOK, MarkConnected, MainSteps, EventSteps

LEMMA MarkKeepsEvents ==
  ASSUME EventsOK, SessionOK, PcOK,
         MarkConnected("main", "finish") \/ MarkConnected("event", "idle")
  PROVE  EventsOK'
  <1>1. CASE MarkConnected("main", "finish")
    <2>1. ~MainAt("slept") /\ UNCHANGED events
      BY <1>1 DEF MarkConnected, MainAt
    <2> QED BY <2>1, QuietEvents DEF EventsOK, StartIsAwaited
  <1>2. CASE MarkConnected("event", "idle")
    <2>1. UNCHANGED events /\ pc'.main = pc.main
      BY <1>2 DEF MarkConnected, PcOK
    <2>2. ASSUME prov.active PROVE prov'.active
      BY <1>2, <2>2 DEF MarkConnected, Succeed, SessionOK, ManagerType, sessionVars
    <2> QED BY <2>1, <2>2, QuietEvents DEF EventsOK, StartIsAwaited, MainAt
  <1> QED BY <1>1, <1>2

LEMMA MarkKeepsSettings ==
  ASSUME PcOK, SettingsReachStorage, Remembered, NEW task, NEW last, MarkConnected(task, last),
         \/ task = "main" /\ last = "finish"
         \/ task = "event" /\ last = "idle"
  PROVE  SettingsReachStorage'
  <1> USE DEF MarkConnected, PcOK
  <1>1. CASE pc[task] = "mark" /\ Mark /\ ssid # NameOfLink
    <2>1. Writing'
      BY <1>1 DEF Writing
    <2> QED BY <2>1, SettingsUnderWay
  <1>2. CASE pc[task] = "copy"
    <2>1. Writing'
      BY <1>2 DEF Writing
    <2> QED BY <2>1, SettingsUnderWay
  <1>3. CASE pc[task] = "save"
    <2>1. WriteEnds
      BY <1>3 DEF WriteEnds, MainAt
    <2> QED BY <1>3, <2>1, WrittenSettings
  <1>4. CASE \/ pc[task] = "mark" /\ Mark /\ ~(ssid # NameOfLink)
             \/ pc[task] = "succeed"
    <2>1. UNCHANGED networkVars
      BY <1>4 DEF Mark, networkVars
    <2>2. ~WriteEnds /\ (~Writing' => ~Writing) /\ (~MainAt("off")' => ~MainAt("off"))
      BY <1>4 DEF WriteEnds, Writing, MainAt
    <2> QED BY <2>1, <2>2, SettingsLeftAlone DEF Remembered
  <1> QED BY <1>1, <1>2, <1>3, <1>4

-----------------------------------------------------------------------------
(* The steps. *)

LEMMA RoundStep ==
  ASSUME WifiIInv, NEW d \in LoopMs, Round(d)
  PROVE  WifiIInv'
  <1>1. bluedroid' \in BOOLEAN /\ SessionOK'
    BY Parts DEF Round, sessionVars, SessionOK, SessionHasStack, StackIsStarted
  <1>2. NetworkOK'
    BY Parts DEF Round, NetworkOK, networkVars, driverVars
  <1>3. PcOK'
    BY Parts DEF Round, PcOK, MainGoes, MainSteps
  <1>4. EventsOK'
    <2>1. events' = <<>> /\ Len(events') = 0
      BY DEF Round
    <2> QED BY <2>1, Parts DEF EventsOK, StartIsAwaited, StartPending, Pending
  <1>5. HistoryOK'
    <2>1. (now + d) % Wrap \in Times
      <3>1. now \in Nat /\ d \in Nat
        BY Parts, TimesAreNat, WifiAssumption DEF HistoryOK
      <3> QED BY <3>1, ModInTimes
    <2>2. \A n \in Nat : Saturate(n + d) \in Nat
      BY WifiAssumption DEF Saturate
    <2> QED BY <2>1, <2>2, Parts DEF Round, HistoryOK
  <1>6. SettingsReachStorage'
    <2>1. ~Writing /\ ~MainAt("off")
      BY DEF Round, MainAt, EventAt, Writing
    <2> QED BY <2>1, Parts, SettingsLeftAlone DEF Round, networkVars
  <1> QED BY <1>1, <1>2, <1>3, <1>4, <1>5, <1>6, PartsNext

LEMMA TickStepStep ==
  ASSUME WifiIInv, TickStep
  PROVE  WifiIInv'
  <1>1. HistoryOK'
    BY Parts, HistoryRemembered DEF TickStep
  <1>2. CASE Tick
    <2>1. bluedroid' \in BOOLEAN /\ SessionOK'
      BY <1>2, Parts, TickKeepsSession DEF Tick
    <2>2. NetworkOK'
      BY <1>2, Parts
         DEF Tick, TickConnected, TickFinishes, TickIdles, TickWaits, TickExtends, TickTimesOut,
             NetworkOK, networkVars, driverVars
    <2>3. (MainAt("tick") \/ MainAt("finish")) /\ (MainGoes("mark") \/ MainGoes("ui"))
          /\ UNCHANGED networkVars /\ UNCHANGED events
      BY <1>2
         DEF Tick, TickConnected, TickFinishes, TickIdles, TickWaits, TickExtends, TickTimesOut
    <2>4. PcOK'
      BY <2>3, Parts, PcMoves DEF MainSteps
    <2>5. EventsOK'
      BY <2>3, Parts, QuietEvents DEF EventsOK, StartIsAwaited, MainAt
    <2>6. ~WriteEnds /\ (~Writing' => ~Writing) /\ (~MainAt("off")' => ~MainAt("off"))
      BY <2>3, Parts DEF WriteEnds, Writing, MainAt, MainGoes, PcOK
    <2>7. SettingsReachStorage'
      BY <2>3, <2>6, Parts, SettingsLeftAlone DEF TickStep, Remembered
    <2> QED BY <1>1, <2>1, <2>2, <2>4, <2>5, <2>7, PartsNext
  <1>3. CASE MarkConnected("main", "finish")
    <2>1. bluedroid' \in BOOLEAN
      BY <1>3, Parts DEF MarkConnected
    <2>2. SessionOK' /\ NetworkOK'
      BY <1>3, Parts, MarkKeepsSession, MarkKeepsNetwork
    <2>3. PcOK' /\ EventsOK'
      BY <1>3, Parts, MarkMovesPc, MarkKeepsEvents
    <2>4. SettingsReachStorage'
      BY <1>3, Parts, MarkKeepsSettings DEF TickStep
    <2> QED BY <1>1, <2>1, <2>2, <2>3, <2>4, PartsNext
  <1> QED BY <1>2, <1>3 DEF TickStep

LEMMA EventStepStep ==
  ASSUME WifiIInv, EventStep
  PROVE  WifiIInv'
  <1>1. HistoryOK' /\ SessionOK'
    BY Parts, HistoryRemembered, EventKeepsSession DEF EventStep
  <1>2. CASE MarkConnected("event", "idle")
    <2>1. bluedroid' \in BOOLEAN
      BY <1>2, Parts DEF MarkConnected
    <2> QED BY <1>1, <1>2, <2>1, Parts, MarkKeepsNetwork, MarkMovesPc,
               MarkKeepsEvents, MarkKeepsSettings, PartsNext DEF EventStep
  <1>3. CASE FailSaved
    <2>1. bluedroid' \in BOOLEAN /\ UNCHANGED <<events, prov>> /\ EventGoes("idle")
      BY <1>3, Parts DEF FailSaved, sessionVars
    <2>2. NetworkOK'
      BY <1>3, Parts DEF FailSaved, SaveSettings, NetworkOK
    <2>3. PcOK' /\ pc'.main = pc.main
      BY <2>1, Parts, PcMoves DEF EventSteps, EventGoes, PcOK
    <2>4. EventsOK'
      BY <2>1, <2>3, Parts, QuietEvents DEF EventsOK, StartIsAwaited, MainAt
    <2>5. WriteEnds
      BY <1>3, Parts DEF FailSaved, WriteEnds, EventAt, EventGoes, PcOK
    <2>6. SettingsReachStorage'
      BY <1>3, <2>5, WrittenSettings DEF FailSaved, EventStep
    <2> QED BY <1>1, <2>1, <2>2, <2>3, <2>4, <2>6, PartsNext
  <1>4. ASSUME NEW kind, Handled(kind), prov.active => prov'.active, NetworkOK',
               \/ pc' = pc /\ UNCHANGED networkVars
               \/ EventGoes("mark") /\ UNCHANGED networkVars
               \/ EventGoes("failSave")
        PROVE  WifiIInv'
    <2>1. bluedroid' \in BOOLEAN /\ EventAt("idle")
      BY <1>4, Parts DEF Handled
    <2>2. PcOK' /\ pc'.main = pc.main
      BY <1>4, Parts, PcMoves DEF EventSteps, EventGoes, PcOK
    <2>3. EventsOK'
      BY <1>4, <2>2, Parts, EventTaken DEF EventsOK, StartIsAwaited, MainAt
    <2>4. CASE EventGoes("failSave")
      BY <1>1, <1>4, <2>1, <2>2, <2>3, <2>4, Parts, SettingsUnderWay, PartsNext
         DEF Writing, EventGoes, PcOK
    <2>5. CASE (pc' = pc \/ EventGoes("mark")) /\ UNCHANGED networkVars
      <3>1. ~WriteEnds /\ (~Writing' => ~Writing) /\ (~MainAt("off")' => ~MainAt("off"))
        BY <2>1, <2>5, Parts DEF WriteEnds, Writing, MainAt, EventAt, EventGoes, PcOK
      <3>2. SettingsReachStorage'
        BY <2>5, <3>1, Parts, SettingsLeftAlone DEF EventStep, Remembered
      <3> QED BY <1>1, <1>4, <2>1, <2>2, <2>3, <3>2, PartsNext
    <2> QED BY <1>4, <2>4, <2>5
  <1>5. CASE HandleStart
    <2>1. prov' = [prov EXCEPT !.active = TRUE, !.state = "Advertising"]
      BY <1>5 DEF HandleStart
    <2> QED BY <1>4, <1>5, <2>1, Parts
            DEF HandleStart, SessionOK, ManagerType, NetworkOK, networkVars, driverVars
  <1>6. CASE HandleCreds
    <2>1. prov'.active = prov.active
      BY <1>6, Parts DEF HandleCreds, Heard, SessionOK, ManagerType
    <2> QED BY <1>4, <1>6, <2>1, Parts DEF HandleCreds, NetworkOK, networkVars, driverVars
  <1>7. CASE HandleFail
    <2>1. prov'.active = prov.active
      BY <1>7, Parts DEF HandleFail, Heard, SessionOK, ManagerType
    <2> QED BY <1>4, <1>7, <2>1, Parts DEF HandleFail, NetworkOK, driverVars
  <1>8. CASE HandleGotIp \/ HandleDisconnected
    <2>1. UNCHANGED prov /\ UNCHANGED networkVars /\ (pc' = pc \/ EventGoes("mark"))
      BY <1>8 DEF HandleGotIp, HandleDisconnected, sessionVars
    <2>2. link' = link /\ creds' = creds /\ joining' \in BOOLEAN
      BY <1>8, Parts DEF HandleGotIp, HandleDisconnected, driverVars, NetworkOK, Configured
    <2>3. NetworkOK'
      BY <2>1, <2>2, Parts DEF NetworkOK, networkVars
    <2>4. Handled("gotIp") \/ Handled("disconnected")
      BY <1>8 DEF HandleGotIp, HandleDisconnected
    <2> QED BY <1>4, <2>1, <2>3, <2>4
  <1> QED BY <1>2, <1>3, <1>5, <1>6, <1>7, <1>8 DEF EventStep, EventTask

\* The user interface finds no event of a session that starts.
LEMMA NothingAwaited ==
  ASSUME WifiIInv, UNCHANGED events, ~MainAt("slept")
  PROVE  EventsOK'
  BY Parts, QuietEvents DEF EventsOK, StartIsAwaited

LEMMA UiIdlesStep ==
  ASSUME WifiIInv, UiIdles
  PROVE  WifiIInv'
  <1>1. bluedroid' \in BOOLEAN /\ SessionOK'
    BY Parts DEF UiIdles, sessionVars, SessionOK, SessionHasStack, StackIsStarted
  <1>2. NetworkOK' /\ HistoryOK'
    BY Parts DEF UiIdles, NetworkOK, networkVars, driverVars, HistoryOK, wifiHistory
  <1>3. PcOK'
    BY Parts, PcMoves DEF UiIdles, MainSteps
  <1>4. EventsOK'
    BY Parts, NothingAwaited DEF UiIdles, MainAt
  <1>5. SettingsReachStorage'
    <2>1. (~Writing' => ~Writing) /\ ~MainAt("off")
      BY Parts DEF UiIdles, Writing, MainAt, MainGoes, PcOK
    <2> QED BY <2>1, Parts, SettingsLeftAlone DEF UiIdles, wifiHistory
  <1> QED BY <1>1, <1>2, <1>3, <1>4, <1>5, PartsNext

LEMMA UiCancelsStep ==
  ASSUME WifiIInv, UiCancels
  PROVE  WifiIInv'
  <1>1. bluedroid' \in BOOLEAN /\ SessionOK'
    BY Parts, StopKeepsSession DEF UiCancels, Cancel, States
  <1>2. NetworkOK' /\ HistoryOK'
    BY Parts DEF UiCancels, Cancel, NetworkOK, networkVars, driverVars, HistoryOK
  <1>3. PcOK'
    BY Parts, PcMoves DEF UiCancels, MainSteps
  <1>4. EventsOK'
    BY Parts, NothingAwaited DEF UiCancels, Cancel, MainAt
  <1>5. SettingsReachStorage'
    <2>1. (~Writing' => ~Writing) /\ ~MainAt("off")
      BY Parts DEF UiCancels, Writing, MainAt, MainGoes, PcOK
    <2> QED BY <2>1, Parts, SettingsLeftAlone DEF UiCancels
  <1> QED BY <1>1, <1>2, <1>3, <1>4, <1>5, PartsNext

LEMMA UiStartsSessionStep ==
  ASSUME WifiIInv, NEW lag \in UptimeLags, UiStartsSession(lag)
  PROVE  WifiIInv'
  <1> DEFINE at == (now - lag) % Wrap
  <1>1. at \in Times /\ MenuWindow \in Times /\ lag \in Nat
    <2>1. now \in Nat /\ lag \in Nat
      BY Parts, TimesAreNat, WifiAssumption DEF HistoryOK
    <2> QED BY <2>1, ModInTimes, ProvAssumption
  <1>2. Start(at, MenuWindow)
    BY DEF UiStartsSession, RequestMenuProvisioning
  <1>3. bluedroid' \in BOOLEAN /\ SessionOK'
    BY <1>1, <1>2, Parts, StartKeepsSession DEF UiStartsSession
  <1>4. NetworkOK'
    BY <1>2, Parts, StartKeepsNetwork DEF UiStartsSession, NetworkOK, networkVars
  <1>5. PcOK'
    BY Parts, PcMoves DEF UiStartsSession, MainSteps
  <1>6. EventsOK'
    BY <1>2, Parts, StartKeepsEvents DEF UiStartsSession, MainAt
  <1>7. HistoryOK'
    <2>1. promised' \in Nat
      BY <1>1, TimesAreNat DEF UiStartsSession
    <2> QED BY <2>1, Parts DEF UiStartsSession, HistoryOK
  <1>8. SettingsReachStorage'
    <2>1. (~Writing' => ~Writing) /\ ~MainAt("off")
      BY Parts DEF UiStartsSession, Writing, MainAt, MainGoes, PcOK
    <2> QED BY <2>1, Parts, SettingsLeftAlone DEF UiStartsSession
  <1> QED BY <1>3, <1>4, <1>5, <1>6, <1>7, <1>8, PartsNext

\* The four steps of the commands that clear the network.
Clears == UiClearsWifi \/ ClearSaved \/ UiResets \/ ResetDefaults

LEMMA ClearsStep ==
  ASSUME WifiIInv, Clears
  PROVE  WifiIInv'
  <1> USE DEF Clears, UiClearsWifi, ClearSaved, UiResets, ResetDefaults
  <1>1. bluedroid' \in BOOLEAN /\ SessionOK'
    BY Parts DEF sessionVars, SessionOK, SessionHasStack, StackIsStarted
  <1>2. NetworkOK'
    BY Parts DEF NetworkOK, driverVars, SaveSettings
  <1>3. HistoryOK'
    BY Parts DEF HistoryOK, wifiHistory
  <1>4. PcOK'
    BY Parts, PcMoves DEF MainSteps
  <1>5. EventsOK'
    BY Parts, NothingAwaited DEF MainAt
  <1>6. SettingsReachStorage'
    <2>1. CASE UiClearsWifi \/ UiResets
      <3>1. Writing'
        BY <2>1, Parts DEF Writing, MainGoes, PcOK
      <3> QED BY <3>1, SettingsUnderWay
    <2>2. CASE ClearSaved
      BY <2>2 DEF SettingsReachStorage, SaveSettings
    <2>3. CASE ResetDefaults
      BY <2>3 DEF SettingsReachStorage
    <2> QED BY <2>1, <2>2, <2>3
  <1> QED BY <1>1, <1>2, <1>3, <1>4, <1>5, <1>6, PartsNext

LEMMA PowerFailsStep ==
  ASSUME WifiIInv, PowerFails
  PROVE  WifiIInv'
  <1> USE DEF PowerFails
  <1>1. bluedroid' \in BOOLEAN /\ SessionOK'
    BY Parts, TimesAreNat
       DEF Fresh, SessionOK, SessionHasStack, StackIsStarted, ManagerType, States
  <1>2. NetworkOK' /\ HistoryOK'
    BY Parts, TimesAreNat DEF NetworkOK, HistoryOK
  <1>3. PcOK'
    BY DEF PcOK, MainSteps, EventSteps
  <1>4. EventsOK'
    BY NoneOfThese DEF EventsOK, StartIsAwaited, StartPending, Pending
  <1>5. SettingsReachStorage'
    BY DEF SettingsReachStorage
  <1> QED BY <1>1, <1>2, <1>3, <1>4, <1>5, PartsNext

LEMMA PowerReturnsStep ==
  ASSUME WifiIInv, PowerReturns
  PROVE  WifiIInv'
  <1>0. now \in Times /\ BootWindow \in Times /\ BootWindow \in Nat
    BY Parts, TimesAreNat, ProvAssumption DEF HistoryOK
  <1>1. ASSUME Start(now, BootWindow)
        PROVE  bluedroid' \in BOOLEAN /\ SessionOK' /\ NetworkOK' /\ EventsOK'
    <2>1. bluedroid' \in BOOLEAN /\ SessionOK'
      BY <1>0, <1>1, Parts, StartKeepsSession DEF PowerReturns
    <2>2. NetworkOK' /\ EventsOK'
      BY <1>1, Parts, StartKeepsNetwork, StartKeepsEvents DEF PowerReturns, NetworkOK, MainAt
    <2> QED BY <2>1, <2>2
  <1>2. ASSUME joining' = TRUE, UNCHANGED <<sessionVars, creds, link, events>>
        PROVE  bluedroid' \in BOOLEAN /\ SessionOK' /\ NetworkOK' /\ EventsOK'
    <2>1. bluedroid' \in BOOLEAN /\ SessionOK'
      BY <1>2, Parts DEF PowerReturns, sessionVars, SessionOK, SessionHasStack, StackIsStarted
    <2>2. NetworkOK' /\ EventsOK'
      BY <1>2, Parts, NothingAwaited DEF PowerReturns, NetworkOK, MainAt
    <2> QED BY <2>1, <2>2
  <1>3. bluedroid' \in BOOLEAN /\ SessionOK' /\ NetworkOK' /\ EventsOK'
    BY <1>1, <1>2 DEF PowerReturns, InitProvisioning
  <1>4. PcOK' /\ HistoryOK'
    BY <1>0, Parts, PcMoves DEF PowerReturns, MainSteps, HistoryOK
  <1>5. SettingsReachStorage'
    BY DEF PowerReturns, SettingsReachStorage
  <1> QED BY <1>3, <1>4, <1>5, PartsNext

LEMMA OutsideStep ==
  ASSUME WifiIInv, Outside
  PROVE  WifiIInv'
  <1>1. bluedroid' \in BOOLEAN /\ SessionOK'
    BY Parts DEF Outside, sessionVars, SessionOK, SessionHasStack, StackIsStarted
  <1>2. NetworkOK' /\ HistoryOK'
    BY Parts
       DEF Outside, PhoneSends, PhoneAccepted, PhoneRefused, LinkUp, LinkDown, NetworkOK,
           networkVars, HistoryOK
  <1>3. PcOK'
    BY Parts, PcMoves DEF Outside
  <1>4. EventsOK'
    <2>1. ASSUME NEW k \in Kinds \ {"start"}, Post(<<k>>) PROVE EventsOK'
      <3>1. <<k>> \in Seq(Kinds) /\ \A i \in 1 .. Len(<<k>>) : <<k>>[i] # "start"
        BY <2>1, NoneOfThese
      <3>2. UNCHANGED <<pc, prov>>
        BY DEF Outside, sessionVars
      <3> QED BY <2>1, <3>1, <3>2, Parts, PostKeepsEvents
    <2>2. ASSUME NEW k \in Kinds \ {"start"}, NEW l \in Kinds \ {"start"}, Post(<<k, l>>)
          PROVE  EventsOK'
      <3>1. /\ <<k, l>> \in Seq(Kinds)
            /\ \A i \in 1 .. Len(<<k, l>>) : i = 1 \/ i = 2
        BY <2>2, NoneOfThese
      <3>2. \A i \in 1 .. Len(<<k, l>>) : <<k, l>>[i] # "start"
        BY <2>2, <3>1, NoneOfThese
      <3>3. UNCHANGED <<pc, prov>>
        BY DEF Outside, sessionVars
      <3> QED BY <2>2, <3>1, <3>2, <3>3, Parts, PostKeepsEvents
    <2> QED BY <2>1, <2>2
            DEF Outside, PhoneSends, PhoneAccepted, PhoneRefused, LinkUp, LinkDown, Kinds
  <1>5. SettingsReachStorage'
    BY Parts, SettingsLeftAlone DEF Outside, Writing, MainAt
  <1> QED BY <1>1, <1>2, <1>3, <1>4, <1>5, PartsNext

LEMMA StutterStep ==
  ASSUME WifiIInv, UNCHANGED wifiVars
  PROVE  WifiIInv'
  BY DEF WifiIInv, wifiVars, provVars, sessionVars, networkVars, driverVars, wifiHistory,
         WifiTypeOK, ProvTypeOK, SessionHasStack, StackIsStarted, StartIsAwaited, StartPending,
         Pending, MainAt, SettingsReachStorage, Writing

LEMMA WifiInitInv == WifiInit => WifiIInv
  <1> SUFFICES ASSUME WifiInit PROVE WifiIInv
    OBVIOUS
  <1>1. WifiTypeOK
    BY TimesAreNat, NoneOfThese
       DEF WifiInit, WifiTypeOK, ProvTypeOK, Fresh, States, MainSteps, EventSteps
  <1>2. SessionHasStack /\ StackIsStarted
    BY DEF WifiInit, Fresh, SessionHasStack, StackIsStarted
  <1>3. StartIsAwaited
    BY NoneOfThese DEF WifiInit, StartIsAwaited, StartPending, Pending
  <1>4. SettingsReachStorage
    BY DEF WifiInit, SettingsReachStorage
  <1> QED BY <1>1, <1>2, <1>3, <1>4 DEF WifiIInv

LEMMA WifiStep ==
  ASSUME WifiIInv, [WifiNext]_wifiVars
  PROVE  WifiIInv'
  <1>1. ASSUME NEW d \in LoopMs, Round(d) PROVE WifiIInv'
    BY <1>1, RoundStep
  <1>2. CASE TickStep
    BY <1>2, TickStepStep
  <1>3. CASE UiIdles
    BY <1>3, UiIdlesStep
  <1>4. CASE UiCancels
    BY <1>4, UiCancelsStep
  <1>5. CASE Clears
    BY <1>5, ClearsStep
  <1>6. ASSUME NEW lag \in UptimeLags, UiStartsSession(lag) PROVE WifiIInv'
    BY <1>6, UiStartsSessionStep
  <1>7. CASE PowerReturns
    BY <1>7, PowerReturnsStep
  <1>8. CASE EventStep
    BY <1>8, EventStepStep
  <1>9. CASE PowerFails
    BY <1>9, PowerFailsStep
  <1>10. CASE Outside
    BY <1>10, OutsideStep
  <1>11. CASE UNCHANGED wifiVars
    BY <1>11, StutterStep
  <1> QED BY <1>1, <1>2, <1>3, <1>4, <1>5, <1>6, <1>7, <1>8, <1>9, <1>10, <1>11
          DEF WifiNext, MainTask, Clears

-----------------------------------------------------------------------------
(* Whether the device has credentials: the invariant behind                  *)
(* StrandedOnlyByHand, given the one above.                                  *)

Given == creds # NoNetwork \/ user = "dropped"

\* Where markConnected is about to note a network, or is told of one.
MarkSteps == {"mark", "copy", "save"}
Marking == Pending("gotIp") \/ pc.event \in MarkSteps \/ pc.main \in MarkSteps
FailUnderWay == Pending("fail") \/ EventAt("failSave")

NetworkWasGiven == Connected \/ Marking => Given
SettingsWereGiven == Configured => Given \/ unsaved
BlobWasGiven == ssidStored # NoNetwork => Given \/ unsaved

\* The phone's refusal and a link exclude each other, and what is noted of a
\* link, until the refusal is dealt with.
FailIsAlone ==
  FailUnderWay => /\ ~Connected /\ ~Pending("gotIp")
                  /\ pc.event \notin MarkSteps \cup {"succeed"}
                  /\ pc.main \notin MarkSteps \cup {"succeed"}
FailClears == EventAt("failSave") => ssid = NoNetwork
SentInSession == phone = "sent" => stack /\ creds # NoNetwork /\ ~FailUnderWay
ClearIsByHand == MainAt("clearSave") => user = "dropped" /\ ~stack
OffIsQuiet == MainAt("off") => events = <<>> /\ EventAt("idle") /\ ~Connected

GivenInv ==
  /\ NetworkWasGiven /\ SettingsWereGiven /\ BlobWasGiven
  /\ FailIsAlone /\ FailClears /\ SentInSession /\ ClearIsByHand /\ OffIsQuiet

\* The steps that leave alone what it speaks of, or bring it nearer.
LEMMA GivenLeftAlone ==
  ASSUME GivenInv, UNCHANGED <<ssid, link, creds, events>>, pc'.event = pc.event,
         Given => Given', unsaved => unsaved', ssidStored' \in {ssidStored, NoNetwork},
         phone' = "sent" => phone = "sent" /\ stack',
         pc'.main \in MarkSteps \cup {"succeed"} => pc.main \in MarkSteps \/ Connected,
         pc'.main = "clearSave" => user' = "dropped" /\ ~stack',
         pc'.main = "off" => pc.main = "off"
  PROVE  GivenInv'
  <1>1. \A k : Pending(k)' <=> Pending(k)
    BY DEF Pending
  <1>2. (Connected' <=> Connected) /\ (Configured' <=> Configured)
        /\ (FailUnderWay' <=> FailUnderWay) /\ (EventAt("failSave")' <=> EventAt("failSave"))
    BY <1>1 DEF Connected, Configured, FailUnderWay, EventAt
  <1>3. NetworkWasGiven'
    BY <1>1, <1>2 DEF GivenInv, NetworkWasGiven, Marking, MarkSteps
  <1>4. SettingsWereGiven' /\ BlobWasGiven'
    BY <1>2 DEF GivenInv, SettingsWereGiven, BlobWasGiven
  <1>5. FailIsAlone' /\ FailClears'
    <2>1. FailUnderWay => ~(pc'.main \in MarkSteps \cup {"succeed"})
      BY DEF GivenInv, FailIsAlone, MarkSteps
    <2> QED BY <1>1, <1>2, <2>1 DEF GivenInv, FailIsAlone, FailClears
  <1>6. SentInSession'
    BY <1>2 DEF GivenInv, SentInSession
  <1>7. ClearIsByHand' /\ OffIsQuiet'
    BY <1>2 DEF GivenInv, ClearIsByHand, OffIsQuiet, MainAt, EventAt
  <1> QED BY <1>3, <1>4, <1>5, <1>6, <1>7 DEF GivenInv

LEMMA RoundGiven ==
  ASSUME WifiIInv, GivenInv, NEW d \in LoopMs, Round(d)
  PROVE  GivenInv'
  <1>1. pc'.event = pc.event /\ pc'.main = "tick"
    BY Parts DEF Round, MainGoes, PcOK
  <1>2. phone = "sent" => stack
    BY DEF GivenInv, SentInSession
  <1> QED BY <1>1, <1>2, GivenLeftAlone
          DEF Round, networkVars, driverVars, sessionVars, Given, MarkSteps

\* markConnected, in either task.
LEMMA MarkGiven ==
  ASSUME WifiIInv, GivenInv, Remembered,
         MarkConnected("main", "finish") \/ MarkConnected("event", "idle")
  PROVE  GivenInv'
  <1>0. PICK task \in {"main", "event"} :
          /\ pc[task] \in MarkSteps \cup {"succeed"}
          /\ pc[task] # "save" => ssidStored' = ssidStored /\ unsaved' = unsaved
          /\ pc[task] = "succeed" => ssid' = ssid
          /\ \/ /\ pc[task] = pc.main /\ pc'.event = pc.event
                /\ pc'.main \in MarkSteps \cup {"succeed", "finish"}
                /\ (pc'.main \in MarkSteps => pc.main \in MarkSteps)
             \/ /\ pc[task] = pc.event /\ pc'.main = pc.main
                /\ pc'.event \in MarkSteps \cup {"succeed", "idle"}
                /\ (pc'.event \in MarkSteps => pc.event \in MarkSteps)
                /\ MarkConnected("event", "idle")
    <2>1. ASSUME NEW task \in {"main", "event"}, NEW last \in {"finish", "idle"},
                 MarkConnected(task, last)
          PROVE  /\ pc[task] \in MarkSteps \cup {"succeed"}
                 /\ pc[task] # "save" => ssidStored' = ssidStored
                 /\ pc[task] = "succeed" => ssid' = ssid
                 /\ pc' = [pc EXCEPT ![task] = pc'[task]]
                 /\ pc'[task] \in MarkSteps \cup {"succeed", last}
                 /\ pc'[task] \in MarkSteps => pc[task] \in MarkSteps
      BY <2>1, Parts DEF MarkConnected, Copy, PcOK, MarkSteps, networkVars
    <2>2. CASE MarkConnected("main", "finish")
      <3>1. pc["main"] # "save" => ~WriteEnds
        BY <2>1, <2>2, Parts DEF WriteEnds, MainAt, PcOK
      <3> QED BY <2>1, <2>2, <3>1, Parts DEF PcOK, Remembered
    <2>3. CASE MarkConnected("event", "idle")
      <3>1. pc["event"] # "save" => ~WriteEnds
        BY <2>1, <2>3, Parts DEF WriteEnds, MainAt, PcOK, MarkSteps
      <3> QED BY <2>1, <2>3, <3>1, Parts DEF PcOK, Remembered
    <2> QED BY <2>2, <2>3
  <1>1. UNCHANGED <<events, link, creds, joining, user>> /\ phone' \in {phone, "ready"}
          /\ (phone' = "sent" => stack')
    BY DEF MarkConnected, driverVars, Remembered
  <1>2. \A k : Pending(k)' <=> Pending(k)
    BY <1>1 DEF Pending
  <1>3. (Connected' <=> Connected) /\ (Given' <=> Given) /\ (Marking' => Marking)
    BY <1>0, <1>1, <1>2 DEF Connected, Given, Marking, MarkSteps
  <1>4. NetworkWasGiven'
    BY <1>3 DEF GivenInv, NetworkWasGiven
  <1>5. ~FailUnderWay /\ ~FailUnderWay' /\ ~EventAt("failSave")'
    <2>1. ~FailUnderWay
      BY <1>0 DEF GivenInv, FailIsAlone
    <2>2. ~EventAt("failSave")'
      BY <1>0, <2>1 DEF FailUnderWay, EventAt, MarkSteps
    <2> QED BY <1>2, <2>1, <2>2 DEF FailUnderWay
  <1>6. SettingsWereGiven' /\ BlobWasGiven'
    <2>1. CASE pc[task] \in MarkSteps
      <3>1. Given
        BY <1>0, <2>1 DEF GivenInv, NetworkWasGiven, Marking
      <3> QED BY <1>3, <3>1 DEF SettingsWereGiven, BlobWasGiven
    <2>2. CASE pc[task] = "succeed"
      <3>1. UNCHANGED <<ssid, ssidStored, unsaved>>
        BY <1>0, <2>2
      <3> QED BY <1>3, <3>1 DEF GivenInv, SettingsWereGiven, BlobWasGiven, Configured
    <2> QED BY <1>0, <2>1, <2>2
  <1>7. FailIsAlone' /\ FailClears'
    BY <1>5 DEF FailIsAlone, FailClears
  <1>8. SentInSession'
    BY <1>1, <1>5 DEF GivenInv, SentInSession
  <1>9. ClearIsByHand' /\ OffIsQuiet'
    <2>1. ~MainAt("off") \/ pc'.main # "off"
      BY <1>0 DEF GivenInv, OffIsQuiet, MainAt, EventAt, MarkSteps
    <2>2. OffIsQuiet'
      BY <1>0, <2>1 DEF OffIsQuiet, MainAt, MarkSteps
    <2>3. ClearIsByHand'
      <3>1. SUFFICES ASSUME pc'.main = "clearSave" PROVE user = "dropped" /\ ~stack'
        BY <1>1 DEF ClearIsByHand, MainAt
      <3>2. MarkConnected("event", "idle") /\ pc.main = "clearSave"
        BY <1>0, <3>1 DEF MarkSteps, MarkConnected
      <3>3. user = "dropped" /\ ~stack
        BY <3>2 DEF GivenInv, ClearIsByHand, MainAt
      <3>4. ~stack'
        BY <3>2, <3>3 DEF MarkConnected, Succeed, sessionVars
      <3> QED BY <3>3, <3>4
    <2> QED BY <2>2, <2>3
  <1> QED BY <1>4, <1>6, <1>7, <1>8, <1>9 DEF GivenInv
LEMMA TickGiven ==
  ASSUME WifiIInv, GivenInv, TickStep
  PROVE  GivenInv'
  <1>1. CASE MarkConnected("main", "finish")
    BY <1>1, MarkGiven DEF TickStep
  <1>2. CASE Tick
    <2>1. /\ MainAt("tick") \/ MainAt("finish")
          /\ (MainGoes("mark") /\ Connected) \/ MainGoes("ui")
          /\ UNCHANGED <<networkVars, events, link, creds>>
      BY <1>2 DEF Tick, TickConnected, TickFinishes, TickIdles, TickWaits, TickExtends,
                  TickTimesOut, driverVars
    <2>2. /\ pc'.event = pc.event
          /\ (pc'.main = "mark" /\ Connected) \/ pc'.main = "ui"
      BY <2>1, Parts DEF MainGoes, PcOK
    <2>3. UNCHANGED <<user, unsaved>> /\ (phone' = "sent" => phone = "sent" /\ stack')
      <3>1. ~WriteEnds
        BY <2>1, <2>2, Parts DEF WriteEnds, MainAt
      <3> QED BY <3>1 DEF TickStep, Remembered
    <2> QED BY <2>1, <2>2, <2>3, GivenLeftAlone DEF networkVars, Given, MarkSteps
  <1> QED BY <1>1, <1>2 DEF TickStep

LEMMA FailSavedGiven ==
  ASSUME WifiIInv, GivenInv, FailSaved, Remembered
  PROVE  GivenInv'
  <1>1. /\ EventAt("failSave") /\ pc'.event = "idle" /\ pc'.main = pc.main
        /\ UNCHANGED <<prov, stack, events, link, ssid>>
        /\ ssidStored' \in IF SaveFails THEN {ssid, ssidStored} ELSE {ssid}
    BY Parts DEF FailSaved, EventGoes, PcOK, sessionVars, SaveSettings
  <1>2. ssid = NoNetwork /\ FailUnderWay /\ user' = user
    BY <1>1 DEF GivenInv, FailClears, FailUnderWay, Remembered
  <1>3. /\ ~Connected /\ ~Pending("gotIp") /\ pc.main \notin MarkSteps \cup {"succeed"}
        /\ phone # "sent"
    BY <1>2 DEF GivenInv, FailIsAlone, SentInSession
  <1>4. \A k : Pending(k)' <=> Pending(k)
    BY <1>1 DEF Pending
  <1>5. ~Connected' /\ ~Marking'
    BY <1>1, <1>3, <1>4 DEF Connected, Marking, MarkSteps
  <1>6. NetworkWasGiven' /\ SettingsWereGiven' /\ FailClears'
    BY <1>1, <1>2, <1>5
       DEF NetworkWasGiven, SettingsWereGiven, FailClears, Configured, EventAt
  <1>7. BlobWasGiven'
    <2>1. WriteEnds
      BY <1>1 DEF WriteEnds, EventAt
    <2>2. unsaved' = (ssidStored' # ssid' /\ (unsaved \/ SaveFails))
      BY <2>1 DEF Remembered
    <2>3. ASSUME ssidStored' # NoNetwork PROVE unsaved'
      BY <1>1, <1>2, <2>2, <2>3
    <2> QED BY <2>3 DEF BlobWasGiven
  <1>8. FailIsAlone'
    BY <1>1, <1>3, <1>4, <1>5 DEF FailIsAlone, MarkSteps
  <1>9. SentInSession'
    <2>1. phone' \in {phone, "ready"}
      BY DEF Remembered
    <2> QED BY <1>3, <2>1 DEF SentInSession
  <1>10. ClearIsByHand' /\ OffIsQuiet'
    BY <1>1, <1>2 DEF GivenInv, ClearIsByHand, OffIsQuiet, MainAt, EventAt
  <1> QED BY <1>6, <1>7, <1>8, <1>9, <1>10 DEF GivenInv

\* An event is taken from the queue.
LEMMA HandledGiven ==
  ASSUME WifiIInv, GivenInv, Remembered, NEW kind, Handled(kind),
         UNCHANGED <<stack, ssidStored, link, creds>>,
         \/ kind \notin {"fail", "gotIp"} /\ pc' = pc /\ UNCHANGED ssid
         \/ kind = "fail" /\ EventGoes("failSave") /\ ssid' = NoNetwork
         \/ kind = "gotIp" /\ EventGoes("mark") /\ UNCHANGED ssid
  PROVE  GivenInv'
  <1>1. /\ Pending(kind) /\ events # <<>> /\ \A k : Pending(k)' => Pending(k)
        /\ EventAt("idle") /\ ~MainAt("off")
    BY Parts, PendingTaken DEF Handled, EventsOK, GivenInv, OffIsQuiet
  <1>2. /\ pc'.main = pc.main
        /\ kind \notin {"fail", "gotIp"} => pc'.event = "idle"
        /\ kind = "fail" => pc'.event = "failSave"
        /\ kind = "gotIp" => pc'.event = "mark"
        /\ pc.event = "idle"
    BY <1>1, Parts DEF EventGoes, PcOK, EventAt
  <1>3. UNCHANGED <<user, unsaved>> /\ (phone' = "sent" => phone = "sent")
    <2>1. ~WriteEnds
      BY <1>2 DEF WriteEnds, MainAt
    <2> QED BY <2>1 DEF Remembered
  <1>4. (Given' <=> Given) /\ (Connected' <=> Connected) /\ (Configured' => Configured)
    BY <1>3 DEF Given, Connected, Configured
  <1>5. FailUnderWay' => FailUnderWay
    BY <1>1, <1>2 DEF FailUnderWay, EventAt
  <1>6. Marking' => Marking
    BY <1>1, <1>2 DEF Marking, MarkSteps
  <1>7. NetworkWasGiven' /\ SettingsWereGiven' /\ BlobWasGiven'
    BY <1>3, <1>4, <1>6
       DEF GivenInv, NetworkWasGiven, SettingsWereGiven, BlobWasGiven
  <1>8. FailIsAlone'
    <2>1. SUFFICES ASSUME FailUnderWay' PROVE /\ ~Connected' /\ ~Pending("gotIp")'
                                           /\ pc'.event \notin MarkSteps \cup {"succeed"}
                                           /\ pc'.main \notin MarkSteps \cup {"succeed"}
      BY DEF FailIsAlone
    <2>2. ~Connected /\ ~Pending("gotIp") /\ pc.main \notin MarkSteps \cup {"succeed"}
      BY <1>5, <2>1 DEF GivenInv, FailIsAlone
    <2>3. kind # "gotIp"
      BY <1>1, <2>2
    <2> QED BY <1>1, <1>2, <1>4, <2>2, <2>3 DEF MarkSteps
  <1>9. FailClears'
    BY <1>2 DEF FailClears, EventAt
  <1>10. SentInSession'
    BY <1>3, <1>5 DEF GivenInv, SentInSession
  <1>11. ClearIsByHand' /\ OffIsQuiet'
    BY <1>1, <1>2, <1>3 DEF GivenInv, ClearIsByHand, OffIsQuiet, MainAt
  <1> QED BY <1>7, <1>8, <1>9, <1>10, <1>11 DEF GivenInv

LEMMA EventGiven ==
  ASSUME WifiIInv, GivenInv, EventStep
  PROVE  GivenInv'
  <1>1. CASE MarkConnected("event", "idle")
    BY <1>1, MarkGiven DEF EventStep
  <1>2. CASE FailSaved
    BY <1>2, FailSavedGiven DEF EventStep
  <1>3. CASE HandleStart \/ HandleCreds \/ HandleDisconnected
    <2>1. /\ \E kind \in {"start", "recv", "success", "disconnected"} : Handled(kind)
          /\ UNCHANGED <<stack, ssidStored, link, creds>> /\ pc' = pc /\ UNCHANGED ssid
      BY <1>3 DEF HandleStart, HandleCreds, HandleDisconnected, networkVars, driverVars,
                  sessionVars
    <2> QED BY <2>1, HandledGiven DEF EventStep
  <1>4. CASE HandleFail
    BY <1>4, HandledGiven DEF HandleFail, EventStep, driverVars
  <1>5. CASE HandleGotIp
    BY <1>5, HandledGiven DEF HandleGotIp, EventStep, networkVars, driverVars, sessionVars
  <1> QED BY <1>1, <1>2, <1>3, <1>4, <1>5 DEF EventStep, EventTask

LEMMA UiGiven ==
  ASSUME WifiIInv, GivenInv, UiIdles \/ UiCancels \/ Clears
  PROVE  GivenInv'
  <1>0. phone = "sent" => stack
    BY DEF GivenInv, SentInSession
  <1>1. CASE UiIdles
    <2>1. pc'.event = pc.event /\ pc'.main = "slept"
      BY <1>1, Parts DEF UiIdles, MainGoes, PcOK
    <2> QED BY <1>0, <1>1, <2>1, GivenLeftAlone
            DEF UiIdles, networkVars, driverVars, sessionVars, wifiHistory, Given, MarkSteps
  <1>2. CASE UiCancels
    <2>1. pc'.event = pc.event /\ pc'.main = "slept"
      BY <1>2, Parts DEF UiCancels, MainGoes, PcOK
    <2> QED BY <1>2, <2>1, GivenLeftAlone
            DEF UiCancels, Cancel, networkVars, driverVars, Given, MarkSteps
  <1>3. CASE UiClearsWifi
    <2>1. /\ pc'.event = pc.event /\ pc'.main = "clearSave"
          /\ UNCHANGED <<stack, events, link, phone>>
      BY <1>3, Parts DEF UiClearsWifi, MainGoes, PcOK, sessionVars
    <2>2. ~stack /\ phone # "sent"
      BY <1>0, <1>3, Parts DEF UiClearsWifi, SessionOK, SessionHasStack
    <2>3. Given' /\ user' = "dropped" /\ ssid' = NoNetwork
      BY <1>3 DEF UiClearsWifi, Given
    <2>4. \A k : Pending(k)' <=> Pending(k)
      BY <2>1 DEF Pending
    <2>5. NetworkWasGiven' /\ SettingsWereGiven' /\ BlobWasGiven' /\ FailClears'
      BY <2>3 DEF NetworkWasGiven, SettingsWereGiven, BlobWasGiven, FailClears
    <2>6. FailIsAlone'
      BY <2>1, <2>4 DEF GivenInv, FailIsAlone, FailUnderWay, EventAt, Connected, MarkSteps
    <2>7. SentInSession' /\ ClearIsByHand' /\ OffIsQuiet'
      BY <2>1, <2>2, <2>3 DEF SentInSession, ClearIsByHand, OffIsQuiet, MainAt
    <2> QED BY <2>5, <2>6, <2>7 DEF GivenInv
  <1>4. CASE ClearSaved
    <2>1. pc'.event = pc.event /\ pc'.main = "slept" /\ user = "dropped"
      BY <1>4, Parts DEF ClearSaved, MainGoes, PcOK, GivenInv, ClearIsByHand
    <2>2. /\ UNCHANGED <<stack, events, link, phone, creds, user, ssid>>
      BY <1>4 DEF ClearSaved, sessionVars, driverVars, SaveSettings
    <2>3. Given'
      BY <2>1, <2>2 DEF Given
    <2>4. \A k : Pending(k)' <=> Pending(k)
      BY <2>2 DEF Pending
    <2>5. NetworkWasGiven' /\ SettingsWereGiven' /\ BlobWasGiven'
      BY <2>3 DEF NetworkWasGiven, SettingsWereGiven, BlobWasGiven
    <2>6. FailIsAlone' /\ FailClears' /\ SentInSession'
      BY <2>1, <2>2, <2>4
         DEF GivenInv, FailIsAlone, FailClears, SentInSession, FailUnderWay, EventAt, Connected,
             MarkSteps
    <2>7. ClearIsByHand' /\ OffIsQuiet'
      BY <2>1 DEF ClearIsByHand, OffIsQuiet, MainAt
    <2> QED BY <2>5, <2>6, <2>7 DEF GivenInv
  <1>5. CASE UiResets
    <2>1. pc'.event = pc.event /\ pc'.main = "resetRam"
      BY <1>5, Parts DEF UiResets, MainGoes, PcOK
    <2>2. ssidStored' \in {ssidStored, NoNetwork}
      BY <1>5 DEF UiResets
    <2>3. UNCHANGED <<ssid, link, creds, events, user, unsaved, phone, stack>>
      BY <1>5 DEF UiResets, sessionVars, driverVars, wifiHistory
    <2> QED BY <1>0, <2>1, <2>2, <2>3, GivenLeftAlone DEF Given, MarkSteps
  <1>6. CASE ResetDefaults
    <2>1. /\ pc'.event = pc.event /\ pc'.main = "slept"
          /\ UNCHANGED <<stack, events, link, phone, creds, ssidStored>>
          /\ ssid' = NoNetwork
          /\ unsaved' = (ssidStored # NoNetwork)
      BY <1>6, Parts DEF ResetDefaults, MainGoes, PcOK, sessionVars, driverVars
    <2>2. Given => Given'
      BY <1>6, <2>1 DEF Given, ResetDefaults
    <2>3. \A k : Pending(k)' <=> Pending(k)
      BY <2>1 DEF Pending
    <2>4. NetworkWasGiven'
      BY <2>1, <2>2, <2>3 DEF GivenInv, NetworkWasGiven, Marking, MarkSteps, Connected
    <2>5. SettingsWereGiven' /\ BlobWasGiven' /\ FailClears'
      BY <1>6, <2>1 DEF SettingsWereGiven, BlobWasGiven, FailClears, Configured, ResetDefaults
    <2>6. FailIsAlone' /\ SentInSession'
      BY <2>1, <2>3
         DEF GivenInv, FailIsAlone, SentInSession, FailUnderWay, EventAt, Connected, MarkSteps
    <2>7. ClearIsByHand' /\ OffIsQuiet'
      BY <2>1 DEF ClearIsByHand, OffIsQuiet, MainAt
    <2> QED BY <2>4, <2>5, <2>6, <2>7 DEF GivenInv
  <1> QED BY <1>1, <1>2, <1>3, <1>4, <1>5, <1>6 DEF Clears
\* What a session that starts posts is no event of a link or of a refusal.
LEMMA StartPosts ==
  ASSUME events \in Seq(Kinds), NEW at, NEW window, Start(at, window),
         NEW kind \in {"fail", "gotIp"}
  PROVE  /\ Pending(kind)' => Pending(kind)
         /\ link' \in {link, NoNetwork}
  <1> DEFINE gone == IF Connected /\ link' = NoNetwork THEN <<"disconnected">> ELSE <<>>
  <1>1. gone \in Seq(Kinds) /\ \A i \in 1 .. Len(gone) : gone[i] # kind
    <2>1. CASE Connected /\ link' = NoNetwork
      BY <2>1, NoneOfThese DEF Kinds
    <2>2. CASE ~(Connected /\ link' = NoNetwork)
      BY <2>2, NoneOfThese
    <2> QED BY <2>1, <2>2
  <1>2. ASSUME NEW posted \in Seq(Kinds), \A i \in 1 .. Len(posted) : posted[i] # kind,
               Disconnects(posted)
        PROVE  /\ Pending(kind)' => Pending(kind)
               /\ link' \in {link, NoNetwork}
    <2> DEFINE es == posted \o gone
    <2>1. events' = (events \o posted) \o gone /\ link' \in {link, NoNetwork}
      BY <1>2 DEF Disconnects
    <2>2. events' = events \o es
      <3>1. gone \in Seq(Kinds)
        BY <1>1
      <3> HIDE DEF gone
      <3> QED BY <1>2, <2>1, <3>1, ConcatAssociative
    <2>3. /\ es \in Seq(Kinds) /\ Len(es) = Len(posted) + Len(gone)
          /\ \A i \in 1 .. Len(posted) + Len(gone) :
               es[i] = IF i <= Len(posted) THEN posted[i] ELSE gone[i - Len(posted)]
      BY <1>1, <1>2, ConcatProperties
    <2>4. Len(posted) \in Nat /\ Len(gone) \in Nat
      BY <1>1, <1>2, LenProperties
    <2> HIDE DEF es, gone
    <2>5. ASSUME NEW i \in 1 .. Len(es) PROVE es[i] # kind
      <3>1. i \in 1 .. Len(posted) + Len(gone)
        BY <2>3
      <3>2. CASE i <= Len(posted)
        BY <1>2, <2>3, <2>4, <3>1, <3>2
      <3>3. CASE ~(i <= Len(posted))
        <4>1. i - Len(posted) \in 1 .. Len(gone)
          BY <2>4, <3>1, <3>3
        <4> QED BY <1>1, <2>3, <3>1, <3>3, <4>1
      <3> QED BY <3>2, <3>3
    <2> QED BY <2>1, <2>2, <2>3, <2>5, PendingPosted
  <1>3. CASE StartRuns(at, window)
    <2>1. <<"start">> \in Seq(Kinds) /\ \A i \in 1 .. Len(<<"start">>) : <<"start">>[i] # kind
      BY NoneOfThese DEF Kinds
    <2> QED BY <1>2, <1>3, <2>1 DEF StartRuns
  <1>4. CASE StartFails(at, window)
    <2>1. <<>> \in Seq(Kinds) /\ \A i \in 1 .. Len(<<>>) : <<>>[i] # kind
      BY NoneOfThese
    <2> QED BY <1>2, <1>4, <2>1 DEF StartFails
  <1>5. CASE StartRefused(at, window)
    BY <1>5 DEF StartRefused, driverVars, Pending
  <1> QED BY <1>3, <1>4, <1>5 DEF Start

LEMMA UiStartsGiven ==
  ASSUME WifiIInv, GivenInv, NEW lag \in UptimeLags, UiStartsSession(lag)
  PROVE  GivenInv'
  <1>1. /\ pc'.event = pc.event /\ pc'.main = "slept"
        /\ user' = "dropped" /\ phone' = "ready" /\ ssid' = ssid
    BY Parts DEF UiStartsSession, MainGoes, PcOK, networkVars
  <1>2. /\ Pending("gotIp")' => Pending("gotIp")
        /\ Pending("fail")' => Pending("fail")
        /\ link' \in {link, NoNetwork}
    BY Parts, StartPosts DEF UiStartsSession, RequestMenuProvisioning, EventsOK
  <1>3. NetworkWasGiven' /\ SettingsWereGiven' /\ BlobWasGiven'
    BY <1>1 DEF NetworkWasGiven, SettingsWereGiven, BlobWasGiven, Given
  <1>4. FailIsAlone' /\ FailClears'
    BY <1>1, <1>2
       DEF GivenInv, FailIsAlone, FailClears, FailUnderWay, EventAt, Connected, MarkSteps
  <1>5. SentInSession' /\ ClearIsByHand' /\ OffIsQuiet'
    BY <1>1 DEF SentInSession, ClearIsByHand, OffIsQuiet, MainAt
  <1> QED BY <1>3, <1>4, <1>5 DEF GivenInv

LEMMA PowerGiven ==
  ASSUME WifiIInv, GivenInv, PowerFails \/ PowerReturns
  PROVE  GivenInv'
  <1>1. CASE PowerFails
    <2>1. \A k : ~Pending(k)'
      BY <1>1, NonePending DEF PowerFails, Pending
    <2>2. ~Connected' /\ ~Marking' /\ ~Configured' /\ ~FailUnderWay'
      BY <1>1, <2>1
         DEF PowerFails, Connected, Marking, Configured, FailUnderWay, EventAt, MarkSteps
    <2> QED BY <1>1, <2>2
            DEF PowerFails, GivenInv, NetworkWasGiven, SettingsWereGiven, BlobWasGiven, Given,
                FailIsAlone, FailClears, SentInSession, ClearIsByHand, OffIsQuiet, MainAt,
                EventAt, Connected
  <1>2. CASE PowerReturns
    <2>1. /\ events = <<>> /\ pc.event = "idle" /\ link = NoNetwork
      BY <1>2 DEF PowerReturns, GivenInv, OffIsQuiet, MainAt, EventAt, Connected
    <2>2. /\ pc'.event = "idle" /\ pc'.main = "slept"
      BY <1>2, <2>1, Parts DEF PowerReturns, MainGoes, PcOK
    <2>3. /\ phone' = "ready" /\ ssid' = ssidStored /\ UNCHANGED <<ssidStored, user, unsaved>>
      BY <1>2 DEF PowerReturns
    <2>4. /\ ~Pending("gotIp")' /\ ~Pending("fail")' /\ link' = NoNetwork
          /\ ssid' = NoNetwork \/ UNCHANGED creds
      <3>1. ASSUME Start(now, BootWindow), ssid' = NoNetwork
            PROVE  ~Pending("gotIp")' /\ ~Pending("fail")' /\ link' = NoNetwork
        <4>1. /\ Pending("gotIp")' => Pending("gotIp")
              /\ Pending("fail")' => Pending("fail")
              /\ link' \in {link, NoNetwork}
          BY <3>1, Parts, StartPosts DEF EventsOK
        <4> QED BY <2>1, <4>1, NonePending
      <3>2. ASSUME UNCHANGED <<creds, link, events>>
            PROVE  ~Pending("gotIp")' /\ ~Pending("fail")' /\ link' = NoNetwork
        BY <2>1, <3>2, NonePending DEF Pending
      <3> QED BY <1>2, <3>1, <3>2 DEF PowerReturns, InitProvisioning
    <2>5. ~Connected' /\ ~Marking' /\ ~FailUnderWay'
      BY <2>2, <2>4 DEF Connected, Marking, FailUnderWay, EventAt, MarkSteps
    <2>6. ssid' = NoNetwork \/ Given' \/ unsaved'
      BY <2>3, <2>4 DEF GivenInv, BlobWasGiven, Given
    <2> QED BY <2>2, <2>3, <2>5, <2>6
            DEF GivenInv, NetworkWasGiven, SettingsWereGiven, BlobWasGiven, Configured,
                FailIsAlone, FailClears, SentInSession, ClearIsByHand, OffIsQuiet, MainAt,
                EventAt
  <1> QED BY <1>1, <1>2

LEMMA OutsideGiven ==
  ASSUME WifiIInv, GivenInv, Outside
  PROVE  GivenInv'
  <1>1. /\ UNCHANGED <<prov, stack, ssid, ssidStored, pc, unsaved>> /\ pc.main # "off"
        /\ events \in Seq(Kinds)
    BY Parts DEF Outside, sessionVars, networkVars, EventsOK
  <1>2. ASSUME Unhurried
        PROVE  /\ ~FailUnderWay /\ ~Marking /\ ~Connected /\ \A k : ~Pending(k)
               /\ pc.event = "idle" /\ pc.main \in {"tick", "ui", "slept"}
    <2>1. \A k : ~Pending(k)
      BY <1>2, NonePending DEF Unhurried
    <2> QED BY <1>2, <2>1 DEF Unhurried, FailUnderWay, Marking, EventAt, MarkSteps
  <1>3. ASSUME NEW es \in Seq(Kinds), Post(es), NEW kind, \A i \in 1 .. Len(es) : es[i] # kind
        PROVE  Pending(kind)' => Pending(kind)
    <2>1. CASE bluedroid
      BY <1>1, <1>3, <2>1, PendingPosted DEF Post
    <2>2. CASE ~bluedroid
      BY <1>3, <2>2 DEF Post, Pending
    <2> QED BY <2>1, <2>2
  <1>4. OffIsQuiet'
    BY <1>1 DEF OffIsQuiet, MainAt
  <1>5. ASSUME NEW n \in Networks, PhoneSends(n) PROVE GivenInv'
    <2>1. /\ Unhurried /\ stack /\ phone' = "sent" /\ creds' = n /\ UNCHANGED link
          /\ Post(<<"recv">>)
      BY <1>5 DEF PhoneSends
    <2>2. n # NoNetwork
      BY ProvAssumption
    <2>3. ~Pending("fail")'
      <3>1. <<"recv">> \in Seq(Kinds) /\ \A i \in 1 .. Len(<<"recv">>) : <<"recv">>[i] # "fail"
        BY NoneOfThese DEF Kinds
      <3> QED BY <1>2, <1>3, <2>1, <3>1
    <2>4. ~FailUnderWay' /\ Given' /\ ~MainAt("clearSave")' /\ ~EventAt("failSave")'
      BY <1>1, <1>2, <2>1, <2>2, <2>3 DEF FailUnderWay, Given, MainAt, EventAt
    <2> QED BY <1>1, <1>4, <2>1, <2>2, <2>4
            DEF GivenInv, NetworkWasGiven, SettingsWereGiven, BlobWasGiven, FailIsAlone,
                FailClears, SentInSession, ClearIsByHand
  <1>6. ASSUME UNCHANGED <<creds, user>>, creds # NoNetwork, ~Pending("fail")', Unhurried,
               phone' = "sent" => phone = "sent"
        PROVE  GivenInv'
    <2>1. ~FailUnderWay' /\ Given' /\ ~MainAt("clearSave")' /\ ~EventAt("failSave")'
      BY <1>1, <1>2, <1>6 DEF FailUnderWay, Given, MainAt, EventAt
    <2>2. SentInSession'
      BY <1>1, <1>6, <2>1 DEF GivenInv, SentInSession
    <2> QED BY <1>1, <1>4, <1>6, <2>1, <2>2
            DEF GivenInv, NetworkWasGiven, SettingsWereGiven, BlobWasGiven, FailIsAlone,
                FailClears, ClearIsByHand
  <1>7. CASE PhoneAccepted
    <2>1. creds # NoNetwork /\ Unhurried /\ UNCHANGED <<creds, user>> /\ phone' = "done"
      BY <1>7 DEF PhoneAccepted, GivenInv, SentInSession
    <2>2. ~Pending("fail")'
      <3>1. ASSUME NEW k \in {"gotIp", "success"}, NEW l \in {"gotIp", "success"}
            PROVE  /\ <<k, l>> \in Seq(Kinds)
                   /\ \A i \in 1 .. Len(<<k, l>>) : <<k, l>>[i] # "fail"
        BY <3>1, NoneOfThese DEF Kinds
      <3> QED BY <1>2, <1>3, <1>7, <2>1, <3>1 DEF PhoneAccepted
    <2> QED BY <1>6, <2>1, <2>2
  <1>8. CASE LinkUp
    <2>1. creds # NoNetwork /\ Unhurried /\ UNCHANGED <<creds, user, phone>> /\ Post(<<"gotIp">>)
      BY <1>8 DEF LinkUp
    <2>2. <<"gotIp">> \in Seq(Kinds) /\ \A i \in 1 .. Len(<<"gotIp">>) : <<"gotIp">>[i] # "fail"
      BY NoneOfThese DEF Kinds
    <2>3. ~Pending("fail")'
      BY <1>2, <1>3, <2>1, <2>2
    <2> QED BY <1>6, <2>1, <2>3
  <1>9. CASE PhoneRefused
    <2>1. Unhurried /\ UNCHANGED <<creds, user, link>> /\ phone' = "failed" /\ Post(<<"fail">>)
      BY <1>9 DEF PhoneRefused
    <2>2. <<"fail">> \in Seq(Kinds) /\ \A i \in 1 .. Len(<<"fail">>) : <<"fail">>[i] # "gotIp"
      BY NoneOfThese DEF Kinds
    <2>3. ~Pending("gotIp")'
      BY <1>2, <1>3, <2>1, <2>2
    <2>4. /\ ~Connected' /\ pc'.event = "idle" /\ pc'.main \in {"tick", "ui", "slept"}
          /\ (Given' <=> Given) /\ ~Marking'
      BY <1>1, <1>2, <2>1, <2>3 DEF Connected, Given, Marking, MarkSteps
    <2>5. FailIsAlone' /\ FailClears' /\ SentInSession' /\ ClearIsByHand' /\ NetworkWasGiven'
      BY <2>1, <2>3, <2>4
         DEF FailIsAlone, FailClears, SentInSession, ClearIsByHand, NetworkWasGiven, EventAt,
             MainAt, MarkSteps
    <2>6. SettingsWereGiven' /\ BlobWasGiven'
      BY <1>1, <2>4 DEF GivenInv, SettingsWereGiven, BlobWasGiven, Configured
    <2> QED BY <1>4, <2>5, <2>6 DEF GivenInv
  <1>10. CASE LinkDown
    <2>1. /\ UNCHANGED <<creds, user, phone>> /\ Connected /\ link' = NoNetwork
          /\ Post(<<"disconnected">>)
      BY <1>10 DEF LinkDown
    <2>2. ASSUME NEW k \in {"fail", "gotIp"} PROVE Pending(k)' => Pending(k)
      <3>1. /\ <<"disconnected">> \in Seq(Kinds)
            /\ \A i \in 1 .. Len(<<"disconnected">>) : <<"disconnected">>[i] # k
        BY NoneOfThese DEF Kinds
      <3> QED BY <1>3, <2>1, <3>1
    <2>3. ~Connected' /\ (Given' <=> Given) /\ (Marking' => Marking) /\ ~FailUnderWay'
      <3>1. ~FailUnderWay
        BY <2>1 DEF GivenInv, FailIsAlone
      <3> QED BY <1>1, <2>1, <2>2, <3>1
              DEF Connected, Given, Marking, FailUnderWay, EventAt, MarkSteps
    <2>4. NetworkWasGiven' /\ SettingsWereGiven' /\ BlobWasGiven'
      BY <1>1, <2>1, <2>3
         DEF GivenInv, NetworkWasGiven, SettingsWereGiven, BlobWasGiven, Configured
    <2>5. FailIsAlone' /\ FailClears' /\ SentInSession' /\ ClearIsByHand'
      BY <1>1, <2>1, <2>3
         DEF GivenInv, FailIsAlone, FailClears, SentInSession, ClearIsByHand, EventAt, MainAt
    <2> QED BY <1>4, <2>4, <2>5 DEF GivenInv
  <1> QED BY <1>5, <1>7, <1>8, <1>9, <1>10 DEF Outside
-----------------------------------------------------------------------------
(* The windows of a session: the invariant behind WindowNotCut,              *)
(* SessionEndsInTime and SuccessIsShown, given the first one.                *)

Age == Since(prov.startedAtMs)
OpenStates == {"Advertising", "Saving", "Succeeded", "Failed"}
Windows == {BootWindow, MenuWindow, SaveWindow}

ActiveIsTimed ==
  prov.active => prov.state \in OpenStates /\ prov.timeoutMs \in Windows
PromiseFits == promised <= Cap /\ (~prov.active => promised = 0)
NoSession == pc.main \in {"clearSave", "resetRam", "off"} => ~prov.active

\* A handler stamps what it heard with millis(), which is ahead of the round.
JustHeard ==
  /\ heard = 0 /\ promised = prov.timeoutMs
  /\ \E lag \in Lags : prov.startedAtMs = (now + lag) % Wrap

NotEarly ==
  promised = 0 \/ heard = Cap \/ JustHeard \/ Age + promised <= heard + prov.timeoutMs

\* While the window of a session is looked at, its beginning does not wrap.
Watched == prov.active /\ (prov.state \in {"Advertising", "Failed"} \/ StartPending)
NotLate ==
  Watched => JustHeard \/ \E lag \in Lags : heard + prov.timeoutMs <= Age + promised + lag
AgeFits ==
  Watched /\ pc.main \in {"finish", "ui", "slept"} => JustHeard \/ Age + MaxLoopMs < Wrap

\* The end of a session that found its network is counted from when it did.
FoundAt == (now - shown) % Wrap
FinishClock ==
  prov.finishAtMs # 0 =>
    shown >= FinishMs \/ \E lag \in Lags : prov.finishAtMs = (FoundAt + (lag + FinishMs)) % Wrap

WindowInv == ActiveIsTimed /\ PromiseFits /\ NoSession /\ NotEarly /\ NotLate /\ AgeFits
ClockInv == WindowInv /\ FinishClock

LEMMA Rounds ==
  /\ MaxLoopMs \in Nat \ {0} /\ MaxLoopMs < Wrap /\ Wrap \in Nat \ {0} /\ Cap \in Nat
  /\ \A d \in LoopMs : d \in Nat \ {0} /\ d <= MaxLoopMs
  /\ \A w \in Windows : w \in Nat \ {0} /\ w \in Times /\ w <= Cap /\ w + MaxLoopMs <= Wrap
  /\ FinishMs \in Nat \ {0} /\ FinishMs <= Cap /\ FinishMs < Wrap
  /\ Lags # {}
  /\ \A lag \in Lags : /\ lag \in Nat /\ lag < Wrap /\ lag + FinishMs < Wrap
                       /\ \A d \in LoopMs : lag <= d
  /\ \A lag \in UptimeLags : lag \in Nat /\ lag + MaxLoopMs < Wrap
  <1>1. MaxLoopMs \in LoopMs /\ \A d \in LoopMs : d <= MaxLoopMs
    BY WindowsAssumption DEF MaxLoopMs
  <1>2. \A d \in LoopMs : d \in Nat \ {0}
    BY WifiAssumption
  <1>3. MaxLoopMs \in Nat \ {0} /\ Wrap \in Nat \ {0} /\ Cap \in Nat
    BY <1>1, <1>2, ClockAssumption, WifiAssumption
  <1>4. \A w \in Windows : w \in Nat \ {0} /\ w \in Times /\ w <= Cap /\ w + MaxLoopMs <= Wrap
    BY ProvAssumption, WindowsAssumption, TimesAreNat DEF Windows
  <1>5. FinishMs \in Nat \ {0} /\ FinishMs <= Cap /\ FinishMs < Wrap
    BY ProvAssumption, WindowsAssumption, TimesAreNat
  <1>6. BootWindow \in Windows
    BY DEF Windows
  <1>7. MaxLoopMs < Wrap
    BY <1>3, <1>4, <1>6
  <1>8. ASSUME NEW lag \in Lags
        PROVE  lag \in Nat /\ lag < Wrap /\ lag + FinishMs < Wrap /\ \A d \in LoopMs : lag <= d
    BY <1>3, <1>5, <1>8, ProvAssumption, WindowsAssumption
  <1> QED BY <1>1, <1>2, <1>3, <1>4, <1>5, <1>7, <1>8, WifiAssumption, WindowsAssumption

\* In the next round, what was stamped ahead of this one is as much younger.
LEMMA AgeOfAhead ==
  ASSUME now \in Times, NEW lag \in Nat, NEW d \in Nat, lag <= d, d < Wrap
  PROVE  (((now + d) % Wrap) - ((now + lag) % Wrap)) % Wrap = d - lag
  <1> DEFINE later == (now + d) % Wrap  ahead == (now + lag) % Wrap
  <1>1. lag < Wrap /\ Wrap \in Nat \ {0} /\ now \in Nat /\ now < Wrap
    BY ClockAssumption, TimesAreNat
  <1>2. later \in Times /\ later = IF now + d < Wrap THEN now + d ELSE now + d - Wrap
    BY ModOfSum
  <1>3. ahead \in Times /\ ahead = IF now + lag < Wrap THEN now + lag ELSE now + lag - Wrap
    BY <1>1, ModOfSum
  <1> HIDE DEF later, ahead
  <1>4. (later - ahead) % Wrap = IF ahead <= later THEN later - ahead ELSE later - ahead + Wrap
    BY <1>2, <1>3, ModOfDifference
  <1>5. (later - ahead) % Wrap = d - lag
    BY <1>1, <1>2, <1>3, <1>4
  <1> QED BY <1>5 DEF later, ahead

\* Time passes, and what it is counted from stays.
LEMMA StartStays ==
  ASSUME now \in Times, NEW s \in Nat, NEW d \in Nat, s + d < Wrap
  PROVE  (((now + d) % Wrap) - (s + d)) % Wrap = (now - s) % Wrap
  <1> DEFINE later == (now + d) % Wrap
  <1>1. d < Wrap /\ s \in Times /\ s + d \in Times /\ now \in Nat /\ now < Wrap
    BY ClockAssumption, TimesAreNat DEF Times
  <1>2. later \in Times /\ later = IF now + d < Wrap THEN now + d ELSE now + d - Wrap
    BY <1>1, ModOfSum
  <1> HIDE DEF later
  <1>3. (later - (s + d)) % Wrap
          = IF s + d <= later THEN later - (s + d) ELSE later - (s + d) + Wrap
    BY <1>1, <1>2, ModOfDifference
  <1>4. (now - s) % Wrap = IF s <= now THEN now - s ELSE now - s + Wrap
    BY <1>1, ModOfDifference
  <1>5. (later - (s + d)) % Wrap = (now - s) % Wrap
    BY <1>1, <1>2, <1>3, <1>4, ClockAssumption
  <1> QED BY <1>5 DEF later

LEMMA SumOfSums ==
  ASSUME NEW t \in Times, NEW a \in Nat, NEW b \in Nat, a + b < Wrap
  PROVE  (((t + a) % Wrap) + b) % Wrap = (t + (a + b)) % Wrap
  <1> DEFINE u == (t + a) % Wrap
  <1>1. a < Wrap /\ b < Wrap /\ t \in Nat /\ t < Wrap /\ Wrap \in Nat \ {0} /\ a + b \in Nat
    BY ClockAssumption, TimesAreNat
  <1>2. u \in Times /\ u = IF t + a < Wrap THEN t + a ELSE t + a - Wrap
    BY <1>1, ModOfSum
  <1> HIDE DEF u
  <1>3. (u + b) % Wrap = IF u + b < Wrap THEN u + b ELSE u + b - Wrap
    BY <1>1, <1>2, ModOfSum
  <1>4. (t + (a + b)) % Wrap = IF t + (a + b) < Wrap THEN t + (a + b) ELSE t + (a + b) - Wrap
    BY <1>1, ModOfSum
  <1>5. u \in Nat /\ u < Wrap
    BY <1>2, TimesAreNat
  <1>6. (u + b) % Wrap = (t + (a + b)) % Wrap
    BY <1>1, <1>2, <1>3, <1>4, <1>5
  <1> QED BY <1>6 DEF u

\* A session in which nothing changes but where the main task is.
LEMMA WindowKept ==
  ASSUME WindowInv, UNCHANGED <<now, heard, promised>>, prov'.startedAtMs = prov.startedAtMs,
         prov'.timeoutMs = prov.timeoutMs, prov'.active = prov.active,
         prov'.active => prov'.state \in OpenStates,
         Watched' => Watched,
         pc'.main \in {"clearSave", "resetRam", "off"} => ~prov'.active,
         Watched' /\ pc'.main \in {"finish", "ui", "slept"} =>
           pc.main \in {"finish", "ui", "slept"} \/ Age + MaxLoopMs < Wrap
  PROVE  WindowInv'
  <1>1. Age' = Age /\ (JustHeard' <=> JustHeard)
    BY DEF Age, Since, JustHeard
  <1>2. ActiveIsTimed' /\ PromiseFits' /\ NoSession'
    BY DEF WindowInv, ActiveIsTimed, PromiseFits, NoSession
  <1>3. NotEarly' /\ NotLate' /\ AgeFits'
    BY <1>1 DEF WindowInv, NotEarly, NotLate, AgeFits
  <1> QED BY <1>2, <1>3 DEF WindowInv

LEMMA WindowClosed ==
  ASSUME ~prov'.active, promised' = 0
  PROVE  WindowInv'
  BY Rounds
     DEF WindowInv, ActiveIsTimed, PromiseFits, NoSession, NotEarly, NotLate, AgeFits, Watched

\* A window begins, a while ago or ahead of this round.
LEMMA WindowBegins ==
  ASSUME prov'.state \in OpenStates, prov'.timeoutMs \in Windows, prov'.active,
         pc'.main \notin {"clearSave", "resetRam", "off"}, heard' = 0,
         \/ JustHeard'
         \/ /\ Age' \in Nat /\ promised' \in Nat /\ Age' + MaxLoopMs < Wrap
            /\ promised' = 0 \/ Age' + promised' <= prov'.timeoutMs
            /\ prov'.timeoutMs <= Age' + promised'
  PROVE  WindowInv'
  <1>1. ActiveIsTimed' /\ PromiseFits' /\ NoSession'
    <2>1. prov'.timeoutMs \in Nat /\ prov'.timeoutMs <= Cap /\ Cap \in Nat
      BY Rounds
    <2>2. promised' <= Cap
      BY <2>1 DEF JustHeard
    <2> QED BY <2>2 DEF ActiveIsTimed, PromiseFits, NoSession
  <1>2. CASE JustHeard'
    BY <1>1, <1>2 DEF WindowInv, NotEarly, NotLate, AgeFits
  <1>3. CASE /\ Age' \in Nat /\ promised' \in Nat /\ Age' + MaxLoopMs < Wrap
             /\ promised' = 0 \/ Age' + promised' <= prov'.timeoutMs
             /\ prov'.timeoutMs <= Age' + promised'
    <2>1. prov'.timeoutMs \in Nat
      BY Rounds
    <2>2. promised' = 0 \/ Age' + promised' <= heard' + prov'.timeoutMs
      BY <1>3, <2>1
    <2>3. PICK lag \in Lags : lag \in Nat
      BY Rounds
    <2>4. heard' + prov'.timeoutMs <= Age' + promised' + lag
      BY <1>3, <2>1, <2>3
    <2> QED BY <1>1, <1>3, <2>2, <2>4 DEF WindowInv, NotEarly, NotLate, AgeFits
  <1> QED BY <1>2, <1>3

LEMMA FinishKept ==
  ASSUME FinishClock, UNCHANGED now, shown' = shown \/ prov'.finishAtMs = 0,
         prov'.finishAtMs \in {0, prov.finishAtMs}
  PROVE  FinishClock'
  BY DEF FinishClock, FoundAt

LEMMA RoundClock ==
  ASSUME WifiIInv, ClockInv, NEW d \in LoopMs, Round(d)
  PROVE  ClockInv'
  <1>1. /\ now' = (now + d) % Wrap /\ UNCHANGED <<prov, promised, events>> /\ events = <<>>
        /\ pc.main = "slept" /\ pc'.main = "tick"
        /\ heard' = IF prov.active THEN Saturate(heard + d) ELSE 0
        /\ shown' = IF prov.finishAtMs > 0 THEN Saturate(shown + d) ELSE 0
    BY Parts DEF Round, MainAt, MainGoes, PcOK, sessionVars
  <1>2. /\ now \in Times /\ heard \in Nat /\ promised \in Nat /\ shown \in Nat
        /\ prov.startedAtMs \in Times /\ prov.finishAtMs \in Times /\ prov.timeoutMs \in Nat
    BY Parts, TimesAreNat DEF HistoryOK, SessionOK, ManagerType
  <1>3. d \in Nat \ {0} /\ d <= MaxLoopMs /\ d < Wrap /\ MaxLoopMs \in Nat /\ Wrap \in Nat
          /\ Cap \in Nat /\ FinishMs \in Nat /\ FinishMs <= Cap /\ FinishMs < Wrap
    BY Rounds
  <1>4. ActiveIsTimed' /\ PromiseFits' /\ NoSession' /\ AgeFits'
    BY <1>1 DEF ClockInv, WindowInv, ActiveIsTimed, PromiseFits, NoSession, AgeFits
  <1>5. /\ Age \in Nat /\ Age' \in Nat /\ Age' <= Age + d
        /\ Age + d < Wrap => Age' = Age + d
    <2>1. Age \in Nat
      BY <1>2, SinceIs DEF Age
    <2>2. Age' = (((now + d) % Wrap) - prov.startedAtMs) % Wrap
      BY <1>1 DEF Age, Since
    <2>3. Age' \in Nat /\ Age' <= Age + d
      BY <1>2, <1>3, <2>2, SinceAtMost DEF Age
    <2>4. Age + d < Wrap => Age' = Age + d
      BY <1>2, <1>3, <2>2, SinceGrows DEF Age
    <2> QED BY <2>1, <2>3, <2>4
  <1>6. ASSUME JustHeard
        PROVE  \E lag \in Lags : lag \in Nat /\ Age' = d - lag
    <2>1. PICK lag \in Lags : prov.startedAtMs = (now + lag) % Wrap
      BY <1>6 DEF JustHeard
    <2>2. lag \in Nat /\ lag <= d
      BY Rounds
    <2>3. Age' = d - lag
      BY <1>1, <1>2, <1>3, <2>1, <2>2, AgeOfAhead DEF Age, Since
    <2> QED BY <2>2, <2>3
  <1>7. /\ heard' \in Nat /\ heard' <= heard + d
        /\ prov.active => heard' = heard + d \/ heard' = Cap
    BY <1>1, <1>2, <1>3 DEF Saturate
  <1>8. NotEarly'
    <2>1. SUFFICES ASSUME promised # 0, heard' # Cap
                   PROVE  Age' + promised <= heard' + prov.timeoutMs
      BY <1>1 DEF NotEarly
    <2>2. prov.active
      BY <2>1 DEF ClockInv, WindowInv, PromiseFits
    <2>3. heard' = heard + d
      BY <1>7, <2>1, <2>2
    <2>4. heard # Cap
      BY <1>1, <1>2, <1>3, <2>1, <2>2 DEF Saturate
    <2>5. CASE JustHeard
      <3>1. heard = 0 /\ promised = prov.timeoutMs
        BY <2>5 DEF JustHeard
      <3> QED BY <1>2, <1>3, <1>5, <1>6, <2>3, <2>5, <3>1
    <2>6. CASE Age + promised <= heard + prov.timeoutMs
      BY <1>2, <1>3, <1>5, <2>3, <2>6
    <2> QED BY <2>1, <2>4, <2>5, <2>6 DEF ClockInv, WindowInv, NotEarly
  <1>9. NotLate'
    <2>1. SUFFICES ASSUME Watched'
                   PROVE  \E lag \in Lags : heard' + prov.timeoutMs <= Age' + promised + lag
      BY <1>1 DEF NotLate
    <2>2. Watched
      BY <1>1, <2>1 DEF Watched, StartPending, Pending
    <2>3. CASE JustHeard
      <3>1. PICK lag \in Lags : lag \in Nat /\ Age' = d - lag
        BY <1>6, <2>3
      <3>2. heard = 0 /\ promised = prov.timeoutMs
        BY <2>3 DEF JustHeard
      <3>3. heard' + prov.timeoutMs <= Age' + promised + lag
        BY <1>2, <1>3, <1>7, <3>1, <3>2
      <3> QED BY <3>3
    <2>4. CASE ~JustHeard
      <3>1. PICK lag \in Lags : heard + prov.timeoutMs <= Age + promised + lag
        BY <2>2, <2>4 DEF ClockInv, WindowInv, NotLate
      <3>2. Age + MaxLoopMs < Wrap
        BY <1>1, <2>2, <2>4 DEF ClockInv, WindowInv, AgeFits
      <3>3. Age' = Age + d
        BY <1>3, <1>5, <3>2
      <3>4. lag \in Nat
        BY Rounds
      <3>5. heard' + prov.timeoutMs <= Age' + promised + lag
        BY <1>2, <1>3, <1>5, <1>7, <3>1, <3>3, <3>4
      <3> QED BY <3>5
    <2> QED BY <2>3, <2>4
  <1>10. FinishClock'
    <2>1. SUFFICES ASSUME prov.finishAtMs # 0, shown' < FinishMs
                   PROVE  \E lag \in Lags :
                            prov.finishAtMs = (FoundAt' + (lag + FinishMs)) % Wrap
      <3>1. shown' \in Nat
        BY <1>1, <1>2, <1>3 DEF Saturate
      <3> QED BY <1>1, <1>3, <3>1 DEF FinishClock
    <2>2. shown' = shown + d /\ shown < FinishMs
      <3>1. prov.finishAtMs > 0
        BY <1>2, <2>1, TimesAreNat
      <3> QED BY <1>1, <1>2, <1>3, <2>1, <3>1 DEF Saturate
    <2>3. FoundAt' = FoundAt
      <3>1. shown + d < Wrap
        BY <1>2, <1>3, <2>1, <2>2
      <3> QED BY <1>1, <1>2, <1>3, <2>2, <3>1, StartStays DEF FoundAt
    <2>4. PICK lag \in Lags : prov.finishAtMs = (FoundAt + (lag + FinishMs)) % Wrap
      BY <1>2, <1>3, <2>1, <2>2 DEF ClockInv, FinishClock
    <2> QED BY <2>3, <2>4
  <1> QED BY <1>4, <1>8, <1>9, <1>10 DEF ClockInv, WindowInv

LEMMA ClockTypes ==
  ASSUME WifiIInv
  PROVE  /\ now \in Times /\ heard \in Nat /\ promised \in Nat /\ shown \in Nat
         /\ prov \in ManagerType /\ prov.startedAtMs \in Times /\ prov.finishAtMs \in Times
         /\ prov.timeoutMs \in Nat /\ Age \in Nat
  <1>1. /\ now \in Times /\ heard \in Nat /\ promised \in Nat /\ shown \in Nat
        /\ prov \in ManagerType
    BY Parts DEF HistoryOK, SessionOK
  <1>2. prov.startedAtMs \in Times /\ prov.finishAtMs \in Times /\ prov.timeoutMs \in Nat
    BY <1>1, TimesAreNat DEF ManagerType
  <1>3. Age \in Nat
    BY <1>1, <1>2, SinceIs DEF Age
  <1> QED BY <1>1, <1>2, <1>3

\* What a step of markConnected does to the session.
LEMMA MarkSession ==
  ASSUME WifiIInv, NEW task, NEW last, MarkConnected(task, last)
  PROVE  /\ prov'.active = prov.active /\ prov'.state \in {prov.state, "Succeeded"}
         /\ prov'.startedAtMs = prov.startedAtMs /\ prov'.timeoutMs = prov.timeoutMs
         /\ prov.active /\ pc[task] = "succeed" => prov'.state = "Succeeded"
         /\ \/ prov'.finishAtMs \in {0, prov.finishAtMs}
            \/ /\ prov.finishAtMs = 0
               /\ \E lag \in Lags : prov'.finishAtMs = (((now + lag) % Wrap) + FinishMs) % Wrap
  <1>1. prov \in ManagerType
    BY ClockTypes
  <1>2. CASE UNCHANGED sessionVars /\ pc[task] # "succeed"
    BY <1>2 DEF sessionVars
  <1>3. ASSUME NEW lag \in Lags, Succeed((now + lag) % Wrap), prov.active
        PROVE  /\ prov'.active = prov.active /\ prov'.state = "Succeeded"
               /\ prov'.startedAtMs = prov.startedAtMs /\ prov'.timeoutMs = prov.timeoutMs
               /\ prov'.finishAtMs = FinishAt((now + lag) % Wrap)
    BY <1>1, <1>3 DEF Succeed, ManagerType
  <1>4. ASSUME NEW lag \in Lags, Succeed((now + lag) % Wrap), ~prov.active
        PROVE  /\ prov'.active = prov.active /\ prov'.state = "Succeeded"
               /\ prov'.startedAtMs = prov.startedAtMs /\ prov'.timeoutMs = prov.timeoutMs
               /\ prov'.finishAtMs \in {0, prov.finishAtMs}
    BY <1>1, <1>4 DEF Succeed, ManagerType, StopProvisioning, sessionVars
  <1>5. CASE \E lag \in Lags : Succeed((now + lag) % Wrap)
    BY <1>3, <1>4, <1>5 DEF FinishAt
  <1> QED BY <1>2, <1>5 DEF MarkConnected

LEMMA MarkClock ==
  ASSUME WifiIInv, ClockInv, Remembered,
         MarkConnected("main", "finish") \/ MarkConnected("event", "idle")
  PROVE  ClockInv'
  <1>1. PICK task \in {"main", "event"} :
          /\ \E last : MarkConnected(task, last)
          /\ pc'.main # pc.main => task = "main"
          /\ pc'.main \notin {pc.main, "finish"} => pc'.main \in {"copy", "save", "succeed"}
          /\ pc'.main = "finish" => pc[task] = "succeed" \/ pc.main = "finish"
          /\ pc.main = "tick" => pc'.main = "tick"
    <2>1. CASE MarkConnected("main", "finish")
      BY <2>1, Parts DEF MarkConnected, PcOK
    <2>2. CASE MarkConnected("event", "idle")
      BY <2>2, Parts DEF MarkConnected, PcOK
    <2> QED BY <2>1, <2>2
  <1>2. UNCHANGED <<now, events>> /\ ~Renewed
    BY <1>1 DEF MarkConnected, Remembered, Renewed, MainAt
  <1>3. /\ prov'.active = prov.active /\ prov'.state \in {prov.state, "Succeeded"}
        /\ prov'.startedAtMs = prov.startedAtMs /\ prov'.timeoutMs = prov.timeoutMs
        /\ prov.active /\ pc[task] = "succeed" => prov'.state = "Succeeded"
        /\ \/ prov'.finishAtMs \in {0, prov.finishAtMs}
           \/ /\ prov.finishAtMs = 0
              /\ \E lag \in Lags : prov'.finishAtMs = (((now + lag) % Wrap) + FinishMs) % Wrap
    BY <1>1, MarkSession
  <1>4. ASSUME ~prov.active PROVE WindowInv'
    BY <1>3, <1>4, WindowClosed DEF Remembered
  <1>5. ASSUME prov.active PROVE WindowInv'
    <2>1. UNCHANGED <<heard, promised>>
      BY <1>2, <1>3, <1>5 DEF Remembered
    <2>2. StartPending' => StartPending /\ MainAt("slept")
      BY <1>2, Parts DEF StartPending, Pending, EventsOK, StartIsAwaited
    <2>3. Watched' => Watched
      BY <1>3, <2>2 DEF Watched
    <2>4. pc'.main \notin {"clearSave", "resetRam", "off"}
      BY <1>1, <1>5 DEF ClockInv, WindowInv, NoSession
    <2>5. Watched' /\ pc'.main \in {"finish", "ui", "slept"} =>
            pc.main \in {"finish", "ui", "slept"}
      <3>1. ASSUME Watched', pc'.main = "finish", pc[task] = "succeed" PROVE MainAt("slept")
        BY <1>3, <1>5, <2>2, <3>1 DEF Watched
      <3> QED BY <1>1, <3>1 DEF MainAt
    <2>6. prov'.state \in OpenStates
      BY <1>3, <1>5 DEF ClockInv, WindowInv, ActiveIsTimed, OpenStates
    <2> QED BY <1>2, <1>3, <2>1, <2>3, <2>4, <2>5, <2>6, WindowKept DEF ClockInv
  <1>6. FinishClock'
    <2>1. CASE prov'.finishAtMs \in {0, prov.finishAtMs}
      <3>1. shown' = shown \/ prov'.finishAtMs = 0
        BY <2>1 DEF Remembered
      <3> QED BY <1>2, <2>1, <3>1, FinishKept DEF ClockInv
    <2>2. ASSUME NEW lag \in Lags, prov'.finishAtMs = (((now + lag) % Wrap) + FinishMs) % Wrap,
                 prov.finishAtMs = 0, prov'.finishAtMs # 0
          PROVE  FinishClock'
      <3>1. now \in Times /\ lag \in Nat /\ FinishMs \in Nat /\ lag + FinishMs < Wrap
        BY ClockTypes, Rounds
      <3>2. prov'.finishAtMs = (now + (lag + FinishMs)) % Wrap
        BY <2>2, <3>1, SumOfSums
      <3>3. shown' = 0 /\ now' = now
        BY <1>2, <2>2 DEF Remembered
      <3>4. (now - 0) % Wrap = now
        BY <3>1, ModWithin, TimesAreNat
      <3>5. FoundAt' = now
        BY <3>3, <3>4 DEF FoundAt
      <3> QED BY <3>2, <3>5 DEF FinishClock
    <2> QED BY <1>3, <2>1, <2>2
  <1> QED BY <1>4, <1>5, <1>6 DEF ClockInv

\* tick, but for markConnected.
LEMMA TickClock ==
  ASSUME WifiIInv, ClockInv, Tick, Remembered
  PROVE  ClockInv'
  <1>1. /\ UNCHANGED <<now, events>> /\ pc \in [main : MainSteps, event : EventSteps]
        /\ prov \in ManagerType
        /\ Renewed <=> /\ MainAt("tick") /\ ~MainAt("tick")' /\ ~Connected
                       /\ prov.active /\ prov.state = "Saving" /\ WindowOver
    BY Parts DEF Tick, TickConnected, TickFinishes, TickIdles, TickWaits, TickExtends,
                 TickTimesOut, Remembered, Renewed, PcOK, SessionOK
  <1>2. FinishClock'
    <2>1. prov'.finishAtMs \in {0, prov.finishAtMs}
      BY <1>1 DEF Tick, TickConnected, TickFinishes, TickIdles, TickWaits, TickExtends,
                  TickTimesOut, TimedOut, StopProvisioning, ManagerType, sessionVars
    <2>2. shown' = shown \/ prov'.finishAtMs = 0
      BY <2>1 DEF Remembered
    <2> QED BY <1>1, <2>1, <2>2, FinishKept DEF ClockInv
  <1>3. ASSUME ~prov'.active PROVE WindowInv'
    BY <1>3, WindowClosed DEF Remembered
  <1>4. ASSUME prov' = prov, prov.active, ~Renewed,
               pc'.main \in {"mark", "ui"},
               Watched' /\ pc'.main = "ui" => pc.main = "finish" \/ Age + MaxLoopMs < Wrap
        PROVE  WindowInv'
    <2>1. UNCHANGED <<heard, promised>>
      BY <1>4 DEF Remembered
    <2>2. Watched' => Watched
      BY <1>1, <1>4 DEF Watched, StartPending, Pending
    <2>3. prov'.state \in OpenStates
      BY <1>4 DEF ClockInv, WindowInv, ActiveIsTimed
    <2> QED BY <1>1, <1>4, <2>1, <2>2, <2>3, WindowKept DEF ClockInv
  <1>5. CASE TickConnected
    <2>1. prov' = prov /\ pc'.main = "mark" /\ ~Renewed
      BY <1>1, <1>5 DEF TickConnected, MainGoes, sessionVars
    <2>2. WindowInv'
      BY <1>3, <1>4, <2>1
    <2> QED BY <1>2, <2>2 DEF ClockInv
  <1>6. CASE TickFinishes
    <2>1. pc.main = "finish" /\ pc'.main = "ui" /\ ~Renewed
      BY <1>1, <1>6 DEF TickFinishes, MainGoes, MainAt
    <2>2. prov' = prov \/ ~prov'.active
      BY <1>1, <1>6 DEF TickFinishes, sessionVars, StopProvisioning, ManagerType
    <2>3. WindowInv'
      BY <1>3, <1>4, <2>1, <2>2
    <2> QED BY <1>2, <2>3 DEF ClockInv
  <1>7. CASE TickIdles
    <2>1. ~prov'.active
      BY <1>1, <1>7 DEF TickIdles, ManagerType
    <2> QED BY <1>2, <1>3, <2>1 DEF ClockInv
  <1>8. CASE TickWaits
    <2>1. prov' = prov /\ pc'.main = "ui" /\ ~Renewed /\ prov.active /\ ~WindowOver
      BY <1>1, <1>8 DEF TickWaits, MainGoes, sessionVars
    <2>2. prov.timeoutMs \in Windows
      BY <2>1 DEF ClockInv, WindowInv, ActiveIsTimed
    <2>3. Age + MaxLoopMs < Wrap
      <3>1. prov.timeoutMs \in Nat \ {0} /\ prov.timeoutMs + MaxLoopMs <= Wrap
        BY <2>2, Rounds
      <3>2. Age < prov.timeoutMs
        BY <2>1, <3>1, ClockTypes DEF WindowOver, Age
      <3> QED BY <3>1, <3>2, ClockTypes, Rounds
    <2>4. WindowInv'
      BY <1>4, <2>1, <2>3
    <2> QED BY <1>2, <2>4 DEF ClockInv
  <1>9. CASE TickExtends
    <2>1. /\ Renewed /\ prov' = [prov EXCEPT !.startedAtMs = now, !.timeoutMs = SaveWindow]
          /\ prov.active /\ prov.state = "Saving" /\ pc'.main = "ui"
      BY <1>1, <1>9 DEF TickExtends, MainGoes, MainAt
    <2>2. /\ prov'.active /\ prov'.state = "Saving" /\ prov'.startedAtMs = now
          /\ prov'.timeoutMs = SaveWindow
      BY <1>1, <2>1 DEF ManagerType
    <2>3. heard' = 0 /\ promised' = SaveWindow
      BY <2>1, <2>2 DEF Remembered
    <2>4. Age' = 0
      BY <1>1, <2>2, ClockTypes, SinceNow DEF Age, Since
    <2>5. SaveWindow \in Nat /\ 0 + MaxLoopMs < Wrap /\ SaveWindow \in Windows
      <3>1. SaveWindow \in Windows
        BY DEF Windows
      <3> QED BY <3>1, Rounds
    <2>6. WindowInv'
      BY <2>1, <2>2, <2>3, <2>4, <2>5, WindowBegins DEF OpenStates
    <2> QED BY <1>2, <2>6 DEF ClockInv
  <1>10. CASE TickTimesOut
    <2>1. ~prov'.active
      BY <1>1, <1>10 DEF TickTimesOut, TimedOut, StopProvisioning, ManagerType
    <2> QED BY <1>2, <1>3, <2>1 DEF ClockInv
  <1> QED BY <1>5, <1>6, <1>7, <1>8, <1>9, <1>10 DEF Tick

\* The event task: what it hears begins a window, ahead of the round.
LEMMA EventClock ==
  ASSUME WifiIInv, ClockInv, EventStep
  PROVE  ClockInv'
  <1>0. Remembered /\ EventTask
    BY DEF EventStep
  <1>1. /\ now' = now /\ pc \in [main : MainSteps, event : EventSteps] /\ prov \in ManagerType
        /\ events \in Seq(Kinds)
    BY <1>0, Parts DEF Remembered, PcOK, SessionOK, EventsOK
  <1>2. CASE MarkConnected("event", "idle")
    BY <1>0, <1>2, MarkClock
  <1>3. ASSUME pc'.main = pc.main, prov'.finishAtMs = prov.finishAtMs,
               prov'.startedAtMs = prov.startedAtMs, prov'.timeoutMs = prov.timeoutMs,
               prov'.active = prov.active, prov.active => prov'.state \in OpenStates,
               ~Renewed, Watched' => Watched
        PROVE  ClockInv'
    <2>1. FinishClock'
      BY <1>0, <1>1, <1>3, FinishKept DEF ClockInv, Remembered
    <2>2. ASSUME prov.active PROVE WindowInv'
      <3>1. UNCHANGED <<heard, promised>>
        BY <1>0, <1>3, <2>2 DEF Remembered
      <3>2. pc'.main \notin {"clearSave", "resetRam", "off"}
        BY <1>3, <2>2 DEF ClockInv, WindowInv, NoSession
      <3> QED BY <1>1, <1>3, <2>2, <3>1, <3>2, WindowKept DEF ClockInv
    <2>3. ASSUME ~prov.active PROVE WindowInv'
      BY <1>0, <1>3, <2>3, WindowClosed DEF Remembered
    <2> QED BY <2>1, <2>2, <2>3 DEF ClockInv
  <1>4. ASSUME NEW kind, Handled(kind)
        PROVE  /\ Head(events) = kind /\ (StartPending' => StartPending)
               /\ kind = "start" => StartPending /\ MainAt("slept") /\ prov.active
               /\ events' # events
    <2>1. events' = Tail(events) /\ events # <<>> /\ Head(events) = kind
      BY <1>4 DEF Handled
    <2>2. Len(events') = Len(events) - 1 /\ Len(events) \in Nat
      BY <1>1, <2>1, HeadTailProperties, LenProperties
    <2>3. events' # events
      BY <2>2
    <2>4. (StartPending' => StartPending) /\ (kind = "start" => StartPending)
      BY <1>1, <1>4, EventTaken
    <2> QED BY <2>1, <2>3, <2>4, Parts DEF EventsOK, StartIsAwaited
  <1>5. CASE HandleStart
    <2>1. Head(events) = "start" /\ StartPending /\ MainAt("slept") /\ prov.active
      BY <1>4, <1>5 DEF HandleStart
    <2>2. pc' = pc /\ prov' = [prov EXCEPT !.active = TRUE, !.state = "Advertising"]
      BY <1>5 DEF HandleStart
    <2>3. ~Renewed /\ Watched
      BY <2>1 DEF Renewed, Watched, MainAt
    <2>4. /\ prov'.finishAtMs = prov.finishAtMs /\ prov'.startedAtMs = prov.startedAtMs
          /\ prov'.timeoutMs = prov.timeoutMs /\ prov'.active = prov.active
          /\ prov'.state = "Advertising"
      BY <1>1, <2>1, <2>2 DEF ManagerType
    <2> QED BY <1>3, <2>2, <2>3, <2>4 DEF OpenStates
  <1>6. ASSUME prov' = prov, pc'.main = pc.main, events' = events \/ ~Renewed,
               StartPending' => StartPending
        PROVE  ClockInv'
    <2>1. ~Renewed
      BY <1>6 DEF Renewed, MainAt
    <2>2. Watched' => Watched
      BY <1>6 DEF Watched
    <2>3. prov.active => prov'.state \in OpenStates
      BY <1>6 DEF ClockInv, WindowInv, ActiveIsTimed
    <2> QED BY <1>3, <1>6, <2>1, <2>2, <2>3
  <1>7. CASE FailSaved
    <2>1. prov' = prov /\ pc'.main = pc.main /\ events' = events
      BY <1>1, <1>7 DEF FailSaved, sessionVars, EventGoes
    <2> QED BY <1>6, <2>1 DEF StartPending, Pending
  <1>8. CASE HandleGotIp \/ HandleDisconnected
    <2>1. PICK kind \in {"gotIp", "disconnected"} : Handled(kind)
      BY <1>8 DEF HandleGotIp, HandleDisconnected
    <2>2. prov' = prov /\ pc'.main = pc.main
      BY <1>1, <1>8 DEF HandleGotIp, HandleDisconnected, sessionVars, EventGoes
    <2>3. Head(events) = kind /\ (StartPending' => StartPending)
      BY <1>4, <2>1
    <2>4. ~Renewed
      BY <2>2, <2>3 DEF Renewed, MainAt
    <2> QED BY <1>6, <2>2, <2>3, <2>4
  <1>9. CASE HandleCreds \/ HandleFail
    <2>1. PICK kind \in {"recv", "success", "fail"} : Handled(kind)
      BY <1>9 DEF HandleCreds, HandleFail
    <2>2. PICK st \in {"Saving", "Failed"}, lag \in Lags :
            prov' = Heard(st, (now + lag) % Wrap)
      BY <1>9 DEF HandleCreds, HandleFail
    <2>3. /\ prov'.state \in OpenStates /\ prov'.timeoutMs = SaveWindow
          /\ prov'.active = prov.active /\ prov'.startedAtMs = (now + lag) % Wrap
          /\ prov'.finishAtMs = prov.finishAtMs
      BY <1>1, <2>2 DEF Heard, ManagerType, OpenStates
    <2>4. Renewed
      BY <1>4, <2>1 DEF Renewed
    <2>5. FinishClock'
      BY <1>0, <1>1, <2>3, FinishKept DEF ClockInv, Remembered
    <2>6. pc'.main = pc.main
      BY <1>1, <1>9 DEF HandleCreds, HandleFail, EventGoes
    <2>7. ASSUME prov.active PROVE WindowInv'
      <3>1. heard' = 0 /\ promised' = SaveWindow
        BY <1>0, <2>3, <2>4, <2>7 DEF Remembered
      <3>2. JustHeard'
        BY <1>1, <2>3, <3>1 DEF JustHeard
      <3>3. pc'.main \notin {"clearSave", "resetRam", "off"}
        BY <2>6, <2>7 DEF ClockInv, WindowInv, NoSession
      <3> QED BY <2>3, <2>7, <3>1, <3>2, <3>3, WindowBegins DEF Windows
    <2>8. ASSUME ~prov.active PROVE WindowInv'
      BY <1>0, <2>3, <2>8, WindowClosed DEF Remembered
    <2> QED BY <2>5, <2>7, <2>8 DEF ClockInv
  <1> QED BY <1>0, <1>2, <1>5, <1>7, <1>8, <1>9 DEF EventTask

\* The commands of the user interface but the one that begins a session.
LEMMA UiClock ==
  ASSUME WifiIInv, ClockInv, UiIdles \/ UiCancels \/ Clears
  PROVE  ClockInv'
  <1>1. /\ UNCHANGED <<now, events>> /\ pc \in [main : MainSteps, event : EventSteps]
        /\ prov \in ManagerType /\ shown' = shown
    BY Parts DEF UiIdles, UiCancels, Cancel, Clears, UiClearsWifi, ClearSaved, UiResets,
                 ResetDefaults, PcOK, SessionOK, wifiHistory
  <1>2. CASE UiCancels
    <2>1. ~prov'.active /\ promised' = 0 /\ prov'.finishAtMs \in {0, prov.finishAtMs}
      BY <1>1, <1>2 DEF UiCancels, Cancel, StopProvisioning, ManagerType
    <2> QED BY <1>1, <2>1, WindowClosed, FinishKept DEF ClockInv
  <1>3. CASE UiIdles \/ Clears
    <2>1. UNCHANGED <<prov, heard, promised>>
      BY <1>3 DEF UiIdles, Clears, UiClearsWifi, ClearSaved, UiResets, ResetDefaults,
                  sessionVars, wifiHistory
    <2>2. FinishClock'
      BY <1>1, <2>1, FinishKept DEF ClockInv
    <2>3. ASSUME ~prov.active PROVE WindowInv'
      <3>1. promised = 0
        BY <2>3 DEF ClockInv, WindowInv, PromiseFits
      <3> QED BY <2>1, <2>3, <3>1, WindowClosed
    <2>4. ASSUME prov.active PROVE WindowInv'
      <3>1. UiIdles
        BY <1>3, <2>4 DEF Clears, UiClearsWifi, ClearSaved, UiResets, ResetDefaults, MainAt,
                          ClockInv, WindowInv, NoSession
      <3>2. pc.main = "ui" /\ pc'.main = "slept"
        BY <1>1, <3>1 DEF UiIdles, MainAt, MainGoes
      <3>3. Watched' => Watched
        BY <1>1, <2>1 DEF Watched, StartPending, Pending
      <3>4. prov'.state \in OpenStates
        BY <2>1, <2>4 DEF ClockInv, WindowInv, ActiveIsTimed
      <3> QED BY <1>1, <2>1, <3>2, <3>3, <3>4, WindowKept DEF ClockInv
    <2> QED BY <2>2, <2>3, <2>4 DEF ClockInv
  <1> QED BY <1>2, <1>3

\* A session begins, or is refused.
LEMMA StartBegins ==
  ASSUME prov \in ManagerType, NEW at \in Times, NEW window \in Times, Start(at, window)
  PROVE  /\ prov'.startedAtMs = at /\ prov'.timeoutMs = window /\ prov'.finishAtMs = 0
         /\ prov'.active => prov'.state = "Advertising"
  BY DEF Start, StartRuns, StartFails, StartRefused, Opened, StopProvisioning, ManagerType

LEMMA UiStartsClock ==
  ASSUME WifiIInv, ClockInv, NEW lag \in UptimeLags, UiStartsSession(lag)
  PROVE  ClockInv'
  <1> DEFINE at == (now - lag) % Wrap
  <1>1. /\ now \in Times /\ prov \in ManagerType /\ now' = now
        /\ pc \in [main : MainSteps, event : EventSteps]
    BY Parts DEF UiStartsSession, HistoryOK, SessionOK, PcOK
  <1>2. lag \in Nat /\ lag + MaxLoopMs < Wrap /\ MaxLoopMs \in Nat /\ Wrap \in Nat \ {0}
    BY Rounds
  <1>3. MenuWindow \in Windows /\ MenuWindow \in Nat /\ MenuWindow \in Times
    <2>1. MenuWindow \in Windows
      BY DEF Windows
    <2> QED BY <2>1, Rounds
  <1>4. now - lag \in Int
    BY <1>1, <1>2, TimesAreNat
  <1>5. at \in Times
    BY <1>4, ModInTimes
  <1>6. /\ prov'.startedAtMs = at /\ prov'.timeoutMs = MenuWindow /\ prov'.finishAtMs = 0
        /\ prov'.active => prov'.state = "Advertising"
    <2>1. Start(at, MenuWindow)
      BY DEF UiStartsSession, RequestMenuProvisioning
    <2> HIDE DEF at
    <2> QED BY <1>1, <1>3, <1>5, <2>1, StartBegins
  <1>7. pc'.main = "slept"
    BY <1>1 DEF UiStartsSession, MainGoes
  <1>8. FinishClock'
    BY <1>6 DEF FinishClock
  <1>9. ASSUME prov'.active PROVE WindowInv'
    <2>1. Age' = lag
      <3>1. lag < Wrap /\ lag \in Times
        BY <1>2 DEF Times
      <3>2. now - lag = now - lag /\ at = IF lag <= now THEN now - lag ELSE now - lag + Wrap
        BY <1>1, <3>1, ModOfDifference
      <3> HIDE DEF at
      <3>3. (now - at) % Wrap = IF at <= now THEN now - at ELSE now - at + Wrap
        BY <1>1, <1>5, ModOfDifference
      <3>4. (now - at) % Wrap = lag
        BY <1>1, <1>2, <1>5, <3>1, <3>2, <3>3, TimesAreNat
      <3> QED BY <1>1, <1>6, <3>4 DEF Age, Since
    <2>2. heard' = 0 /\ promised' = IF lag < MenuWindow THEN MenuWindow - lag ELSE 0
      BY <1>9 DEF UiStartsSession
    <2>3. /\ promised' \in Nat
          /\ promised' = 0 \/ lag + promised' <= MenuWindow
          /\ MenuWindow <= lag + promised'
      BY <1>2, <1>3, <2>2
    <2> QED BY <1>2, <1>3, <1>6, <1>7, <1>9, <2>1, <2>2, <2>3, WindowBegins DEF OpenStates
  <1>10. ASSUME ~prov'.active PROVE WindowInv'
    <2>1. promised' = 0
      BY <1>10 DEF UiStartsSession
    <2> QED BY <1>10, <2>1, WindowClosed
  <1> QED BY <1>8, <1>9, <1>10 DEF ClockInv

\* The power fails, and returns.
LEMMA PowerClock ==
  ASSUME WifiIInv, ClockInv, PowerFails \/ PowerReturns
  PROVE  ClockInv'
  <1>1. CASE PowerFails
    <2>1. ~prov'.active /\ promised' = 0 /\ prov'.finishAtMs = 0
      BY <1>1 DEF PowerFails, Fresh
    <2> QED BY <2>1, WindowClosed DEF ClockInv, FinishClock
  <1>2. CASE PowerReturns
    <2>1. /\ now \in Times /\ prov \in ManagerType /\ now' = now /\ shown' = shown
          /\ pc \in [main : MainSteps, event : EventSteps]
      BY <1>2, Parts DEF PowerReturns, HistoryOK, SessionOK, PcOK
    <2>2. ~prov.active /\ pc'.main = "slept"
      BY <1>2, <2>1 DEF PowerReturns, MainAt, MainGoes, ClockInv, WindowInv, NoSession
    <2>3. heard' = 0 /\ promised' = IF prov'.active THEN BootWindow ELSE 0
      BY <1>2 DEF PowerReturns
    <2>4. BootWindow \in Windows /\ BootWindow \in Nat /\ BootWindow \in Times
            /\ 0 + MaxLoopMs < Wrap
      <3>1. BootWindow \in Windows
        BY DEF Windows
      <3> QED BY <3>1, Rounds
    <2>5. ASSUME ~prov'.active PROVE WindowInv'
      BY <2>3, <2>5, WindowClosed
    <2>6. CASE Start(now, BootWindow)
      <3>1. /\ prov'.startedAtMs = now /\ prov'.timeoutMs = BootWindow /\ prov'.finishAtMs = 0
            /\ prov'.active => prov'.state = "Advertising"
        BY <2>1, <2>4, <2>6, StartBegins
      <3>2. Age' = 0
        BY <2>1, <3>1, SinceNow DEF Age, Since
      <3>3. ASSUME prov'.active PROVE WindowInv'
        BY <2>2, <2>3, <2>4, <3>1, <3>2, <3>3, WindowBegins DEF OpenStates
      <3> QED BY <2>5, <3>1, <3>3 DEF ClockInv, FinishClock
    <2>7. CASE UNCHANGED sessionVars
      <3>1. ~prov'.active /\ prov'.finishAtMs = prov.finishAtMs
        BY <2>2, <2>7 DEF sessionVars
      <3> QED BY <2>1, <2>5, <3>1, FinishKept DEF ClockInv
    <2> QED BY <1>2, <2>6, <2>7 DEF PowerReturns, InitProvisioning
  <1> QED BY <1>1, <1>2

\* The phone and the access points start no session.
LEMMA OutsideClock ==
  ASSUME WifiIInv, ClockInv, Outside
  PROVE  ClockInv'
  <1>1. UNCHANGED <<now, prov, pc, heard, promised, shown>>
    BY DEF Outside, sessionVars
  <1>2. events \in Seq(Kinds)
    BY Parts DEF EventsOK
  <1>3. ASSUME NEW es \in Seq(Kinds), Post(es), \A i \in 1 .. Len(es) : es[i] # "start"
        PROVE  StartPending' => StartPending
    <2>1. CASE bluedroid
      BY <1>2, <1>3, <2>1, EventsPosted DEF Post
    <2>2. CASE ~bluedroid
      BY <1>3, <2>2 DEF Post, StartPending, Pending
    <2> QED BY <2>1, <2>2
  <1>4. PICK es \in {<<"recv">>, <<"gotIp", "success">>, <<"success", "gotIp">>, <<"fail">>,
                     <<"gotIp">>, <<"disconnected">>} : Post(es)
    BY DEF Outside, PhoneSends, PhoneAccepted, PhoneRefused, LinkUp, LinkDown
  <1>5. es \in Seq(Kinds) /\ \A i \in 1 .. Len(es) : es[i] # "start"
    <2>1. ASSUME NEW k \in {"recv", "fail", "gotIp", "disconnected"}, es = <<k>>
          PROVE  es \in Seq(Kinds) /\ \A i \in 1 .. Len(es) : es[i] # "start"
      BY <2>1, NoneOfThese DEF Kinds
    <2>2. ASSUME NEW k \in {"gotIp", "success"}, NEW l \in {"gotIp", "success"}, es = <<k, l>>
          PROVE  es \in Seq(Kinds) /\ \A i \in 1 .. Len(es) : es[i] # "start"
      BY <2>2, NoneOfThese DEF Kinds
    <2> QED BY <1>4, <2>1, <2>2
  <1>6. Watched' => Watched
    BY <1>1, <1>3, <1>4, <1>5 DEF Watched
  <1>7. prov'.active => prov'.state \in OpenStates
    BY <1>1 DEF ClockInv, WindowInv, ActiveIsTimed
  <1>8. WindowInv'
    <2>1. pc'.main \in {"clearSave", "resetRam", "off"} => ~prov'.active
      BY <1>1 DEF ClockInv, WindowInv, NoSession
    <2> QED BY <1>1, <1>6, <1>7, <2>1, WindowKept DEF ClockInv
  <1> QED BY <1>1, <1>8, FinishKept DEF ClockInv

LEMMA StutterGiven ==
  ASSUME GivenInv, UNCHANGED wifiVars
  PROVE  GivenInv'
  <1>1. /\ UNCHANGED <<ssid, ssidStored, link, creds, events, pc, phone, stack, user, unsaved>>
    BY DEF wifiVars, provVars, sessionVars, networkVars, driverVars, wifiHistory
  <1> QED BY <1>1 DEF GivenInv, NetworkWasGiven, SettingsWereGiven, BlobWasGiven, FailIsAlone,
       FailClears, SentInSession, ClearIsByHand, OffIsQuiet, Given, Connected, Configured,
       Marking, Pending, FailUnderWay, MainAt, EventAt

LEMMA StutterClock ==
  ASSUME ClockInv, UNCHANGED wifiVars
  PROVE  ClockInv'
  <1>1. UNCHANGED <<now, prov, pc, events, heard, promised, shown>>
    BY DEF wifiVars, provVars, sessionVars, wifiHistory
  <1> QED BY <1>1 DEF ClockInv, WindowInv, FinishClock, FoundAt, ActiveIsTimed, PromiseFits,
       NoSession, NotEarly, NotLate, AgeFits, Watched, JustHeard, Age, Since, StartPending,
       Pending

-----------------------------------------------------------------------------
(* The theorems. *)

(* The invariant holds in every reachable state: setup(), every step of the *)
(* two tasks, of the phone and the access points, and a power failure       *)
(* preserve it.                                                             *)
THEOREM WifiInvariance == WifiSpec => []WifiIInv
  <1>1. WifiInit => WifiIInv
    BY WifiInitInv
  <1>2. WifiIInv /\ [WifiNext]_wifiVars => WifiIInv'
    BY WifiStep
  <1> QED BY <1>1, <1>2, PTL DEF WifiSpec

(* Time stamps stay within the width of the clock, phases and events within *)
(* their sets, for every window and however the two tasks interleave.       *)
THEOREM WifiTypeCorrect == WifiSpec => []WifiTypeOK
  <1>1. WifiIInv => WifiTypeOK
    BY DEF WifiIInv
  <1> QED BY <1>1, WifiInvariance, PTL

(* The BLE stack is up exactly while a session is active, whatever ends the *)
(* session and wherever the event task finds it (start, stopProvisioning).  *)
THEOREM SessionHasStackHolds == WifiSpec => []SessionHasStack
  <1>1. WifiIInv => SessionHasStack
    BY DEF WifiIInv
  <1> QED BY <1>1, WifiInvariance, PTL

(* When both tasks are done with the settings, the blob under kKeySettings  *)
(* holds them, unless a write failed or fell into a factory reset           *)
(* (markConnected, handleEvent, applyCommand).                              *)
THEOREM SettingsReachStorageHolds == WifiSpec => []SettingsReachStorage
  <1>1. WifiIInv => SettingsReachStorage
    BY DEF WifiIInv
  <1> QED BY <1>1, WifiInvariance, PTL

(* What StrandedOnlyByHand and the three windows rest on holds, with the    *)
(* invariant above, in every reachable state.                               *)
THEOREM WindowsInvariance == WifiSpec => [](WifiIInv /\ GivenInv /\ ClockInv)
  <1> DEFINE AllInv == WifiIInv /\ GivenInv /\ ClockInv
  <1>1. WifiInit => AllInv
    <2>1. SUFFICES ASSUME WifiInit PROVE GivenInv /\ ClockInv
      BY WifiInitInv
    <2>2. \A k : ~Pending(k)
      BY <2>1, NonePending DEF WifiInit
    <2>3. GivenInv
      BY <2>1, <2>2 DEF WifiInit, GivenInv, NetworkWasGiven, SettingsWereGiven, BlobWasGiven,
           FailIsAlone, FailClears, SentInSession, ClearIsByHand, OffIsQuiet, Connected,
           Configured, Marking, MarkSteps, FailUnderWay, MainAt, EventAt
    <2>4. ClockInv
      BY <2>1, Rounds
         DEF WifiInit, Fresh, ClockInv, WindowInv, FinishClock, ActiveIsTimed, PromiseFits,
                  NoSession, NotEarly, NotLate, AgeFits, Watched
    <2> QED BY <2>3, <2>4
  <1>2. AllInv /\ [WifiNext]_wifiVars => AllInv'
    <2> SUFFICES ASSUME WifiIInv, GivenInv, ClockInv, [WifiNext]_wifiVars
                 PROVE  WifiIInv' /\ GivenInv' /\ ClockInv'
      OBVIOUS
    <2>1. WifiIInv'
      BY WifiStep
    <2>2. ASSUME NEW d \in LoopMs, Round(d) PROVE GivenInv' /\ ClockInv'
      BY <2>2, RoundGiven, RoundClock
    <2>3. CASE TickStep
      BY <2>1, <2>3, TickGiven, MarkGiven, TickClock, MarkClock DEF TickStep
    <2>4. CASE UiIdles \/ UiCancels \/ Clears
      BY <2>1, <2>4, UiGiven, UiClock
    <2>5. ASSUME NEW lag \in UptimeLags, UiStartsSession(lag) PROVE GivenInv' /\ ClockInv'
      BY <2>5, UiStartsGiven, UiStartsClock
    <2>6. CASE PowerReturns \/ PowerFails
      BY <2>1, <2>6, PowerGiven, PowerClock
    <2>7. CASE EventStep
      BY <2>1, <2>7, EventGiven, EventClock
    <2>8. CASE Outside
      BY <2>1, <2>8, OutsideGiven, OutsideClock
    <2>9. CASE UNCHANGED wifiVars
      BY <2>1, <2>9, StutterGiven, StutterClock
    <2> QED BY <2>1, <2>2, <2>3, <2>4, <2>5, <2>6, <2>7, <2>8, <2>9
            DEF WifiNext, MainTask, Clears
  <1> QED BY <1>1, <1>2, PTL DEF WifiSpec

(* A device whose settings name a network has credentials for one, at every *)
(* step of the two tasks, unless the user dropped them: whichever way the   *)
(* phone's refusals, the links and the power failures fall between them     *)
(* (markConnected, handleEvent, startBootProvisioning).                     *)
THEOREM StrandedOnlyByHandHolds == WifiSpec => []StrandedOnlyByHand
  <1>1. GivenInv => StrandedOnlyByHand
    BY DEF GivenInv, SettingsWereGiven, Given, StrandedOnlyByHand
  <1> QED BY <1>1, WindowsInvariance, PTL

(* No session is given up before the window is over that began when the     *)
(* phone was last heard of, across the wrap of millis() and however the     *)
(* events fall between the steps of a round (tick).                         *)
THEOREM WindowNotCutHolds == WifiSpec => WindowNotCut
  <1>1. ASSUME WifiIInv, ClockInv, Tick, prov'.state = "TimedOut", prov.active
        PROVE  heard >= promised \/ heard = 0
    <2>1. prov \in ManagerType /\ heard \in Nat /\ promised \in Nat /\ Age \in Nat
            /\ prov.timeoutMs \in Nat
      BY <1>1, ClockTypes
    <2>2. prov.state # "TimedOut" /\ prov.timeoutMs \in Windows
      BY <1>1 DEF ClockInv, WindowInv, ActiveIsTimed, OpenStates
    <2>3. TickTimesOut
      BY <1>1, <2>1, <2>2 DEF Tick, TickConnected, TickFinishes, TickIdles, TickWaits,
           TickExtends, StopProvisioning, ManagerType, sessionVars
    <2>4. prov.timeoutMs <= Age
      BY <2>1, <2>3 DEF TickTimesOut, WindowOver, Age
    <2>5. CASE JustHeard
      BY <2>5 DEF JustHeard
    <2>6. CASE heard = Cap
      BY <1>1, <2>6 DEF ClockInv, WindowInv, PromiseFits
    <2>7. CASE promised = 0 \/ Age + promised <= heard + prov.timeoutMs
      BY <2>1, <2>4, <2>7
    <2> QED BY <1>1, <2>5, <2>6, <2>7 DEF ClockInv, WindowInv, NotEarly
  <1>2. WifiIInv /\ GivenInv /\ ClockInv /\ [WifiNext]_wifiVars =>
          [Tick /\ prov'.state = "TimedOut" /\ prov.active => heard >= promised \/ heard = 0]_wifiVars
    BY <1>1
  <1> QED BY <1>2, WindowsInvariance, PTL DEF WifiSpec, WindowNotCut

(* A session of which nothing is heard is over in the first round after its *)
(* window, unless it found its network or waits for an address (tick).      *)
THEOREM SessionEndsInTimeHolds == WifiSpec => SessionEndsInTime
  <1>1. ASSUME WifiIInv, ClockInv, MainAt("tick"), Tick, ~Connected, prov.active, prov'.active,
               prov.state \notin {"Saving", "Succeeded"}
        PROVE  \E lag \in Lags : heard < promised + lag
    <2>1. prov \in ManagerType /\ heard \in Nat /\ promised \in Nat /\ Age \in Nat
            /\ prov.timeoutMs \in Nat
      BY <1>1, ClockTypes
    <2>2. prov.timeoutMs \in Nat \ {0} /\ prov.state \in {"Advertising", "Failed"}
      <3>1. prov.timeoutMs \in Windows /\ prov.state \in {"Advertising", "Failed"}
        BY <1>1 DEF ClockInv, WindowInv, ActiveIsTimed, OpenStates
      <3> QED BY <3>1, Rounds
    <2>3. TickWaits
      BY <1>1, <2>1 DEF Tick, TickConnected, TickFinishes, TickIdles, TickExtends, TickTimesOut,
           TimedOut, StopProvisioning, ManagerType, MainAt
    <2>4. Age < prov.timeoutMs
      BY <2>1, <2>2, <2>3 DEF TickWaits, WindowOver, Age
    <2>5. CASE JustHeard
      <3>1. heard = 0 /\ promised = prov.timeoutMs
        BY <2>5 DEF JustHeard
      <3>2. PICK lag \in Lags : lag \in Nat
        BY Rounds
      <3>3. heard < promised + lag
        BY <2>2, <3>1, <3>2
      <3> QED BY <3>3
    <2>6. ASSUME NEW lag \in Lags, heard + prov.timeoutMs <= Age + promised + lag
          PROVE  heard < promised + lag
      <3>1. lag \in Nat
        BY Rounds
      <3> QED BY <2>1, <2>4, <2>6, <3>1
    <2>7. Watched
      BY <1>1, <2>2 DEF Watched
    <2> QED BY <1>1, <2>5, <2>6, <2>7 DEF ClockInv, WindowInv, NotLate
  <1>2. WifiIInv /\ GivenInv /\ ClockInv /\ [WifiNext]_wifiVars =>
          [MainAt("tick") /\ Tick /\ ~Connected /\ prov.active /\ prov'.active =>
             prov.state \in {"Saving", "Succeeded"}
               \/ \E lag \in Lags : heard < promised + lag]_wifiVars
    BY <1>1
  <1> QED BY <1>2, WindowsInvariance, PTL DEF WifiSpec, SessionEndsInTime

(* A session that found its network ends, fifteen seconds later, or earlier *)
(* only by an end that wrapped: the phone has the time to ask for the       *)
(* result (markConnected, tick).                                            *)
THEOREM SuccessIsShownHolds == WifiSpec => SuccessIsShown
  <1>1. ASSUME WifiIInv, ClockInv, TickFinishes, FinishDue, shown < FinishMs
        PROVE  prov.finishAtMs < (now - shown) % Wrap
    <2>1. /\ now \in Times /\ shown \in Nat /\ prov.finishAtMs \in Times
          /\ now \in Nat /\ now < Wrap
      BY <1>1, ClockTypes, TimesAreNat
    <2>2. prov.finishAtMs > 0 /\ now >= prov.finishAtMs
      BY <1>1 DEF FinishDue
    <2>3. FinishMs \in Nat /\ Wrap \in Nat \ {0} /\ FinishMs < Wrap
      BY Rounds
    <2>4. PICK lag \in Lags : prov.finishAtMs = (FoundAt + (lag + FinishMs)) % Wrap
      <3>1. prov.finishAtMs # 0 /\ ~(shown >= FinishMs)
        BY <1>1, <2>1, <2>2, <2>3, TimesAreNat
      <3> QED BY <1>1, <3>1 DEF ClockInv, FinishClock
    <2>5. lag \in Nat /\ lag + FinishMs < Wrap
      BY Rounds
    <2>6. shown \in Times
      BY <1>1, <2>1, <2>3 DEF Times
    <2>7. FoundAt = IF shown <= now THEN now - shown ELSE now - shown + Wrap
      BY <2>1, <2>6, ModOfDifference DEF FoundAt
    <2>8. FoundAt \in Times
      BY <2>1, <2>3, <2>6, <2>7 DEF Times
    <2>9. prov.finishAtMs = IF FoundAt + (lag + FinishMs) < Wrap THEN FoundAt + (lag + FinishMs)
                            ELSE FoundAt + (lag + FinishMs) - Wrap
      BY <2>3, <2>4, <2>5, <2>8, ModOfSum
    <2>10. prov.finishAtMs < FoundAt
      BY <1>1, <2>1, <2>2, <2>3, <2>5, <2>7, <2>8, <2>9, TimesAreNat
    <2> QED BY <2>10 DEF FoundAt
  <1>2. ASSUME WifiIInv, ClockInv, TickFinishes, FinishDue
        PROVE  shown >= FinishMs \/ prov.finishAtMs < (now - shown) % Wrap
    BY <1>1, <1>2, ClockTypes, Rounds
  <1>3. WifiIInv /\ GivenInv /\ ClockInv /\ [WifiNext]_wifiVars =>
          [TickFinishes /\ FinishDue =>
             shown >= FinishMs \/ prov.finishAtMs < (now - shown) % Wrap]_wifiVars
    BY <1>2
  <1> QED BY <1>3, WindowsInvariance, PTL DEF WifiSpec, SuccessIsShown
=============================================================================
