------------------------------ MODULE PanelLoop ------------------------------
(***************************************************************************)
(* The front panel under the real-time behaviour of the main loop: a knob   *)
(* and a button that bounce and move between two samples, Ec11Encoder, and  *)
(* what UiController::tick does with its events on the way to a factory     *)
(* reset, which is released by holding the button and by nothing else.      *)
(* Knob and button share nothing but the clock and the user's hand, which   *)
(* is on one of them.  Screens without a part in that are "Other".          *)
(***************************************************************************)
EXTENDS Ec11Encoder

CONSTANTS
  HoldMs,        \* 10000 in factoryTick
  KnobStarts,    \* in which phases the knob can be at boot
  KnobSteps,     \* how many phases the knob can move between two samples
  MaxHold,       \* bound: the longest the button is held
  LoopMs,        \* how far the clock can move between two rounds
  Cap            \* the history variables saturate here

VARIABLES
  hand,              \* what the user's hand is on: "knob" or "button"
  screen,            \* m_model.screen
  factoryStartedMs,  \* m_factoryStartedMs
  turn,              \* whose turn it is in the round
  knob, button,      \* where they are
  travel,            \* history: phases turned since a detent was last sampled,
  missed,            \* history: 0 as soon as one was passed unsampled
  sinceDetent,       \* history: time since a detent was completed or one counted
  lost,              \* history: that one was completed in time and not counted
  solidMs,           \* history: how long every sample has had the button down
  stretch            \* history: and for how long when it was last seen up

panelVars == <<screen, factoryStartedMs>>
knobHistory == <<travel, missed, sinceDetent, lost>>
buttonHistory == <<solidMs, stretch>>
loopVars == <<now, knobVars, buttonVars, eventVars, panelVars, hand, turn, knob, button,
              knobHistory, buttonHistory>>

ASSUME PanelAssumption ==
  /\ LoopMs \subseteq Nat \ {0} /\ {HoldMs, Cap} \subseteq Nat /\ MaxHold \in Nat \ {0}
  /\ KnobStarts \subseteq Phases /\ KnobSteps \subseteq -2 .. 2

Saturate(n) == IF n > Cap THEN Cap ELSE n
MaxLoopMs == CHOOSE d \in LoopMs : \A e \in LoopMs : e <= d

\* A press is over before millis() has wrapped; Cap does not cut off what is
\* measured.
ASSUME RoundsAssumption ==
  /\ \E d \in LoopMs : \A e \in LoopMs : e <= d
  /\ MaxHold + ButtonDebounce + MaxLoopMs <= Wrap
  /\ MaxHold <= Cap /\ Wrap - EmitGap <= Cap /\ LongPress - ButtonDebounce < Cap

\* A click is sampled as up before it has become a long press: in a longer round
\* it would be told as one.
ASSUME ClickAssumption == ButtonDebounce + MaxLoopMs <= LongPress

\* The phases A and B of a knob that turns clockwise.
Level(k) == <<0, 2, 3, 1>>[k + 1]

PanelInit ==
  /\ hand \in {"knob", "button"}
  /\ now = 0 /\ knob \in KnobStarts /\ button = FALSE
  /\ EncoderInit(Level(knob))
  /\ screen = "Main" /\ factoryStartedMs = 0
  /\ turn = "others"
  /\ travel = 0 /\ missed = FALSE /\ sinceDetent = Cap /\ lost = FALSE
  /\ solidMs = 0 /\ stretch = 0

-----------------------------------------------------------------------------
Advance(d) ==
  /\ turn = "others" /\ turn' = "encoder"
  /\ now' = (now + d) % Wrap
  /\ \E k \in IF hand = "knob" THEN KnobSteps ELSE {0} :
       /\ knob' = (knob + k) % 4
       /\ missed' = (missed \/ k \in {-2, 2} \/ (k # 0 /\ Level(knob) # lastState))
       /\ travel' = IF missed' THEN 0 ELSE travel + k
  /\ sinceDetent' = Saturate(sinceDetent + d)
  /\ button' \in IF hand = "button" THEN BOOLEAN ELSE {FALSE}
  /\ button' => solidMs + d <= MaxHold
  /\ solidMs' = IF button' THEN Saturate(solidMs + d) ELSE 0
  /\ stretch' = IF button /\ ~button' THEN Saturate(solidMs + d) ELSE stretch
  /\ UNCHANGED <<hand, knobVars, buttonVars, eventVars, panelVars, lost>>

InDetent == Level(knob) = detentState /\ lastState' = detentState
DetentDone == InDetent /\ travel \in {-4, 4} /\ ~missed
DetentLost == DetentDone /\ sinceDetent >= EmitGap /\ delta' = 0

Encoder ==
  /\ turn = "encoder" /\ turn' = "panel"
  /\ EncoderTick(Level(knob), button)
  /\ travel' = IF InDetent THEN 0 ELSE travel
  /\ missed' = (missed /\ ~InDetent)
  /\ sinceDetent' = IF DetentDone \/ delta' # 0 THEN 0 ELSE sinceDetent
  /\ lost' = IF DetentDone THEN DetentLost ELSE lost /\ delta' = 0
  /\ stretch' = IF btnRaw' THEN stretch ELSE 0
  /\ UNCHANGED <<now, hand, panelVars, knob, button, solidMs>>

-----------------------------------------------------------------------------
(* UiController::tick: factoryTick, then handleInput on the screen it left. *)

OnFactoryScreen == screen = "FactoryReset"

FactoryStarted_NotReleased ==
  IF OnFactoryScreen /\ btnRaw /\ factoryStartedMs = 0 THEN now ELSE factoryStartedMs
FactoryStarted_EachRound ==
  IF OnFactoryScreen THEN IF btnRaw THEN now ELSE 0 ELSE factoryStartedMs
FactoryStarted ==
  CASE ~OnFactoryScreen -> factoryStartedMs
    [] OnFactoryScreen /\ ~btnRaw -> 0
    [] OTHER -> IF factoryStartedMs = 0 THEN now ELSE factoryStartedMs

HeldLongEnough == OnFactoryScreen /\ btnRaw /\ Since(FactoryStarted) >= HoldMs

FactoryTick ==
  LET left == IF HeldLongEnough THEN "Main" ELSE screen IN
  <<left, FactoryStarted>>

Consume == delta' = 0 /\ btnLongPress' = FALSE /\ btnPressed' = (btnPressed /\ btnLongPress)

NoEvent(s, started) ==
  /\ ~btnLongPress /\ (btnPressed => s \notin {"Menu", "Other"})
  /\ screen' = s /\ factoryStartedMs' = started

\* The clicks of the other screens: they end there or in the menu.
OtherClicked(s, started) ==
  /\ ~btnLongPress /\ btnPressed /\ s = "Other"
  /\ screen' \in {"Other", "Menu"}
  /\ factoryStartedMs' = started

\* enterMenuItem.
MenuClicked_StampKept(s, started) ==
  /\ ~btnLongPress /\ btnPressed /\ s = "Menu"
  /\ screen' \in {"Main", "Other", "FactoryReset"}
  /\ factoryStartedMs' = started
MenuClicked(s, started) ==
  /\ ~btnLongPress /\ btnPressed /\ s = "Menu"
  /\ screen' \in {"Main", "Other", "FactoryReset"}
  /\ factoryStartedMs' = IF screen' = "FactoryReset" THEN 0 ELSE started

\* handleLongPress.
LongPressed(s, started) ==
  /\ btnLongPress
  /\ screen' \in CASE s = "Menu" -> {"Main"}
                    [] s = "Other" -> {"Other", "Menu"}
                    [] OTHER -> {"Menu"}
  /\ factoryStartedMs' = started

Panel ==
  /\ turn = "panel" /\ turn' = "others"
  /\ \/ NoEvent(FactoryTick[1], FactoryTick[2])
     \/ MenuClicked(FactoryTick[1], FactoryTick[2])
     \/ OtherClicked(FactoryTick[1], FactoryTick[2])
     \/ LongPressed(FactoryTick[1], FactoryTick[2])
  /\ Consume
  /\ UNCHANGED <<now, hand, knobVars, buttonVars, knob, button, knobHistory, buttonHistory>>

-----------------------------------------------------------------------------
(* Properties *)

(* A detent is counted only when the knob was turned by one, and in its     *)
(* direction, whatever it did in between: no phase was missed since the     *)
(* last detent (kTable, the accumulator of pollEncoder).                    *)
NoPhantomTurn ==
  [][Encoder /\ ~missed /\ delta' # 0 => travel = 4 * delta']_loopVars

(* Of two detents that were turned slowly enough (kEncoderEmitGapMs), at    *)
(* most one is not counted: the age of m_lastEmitMs wraps, and the stamp is *)
(* 0 at the beginning.  (A second one can be, a whole wrap later.)          *)
TurnNotLostTwice ==
  [][Encoder /\ lost /\ sinceDetent < Wrap - EmitGap => ~DetentLost]_loopVars

(* A press is one event, and none is left for the next round to find:       *)
(* handleInput looks at a click only if there was no long press.            *)
NoEventLeft ==
  /\ ~(btnPressed /\ btnLongPress)
  /\ turn # "panel" => ~btnPressed /\ ~btnLongPress

(* A long press was one, and so was a click, up to the time the debouncing  *)
(* can hide an edge.                                                        *)
PressTold ==
  [][Encoder => /\ btnLongPress' => stretch > LongPress - ButtonDebounce
                /\ btnPressed' => stretch < LongPress + ButtonDebounce + 2 * MaxLoopMs]_loopVars

(* Nothing erases the device but a button that has been down for ten        *)
(* seconds, on that screen, less the time a release can be taken for a      *)
(* bounce (factoryTick, enterMenuItem).                                     *)
ResetNeedsHold ==
  [][Panel /\ HeldLongEnough => solidMs > HoldMs - ButtonDebounce]_loopVars

(* Holding it does erase the device: in ten seconds, and the time the press *)
(* can be taken for a bounce, and four rounds: until it is sampled, until   *)
(* the edge is accepted, until a stamp of 0 ms, which looks like none, is   *)
(* replaced, and the last one.                                              *)
HoldResets == OnFactoryScreen => solidMs < HoldMs + ButtonDebounce + 4 * MaxLoopMs

PanelNext == (\E d \in LoopMs : Advance(d)) \/ Encoder \/ Panel
PanelSpec == PanelInit /\ [][PanelNext]_loopVars
=============================================================================
