----------------------------- MODULE Ec11Encoder -----------------------------
(***************************************************************************)
(* devices/Ec11Encoder.cpp: the knob's two phases are sampled once per      *)
(* round and decoded to detents, the button is debounced and its presses    *)
(* told apart by their length.  Op_Xyz is Op as a plausible bug would have  *)
(* it.                                                                      *)
(***************************************************************************)
EXTENDS Clock, Sequences

CONSTANTS
  KnobDebounce,    \* kEncoderDebounceMs, 1
  EmitGap,         \* kEncoderEmitGapMs, 10
  ButtonDebounce,  \* kDebounceMs, 30
  LongPress        \* kLongPressMs, 1500

VARIABLES
  delta,          \* m_delta
  lastState,      \* m_lastState, the phases A and B as a number
  detentState,    \* m_detentState, where the knob was in init()
  stepAccum,      \* m_stepAccum
  lastEncoderMs,  \* m_lastEncoderMs
  lastEmitMs,     \* m_lastEmitMs
  btnRaw,         \* m_btnRaw
  btnPressed,     \* m_btnPressed
  btnLongPress,   \* m_btnLongPress
  waitRelease,    \* m_waitRelease
  btnDownMs,      \* m_btnDownMs
  lastBounceMs    \* m_lastBounceMs

ASSUME EncoderAssumption == {KnobDebounce, EmitGap, ButtonDebounce, LongPress} \subseteq Nat

knobVars == <<lastState, detentState, stepAccum, lastEncoderMs, lastEmitMs>>
buttonVars == <<btnRaw, waitRelease, btnDownMs, lastBounceMs>>
eventVars == <<delta, btnPressed, btnLongPress>>

Phases == 0 .. 3

(* The types, and that no more than three steps are ever accumulated: the   *)
(* clipping at eight in pollEncoder is not reached.                         *)
EncoderTypeOK ==
  /\ delta \in -1 .. 1
  /\ lastState \in Phases /\ detentState \in Phases
  /\ stepAccum \in -3 .. 3
  /\ lastEncoderMs \in Times /\ lastEmitMs \in Times
  /\ btnRaw \in BOOLEAN /\ btnPressed \in BOOLEAN /\ btnLongPress \in BOOLEAN
  /\ waitRelease \in BOOLEAN
  /\ btnDownMs \in Times /\ lastBounceMs \in Times

\* init(), with the knob where it happens to be.
EncoderInit(level) ==
  /\ delta = 0 /\ lastState = level /\ detentState = level /\ stepAccum = 0
  /\ lastEncoderMs = 0 /\ lastEmitMs = 0
  /\ btnRaw = FALSE /\ btnPressed = FALSE /\ btnLongPress = FALSE
  /\ waitRelease = FALSE /\ btnDownMs = 0 /\ lastBounceMs = 0

-----------------------------------------------------------------------------
(* pollEncoder *)

\* kTable.
Movement(from, to) ==
  <<<< 0, -1,  1,  0>>,
    << 1,  0,  0, -1>>,
    <<-1,  0,  0,  1>>,
    << 0,  1, -1,  0>>>>[from + 1][to + 1]

KnobIdle(level) ==
  /\ level = lastState \/ Since(lastEncoderMs) < KnobDebounce
  /\ UNCHANGED <<knobVars, delta>>

KnobSampled(level) ==
  /\ level # lastState /\ Since(lastEncoderMs) >= KnobDebounce
  /\ lastState' = level /\ lastEncoderMs' = now
  /\ UNCHANGED detentState

Steps(level) == stepAccum + Movement(lastState, level)

\* A phase was missed: the direction is unknown.
KnobJumps(level) ==
  /\ KnobSampled(level) /\ Movement(lastState, level) = 0
  /\ stepAccum' = 0
  /\ UNCHANGED <<lastEmitMs, delta>>

KnobTurns(level) ==
  /\ KnobSampled(level) /\ Movement(lastState, level) # 0
  /\ level # detentState
  /\ stepAccum' = IF Steps(level) \in -8 .. 8 THEN Steps(level) ELSE 0
  /\ UNCHANGED <<lastEmitMs, delta>>

Emitted_Reversed(level) == IF Steps(level) >= 3 THEN -1 ELSE IF Steps(level) <= -3 THEN 1 ELSE 0
Emitted_Whole(level) == IF Steps(level) > 4 THEN 1 ELSE IF Steps(level) < -4 THEN -1 ELSE 0
\* Three of the four steps of a detent are enough.
Emitted(level) == IF Steps(level) >= 3 THEN 1 ELSE IF Steps(level) <= -3 THEN -1 ELSE 0

KnobInDetent_StepsKept(level) ==
  /\ KnobSampled(level) /\ Movement(lastState, level) # 0
  /\ level = detentState
  /\ IF Since(lastEmitMs) >= EmitGap /\ Emitted(level) # 0
       THEN delta' = delta + Emitted(level) /\ lastEmitMs' = now /\ stepAccum' = 0
       ELSE UNCHANGED <<delta, lastEmitMs>> /\ stepAccum' = Steps(level)
KnobInDetent(level) ==
  /\ KnobSampled(level) /\ Movement(lastState, level) # 0
  /\ level = detentState
  /\ IF Since(lastEmitMs) >= EmitGap /\ Emitted(level) # 0
       THEN delta' = delta + Emitted(level) /\ lastEmitMs' = now
       ELSE UNCHANGED <<delta, lastEmitMs>>
  /\ stepAccum' = 0

PollEncoder(level) ==
  KnobIdle(level) \/ KnobJumps(level) \/ KnobTurns(level) \/ KnobInDetent(level)

-----------------------------------------------------------------------------
(* The button, in tick(nowMs) after pollEncoder *)

ButtonIdle(raw) ==
  /\ raw = btnRaw \/ Since(lastBounceMs) < ButtonDebounce
  /\ UNCHANGED <<buttonVars, btnPressed, btnLongPress>>

EdgeAccepted(raw) ==
  /\ raw # btnRaw /\ Since(lastBounceMs) >= ButtonDebounce
  /\ lastBounceMs' = now /\ btnRaw' = raw

ButtonGoesDown(raw) ==
  /\ EdgeAccepted(raw) /\ raw
  /\ btnDownMs' = now /\ waitRelease' = TRUE
  /\ UNCHANGED <<btnPressed, btnLongPress>>

ButtonComesUp_Both(raw) ==
  /\ EdgeAccepted(raw) /\ ~raw
  /\ btnLongPress' = (btnLongPress \/ Since(btnDownMs) >= LongPress)
  /\ btnPressed' = TRUE
  /\ waitRelease' = FALSE /\ UNCHANGED btnDownMs
ButtonComesUp_LongOnly(raw) ==
  /\ EdgeAccepted(raw) /\ ~raw
  /\ btnLongPress' = TRUE /\ waitRelease' = FALSE /\ UNCHANGED <<btnPressed, btnDownMs>>
\* waitRelease is always set here: the button came down first.
ButtonComesUp(raw) ==
  /\ EdgeAccepted(raw) /\ ~raw
  /\ IF waitRelease
       THEN /\ btnLongPress' = (btnLongPress \/ Since(btnDownMs) >= LongPress)
            /\ btnPressed' = (btnPressed \/ Since(btnDownMs) < LongPress)
       ELSE UNCHANGED <<btnPressed, btnLongPress>>
  /\ waitRelease' = FALSE
  /\ UNCHANGED btnDownMs

EncoderTick(level, raw) ==
  /\ PollEncoder(level)
  /\ ButtonIdle(raw) \/ ButtonGoesDown(raw) \/ ButtonComesUp(raw)
=============================================================================
