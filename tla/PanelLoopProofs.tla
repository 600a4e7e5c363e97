--------------------------- MODULE PanelLoopProofs ---------------------------
(***************************************************************************)
(* Proofs about PanelLoop: which turns of the knob are counted, and what a  *)
(* press of the button is told as, for every debounce time, hold and length *)
(* of a round.                                                              *)
(***************************************************************************)
EXTENDS PanelLoop, ClockProofs

-----------------------------------------------------------------------------
(* The inductive invariant. *)

LoopTypeOK ==
  /\ now \in Times /\ factoryStartedMs \in Times
  /\ hand \in {"knob", "button"} /\ turn \in {"others", "encoder", "panel"}
  /\ screen \in {"Main", "Menu", "Other", "FactoryReset"}
  /\ knob \in Phases /\ button \in BOOLEAN
  /\ travel \in Int /\ missed \in BOOLEAN /\ sinceDetent \in Nat /\ lost \in BOOLEAN
  /\ solidMs \in Nat /\ stretch \in Nat

\* Where a level is on the way round, and how far the last sample is past the
\* detent.
Place(level) == <<0, 3, 1, 2>>[level + 1]
Past == (Place(lastState) - Place(detentState)) % 4

\* The accumulator never says more than that the knob came from the detent on
\* one side or on the other; where no phase was missed it says which.
AccumInRange ==
  /\ Past = 0 => stepAccum = 0
  /\ Past - 4 <= stepAccum /\ stepAccum <= Past
AccumIsTravel ==
  ~missed => /\ stepAccum \in {Past, Past - 4}
             /\ travel = stepAccum + Movement(lastState, Level(knob))
             /\ Level(knob) # lastState => Movement(lastState, Level(knob)) # 0
NoDeltaKept == turn # "panel" => delta = 0

\* A detent was lost because one had been counted a moment before, and that
\* one's stamp has not wrapped.
LostClock ==
  lost /\ sinceDetent < Wrap - EmitGap =>
    sinceDetent <= Since(lastEmitMs) /\ Since(lastEmitMs) < sinceDetent + EmitGap

KnobInv == AccumInRange /\ AccumIsTravel /\ NoDeltaKept /\ LostClock

\* The age of the last edge of the button that was accepted.
EdgeAge == Since(lastBounceMs)

SolidIfDown == IF button THEN 0 < solidMs /\ solidMs <= MaxHold ELSE solidMs = 0
EventsOfRelease ==
  /\ ~(btnPressed /\ btnLongPress)
  /\ btnPressed \/ btnLongPress => turn = "panel" /\ ~btnRaw

\* While the button counts as up, a press waits for its edge to be accepted.
UpClock ==
  ~btnRaw =>
    /\ button => solidMs <= EdgeAge + MaxLoopMs /\ solidMs < ButtonDebounce + 2 * MaxLoopMs
    /\ button /\ turn # "encoder" => EdgeAge < ButtonDebounce
    /\ button \/ turn # "encoder" => stretch = 0

\* While it counts as down, what hides a release is the debouncing alone.
DownClock ==
  btnRaw =>
    /\ btnDownMs = lastBounceMs
    /\ button => /\ EdgeAge < solidMs + ButtonDebounce
                 /\ solidMs < EdgeAge + ButtonDebounce + 2 * MaxLoopMs
    /\ ~button /\ turn # "encoder" => EdgeAge < ButtonDebounce
    /\ ~button => \/ EdgeAge < stretch + ButtonDebounce \/ stretch = Cap
                  \/ EdgeAge < ButtonDebounce + MaxLoopMs
    /\ stretch < EdgeAge + ButtonDebounce + 2 * MaxLoopMs

\* How far a stamp can have aged since the panel last looked at it.
Late == IF turn = "others" THEN 0 ELSE MaxLoopMs

\* The hold on the factory screen began after the edge, and soon after it; a
\* stamp of 0 is replaced in the next round.
HoldNotEarly ==
  OnFactoryScreen =>
    /\ ~btnRaw /\ turn # "panel" => factoryStartedMs = 0
    /\ btnRaw /\ factoryStartedMs # 0 => Since(factoryStartedMs) <= EdgeAge
HoldNotLate ==
  OnFactoryScreen /\ btnRaw =>
    IF factoryStartedMs # 0
      THEN /\ Since(factoryStartedMs) < HoldMs + Late
           /\ solidMs < Since(factoryStartedMs) + ButtonDebounce + 3 * MaxLoopMs
      ELSE \/ solidMs < ButtonDebounce + 2 * MaxLoopMs /\ (turn = "others" => now = 0)
           \/ solidMs < ButtonDebounce + 3 * MaxLoopMs /\ turn # "others" /\ now # 0

ButtonInv ==
  SolidIfDown /\ EventsOfRelease /\ UpClock /\ DownClock /\ HoldNotEarly /\ HoldNotLate

PanelIInv == LoopTypeOK /\ EncoderTypeOK /\ KnobInv /\ ButtonInv

-----------------------------------------------------------------------------
(* The constants, the phases of the knob, and the histories. *)

LEMMA Rounds ==
  /\ MaxLoopMs \in Nat \ {0} /\ \A d \in LoopMs : d \in Nat \ {0} /\ d <= MaxLoopMs
  /\ MaxLoopMs < Wrap
  /\ ButtonDebounce \in Nat /\ EmitGap \in Nat /\ LongPress \in Nat /\ HoldMs \in Nat
  /\ MaxHold \in Nat \ {0} /\ Cap \in Nat /\ Wrap \in Nat \ {0}
  /\ MaxHold + ButtonDebounce + MaxLoopMs <= Wrap
  /\ MaxHold <= Cap /\ Wrap - EmitGap <= Cap /\ LongPress - ButtonDebounce < Cap
  <1>1. MaxLoopMs \in LoopMs /\ \A d \in LoopMs : d <= MaxLoopMs
    BY RoundsAssumption DEF MaxLoopMs
  <1>2. MaxLoopMs \in Nat \ {0} /\ ButtonDebounce \in Nat /\ MaxHold \in Nat \ {0}
    BY <1>1, PanelAssumption, EncoderAssumption
  <1> QED BY <1>1, <1>2, RoundsAssumption, PanelAssumption, EncoderAssumption, ClockAssumption

LEMMA SaturateIs ==
  ASSUME NEW n \in Nat
  PROVE  /\ Saturate(n) \in Nat /\ Saturate(n) <= n
         /\ Saturate(n) = n \/ Saturate(n) = Cap
         /\ n <= Cap => Saturate(n) = n
  BY Rounds DEF Saturate

LEMMA FourPhases == Phases = {0, 1, 2, 3}
  BY DEF Phases

LEMMA PlaceOfLevel ==
  ASSUME NEW k \in Phases
  PROVE  Level(k) \in Phases /\ Place(Level(k)) = k
  BY FourPhases DEF Level, Place

LEMMA PlaceIsPhase ==
  ASSUME NEW a \in Phases
  PROVE  Place(a) \in Phases
  BY FourPhases DEF Place

\* kTable: one place on is 1, one place back is -1, anything else is 0.
LEMMA MovementIs ==
  ASSUME NEW a \in Phases, NEW b \in Phases
  PROVE  /\ Movement(a, b) \in {-1, 0, 1}
         /\ Movement(a, b) = 1 <=> (Place(b) - Place(a)) % 4 = 1
         /\ Movement(a, b) = -1 <=> (Place(b) - Place(a)) % 4 = 3
         /\ Place(a) = Place(b) <=> a = b
         /\ a = b => Movement(a, b) = 0
  BY FourPhases DEF Movement, Place

LEMMA StepOfKnob ==
  ASSUME NEW n \in Phases, NEW k \in -2 .. 2
  PROVE  /\ (n + k) % 4 \in Phases
         /\ k \in {-1, 0, 1} => Movement(Level(n), Level((n + k) % 4)) = k
  <1>1. k \in {-2, -1, 0, 1, 2} /\ n \in {0, 1, 2, 3}
    BY FourPhases
  <1>2. (n + k) % 4 = IF n + k < 0 THEN n + k + 4 ELSE IF n + k > 3 THEN n + k - 4 ELSE n + k
    BY <1>1
  <1>3. (n + k) % 4 \in Phases
    BY <1>1, <1>2, FourPhases
  <1>4. ASSUME k \in {-1, 0, 1} PROVE Movement(Level(n), Level((n + k) % 4)) = k
    BY <1>1, <1>2, <1>4 DEF Movement, Level
  <1> QED BY <1>3, <1>4

\* One phase on or back, the last sample is one more or less past the detent.
LEMMA PastMoves ==
  ASSUME lastState \in Phases, detentState \in Phases, NEW level \in Phases
  PROVE  LET to == (Place(level) - Place(detentState)) % 4
             m == Movement(lastState, level)
         IN  /\ Past \in 0 .. 3 /\ to \in 0 .. 3
             /\ Past = 0 <=> lastState = detentState
             /\ to = 0 <=> level = detentState
             /\ m = 1 => to = IF Past = 3 THEN 0 ELSE Past + 1
             /\ m = -1 => to = IF Past = 0 THEN 3 ELSE Past - 1
  <1> DEFINE a == Place(lastState)  b == Place(level)  c == Place(detentState)
  <1>1. a \in 0 .. 3 /\ b \in 0 .. 3 /\ c \in 0 .. 3
    BY PlaceIsPhase DEF Phases
  <1>2. (a = c <=> lastState = detentState) /\ (b = c <=> level = detentState)
    BY MovementIs
  <1>3. /\ Movement(lastState, level) = 1 <=> (b - a) % 4 = 1
        /\ Movement(lastState, level) = -1 <=> (b - a) % 4 = 3
    BY MovementIs
  <1> HIDE DEF a, b, c
  <1>4. /\ (a - c) % 4 = IF c <= a THEN a - c ELSE a - c + 4
        /\ (b - c) % 4 = IF c <= b THEN b - c ELSE b - c + 4
        /\ (b - a) % 4 = IF a <= b THEN b - a ELSE b - a + 4
    BY <1>1
  <1>5. Past = (a - c) % 4
    BY DEF Past, a, c
  <1> QED BY <1>1, <1>2, <1>3, <1>4, <1>5 DEF a, b, c

-----------------------------------------------------------------------------
(* The knob. *)

LEMMA AdvanceKnob ==
  ASSUME LoopTypeOK, EncoderTypeOK, KnobInv, NEW d \in LoopMs, Advance(d)
  PROVE  KnobInv'
  <1>1. UNCHANGED <<knobVars, delta, lost>> /\ now' = (now + d) % Wrap /\ d \in Nat
    BY Rounds DEF Advance, eventVars
  <1>2. AccumInRange'
    BY <1>1 DEF KnobInv, AccumInRange, Past, knobVars
  <1>3. NoDeltaKept'
    BY <1>1 DEF Advance, KnobInv, NoDeltaKept
  <1>4. AccumIsTravel'
    <2>1. PICK k \in -2 .. 2 :
            /\ knob' = (knob + k) % 4
            /\ missed' = (missed \/ k \in {-2, 2} \/ (k # 0 /\ Level(knob) # lastState))
            /\ travel' = IF missed' THEN 0 ELSE travel + k
      BY PanelAssumption DEF Advance
    <2>2. SUFFICES ASSUME ~missed'
                   PROVE  /\ stepAccum \in {Past, Past - 4}
                          /\ travel' = stepAccum + Movement(lastState, Level(knob'))
                          /\ Level(knob') # lastState => Movement(lastState, Level(knob')) # 0
      BY <1>1 DEF AccumIsTravel, Past, knobVars
    <2>3. ~missed /\ k \in {-1, 0, 1} /\ (k # 0 => Level(knob) = lastState)
            /\ travel' = travel + k
      <3>1. ~missed /\ k \notin {-2, 2} /\ ~(k # 0 /\ Level(knob) # lastState)
        BY <2>1, <2>2, Zenon
      <3>2. travel' = travel + k
        BY <2>1, <2>2, Zenon
      <3> QED BY <3>1, <3>2
    <2>4. /\ stepAccum \in {Past, Past - 4}
          /\ travel = stepAccum + Movement(lastState, Level(knob))
          /\ Level(knob) # lastState => Movement(lastState, Level(knob)) # 0
      BY <2>3 DEF KnobInv, AccumIsTravel
    <2>5. knob \in Phases /\ lastState \in Phases /\ stepAccum \in Int
      BY DEF LoopTypeOK, EncoderTypeOK
    <2>6. Movement(Level(knob), Level(knob')) = k
      BY <2>1, <2>3, <2>5, StepOfKnob
    <2>7. CASE k = 0
      <3>1. knob' = knob
        BY <2>1, <2>5, <2>7, FourPhases
      <3> QED BY <2>3, <2>4, <2>5, <2>7, <3>1
    <2>8. CASE k # 0
      <3>1. Movement(lastState, Level(knob)) = 0
        <4>1. Level(knob) = lastState
          BY <2>3, <2>8
        <4> QED BY <4>1, <2>5, MovementIs
      <3> QED BY <2>3, <2>4, <2>5, <2>6, <2>8, <3>1
    <2> QED BY <2>7, <2>8
  <1>5. LostClock'
    <2>1. SUFFICES ASSUME lost, sinceDetent' < Wrap - EmitGap
                   PROVE  /\ sinceDetent' <= (now' - lastEmitMs) % Wrap
                          /\ (now' - lastEmitMs) % Wrap < sinceDetent' + EmitGap
      BY <1>1 DEF LostClock, Since, knobVars
    <2>2. sinceDetent' = Saturate(sinceDetent + d) /\ sinceDetent \in Nat
      BY DEF Advance, LoopTypeOK
    <2>3. sinceDetent' = sinceDetent + d
      BY <1>1, <2>1, <2>2, SaturateIs, Rounds
    <2>4. sinceDetent <= Since(lastEmitMs) /\ Since(lastEmitMs) < sinceDetent + EmitGap
      BY <1>1, <2>1, <2>2, <2>3, Rounds DEF KnobInv, LostClock
    <2>5. now \in Times /\ lastEmitMs \in Times
      BY DEF LoopTypeOK, EncoderTypeOK
    <2>6. Since(lastEmitMs) \in Nat
      BY <2>5, SinceIs
    <2>7. (now' - lastEmitMs) % Wrap = Since(lastEmitMs) + d
      <3>1. Since(lastEmitMs) + d < Wrap
        BY <1>1, <2>1, <2>2, <2>3, <2>4, <2>6, Rounds
      <3> QED BY <1>1, <2>5, <3>1, SinceGrows
    <2> QED BY <1>1, <2>2, <2>3, <2>4, <2>6, <2>7, Rounds
  <1> QED BY <1>2, <1>3, <1>4, <1>5 DEF KnobInv

\* Where the knob completes a detent and no phase was missed, the accumulator
\* holds its four steps.
LEMMA DetentIsWhole ==
  ASSUME LoopTypeOK, EncoderTypeOK, KnobInv, ~missed,
         KnobInDetent(Level(knob)) \/ (InDetent /\ travel \in {-4, 4})
  PROVE  /\ Movement(lastState, Level(knob)) # 0 /\ Level(knob) = detentState
         /\ travel = Steps(Level(knob)) /\ Steps(Level(knob)) \in {-4, 0, 4}
  <1> DEFINE level == Level(knob)  m == Movement(lastState, level)
  <1>1. /\ stepAccum \in {Past, Past - 4} /\ travel = stepAccum + m
        /\ Past = 0 => stepAccum = 0
    BY DEF KnobInv, AccumIsTravel, AccumInRange
  <1>2. level \in Phases /\ lastState \in Phases /\ detentState \in Phases
    BY PlaceOfLevel DEF LoopTypeOK, EncoderTypeOK
  <1>3. level = detentState
    BY DEF KnobInDetent, InDetent
  <1>4. m \in {-1, 0, 1} /\ Past \in 0 .. 3
    BY <1>2, MovementIs, PastMoves
  <1>5. m # 0
    <2>1. CASE KnobInDetent(level)
      BY <2>1 DEF KnobInDetent
    <2>2. CASE travel \in {-4, 4}
      BY <2>2, <1>1, <1>4
    <2> QED BY <2>1, <2>2
  <1>6. (m = 1 => Past = 3) /\ (m = -1 => Past = 1)
    BY <1>2, <1>3, <1>4, PastMoves
  <1> HIDE DEF m
  <1>7. stepAccum + m \in {-4, 0, 4}
    BY <1>1, <1>4, <1>5, <1>6
  <1> QED BY <1>1, <1>3, <1>5, <1>7 DEF Steps, m

\* Such a detent is left out for one reason: another one was counted just now.
LEMMA WhyNotCounted ==
  ASSUME LoopTypeOK, EncoderTypeOK, KnobInv, Encoder, DetentDone, delta' = 0
  PROVE  Since(lastEmitMs) < EmitGap
  <1> DEFINE level == Level(knob)  m == Movement(lastState, level)
  <1>1. level \in Phases /\ lastState \in Phases /\ now \in Times /\ lastEmitMs \in Times
    BY PlaceOfLevel DEF LoopTypeOK, EncoderTypeOK
  <1>2. delta = 0 /\ PollEncoder(level)
    BY DEF Encoder, EncoderTick, KnobInv, NoDeltaKept
  <1>3. m # 0 /\ level = detentState /\ Steps(level) \in {-4, 4}
    BY DetentIsWhole DEF DetentDone, InDetent
  <1>4. level # lastState /\ lastState' = level
    BY <1>1, <1>3, MovementIs DEF DetentDone, InDetent
  <1>5. KnobInDetent(level)
    BY <1>2, <1>3, <1>4 DEF PollEncoder, KnobIdle, knobVars, KnobJumps, KnobTurns
  <1>6. Emitted(level) \in {-1, 1}
    BY <1>3 DEF Emitted
  <1>7. Since(lastEmitMs) \in Nat
    BY <1>1, SinceIs
  <1> QED BY <1>2, <1>5, <1>6, <1>7, Rounds DEF KnobInDetent

\* What is counted is what the knob was turned by.
LEMMA CountedAsTurned ==
  ASSUME LoopTypeOK, EncoderTypeOK, KnobInv, Encoder, ~missed, delta' # 0
  PROVE  travel = 4 * delta'
  <1> DEFINE level == Level(knob)
  <1>1. delta = 0 /\ PollEncoder(level)
    BY DEF Encoder, EncoderTick, KnobInv, NoDeltaKept
  <1>2. KnobInDetent(level)
    BY <1>1 DEF PollEncoder, KnobIdle, KnobJumps, KnobTurns, knobVars
  <1>3. travel = Steps(level) /\ Steps(level) \in {-4, 0, 4}
    BY <1>2, DetentIsWhole
  <1>4. delta' = Emitted(level)
    <2>1. Emitted(level) \in {-1, 0, 1}
      BY DEF Emitted
    <2> QED BY <1>1, <1>2, <2>1 DEF KnobInDetent
  <1> HIDE DEF level
  <1> QED BY <1>3, <1>4 DEF Emitted

\* Three steps at most, where none are kept in the detent.
LEMMA WithinThree ==
  /\ \A p \in 0 .. 3 : p - 4 <= 0 /\ 0 <= p
  /\ \A p \in 0 .. 3, s \in Int :
       (p = 0 => s = 0) /\ p - 4 <= s /\ s <= p => s \in -3 .. 3
  OBVIOUS

LEMMA EncoderKnob ==
  ASSUME LoopTypeOK, EncoderTypeOK, KnobInv, Encoder
  PROVE  /\ KnobInv'
         /\ delta' \in -1 .. 1 /\ lastState' \in Phases /\ detentState' \in Phases
         /\ stepAccum' \in -3 .. 3 /\ lastEncoderMs' \in Times /\ lastEmitMs' \in Times
         /\ travel' \in Int /\ missed' \in BOOLEAN /\ sinceDetent' \in Nat /\ lost' \in BOOLEAN
  <1> DEFINE level == Level(knob)  m == Movement(lastState, level)
  <1>1. /\ level \in Phases /\ lastState \in Phases /\ detentState \in Phases
        /\ stepAccum \in -3 .. 3 /\ now \in Times
        /\ lastEncoderMs \in Times /\ lastEmitMs \in Times
        /\ travel \in Int /\ missed \in BOOLEAN /\ sinceDetent \in Nat /\ lost \in BOOLEAN
    BY PlaceOfLevel DEF LoopTypeOK, EncoderTypeOK
  <1>2. m \in {-1, 0, 1} /\ (level = lastState => m = 0) /\ Movement(level, level) = 0
    BY <1>1, MovementIs
  <1>3. delta = 0
    BY DEF Encoder, KnobInv, NoDeltaKept
  <1>4. /\ PollEncoder(level) /\ now' = now /\ knob' = knob /\ turn' = "panel"
        /\ travel' = IF InDetent THEN 0 ELSE travel
        /\ missed' = (missed /\ ~InDetent)
        /\ sinceDetent' = IF DetentDone \/ delta' # 0 THEN 0 ELSE sinceDetent
        /\ lost' = IF DetentDone THEN DetentLost ELSE lost /\ delta' = 0
    BY DEF Encoder, EncoderTick
  <1>5. /\ detentState' = detentState /\ lastState' \in {lastState, level}
        /\ lastEncoderMs' \in {lastEncoderMs, now} /\ lastEmitMs' \in {lastEmitMs, now}
        /\ delta' = 0 => lastEmitMs' = lastEmitMs
        /\ delta' \in -1 .. 1
    <2>1. Emitted(level) \in {-1, 0, 1}
      BY DEF Emitted
    <2>2. CASE KnobIdle(level)
      BY <2>2, <1>3 DEF KnobIdle, knobVars
    <2>3. CASE KnobJumps(level)
      BY <2>3, <1>3 DEF KnobJumps, KnobSampled
    <2>4. CASE KnobTurns(level)
      BY <2>4, <1>3 DEF KnobTurns, KnobSampled
    <2>5. CASE KnobInDetent(level)
      BY <2>1, <2>5, <1>3 DEF KnobInDetent, KnobSampled
    <2> QED BY <1>4, <2>2, <2>3, <2>4, <2>5 DEF PollEncoder
  <1>6. /\ Past \in 0 .. 3 /\ Past' \in 0 .. 3
        /\ Past = 0 <=> lastState = detentState
        /\ Past' = 0 <=> lastState' = detentState
        /\ lastState' = level /\ m = 1 => Past' = IF Past = 3 THEN 0 ELSE Past + 1
        /\ lastState' = level /\ m = -1 => Past' = IF Past = 0 THEN 3 ELSE Past - 1
        /\ lastState' = lastState => Past' = Past
    <2>1. /\ lastState' \in Phases
          /\ Past' = (Place(lastState') - Place(detentState)) % 4
      BY <1>1, <1>5 DEF Past
    <2>2. /\ Past \in 0 .. 3
          /\ Past = 0 <=> lastState = detentState
          /\ Past' \in 0 .. 3 /\ (Past' = 0 <=> lastState' = detentState)
      BY <1>1, <2>1, PastMoves
    <2>3. lastState' = level =>
            /\ m = 1 => Past' = IF Past = 3 THEN 0 ELSE Past + 1
            /\ m = -1 => Past' = IF Past = 0 THEN 3 ELSE Past - 1
      BY <1>1, <2>1, PastMoves
    <2>4. lastState' = lastState => Past' = Past
      BY <2>1 DEF Past
    <2> QED BY <2>2, <2>3, <2>4
  <1>7. /\ Past = 0 => stepAccum = 0
        /\ Past - 4 <= stepAccum /\ stepAccum <= Past
        /\ ~missed => /\ stepAccum \in {Past, Past - 4}
                      /\ travel = stepAccum + m
                      /\ level # lastState => m # 0
    BY DEF KnobInv, AccumInRange, AccumIsTravel
  <1>8. Level(knob') = level /\ Movement(lastState', Level(knob'))
          = IF lastState' = level THEN 0 ELSE m
    BY <1>1, <1>2, <1>4, <1>5
  <1> HIDE DEF level, m
  <1>9. /\ Past' = 0 => stepAccum' = 0
        /\ Past' - 4 <= stepAccum' /\ stepAccum' <= Past'
        /\ ~missed' => /\ stepAccum' \in {Past', Past' - 4}
                       /\ travel' = stepAccum' + IF lastState' = level THEN 0 ELSE m
                       /\ level # lastState' => m # 0
    <2>1. InDetent <=> level = detentState /\ lastState' = detentState
      BY DEF InDetent, level
    <2>2. CASE KnobIdle(level)
      <3>1. lastState' = lastState /\ stepAccum' = stepAccum
        BY <2>2 DEF KnobIdle, knobVars
      <3>2. CASE InDetent
        BY <1>2, <1>4, <1>6, <1>7, <2>1, <3>1, <3>2
      <3>3. CASE ~InDetent
        <4>1. travel' = travel /\ (~missed' => ~missed) /\ Past' = Past
          BY <1>4, <1>6, <3>1, <3>3
        <4> QED BY <1>2, <1>7, <3>1, <4>1
      <3> QED BY <3>2, <3>3
    <2>3. CASE KnobJumps(level)
      <3>1. lastState' = level /\ stepAccum' = 0 /\ m = 0 /\ level # lastState
        BY <2>3 DEF KnobJumps, KnobSampled, m
      <3>2. missed
        BY <1>7, <3>1
      <3>3. ~missed' => InDetent
        BY <1>4, <3>2
      <3>4. InDetent => Past' = 0 /\ travel' = 0
        BY <1>4, <1>6, <2>1
      <3>5. stepAccum' \in {Past', Past' - 4} \/ missed'
        BY <3>1, <3>3, <3>4
      <3>6. travel' = stepAccum' + 0 \/ missed'
        BY <3>1, <3>3, <3>4
      <3>7. (Past' = 0 => stepAccum' = 0) /\ Past' - 4 <= stepAccum' /\ stepAccum' <= Past'
        BY <1>6, <3>1, WithinThree
      <3>8. (IF lastState' = level THEN 0 ELSE m) = 0
        BY <3>1
      <3> QED BY <3>1, <3>5, <3>6, <3>7, <3>8, Zenon
    <2>4. CASE KnobTurns(level)
      <3>1. /\ lastState' = level /\ m # 0 /\ level # detentState
            /\ stepAccum' = IF stepAccum + m \in -8 .. 8 THEN stepAccum + m ELSE 0
        BY <2>4 DEF KnobTurns, KnobSampled, m, Steps
      <3>2. stepAccum' = stepAccum + m
        BY <1>1, <1>2, <3>1
      <3>3. travel' = travel /\ (~missed' => ~missed)
        BY <1>4, <2>1, <3>1
      <3>4. Past' # 0
        BY <1>6, <3>1
      <3>5. \/ m = 1 /\ Past' = Past + 1
            \/ m = -1 /\ Past' = IF Past = 0 THEN 3 ELSE Past - 1
        BY <1>2, <1>6, <3>1, <3>4
      <3>6. (Past = 0 => stepAccum = 0) /\ Past - 4 <= stepAccum /\ stepAccum <= Past
        BY <1>7
      <3>7. Past' - 4 <= stepAccum' /\ stepAccum' <= Past'
        BY <1>1, <1>6, <3>2, <3>5, <3>6
      <3>8. ASSUME ~missed'
            PROVE  stepAccum' \in {Past', Past' - 4} /\ travel' = stepAccum' + 0
        <4>1. stepAccum \in {Past, Past - 4} /\ travel = stepAccum + m
          BY <1>7, <3>3, <3>8
        <4> QED BY <1>1, <1>6, <3>2, <3>3, <3>5, <3>6, <4>1
      <3> QED BY <3>1, <3>4, <3>7, <3>8
    <2>5. CASE KnobInDetent(level)
      <3>1. lastState' = level /\ level = detentState /\ stepAccum' = 0
        BY <2>5 DEF KnobInDetent, KnobSampled
      <3>2. Past' = 0 /\ travel' = 0
        BY <1>4, <1>6, <2>1, <3>1
      <3> QED BY <3>1, <3>2
    <2> QED BY <1>4, <2>2, <2>3, <2>4, <2>5 DEF PollEncoder
  <1>10. stepAccum' \in -3 .. 3
    <2>1. stepAccum' \in Int
      <3>1. CASE KnobIdle(level)
        BY <1>1, <3>1 DEF KnobIdle, knobVars
      <3>2. CASE KnobJumps(level)
        BY <3>2 DEF KnobJumps
      <3>3. CASE KnobTurns(level)
        BY <3>3 DEF KnobTurns
      <3>4. CASE KnobInDetent(level)
        BY <3>4 DEF KnobInDetent
      <3> QED BY <1>4, <3>1, <3>2, <3>3, <3>4 DEF PollEncoder
    <2>2. (Past' = 0 => stepAccum' = 0) /\ Past' - 4 <= stepAccum' /\ stepAccum' <= Past'
      BY <1>9
    <2>3. Past' \in 0 .. 3
      BY <1>6
    <2> QED BY <2>1, <2>2, <2>3, WithinThree
  <1>11. AccumInRange' /\ AccumIsTravel' /\ NoDeltaKept'
    <2>1. AccumInRange' /\ NoDeltaKept'
      BY <1>4, <1>9 DEF AccumInRange, NoDeltaKept
    <2>2. AccumIsTravel'
      BY <1>8, <1>9 DEF AccumIsTravel
    <2> QED BY <2>1, <2>2
  <1>12. LostClock'
    <2>1. Since(lastEmitMs) \in Nat
      BY <1>1, SinceIs
    <2>2. SUFFICES ASSUME lost', sinceDetent' < Wrap - EmitGap
                   PROVE  /\ sinceDetent' <= Since(lastEmitMs)
                          /\ Since(lastEmitMs) < sinceDetent' + EmitGap
                          /\ delta' = 0
      BY <1>4, <1>5 DEF LostClock, Since
    <2>3. CASE DetentDone
      <3>1. delta' = 0 /\ sinceDetent' = 0
        BY <1>4, <2>2, <2>3 DEF DetentLost
      <3>2. Since(lastEmitMs) < EmitGap
        BY <2>3, <3>1, WhyNotCounted
      <3> QED BY <2>1, <3>1, <3>2, Rounds
    <2>4. CASE ~DetentDone
      <3>1. lost /\ delta' = 0 /\ sinceDetent' = sinceDetent
        BY <1>4, <2>2, <2>4
      <3> QED BY <2>2, <3>1 DEF KnobInv, LostClock
    <2> QED BY <2>3, <2>4
  <1>13. travel' \in Int /\ missed' \in BOOLEAN /\ sinceDetent' \in Nat /\ lost' \in BOOLEAN
    <2>1. travel' \in Int /\ sinceDetent' \in Nat
      BY <1>1, <1>4
    <2>2. DetentLost \in BOOLEAN
      BY DEF DetentLost, DetentDone
    <2> QED BY <1>1, <1>4, <2>1, <2>2, Zenon
  <1> QED BY <1>1, <1>5, <1>10, <1>11, <1>12, <1>13 DEF KnobInv

LEMMA PanelKnob ==
  ASSUME KnobInv, Panel
  PROVE  KnobInv'
  BY DEF Panel, Consume, KnobInv, AccumInRange, AccumIsTravel, NoDeltaKept, LostClock, Past,
         Since, knobVars, knobHistory

-----------------------------------------------------------------------------
(* The button.  Its last edge has not wrapped while the button counts as     *)
(* down, for a hold is over before that; so its age and the hold's grow      *)
(* together.                                                                 *)

LEMMA ButtonTypes ==
  ASSUME LoopTypeOK, EncoderTypeOK
  PROVE  /\ now \in Times /\ lastBounceMs \in Times /\ btnDownMs \in Times
         /\ factoryStartedMs \in Times
         /\ EdgeAge \in Nat /\ EdgeAge < Wrap
         /\ Since(factoryStartedMs) \in Nat /\ solidMs \in Nat /\ stretch \in Nat
  BY SinceIs DEF LoopTypeOK, EncoderTypeOK, EdgeAge

LEMMA AdvanceButton ==
  ASSUME LoopTypeOK, EncoderTypeOK, ButtonInv, NEW d \in LoopMs, Advance(d)
  PROVE  ButtonInv'
  <1> DEFINE age == EdgeAge  age1 == EdgeAge'
             held == Since(factoryStartedMs)  held1 == Since(factoryStartedMs)'
             D == ButtonDebounce  M == MaxLoopMs
  <1>1. /\ turn = "others" /\ turn' = "encoder" /\ now' = (now + d) % Wrap
        /\ UNCHANGED <<btnRaw, btnDownMs, lastBounceMs, btnPressed, btnLongPress,
                       screen, factoryStartedMs>>
        /\ button' => solidMs + d <= MaxHold
        /\ solidMs' = IF button' THEN Saturate(solidMs + d) ELSE 0
        /\ stretch' = IF button /\ ~button' THEN Saturate(solidMs + d) ELSE stretch
    BY DEF Advance, buttonVars, eventVars, panelVars
  <1>2. /\ d \in Nat \ {0} /\ d <= M /\ D \in Nat /\ M \in Nat \ {0} /\ HoldMs \in Nat
        /\ MaxHold \in Nat \ {0} /\ Wrap \in Nat /\ MaxHold + D + M <= Wrap /\ d < Wrap
        /\ MaxHold <= Cap /\ Cap \in Nat
    BY Rounds
  <1>3. age \in Nat /\ held \in Nat /\ solidMs \in Nat /\ stretch \in Nat
    BY ButtonTypes
  <1>4. /\ age1 \in Nat /\ age1 <= age + d /\ (age + d < Wrap => age1 = age + d)
        /\ held1 \in Nat /\ (held + d < Wrap => held1 = held + d)
    <2>1. /\ age1 = (((now + d) % Wrap) - lastBounceMs) % Wrap
          /\ held1 = (((now + d) % Wrap) - factoryStartedMs) % Wrap
      BY <1>1 DEF EdgeAge, Since
    <2>2. /\ (((now + d) % Wrap) - lastBounceMs) % Wrap \in Nat
          /\ (((now + d) % Wrap) - lastBounceMs) % Wrap <= Since(lastBounceMs) + d
          /\ (((now + d) % Wrap) - factoryStartedMs) % Wrap \in Nat
      BY <1>2, ButtonTypes, SinceAtMost
    <2>3. /\ age + d < Wrap => (((now + d) % Wrap) - lastBounceMs) % Wrap = age + d
          /\ held + d < Wrap => (((now + d) % Wrap) - factoryStartedMs) % Wrap = held + d
      BY <1>2, ButtonTypes, SinceGrows DEF EdgeAge
    <2> QED BY <2>1, <2>2, <2>3 DEF EdgeAge
  <1>5. /\ button => 0 < solidMs /\ solidMs <= MaxHold
        /\ ~button => solidMs = 0
        /\ ~(btnPressed \/ btnLongPress)
        /\ ~btnRaw => /\ button => solidMs <= age + M /\ age < D
                      /\ stretch = 0
        /\ btnRaw => /\ btnDownMs = lastBounceMs
                     /\ button => age < solidMs + D /\ solidMs < age + D + 2 * M
                     /\ ~button => age < D
                     /\ stretch < age + D + 2 * M
    BY <1>1 DEF ButtonInv, SolidIfDown, EventsOfRelease, UpClock, DownClock
  <1>6. /\ OnFactoryScreen => /\ ~btnRaw => factoryStartedMs = 0
                              /\ btnRaw /\ factoryStartedMs # 0 => held <= age
        /\ OnFactoryScreen /\ btnRaw =>
             IF factoryStartedMs # 0 THEN held < HoldMs /\ solidMs < held + D + 3 * M
                                     ELSE solidMs < D + 2 * M /\ now = 0
    <2>1. OnFactoryScreen => /\ ~btnRaw => factoryStartedMs = 0
                             /\ btnRaw /\ factoryStartedMs # 0 => held <= age
      BY <1>1 DEF ButtonInv, HoldNotEarly
    <2>2. Late = 0
      BY <1>1 DEF Late
    <2>3. OnFactoryScreen /\ btnRaw =>
             IF factoryStartedMs # 0 THEN held < HoldMs + 0 /\ solidMs < held + D + 3 * M
                                     ELSE solidMs < D + 2 * M /\ now = 0
      BY <1>1, <2>2 DEF ButtonInv, HoldNotLate
    <2> QED BY <1>2, <2>1, <2>3
  <1>7. /\ solidMs' \in Nat /\ stretch' \in Nat
        /\ button' => solidMs' = solidMs + d
        /\ ~button' => solidMs' = 0
        /\ button /\ ~button' => /\ stretch' <= solidMs + d
                                 /\ stretch' = solidMs + d \/ stretch' = Cap
        /\ ~(button /\ ~button') => stretch' = stretch
    <2>1. /\ Saturate(solidMs + d) \in Nat /\ Saturate(solidMs + d) <= solidMs + d
          /\ Saturate(solidMs + d) = solidMs + d \/ Saturate(solidMs + d) = Cap
          /\ solidMs + d <= Cap => Saturate(solidMs + d) = solidMs + d
      BY <1>2, <1>3, SaturateIs
    <2>2. button' => solidMs + d <= Cap
      BY <1>1, <1>2, <1>3
    <2> QED BY <1>1, <1>3, <2>1, <2>2
  <1>8. Late' = M
    BY <1>1 DEF Late
  <1> HIDE DEF age, age1, held, held1, D, M
  <1>9. btnRaw => age1 = age + d
    <2>1. btnRaw => age + d < Wrap
      BY <1>2, <1>3, <1>5
    <2> QED BY <1>4, <2>1
  <1>10. SolidIfDown' /\ EventsOfRelease'
    <2>1. button' => 0 < solidMs' /\ solidMs' <= MaxHold
      BY <1>1, <1>2, <1>3, <1>7
    <2> QED BY <1>1, <1>5, <1>7, <2>1 DEF SolidIfDown, EventsOfRelease
  <1>11. UpClock'
    <2>1. SUFFICES ASSUME ~btnRaw, button'
                   PROVE  solidMs' <= age1 + M /\ solidMs' < D + 2 * M /\ stretch' = 0
      BY <1>1 DEF UpClock, age1, D, M
    <2>2. stretch' = 0
      BY <1>5, <1>7, <2>1
    <2>3. CASE button
      <3>1. age1 = age + d
        BY <1>2, <1>3, <1>4, <1>5, <2>1, <2>3
      <3> QED BY <1>2, <1>3, <1>5, <1>7, <2>1, <2>2, <2>3, <3>1
    <2>4. CASE ~button
      BY <1>2, <1>3, <1>4, <1>5, <1>7, <2>1, <2>2, <2>4
    <2> QED BY <2>3, <2>4
  <1>12. DownClock'
    <2>1. SUFFICES ASSUME btnRaw
                   PROVE  /\ btnDownMs = lastBounceMs
                          /\ button' => age1 < solidMs' + D /\ solidMs' < age1 + D + 2 * M
                          /\ ~button' => age1 < stretch' + D \/ stretch' = Cap \/ age1 < D + M
                          /\ stretch' < age1 + D + 2 * M
      BY <1>1 DEF DownClock, age1, D, M
    <2>2. age1 = age + d /\ btnDownMs = lastBounceMs
      BY <1>5, <1>9, <2>1
    <2>3. button' => age1 < solidMs' + D /\ solidMs' < age1 + D + 2 * M
      BY <1>2, <1>3, <1>5, <1>7, <2>1, <2>2
    <2>4. ~button' => age1 < stretch' + D \/ stretch' = Cap \/ age1 < D + M
      <3>1. ASSUME button, ~button' PROVE age1 < stretch' + D \/ stretch' = Cap
        <4>1. age < solidMs + D /\ (stretch' = solidMs + d \/ stretch' = Cap)
          BY <1>5, <1>7, <2>1, <3>1
        <4> QED BY <1>2, <1>3, <2>2, <4>1
      <3>2. ASSUME ~button PROVE age1 < D + M
        BY <1>2, <1>3, <1>5, <2>1, <2>2, <3>2
      <3> QED BY <3>1, <3>2
    <2>5. stretch' < age1 + D + 2 * M
      BY <1>2, <1>3, <1>5, <1>7, <2>1, <2>2
    <2> QED BY <2>2, <2>3, <2>4, <2>5
  <1>13. OnFactoryScreen /\ btnRaw /\ factoryStartedMs # 0 => held1 = held + d
    <2>1. btnRaw => age + d < Wrap
      BY <1>2, <1>3, <1>5
    <2> QED BY <1>2, <1>3, <1>4, <1>6, <2>1
  <1>14. HoldNotEarly'
    <2>1. OnFactoryScreen /\ btnRaw /\ factoryStartedMs # 0 => held1 <= age1
      BY <1>2, <1>3, <1>6, <1>9, <1>13
    <2> QED BY <1>1, <1>6, <2>1 DEF HoldNotEarly, OnFactoryScreen, age1, held1
  <1>15. HoldNotLate'
    <2>1. SUFFICES ASSUME OnFactoryScreen, btnRaw
                   PROVE  IF factoryStartedMs # 0
                            THEN held1 < HoldMs + M /\ solidMs' < held1 + D + 3 * M
                            ELSE solidMs' < D + 3 * M /\ now' # 0
      BY <1>1, <1>8 DEF HoldNotLate, OnFactoryScreen, held1, D, M
    <2>2. CASE factoryStartedMs # 0
      BY <1>2, <1>3, <1>6, <1>7, <1>13, <2>1, <2>2
    <2>3. CASE factoryStartedMs = 0
      <3>1. solidMs < D + 2 * M /\ now = 0
        BY <1>6, <2>1, <2>3
      <3>2. now' # 0
        BY <1>1, <1>2, <3>1, ModWithin
      <3> QED BY <1>2, <1>3, <1>7, <2>3, <3>1, <3>2
    <2> QED BY <2>2, <2>3
  <1> QED BY <1>10, <1>11, <1>12, <1>14, <1>15 DEF ButtonInv

LEMMA EncoderButton ==
  ASSUME LoopTypeOK, EncoderTypeOK, ButtonInv, Encoder
  PROVE  /\ ButtonInv'
         /\ btnRaw' \in BOOLEAN /\ btnPressed' \in BOOLEAN /\ btnLongPress' \in BOOLEAN
         /\ waitRelease' \in BOOLEAN /\ btnDownMs' \in Times /\ lastBounceMs' \in Times
         /\ stretch' \in Nat
  <1> DEFINE age == EdgeAge  age1 == EdgeAge'  D == ButtonDebounce  M == MaxLoopMs
  <1>1. /\ turn = "encoder" /\ turn' = "panel" /\ now' = now
        /\ UNCHANGED <<button, solidMs, screen, factoryStartedMs>>
        /\ stretch' = IF btnRaw' THEN stretch ELSE 0
        /\ ButtonIdle(button) \/ ButtonGoesDown(button) \/ ButtonComesUp(button)
    BY DEF Encoder, EncoderTick, panelVars
  <1>2. D \in Nat /\ M \in Nat \ {0}
    BY Rounds
  <1>3. /\ age \in Nat /\ solidMs \in Nat /\ stretch \in Nat /\ now \in Times
        /\ btnDownMs \in Times /\ lastBounceMs \in Times
        /\ button \in BOOLEAN /\ btnRaw \in BOOLEAN /\ waitRelease \in BOOLEAN
        /\ btnPressed \in BOOLEAN /\ btnLongPress \in BOOLEAN
    BY ButtonTypes DEF LoopTypeOK, EncoderTypeOK
  <1>4. ~btnPressed /\ ~btnLongPress
    BY <1>1 DEF ButtonInv, EventsOfRelease
  <1>5. SolidIfDown'
    BY <1>1 DEF ButtonInv, SolidIfDown
  <1>6. Late' = Late /\ (OnFactoryScreen' <=> OnFactoryScreen)
          /\ Since(factoryStartedMs)' = Since(factoryStartedMs)
    BY <1>1 DEF Late, OnFactoryScreen, Since
  <1>7. CASE ButtonIdle(button)
    <2>1. /\ UNCHANGED <<btnRaw, waitRelease, btnDownMs, lastBounceMs, btnPressed, btnLongPress>>
          /\ button # btnRaw => age < D
      BY <1>7 DEF ButtonIdle, buttonVars, EdgeAge
    <2>2. age1 = age
      BY <1>1, <2>1 DEF EdgeAge, Since
    <2>3. EventsOfRelease'
      BY <1>1, <1>4, <2>1 DEF EventsOfRelease
    <2>4. UpClock'
      <3>1. ~btnRaw /\ button => solidMs <= age + M /\ solidMs < D + 2 * M /\ age < D
        BY <1>3, <2>1 DEF ButtonInv, UpClock
      <3>2. ~btnRaw => stretch' = 0
        BY <1>1, <2>1
      <3> QED BY <1>1, <2>1, <2>2, <3>1, <3>2 DEF UpClock
    <2>5. DownClock'
      <3>1. btnRaw => /\ btnDownMs = lastBounceMs
                      /\ button => age < solidMs + D /\ solidMs < age + D + 2 * M
                      /\ ~button => \/ age < stretch + D \/ stretch = Cap \/ age < D + M
                      /\ stretch < age + D + 2 * M
        BY DEF ButtonInv, DownClock
      <3>2. btnRaw => stretch' = stretch /\ (~button => age < D)
        BY <1>1, <1>3, <2>1
      <3> QED BY <1>1, <2>1, <2>2, <3>1, <3>2 DEF DownClock
    <2>6. HoldNotEarly'
      <3>1. OnFactoryScreen /\ btnRaw /\ factoryStartedMs # 0 =>
              Since(factoryStartedMs) <= age
        BY DEF ButtonInv, HoldNotEarly
      <3> QED BY <1>1, <1>6, <2>1, <2>2, <3>1 DEF HoldNotEarly
    <2>7. HoldNotLate'
      BY <1>1, <1>6, <2>1 DEF ButtonInv, HoldNotLate
    <2> QED BY <1>1, <1>3, <1>5, <2>1, <2>3, <2>4, <2>5, <2>6, <2>7 DEF ButtonInv
  <1>8. CASE ButtonGoesDown(button)
    <2>1. /\ button /\ ~btnRaw /\ btnRaw' = TRUE /\ lastBounceMs' = now /\ btnDownMs' = now
          /\ waitRelease' = TRUE /\ UNCHANGED <<btnPressed, btnLongPress>>
      BY <1>3, <1>8 DEF ButtonGoesDown, EdgeAccepted
    <2>2. age1 = 0
      BY <1>1, <1>3, <2>1, SinceNow DEF EdgeAge, Since
    <2>3. solidMs < D + 2 * M /\ 0 < solidMs /\ stretch' = 0
      BY <1>1, <2>1 DEF ButtonInv, UpClock, SolidIfDown
    <2>4. EventsOfRelease' /\ UpClock'
      BY <1>1, <1>4, <2>1 DEF EventsOfRelease, UpClock
    <2>5. DownClock'
      <3>1. 0 < solidMs + D /\ solidMs < 0 + D + 2 * M /\ 0 < 0 + D + 2 * M
        BY <1>2, <1>3, <2>3
      <3> QED BY <1>1, <2>1, <2>2, <2>3, <3>1 DEF DownClock
    <2>6. OnFactoryScreen => factoryStartedMs = 0
      BY <1>1, <2>1 DEF ButtonInv, HoldNotEarly
    <2>7. HoldNotEarly' /\ HoldNotLate'
      BY <1>1, <1>6, <2>1, <2>3, <2>6 DEF HoldNotEarly, HoldNotLate
    <2> QED BY <1>3, <1>5, <2>1, <2>3, <2>4, <2>5, <2>7 DEF ButtonInv
  <1>9. CASE ButtonComesUp(button)
    <2>1. /\ ~button /\ btnRaw /\ btnRaw' = FALSE /\ lastBounceMs' = now
          /\ waitRelease' = FALSE /\ btnDownMs' = btnDownMs
      BY <1>3, <1>9 DEF ButtonComesUp, EdgeAccepted
    <2>2. /\ ~(btnPressed' /\ btnLongPress')
          /\ btnPressed' \in BOOLEAN /\ btnLongPress' \in BOOLEAN
      <3>1. Since(btnDownMs) \in Nat /\ LongPress \in Nat
        BY <1>3, SinceIs, Rounds
      <3>2. CASE waitRelease
        <4>1. /\ btnLongPress' = (btnLongPress \/ Since(btnDownMs) >= LongPress)
              /\ btnPressed' = (btnPressed \/ Since(btnDownMs) < LongPress)
          BY <1>9, <3>2 DEF ButtonComesUp
        <4>2. CASE Since(btnDownMs) >= LongPress
          <5>1. ~(Since(btnDownMs) < LongPress)
            BY <3>1, <4>2
          <5> QED BY <1>4, <4>1, <4>2, <5>1, Zenon
        <4>3. CASE ~(Since(btnDownMs) >= LongPress)
          <5>1. Since(btnDownMs) < LongPress
            BY <3>1, <4>3
          <5> QED BY <1>4, <4>1, <4>3, <5>1, Zenon
        <4> QED BY <4>2, <4>3
      <3>3. CASE ~waitRelease
        BY <1>3, <1>4, <1>9, <3>3 DEF ButtonComesUp
      <3> QED BY <3>2, <3>3
    <2>3. EventsOfRelease'
      BY <1>1, <2>1, <2>2 DEF EventsOfRelease
    <2>4. stretch' = 0
      BY <1>1, <2>1
    <2>5. UpClock' /\ DownClock'
      BY <1>1, <2>1, <2>4 DEF UpClock, DownClock
    <2>6. HoldNotEarly' /\ HoldNotLate'
      BY <1>1, <2>1 DEF HoldNotEarly, HoldNotLate
    <2> QED BY <1>3, <1>5, <2>1, <2>2, <2>3, <2>4, <2>5, <2>6 DEF ButtonInv
  <1> QED BY <1>1, <1>7, <1>8, <1>9

\* What the panel's tick leaves on the factory screen.
LEMMA PanelOnFactoryScreen ==
  ASSUME LoopTypeOK, EncoderTypeOK, ButtonInv, Panel, OnFactoryScreen'
  PROVE  \/ /\ OnFactoryScreen /\ ~HeldLongEnough
            /\ factoryStartedMs' = FactoryStarted
         \/ ~btnRaw /\ factoryStartedMs' = 0
  <1>1. btnPressed => ~btnRaw
    BY DEF ButtonInv, EventsOfRelease
  <1>2. screen' = "FactoryReset"
    BY DEF OnFactoryScreen
  <1>3. CASE NoEvent(FactoryTick[1], FactoryTick[2])
    BY <1>2, <1>3 DEF NoEvent, FactoryTick, OnFactoryScreen
  <1>4. CASE MenuClicked(FactoryTick[1], FactoryTick[2])
    BY <1>1, <1>2, <1>4 DEF MenuClicked
  <1>5. CASE OtherClicked(FactoryTick[1], FactoryTick[2])
    BY <1>2, <1>5 DEF OtherClicked
  <1>6. CASE LongPressed(FactoryTick[1], FactoryTick[2])
    BY <1>2, <1>6 DEF LongPressed
  <1> QED BY <1>3, <1>4, <1>5, <1>6 DEF Panel

LEMMA PanelButton ==
  ASSUME LoopTypeOK, EncoderTypeOK, ButtonInv, Panel
  PROVE  ButtonInv'
  <1> DEFINE age == EdgeAge  held == Since(factoryStartedMs)
             D == ButtonDebounce  M == MaxLoopMs
  <1>1. /\ turn = "panel" /\ turn' = "others" /\ now' = now
        /\ UNCHANGED <<btnRaw, btnDownMs, lastBounceMs, button, solidMs, stretch>>
        /\ btnLongPress' = FALSE /\ btnPressed' = (btnPressed /\ btnLongPress)
    BY DEF Panel, Consume, buttonVars, buttonHistory
  <1>2. ~btnPressed' /\ ~btnLongPress'
    BY <1>1 DEF ButtonInv, EventsOfRelease
  <1>3. EdgeAge' = age
    BY <1>1 DEF EdgeAge, Since
  <1>4. SolidIfDown' /\ EventsOfRelease'
    BY <1>1, <1>2 DEF ButtonInv, SolidIfDown, EventsOfRelease
  <1>5. UpClock'
    BY <1>1, <1>3 DEF ButtonInv, UpClock
  <1>6. DownClock'
    BY <1>1, <1>3 DEF ButtonInv, DownClock
  <1>7. D \in Nat /\ M \in Nat \ {0} /\ HoldMs \in Nat
    BY Rounds
  <1>8. age \in Nat /\ held \in Nat /\ solidMs \in Nat /\ now \in Times
    BY ButtonTypes
  <1>9. ASSUME OnFactoryScreen', btnRaw
        PROVE  /\ OnFactoryScreen /\ Since(FactoryStarted) < HoldMs
               /\ factoryStartedMs' = IF factoryStartedMs = 0 THEN now ELSE factoryStartedMs
    <2>1. OnFactoryScreen /\ ~HeldLongEnough /\ factoryStartedMs' = FactoryStarted
      BY <1>9, PanelOnFactoryScreen
    <2>2. FactoryStarted = IF factoryStartedMs = 0 THEN now ELSE factoryStartedMs
      BY <1>9, <2>1 DEF FactoryStarted
    <2>3. Since(FactoryStarted) \in Nat
      BY <2>2, ButtonTypes, SinceIs
    <2> QED BY <1>7, <1>9, <2>1, <2>2, <2>3 DEF HeldLongEnough
  <1>10. HoldNotEarly'
    <2>1. ASSUME OnFactoryScreen', ~btnRaw PROVE factoryStartedMs' = 0
      BY <2>1, PanelOnFactoryScreen DEF FactoryStarted
    <2>2. ASSUME OnFactoryScreen', btnRaw, factoryStartedMs' # 0
          PROVE  Since(factoryStartedMs') <= age
      <3>1. CASE factoryStartedMs = 0
        <4>1. Since(factoryStartedMs') = 0
          BY <1>8, <1>9, <2>2, <3>1, SinceNow
        <4> QED BY <1>8, <4>1
      <3>2. CASE factoryStartedMs # 0
        BY <1>9, <2>2, <3>2 DEF ButtonInv, HoldNotEarly
      <3> QED BY <3>1, <3>2
    <2>3. Since(factoryStartedMs)' = Since(factoryStartedMs')
      BY <1>1 DEF Since
    <2> QED BY <1>1, <1>3, <2>1, <2>2, <2>3 DEF HoldNotEarly
  <1>11. HoldNotLate'
    <2>1. Late = M /\ Late' = 0
      BY <1>1 DEF Late
    <2>2. ASSUME OnFactoryScreen', btnRaw
          PROVE  IF factoryStartedMs' # 0
                   THEN /\ Since(factoryStartedMs') < HoldMs + 0
                        /\ solidMs < Since(factoryStartedMs') + D + 3 * M
                   ELSE solidMs < D + 2 * M /\ now = 0
      <3>1. /\ OnFactoryScreen /\ Since(FactoryStarted) < HoldMs
            /\ factoryStartedMs' = IF factoryStartedMs = 0 THEN now ELSE factoryStartedMs
            /\ FactoryStarted = factoryStartedMs'
        BY <1>9, <2>2 DEF FactoryStarted
      <3>2. Since(factoryStartedMs') \in Nat /\ Since(now) = 0
        BY <1>8, <3>1, SinceIs, SinceNow, ButtonTypes
      <3>3. CASE factoryStartedMs # 0
        <4>1. solidMs < held + D + 3 * M
          BY <2>2, <3>1, <3>3 DEF ButtonInv, HoldNotLate
        <4> QED BY <1>7, <3>1, <3>2, <3>3, <4>1
      <3>4. CASE factoryStartedMs = 0
        <4>1. \/ solidMs < D + 2 * M
              \/ solidMs < D + 3 * M /\ now # 0
          BY <2>2, <3>1, <3>4 DEF ButtonInv, HoldNotLate
        <4>2. factoryStartedMs' = now
          BY <3>1, <3>4
        <4> QED BY <1>7, <1>8, <3>1, <3>2, <4>1, <4>2
      <3> QED BY <3>3, <3>4
    <2>3. Since(factoryStartedMs)' = Since(factoryStartedMs')
      BY <1>1 DEF Since
    <2> QED BY <1>1, <2>1, <2>2, <2>3 DEF HoldNotLate
  <1> QED BY <1>4, <1>5, <1>6, <1>10, <1>11 DEF ButtonInv

-----------------------------------------------------------------------------
(* The invariant holds. *)

LEMMA AdvanceTypes ==
  ASSUME LoopTypeOK, EncoderTypeOK, NEW d \in LoopMs, Advance(d)
  PROVE  LoopTypeOK' /\ EncoderTypeOK'
  <1>1. d \in Nat /\ d < Wrap
    BY Rounds
  <1>2. now' \in Times
    BY <1>1, ModOfSum DEF Advance, LoopTypeOK
  <1>3. /\ Saturate(sinceDetent + d) \in Nat /\ Saturate(solidMs + d) \in Nat
    BY <1>1, SaturateIs DEF LoopTypeOK
  <1>4. PICK k \in -2 .. 2 :
          /\ knob' = (knob + k) % 4
          /\ missed' = (missed \/ k \in {-2, 2} \/ (k # 0 /\ Level(knob) # lastState))
          /\ travel' = IF missed' THEN 0 ELSE travel + k
    BY PanelAssumption DEF Advance
  <1>5. knob' \in Phases
    BY <1>4, StepOfKnob DEF LoopTypeOK
  <1>6. travel' \in Int
    BY <1>4 DEF LoopTypeOK
  <1>7. missed' \in BOOLEAN
    BY <1>4, Zenon DEF LoopTypeOK
  <1>8. button' \in BOOLEAN
    BY DEF Advance
  <1>9. solidMs' \in Nat /\ stretch' \in Nat /\ sinceDetent' \in Nat
    BY <1>3 DEF Advance, LoopTypeOK
  <1>10. EncoderTypeOK'
    BY DEF Advance, EncoderTypeOK, knobVars, buttonVars, eventVars
  <1> QED BY <1>2, <1>5, <1>6, <1>7, <1>8, <1>9, <1>10
          DEF Advance, LoopTypeOK, panelVars, eventVars

LEMMA PanelTypes ==
  ASSUME LoopTypeOK, EncoderTypeOK, Panel
  PROVE  LoopTypeOK' /\ EncoderTypeOK'
  <1>1. FactoryTick[1] \in {"Main", "Menu", "Other", "FactoryReset"} /\ FactoryTick[2] \in Times
    BY TimesAreNat DEF FactoryTick, FactoryStarted, LoopTypeOK
  <1>2. screen' \in {"Main", "Menu", "Other", "FactoryReset"} /\ factoryStartedMs' \in Times
    <2>1. CASE NoEvent(FactoryTick[1], FactoryTick[2])
      BY <1>1, <2>1 DEF NoEvent
    <2>2. CASE MenuClicked(FactoryTick[1], FactoryTick[2])
      BY <1>1, <2>2, TimesAreNat DEF MenuClicked
    <2>3. CASE OtherClicked(FactoryTick[1], FactoryTick[2])
      BY <1>1, <2>3 DEF OtherClicked
    <2>4. CASE LongPressed(FactoryTick[1], FactoryTick[2])
      BY <1>1, <2>4 DEF LongPressed
    <2> QED BY <2>1, <2>2, <2>3, <2>4 DEF Panel
  <1>3. LoopTypeOK'
    BY <1>2 DEF Panel, LoopTypeOK, knobHistory, buttonHistory
  <1>4. btnPressed' \in BOOLEAN /\ btnLongPress' \in BOOLEAN /\ delta' \in -1 .. 1
    <2>1. btnPressed' = (btnPressed /\ btnLongPress) /\ btnLongPress' = FALSE /\ delta' = 0
      BY DEF Panel, Consume
    <2>2. btnPressed \in BOOLEAN /\ btnLongPress \in BOOLEAN
      BY DEF EncoderTypeOK
    <2>3. btnPressed' \in BOOLEAN /\ btnLongPress' \in BOOLEAN
      BY <2>1, <2>2, Zenon
    <2>4. delta' \in -1 .. 1
      BY <2>1
    <2> QED BY <2>3, <2>4
  <1>5. EncoderTypeOK'
    BY <1>4 DEF Panel, EncoderTypeOK, knobVars, buttonVars
  <1> QED BY <1>3, <1>5

LEMMA PanelInitIInv == PanelInit => PanelIInv
  <1> SUFFICES ASSUME PanelInit PROVE PanelIInv
    OBVIOUS
  <1>1. knob \in Phases /\ lastState = Level(knob) /\ detentState = Level(knob)
    BY PanelAssumption DEF PanelInit, EncoderInit
  <1>2. Level(knob) \in Phases
    BY <1>1, PlaceOfLevel
  <1>3. LoopTypeOK /\ EncoderTypeOK
    <2>1. /\ now \in Times /\ factoryStartedMs \in Times
          /\ travel \in Int /\ sinceDetent \in Nat /\ solidMs \in Nat /\ stretch \in Nat
          /\ delta \in -1 .. 1 /\ stepAccum \in -3 .. 3
          /\ lastEncoderMs \in Times /\ lastEmitMs \in Times
          /\ btnDownMs \in Times /\ lastBounceMs \in Times
      BY TimesAreNat, Rounds DEF PanelInit, EncoderInit
    <2>2. /\ button \in BOOLEAN /\ missed \in BOOLEAN /\ lost \in BOOLEAN
          /\ btnRaw \in BOOLEAN /\ btnPressed \in BOOLEAN /\ btnLongPress \in BOOLEAN
          /\ waitRelease \in BOOLEAN
      BY Zenon DEF PanelInit, EncoderInit
    <2> QED BY <1>1, <1>2, <2>1, <2>2 DEF PanelInit, LoopTypeOK, EncoderTypeOK
  <1>4. Past = 0 /\ Movement(lastState, Level(knob)) = 0
    <2>1. Past = 0 <=> lastState = detentState
      BY <1>1, <1>2, PastMoves
    <2> QED BY <1>1, <1>2, <2>1, MovementIs
  <1>5. KnobInv
    BY <1>1, <1>4 DEF PanelInit, EncoderInit, KnobInv, AccumInRange, AccumIsTravel,
                      NoDeltaKept, LostClock
  <1>6. ButtonInv
    BY DEF PanelInit, EncoderInit, ButtonInv, SolidIfDown, EventsOfRelease, UpClock, DownClock,
           HoldNotEarly, HoldNotLate, OnFactoryScreen
  <1> QED BY <1>3, <1>5, <1>6 DEF PanelIInv

LEMMA PanelStepIInv == PanelIInv /\ [PanelNext]_loopVars => PanelIInv'
  <1> SUFFICES ASSUME PanelIInv, [PanelNext]_loopVars PROVE PanelIInv'
    OBVIOUS
  <1>1. LoopTypeOK /\ EncoderTypeOK /\ KnobInv /\ ButtonInv
    BY DEF PanelIInv
  <1>2. ASSUME NEW d \in LoopMs, Advance(d) PROVE PanelIInv'
    BY <1>1, <1>2, AdvanceTypes, AdvanceKnob, AdvanceButton DEF PanelIInv
  <1>3. CASE Encoder
    <2>1. EncoderTypeOK'
      BY <1>1, <1>3, EncoderKnob, EncoderButton DEF EncoderTypeOK
    <2>2. travel' \in Int /\ missed' \in BOOLEAN /\ sinceDetent' \in Nat /\ lost' \in BOOLEAN
            /\ stretch' \in Nat
      BY <1>1, <1>3, EncoderKnob, EncoderButton
    <2>3. LoopTypeOK'
      BY <1>1, <1>3, <2>2 DEF Encoder, LoopTypeOK, panelVars
    <2> QED BY <1>1, <1>3, <2>1, <2>3, EncoderKnob, EncoderButton DEF PanelIInv
  <1>4. CASE Panel
    BY <1>1, <1>4, PanelTypes, PanelKnob, PanelButton DEF PanelIInv
  <1>5. CASE UNCHANGED loopVars
    <2>1. LoopTypeOK' /\ EncoderTypeOK'
      BY <1>1, <1>5 DEF loopVars, LoopTypeOK, EncoderTypeOK, knobVars, buttonVars, eventVars,
                        panelVars, knobHistory, buttonHistory
    <2>2. KnobInv'
      BY <1>1, <1>5 DEF loopVars, knobVars, eventVars, knobHistory, KnobInv, AccumInRange,
                        AccumIsTravel, NoDeltaKept, LostClock, Past, Since
    <2>3. ButtonInv'
      BY <1>1, <1>5 DEF loopVars, buttonVars, eventVars, panelVars, buttonHistory, ButtonInv,
                        SolidIfDown, EventsOfRelease, UpClock, DownClock, HoldNotEarly,
                        HoldNotLate, OnFactoryScreen, EdgeAge, Since, Late
    <2> QED BY <2>1, <2>2, <2>3 DEF PanelIInv
  <1> QED BY <1>2, <1>3, <1>4, <1>5 DEF PanelNext

(* The invariant holds in every reachable state: what knob and button do    *)
(* between two samples and every tick of encoder and panel preserve it.     *)
THEOREM PanelInvariance == PanelSpec => []PanelIInv
  BY PanelInitIInv, PanelStepIInv, PTL DEF PanelSpec

-----------------------------------------------------------------------------
(* The theorems. *)

(* The types, and that the accumulator never goes beyond three steps: the   *)
(* clipping in pollEncoder is not reached, whatever the knob skips.         *)
THEOREM EncoderTypeCorrect == PanelSpec => []EncoderTypeOK
  BY PanelInvariance, PTL DEF PanelIInv

(* A press is one event, and none is left for the next round (tick).        *)
THEOREM NoEventLeftHolds == PanelSpec => []NoEventLeft
  <1>1. PanelIInv => NoEventLeft
    BY DEF PanelIInv, ButtonInv, EventsOfRelease, NoEventLeft
  <1> QED BY <1>1, PanelInvariance, PTL

(* Holding the button on the factory screen erases the device, for every    *)
(* debounce time and every length of a round (factoryTick).                 *)
THEOREM HoldResetsHolds == PanelSpec => []HoldResets
  <1>1. PanelIInv => HoldResets
    <2> SUFFICES ASSUME PanelIInv, OnFactoryScreen
                 PROVE  solidMs < HoldMs + ButtonDebounce + 4 * MaxLoopMs
      BY DEF HoldResets
    <2>1. /\ LoopTypeOK /\ EncoderTypeOK
          /\ SolidIfDown /\ UpClock /\ HoldNotLate
      BY DEF PanelIInv, ButtonInv
    <2>2. /\ ButtonDebounce \in Nat /\ MaxLoopMs \in Nat \ {0} /\ HoldMs \in Nat
          /\ Since(factoryStartedMs) \in Nat /\ solidMs \in Nat
      BY <2>1, Rounds, ButtonTypes
    <2>3. CASE ~button
      BY <2>1, <2>2, <2>3 DEF SolidIfDown
    <2>4. CASE button /\ ~btnRaw
      BY <2>1, <2>2, <2>4 DEF UpClock
    <2>5. CASE btnRaw /\ factoryStartedMs = 0
      <3>1. \/ solidMs < ButtonDebounce + 2 * MaxLoopMs
            \/ solidMs < ButtonDebounce + 3 * MaxLoopMs
        BY <2>1, <2>5 DEF HoldNotLate
      <3> QED BY <2>2, <3>1
    <2>6. CASE btnRaw /\ factoryStartedMs # 0
      <3>1. Late \in Nat /\ Late <= MaxLoopMs
        BY <2>2 DEF Late
      <3>2. /\ Since(factoryStartedMs) < HoldMs + Late
            /\ solidMs < Since(factoryStartedMs) + ButtonDebounce + 3 * MaxLoopMs
        BY <2>1, <2>6 DEF HoldNotLate
      <3> QED BY <2>2, <3>1, <3>2
    <2> QED BY <2>1, <2>3, <2>4, <2>5, <2>6 DEF LoopTypeOK
  <1> QED BY <1>1, PanelInvariance, PTL

(* Nothing erases the device but a button that has been down long enough:   *)
(* the stamp the hold is measured from is never older than the press        *)
(* (factoryTick, enterMenuItem).                                            *)
THEOREM ResetNeedsHoldHolds == PanelSpec => ResetNeedsHold
  <1>1. ASSUME PanelIInv, Panel, HeldLongEnough
        PROVE  solidMs > HoldMs - ButtonDebounce
    <2>1. /\ LoopTypeOK /\ EncoderTypeOK
          /\ SolidIfDown /\ DownClock /\ HoldNotEarly
      BY <1>1 DEF PanelIInv, ButtonInv
    <2>2. /\ ButtonDebounce \in Nat /\ HoldMs \in Nat
          /\ EdgeAge \in Nat /\ solidMs \in Nat /\ Since(now) = 0
      BY <2>1, Rounds, ButtonTypes, SinceNow
    <2>3. /\ OnFactoryScreen /\ btnRaw /\ Since(FactoryStarted) >= HoldMs
          /\ FactoryStarted = IF factoryStartedMs = 0 THEN now ELSE factoryStartedMs
      BY <1>1 DEF HeldLongEnough, FactoryStarted
    <2>4. HoldMs <= EdgeAge
      <3>1. CASE factoryStartedMs = 0
        BY <2>2, <2>3, <3>1
      <3>2. CASE factoryStartedMs # 0
        <4>1. Since(factoryStartedMs) <= EdgeAge /\ Since(factoryStartedMs) >= HoldMs
          BY <2>1, <2>3, <3>2 DEF HoldNotEarly
        <4> QED BY <2>1, <2>2, <4>1, ButtonTypes
      <3> QED BY <3>1, <3>2
    <2>5. EdgeAge < solidMs + ButtonDebounce
      <3>1. CASE button
        BY <2>1, <2>3, <3>1 DEF DownClock
      <3>2. CASE ~button
        <4>1. EdgeAge < ButtonDebounce
          BY <1>1, <2>1, <2>3, <3>2 DEF DownClock, Panel
        <4> QED BY <2>2, <4>1
      <3> QED BY <3>1, <3>2
    <2> QED BY <2>2, <2>4, <2>5
  <1>2. PanelIInv /\ [PanelNext]_loopVars
          => [Panel /\ HeldLongEnough => solidMs > HoldMs - ButtonDebounce]_loopVars
    BY <1>1
  <1> QED BY <1>2, PanelInvariance, PTL DEF PanelSpec, ResetNeedsHold

(* A long press was one, and so was a click: what the debouncing and a late *)
(* round can add or take away is bounded (tick).                            *)
THEOREM PressToldHolds == PanelSpec => PressTold
  <1>1. ASSUME PanelIInv, Encoder, btnLongPress' \/ btnPressed'
        PROVE  /\ btnLongPress' => stretch > LongPress - ButtonDebounce
               /\ btnPressed' => stretch < LongPress + ButtonDebounce + 2 * MaxLoopMs
    <2>1. LoopTypeOK /\ EncoderTypeOK /\ EventsOfRelease /\ DownClock
      BY <1>1 DEF PanelIInv, ButtonInv
    <2>2. ~btnPressed /\ ~btnLongPress
      BY <1>1, <2>1 DEF Encoder, EventsOfRelease
    <2>3. /\ ButtonDebounce \in Nat /\ LongPress \in Nat /\ MaxLoopMs \in Nat
          /\ LongPress - ButtonDebounce < Cap /\ ButtonDebounce + MaxLoopMs <= LongPress
          /\ EdgeAge \in Nat /\ stretch \in Nat
      BY <2>1, Rounds, ClickAssumption, ButtonTypes
    <2>4. /\ ~button /\ btnRaw /\ waitRelease
          /\ btnLongPress' => Since(btnDownMs) >= LongPress
          /\ btnPressed' => Since(btnDownMs) < LongPress
      <3>1. ButtonComesUp(button)
        BY <1>1, <2>2 DEF Encoder, EncoderTick, ButtonIdle, ButtonGoesDown
      <3>2. ~button /\ button # btnRaw
        BY <3>1 DEF ButtonComesUp, EdgeAccepted
      <3>3. btnRaw
        BY <2>1, <3>2, Zenon DEF EncoderTypeOK, LoopTypeOK
      <3>4. waitRelease
        BY <1>1, <2>2, <3>1, Zenon DEF ButtonComesUp
      <3>5. /\ btnLongPress' = (btnLongPress \/ Since(btnDownMs) >= LongPress)
            /\ btnPressed' = (btnPressed \/ Since(btnDownMs) < LongPress)
        BY <3>1, <3>4, Zenon DEF ButtonComesUp
      <3>6. /\ btnLongPress' => Since(btnDownMs) >= LongPress
            /\ btnPressed' => Since(btnDownMs) < LongPress
        BY <2>2, <3>5, Zenon
      <3> QED BY <3>2, <3>3, <3>4, <3>6, Zenon
    <2>5. Since(btnDownMs) = EdgeAge
      BY <2>1, <2>4 DEF DownClock, EdgeAge
    <2>6. /\ EdgeAge < stretch + ButtonDebounce \/ stretch = Cap
               \/ EdgeAge < ButtonDebounce + MaxLoopMs
          /\ stretch < EdgeAge + ButtonDebounce + 2 * MaxLoopMs
      BY <2>1, <2>4 DEF DownClock
    <2>7. btnLongPress' => stretch > LongPress - ButtonDebounce
      BY <2>3, <2>4, <2>5, <2>6
    <2>8. btnPressed' => stretch < LongPress + ButtonDebounce + 2 * MaxLoopMs
      BY <2>3, <2>4, <2>5, <2>6
    <2> QED BY <2>7, <2>8
  <1>2. PanelIInv /\ [PanelNext]_loopVars
          => [Encoder => /\ btnLongPress' => stretch > LongPress - ButtonDebounce
                         /\ btnPressed' =>
                              stretch < LongPress + ButtonDebounce + 2 * MaxLoopMs]_loopVars
    BY <1>1
  <1> QED BY <1>2, PanelInvariance, PTL DEF PanelSpec, PressTold

(* A detent is counted only when the knob was turned by one, and in its     *)
(* direction (kTable, pollEncoder).                                         *)
THEOREM NoPhantomTurnHolds == PanelSpec => NoPhantomTurn
  <1>1. ASSUME PanelIInv, Encoder, ~missed, delta' # 0
        PROVE  travel = 4 * delta'
    BY <1>1, CountedAsTurned DEF PanelIInv
  <1>2. PanelIInv /\ [PanelNext]_loopVars
          => [Encoder /\ ~missed /\ delta' # 0 => travel = 4 * delta']_loopVars
    BY <1>1
  <1> QED BY <1>2, PanelInvariance, PTL DEF PanelSpec, NoPhantomTurn

(* Of two detents turned slowly enough at most one is not counted, until    *)
(* the stamp of the last one that was has wrapped (kEncoderEmitGapMs).      *)
THEOREM TurnNotLostTwiceHolds == PanelSpec => TurnNotLostTwice
  <1>1. ASSUME PanelIInv, Encoder, lost, sinceDetent < Wrap - EmitGap
        PROVE  ~DetentLost
    <2> SUFFICES ASSUME DetentLost PROVE FALSE
      OBVIOUS
    <2>1. LoopTypeOK /\ EncoderTypeOK /\ KnobInv
      BY <1>1 DEF PanelIInv
    <2>2. DetentDone /\ sinceDetent >= EmitGap /\ delta' = 0
      BY DEF DetentLost
    <2>3. Since(lastEmitMs) < EmitGap
      BY <1>1, <2>1, <2>2, WhyNotCounted
    <2>4. sinceDetent <= Since(lastEmitMs)
      BY <1>1, <2>1 DEF KnobInv, LostClock
    <2>5. sinceDetent \in Nat /\ EmitGap \in Nat /\ Since(lastEmitMs) \in Nat
      BY <2>1, SinceIs, Rounds DEF LoopTypeOK, EncoderTypeOK
    <2> QED BY <2>2, <2>3, <2>4, <2>5
  <1>2. PanelIInv /\ [PanelNext]_loopVars
          => [Encoder /\ lost /\ sinceDetent < Wrap - EmitGap => ~DetentLost]_loopVars
    BY <1>1
  <1> QED BY <1>2, PanelInvariance, PTL DEF PanelSpec, TurnNotLostTwice
=============================================================================
