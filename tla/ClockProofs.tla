----------------------------- MODULE ClockProofs -----------------------------
(***************************************************************************)
(* The unsigned arithmetic of the wrapping clock: as long as less time has  *)
(* passed than millis() takes to wrap, nowMs - t is the time since t.       *)
(***************************************************************************)
EXTENDS Clock, TLAPS

LEMMA TimesAreNat == 0 \in Times /\ \A t \in Times : t \in Nat /\ t < Wrap
  BY ClockAssumption DEF Times

LEMMA ModInTimes == ASSUME NEW n \in Int PROVE n % Wrap \in Times
  BY ClockAssumption DEF Times

\* What % does within one wrap of either side.
LEMMA ModWithin == ASSUME NEW n \in Int, 0 <= n, n < Wrap PROVE n % Wrap = n
  BY ClockAssumption

LEMMA ModAbove == ASSUME NEW n \in Int, Wrap <= n, n < 2 * Wrap PROVE n % Wrap = n - Wrap
  BY ClockAssumption

LEMMA ModBelow == ASSUME NEW n \in Int, -Wrap <= n, n < 0 PROVE n % Wrap = n + Wrap
  BY ClockAssumption

\* What % does to a difference of two times, and to the clock.
LEMMA ModOfDifference ==
  ASSUME NEW a \in Times, NEW b \in Times
  PROVE  (a - b) % Wrap = IF b <= a THEN a - b ELSE a - b + Wrap
  <1> DEFINE n == a - b
  <1>1. n \in Int /\ -Wrap <= n /\ n < Wrap /\ (b <= a <=> 0 <= n)
    BY TimesAreNat, ClockAssumption
  <1> HIDE DEF n
  <1>2. n % Wrap = IF 0 <= n THEN n ELSE n + Wrap
    BY <1>1, ModWithin, ModBelow
  <1> QED BY <1>1, <1>2 DEF n

LEMMA ModOfSum ==
  ASSUME NEW a \in Times, NEW d \in Nat, d < Wrap
  PROVE  /\ (a + d) % Wrap \in Times
         /\ (a + d) % Wrap = IF a + d < Wrap THEN a + d ELSE a + d - Wrap
  <1> DEFINE n == a + d
  <1>0. a \in Nat
    BY TimesAreNat
  <1>1. n \in Int /\ 0 <= n /\ n < 2 * Wrap
    BY TimesAreNat, ClockAssumption
  <1> HIDE DEF n
  <1>2. n % Wrap \in Times /\ n % Wrap = IF n < Wrap THEN n ELSE n - Wrap
    BY <1>1, ModWithin, ModAbove, ModInTimes, ClockAssumption
  <1> QED BY <1>0, <1>2, ClockAssumption DEF n

\* The age of a stamp, case by case.
LEMMA SinceIs ==
  ASSUME now \in Times, NEW t \in Times
  PROVE  /\ Since(t) \in Nat /\ Since(t) < Wrap
         /\ Since(t) = IF t <= now THEN now - t ELSE now - t + Wrap
  <1>1. Since(t) = IF t <= now THEN now - t ELSE now - t + Wrap
    BY ModOfDifference DEF Since
  <1> QED BY <1>1, TimesAreNat, ClockAssumption

\* The age of a stamp of this round is 0.
LEMMA SinceNow == ASSUME now \in Times PROVE Since(now) = 0
  BY SinceIs, TimesAreNat

\* The age of a stamp grows with the clock, until it wraps.
LEMMA SinceGrows ==
  ASSUME now \in Times, NEW t \in Times, NEW d \in Nat, Since(t) + d < Wrap
  PROVE  /\ (now + d) % Wrap \in Times
         /\ (((now + d) % Wrap) - t) % Wrap = Since(t) + d
  <1> DEFINE later == (now + d) % Wrap
  <1>1. Since(t) \in Nat /\ Since(t) = IF t <= now THEN now - t ELSE now - t + Wrap
    BY SinceIs
  <1>2. d < Wrap
    BY <1>1, ClockAssumption
  <1>3. later \in Times /\ later = IF now + d < Wrap THEN now + d ELSE now + d - Wrap
    BY <1>2, ModOfSum
  <1> HIDE DEF later
  <1>4. (later - t) % Wrap = IF t <= later THEN later - t ELSE later - t + Wrap
    BY <1>3, ModOfDifference
  <1>5. (later - t) % Wrap = Since(t) + d
    BY <1>1, <1>3, <1>4, TimesAreNat, ClockAssumption
  <1> QED BY <1>3, <1>5 DEF later

\* However long it takes, the age never grows by more than the time passed.
LEMMA SinceAtMost ==
  ASSUME now \in Times, NEW t \in Times, NEW d \in Nat, d < Wrap
  PROVE  /\ (((now + d) % Wrap) - t) % Wrap \in Nat
         /\ (((now + d) % Wrap) - t) % Wrap <= Since(t) + d
  <1> DEFINE later == (now + d) % Wrap
  <1>1. Since(t) \in Nat /\ Since(t) = IF t <= now THEN now - t ELSE now - t + Wrap
    BY SinceIs
  <1>2. later \in Times /\ later = IF now + d < Wrap THEN now + d ELSE now + d - Wrap
    BY ModOfSum
  <1> HIDE DEF later
  <1>3. (later - t) % Wrap = IF t <= later THEN later - t ELSE later - t + Wrap
    BY <1>2, ModOfDifference
  <1>4. (later - t) % Wrap \in Nat /\ (later - t) % Wrap <= Since(t) + d
    BY <1>1, <1>2, <1>3, TimesAreNat, ClockAssumption
  <1> QED BY <1>4 DEF later
=============================================================================
