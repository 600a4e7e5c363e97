-------------------------------- MODULE Clock --------------------------------
(***************************************************************************)
(* The time loop() samples once per round with millis() and hands to every  *)
(* tick(nowMs), and the unsigned arithmetic its readers do with it.         *)
(***************************************************************************)
EXTENDS Integers

CONSTANT Wrap   \* millis() counts modulo Wrap (2^32 in the code)

VARIABLE now    \* the clock value of the current round of the main loop

ASSUME ClockAssumption == Wrap \in Nat \ {0}

Times == 0 .. Wrap - 1

\* nowMs - t in uint32_t arithmetic.
Since(t) == (now - t) % Wrap
=============================================================================
