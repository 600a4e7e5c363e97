----------------------------- MODULE DurableValue -----------------------------
(***************************************************************************)
(* What a component that keeps a value in flash promises about it, and      *)
(* nothing of how: the value is worked on in memory, storage only ever      *)
(* receives what memory holds, the user is told that a value is kept only   *)
(* when it is, nothing that was announced is erased, and a restart brings   *)
(* back what was kept.  BatchLifecycle implements it.                       *)
(***************************************************************************)
CONSTANT Blank   \* no value: what a fresh device holds

VARIABLES
  on,     \* the device is powered
  live,   \* the value it works with; of no account while it is off
  kept,   \* the value in storage
  told    \* the value the user was told is kept, Blank if none

durableVars == <<on, live, kept, told>>

Init == on \in BOOLEAN /\ live = Blank /\ kept = Blank /\ told = Blank

\* A value may be replaced at any time; what was said of the old one is void.
Work == on /\ told' = Blank /\ UNCHANGED <<on, kept>>

\* A write, which may be the one that is announced.
Keep ==
  /\ on
  /\ kept' = live
  /\ told' \in {told, live}
  /\ UNCHANGED <<on, live>>

Erase ==
  /\ on /\ told = Blank
  /\ kept' = Blank
  /\ UNCHANGED <<on, live, told>>

Fail == on /\ on' = FALSE /\ UNCHANGED <<kept, told>>

\* The power comes back, or a reboot.
Recover == on' = TRUE /\ live' = kept /\ UNCHANGED <<kept, told>>

Next == Work \/ Keep \/ Erase \/ Fail \/ Recover
Spec == Init /\ [][Next]_durableVars

(* What was announced is kept, and the device works with it.                *)
ToldIsKept == told # Blank => kept = told /\ (on => live = told)
=============================================================================
