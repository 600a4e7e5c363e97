----------------------------- MODULE PlanTable -----------------------------
(***************************************************************************)
(* The batch and its plan, one row per day (domain/IncubationBatch.h,       *)
(* domain/IncubationPlanTable.h), the presets that generate a plan          *)
(* (policy/PlanGenerator.cpp and its four preset classes) and the           *)
(* calculation of the day (policy/DayResolver.h).  A row's day field is its *)
(* index in the plan; ids, versions and time stamps are left out.  Op_Xyz   *)
(* is Op as a plausible bug would have it.                                  *)
(***************************************************************************)
EXTENDS RuntimeState, Sequences

CONSTANTS
  Species,    \* the species a user can choose, with Chicken among them
  Chicken,
  Preset,     \* what each preset class fills in
  MaxRows,    \* kMaxRows
  Epochs,     \* wall clock values, in DaySecs-ths of a day
  DaySecs     \* 86400

VARIABLES
  batch,      \* domain::IncubationBatch
  plan        \* the rows of domain::IncubationPlanTable in use

planVars == <<batch, plan>>

Row == [target : [Loops -> Levels], turning : BOOLEAN, intervalMs : Nat]

PresetType == [days : Days, lockdown : Days, early : Row, late : Row]

BatchType ==
  [species : Species, totalDays : Days, lockdownStartDay : Days,
   active : BOOLEAN, startEpoch : Epochs]

ASSUME PlanAssumption ==
  /\ Chicken \in Species
  /\ Preset \in [Species -> PresetType]
  /\ MaxRows \in Nat /\ MaxRows <= MaxDay
  /\ Epochs \subseteq Nat /\ 0 \in Epochs
  /\ DaySecs \in Nat \ {0}

\* The preset classes: PlanGenerator::generate never returns false on them.
ASSUME PresetAssumption ==
  \A s \in Species : /\ 0 < Preset[s].lockdown /\ Preset[s].lockdown <= Preset[s].days
                     /\ Preset[s].days <= MaxRows

\* IncubationPlanTable::isValid; the rows of a plan are numbered by position.
PlanIsValid_NotFull(p) == Len(p) > 0 /\ Len(p) < MaxRows
PlanIsValid(p) == Len(p) > 0 /\ Len(p) <= MaxRows

\* IncubationPlanTable::getRow returns a row.
HasRow(p, day) == day # 0 /\ day <= Len(p)

\* A batch that was just constructed, and IncubationBatch::isValid: the id is
\* set exactly when the batch has been through StartBatch, as are the days.
EmptyBatch ==
  [species |-> Chicken, totalDays |-> 0, lockdownStartDay |-> 0,
   active |-> FALSE, startEpoch |-> 0]
BatchIsValid_Running(b) == b.active
BatchIsValid(b) == b.totalDays > 0 /\ b.lockdownStartDay > 0

\* The fill() of the species' preset: the rows, and the days of the batch.
Generated(s) ==
  [d \in 1 .. Preset[s].days |->
     IF d < Preset[s].lockdown THEN Preset[s].early ELSE Preset[s].late]
WithPresetDays_DayAfter(b) ==
  [b EXCEPT !.totalDays = Preset[b.species].days,
            !.lockdownStartDay = Preset[b.species].lockdown + 1]
WithPresetDays(b) ==
  [b EXCEPT !.totalDays = Preset[b.species].days,
            !.lockdownStartDay = Preset[b.species].lockdown]

Resolve_Unclamped(startEpoch, nowEpoch, totalDays) ==
  CASE totalDays = 0 -> 0
    [] totalDays # 0 /\ nowEpoch <= startEpoch -> 1
    [] OTHER -> (nowEpoch - startEpoch) \div DaySecs + 1
\* DayResolver::resolve.
Resolve(startEpoch, nowEpoch, totalDays) ==
  CASE totalDays = 0 -> 0
    [] totalDays # 0 /\ nowEpoch <= startEpoch -> 1
    [] OTHER -> LET day == (nowEpoch - startEpoch) \div DaySecs + 1
                IN IF day > totalDays THEN totalDays ELSE day

PlanTypeOK ==
  /\ batch \in BatchType
  /\ plan \in Seq(Row) /\ Len(plan) <= MaxRows
=============================================================================
