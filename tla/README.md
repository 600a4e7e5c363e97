# TLA+ models of the incubator firmware

The repository is the firmware of an egg incubator on an ESP32-S3 (Arduino on
FreeRTOS): an AHT20 sensor, relays for heater, humidifier and egg turner, a
buzzer, a display with a rotary encoder, plans of one row per day, and storage
in NVS and LittleFS. This directory holds TLA+ specifications of its control
logic, TLC instances that check them, and TLAPS proofs of all that the runs check except
liveness: about the composed firmware, the life of a batch, provisioning, knob and
button, and the timing of the control loops. `PROJECT.json` maps every definition to the lines it models.

Throughout, a source file is named from `src/src/` (`app/AppController.cpp`).

## 1. The system

### Components

| Component | State it keeps | Operations | Modelled in |
|---|---|---|---|
| `domain/RuntimeState.h`, `devices/GpioOutput` | the shared structure; the level of each pin | plain assignment; `set`, `init` | `RuntimeState` |
| `modules/SensorManager`, `devices/Aht20Driver` | phase of a poll, stamps, last good sample, failure count | `tick`; `triggerMeasurement`, `fetchResult` | `SensorManager` |
| `modules/IncubationScheduler`, `policy/DayResolver.h` | `m_lastMs` | `tick`, `applyRow`, `resolve` | `IncubationScheduler` |
| `modules/ClimateModule` | tick stamp, two alarm accumulators, two switch stamps | `tick` | `ClimateModule` |
| `modules/TurningModule` | tick stamp, `m_turningOnMs`, `m_isTurning` | `tick` | `TurningModule` |
| `policy/PlanGenerator` and presets, `domain/Incubation*` | the batch, the plan | `fill`, `isValid`, `getRow` | `PlanTable` |
| `app/AppController` | batch, plan, settings (by reference) | `applyCommand`, `restoreFromStorage`, `validateAndRepairPlan` | `OutputCommands`, `AppController` |
| `storage/PlanStorage`, `storage/NvsStorage` | plan file; batch, settings and boot blobs | `save`, `load`, `erase`, `saveBlob`, `eraseAll` | `AppController`, `ProvisioningManager` (settings), abstractly `DurableValue` |
| `ui/UiController` | screen, cursors, edit fields, copy of the state | `tick` | `UiController` |
| `main.cpp` | -- | `setup`, `loop` | `Incubator` |
| `infra/ProvisioningManager` | session state and stamps; the network in the settings; SNTP | `init`, `startBootProvisioning`, `requestMenuProvisioning`, `cancel`, `tick`, `handleEvent` | `ProvisioningManager` |
| `devices/Ec11Encoder` | debounce and quadrature state, latched events | `tick`, `consumeDelta`, `wasPressed`, `wasLongPressed` | `Ec11Encoder` |
| renderers, `St7789Display`, `I2cBus`, `PwmFan` | -- | output | no |
| `cloud/*` | -- | telemetry, commands | no: not compiled |

### How they interact

All but the WiFi events run in one task. `loop()` samples `millis()` once and calls, in this order,
sensor, scheduler, climate, turning, provisioning, encoder, user interface and
renderer, each with that one time stamp. They do not send each other anything: they share one
`RuntimeState`, the `GpioOutput`s, the batch and the plan by reference, without
locks. Each module has a period and returns when it is not over. The user
interface calls `AppController::applyCommand` synchronously, and a command can
write twice to storage before it returns. Two things come from other tasks:
SNTP's change of the system clock, and the WiFi events, whose handler
(`ProvisioningManager::handleEvent`) changes the manager's fields and the
settings, and writes to NVS, without a lock.

### What is hard about it

* **Shared outputs.** Three components switch the turner (module, manual
  commands) or its mirror flag (scheduler as well). `manualMode` decides
  who may; safe mode, factory reset and restarts cut across it.
* **Two writes, one meaning.** A batch is a blob in NVS and a file in LittleFS.
  A write can fail and the power can go between the two.
* **Two clocks.** `millis()` wraps after 49.7 days and is only sampled when the
  loop comes round, which blocks for up to seconds in storage or I2C; the wall
  clock starts in 1970 after a power failure and jumps when SNTP answers.
* **Stamps that mean two things.** 0 is both "never" and "at time 0"; the age
  of a stamp wraps.
* **Samples of things that move.** Knob, button and sensor are looked at once
  per round; what they did in between is lost or seen late. The sensor's
  driver asks `millis()` once more and is ahead of the manager that polls it.
* **Two tasks.** `markConnected` runs in the main task and in the event task;
  the settings and the session are changed in both.
* **Two owners of the network.** The settings say whether a network is known;
  the credentials are the WiFi driver's, in a flash area of its own.
* **Stale copies.** The manual switches toggle by a copy of the state up to
  100 ms old.

What makes each part correct: the climate module does not cycle a relay faster
than it may, and still takes it off in time; an alarm is neither early nor
late; the turner runs no longer than its duration, the eggs do not lie still
for longer than the interval; a sample without a warning is fresh; a turn, a click,
a long press and a factory reset are told apart; what a command announced as stored survives;
the day that is applied is a day the plan has; a provisioning session ends in
time and not before it, and does not leave the device configured without
credentials; in manual mode nothing but the
user moves an output, and out of it no output is orphaned.

## 2. The modules

`RuntimeState` declares the shared data. A loop of the thermostat is an index
into `Loops`: `controlTemp` and `controlHumidity`, and the two halves of
`checkAlarms`, are the same code twice. Readings and targets are integers.
`Energised` is `GpioOutput::set` with its test for pin -1. `Clock`, which it
extends, has the time of the round: `Since(t)` is `nowMs - t` in unsigned
arithmetic, modulo `Wrap` (2^32 in the code). `Sensed` is all that the other
modules see of the sensor, and what the compositions below have in its place.

`ClimateModule`, `TurningModule`, `IncubationScheduler`, `SensorManager` (with
`Aht20Driver`), `Ec11Encoder`: one operator `...Tick`
per `tick(nowMs)`, a disjunction of the ways through it, each with the early
return that leads to it as its guard. Time stamps are the code's own fields.

`PlanTable`: batch, plan, presets, `isValid`, `getRow`, and `Resolve`. A row's
day is its position; the presets are a constant, so that the properties hold
for other species and lengths.

`OutputCommands`: the commands that touch the state and pins only.
`AppController`: the commands that store, cut at their writes. `busy` names the
next write; each write either succeeds, or (`StorageFails`) goes wrong with what the
storage may then hold: a plan file that is unchanged, or does not parse (`Damaged`);
a blob that is old, or new with only the commit reported as failed. What a write *returns*
is another matter. NVS reports its commit. `PlanStorage::save` notices only a
write of no bytes at all: a short one, and what `close()` returns, where
LittleFS commits the file, are dropped, so that a save can return true and leave what a
failed one leaves (`PlanSave`). A power cut *during* a write leaves the old file. `Boot` is
`restoreFromStorage` with `validateAndRepairPlan`.

`ProvisioningManager`: the manager with both of its tasks. `pc` says where each
is; `markConnected`, which both run, is cut at each of its accesses to the settings,
the storage and the session, and a step reads only what the code reads there: the link is
asked for its name twice, and may be gone the second time (`Unnamed`, an empty
SSID). `millis()` in a handler is ahead of the round's time by some of `Lags`.
The driver (`link`, `creds`, `joining`) and the BLE stack (`stack`) are external
and do what the calls ask for; the stack may fail to start or to be reset.
`bluedroid` is `CONFIG_BLUEDROID_ENABLED`: the code has both builds, and the
committed `sdkconfig.esp32-s3-devkitc-1:1315` leaves Bluetooth out, in which case a
session fails as soon as it starts and no event is delivered.

`DurableValue`: the abstract specification of a value that is kept in flash.
Memory works on it, storage only receives what memory holds, the user is told
that a value is kept only when it is, and a restart brings back what was kept.

`UiController`: screens and the command each issues. A knob that moves a cursor
changes nothing; what the cursors select is chosen nondeterministically.
`Refresh` is `syncFromState`, which happens in some rounds and not in others.
The screen after a command follows in a step of its own when the command has
returned (`UiReturns`), and nothing else runs in between.

The compositions:

* `ClimateRounds`: `ClimateModule` in the rounds of `loop()`. The other components are there only by
  what they can do to the readings, targets, flags, settings and pins the module reads or
  switches, at any point of a round (`OtherModule`), and a restart may come at any
  time (`Reboot`). `Incubator` implements it.
* `ClimateLoop`, `TurningLoop` and `SensorLoop`: one module under a main loop whose rounds
  take different times (`LoopMs`), with what the other components can do
  to the data it reads, and restarts. History variables measure real durations, saturating at
  `Cap`, so that the properties do not rely on the module's own stamps.
  In `TurningLoop` the day moves, and the plan becomes another of `Plans`, at any time: a patched row,
  a started batch, or none after a factory reset, also under a running interval.
  `ClimateLoop` is `ClimateRounds` with such variables, which constrain nothing.
  `SensorLoop` lets the driver's clock be ahead (`Lags`) and the bus fail.
* `PanelLoop`: the encoder and the part of `UiController::tick` that leads to a
  factory reset. Knob and button move between two samples: the knob by any
  number of phases in `KnobSteps`, the button without bound on its bouncing; `hand` says which of
  the two is moved in a behaviour. The other screens are one screen, "Other".
* `BatchLifecycle`: `AppController` and the scheduler, with power failures
  between any two writes, reboots that keep the wall clock, the passing of days
  and SNTP. `powered` and `trueEpoch` are the environment. History
  variables: `acked` (the batch last announced), `edit` (the row last patched, and
  whether it was announced and is in the file), `torn` (storage holds a batch and a
  plan that was not written for it), `waived` (safe
  mode was left while memory and storage differed), `locked`. It implements
  `DurableValue` with the batch in memory, the batch in NVS and `acked`
  (`BatchIsDurable`).
* `WifiSettings`: `ProvisioningManager` with the main loop's rounds, what the
  menu and the commands do to the network, the phone, the access points and
  power failures. Histories: `heard` and `promised` (how long ago the phone was
  heard, and the window it was given), `shown` (since the network was found), `user`
  (who last changed the credentials), `unsaved` (the last write failed).
* `Incubator`: all of `loop()`, a step per module, and `Restart` at any point
  between them or inside a command. `Restart` stands for `esp_restart`, the
  watchdog and a power failure: the memory is initialised and the wall clock
  shows anything. `View`, `Flags` and `Pins` are what `ClimateModule` sees of it: its own
  loops, the buzzer, and the fields of the state its tick uses. Seen so, every step of
  `Incubator` is a step of `ClimateRounds` or none (`ClimateAsInRounds`).

Operators named `Op_Xyz` are `Op` as a plausible bug would have it. No
specification uses them; put in the place of `Op` they make TLC report the
property they belong to (`PROJECT.json`, `mutants`).

## 3. The runs

| Run | Question | Instance |
|---|---|---|
| `Climate` | Do relays switch neither too often nor too late, are alarms neither early nor late? | one loop, `Wrap` 12, period 2, minimum 5, confirmations 3 and 5, rounds of 1 or 2 |
| `Turning` | How long does the turner run, how often does it start, how long can eggs lie still? | no plan, or one of 2 days with intervals 4 and 6; `Wrap` 10, `Cap` 21, period 2, duration 3, rounds of 1 or 2 |
| `Lifecycle` | Does what was announced survive failing writes and power failures? | plans of 1 and 2 days, 2 true dates, clock 0..12 |
| `Incubator` | Do manual mode, the modules, the user interface and restarts get along? | one loop, one plan of 2 days, failing writes |
| `IncubatorLiveness` | Does safe mode cool down, and is every turner stopped? Is the environment of `ClimateLoop` the one the firmware has? | the same without plan edits and with a wall clock that stands still |
| `TableIsTheTruth`, `LockdownSurvives`, `ManualTurnerShown`, `FactoryForgetsWifi` | Statements of the documents that the code does not keep | as `Lifecycle` (the first with writes that succeed: a power cut is enough), `Incubator` and `Wifi` |

### What they show

**`Climate`.** Between two times the module switches a relay on there
is at least `kRelayMinSwitchMs`, whatever `allOff`, manual mode or a factory
reset did in between (`OnEdgesSpaced`), except after a switch at clock 0 exactly, which the
code reads as "never", and across a restart, which forgets the stamp. A relay that has to go off (too warm, no sample, safe
mode, no batch) is off within the minimum and **two** gaps between ticks
(`RelayGoesOff`). One gap is not enough: `nowMs - last` wraps, so that at
49.7 days a stamp looks fresh once more. The minimum is not a minimum for the
off direction: `allOff` asks nobody and stamps nothing.

An alarm is active only for a reading that the module saw
out of band for `alarmConfirmMs` (`AlarmNotEarly`). The property counts from the tick before the one
that first saw it, so that a pause, however long, is not added to it; from then on it
counts through interrupted control: `allOff`
clears the alarm flag and not the accumulator, so uninterrupted time is not
what is measured, and the property does not tell whether it should be. An uninterrupted one is raised within the confirmation and two
gaps (`AlarmNotLate`); the second covers the round in which the accumulator wraps.
`ClimateLoopTypeOK` holds the accumulators within the clock's width.

**`Turning`.** Outside manual mode the turner stops within its duration and one
gap (`TurnBounded`), although manual mode leaves `m_isTurning` set with the pin
off. Between two starts lies the interval of the row in force at the second, whatever was in force
when it began, unless a factory reset or a restart zeroed the stamp
(`StartsSpaced`), and while turning is allowed without interruption the eggs are turned within
the longest interval that was in force meanwhile, a left-over duration and four gaps (`EggsTurned`), although days
and edits move the target while an interval is running: leaving manual mode can
leave an old turning, which the module sees a gap later and ends a gap late; in the
next gap the age of `lastTurningMs` can wrap, so that the whole interval is waited for once more;
and the start itself is a gap late.

**`Lifecycle`.** A batch whose start succeeded is the batch the firmware works
with until a command ends it (`AckedBatchKept`). Of a row that was announced as saved less can
be said, since a save may be lost unnoticed: one that did reach the file stays in the
plan of the active batch through every restart and repair, until another save replaces
the file (`StoredRowKept`). When memory holds an active batch
that storage does not, the device is in safe mode until the user leaves it
(`DivergedIsSafe`). The scheduler misses a row only when storage holds a batch and a plan that was written
for another one (`RowMissingNeedsTear`), never because of a date: before the start, after the
end, in 1970 or after a jump. Three things lead there: a start that got no further than its plan,
a patched row that is saved after such a start, and a start whose plan was lost unnoticed before its batch was stored. Together with what was announced, memory and NVS are a
`DurableValue` (`BatchIsDurable`): no write stores a batch that memory did not
hold, no announced batch is erased, and a restart goes on with the stored one.

**`Incubator`.** `manualMode` and the Manual screen go together
(`ManualScreen`): otherwise all control would be suspended for good, as only
that screen ends it. A turner that runs outside manual mode is one
`TurningModule` believes to be running (`TurnerOwned`), otherwise nobody would
stop it. In manual mode the relay flags are what the pins are (`ManualRelaysShown`), and only the
user interface switches pins (`ManualIsManual`).

**`Sensor`.** However the bus fails and whichever clock is ahead, a poll ends
within a period, a conversion and a round of the last one (`KeepsPolling`), and a sample that is
shown without a warning is no older than that (`FreshUnlessWarned`). A step of the manager
is a step of `Sensed` (`SensorAsSensed`), which is why the other
compositions may have that in its place.

**`Panel`, the knob.** As long as no phase was skipped, a detent is counted only when the knob was turned by
one, and in its direction, however it trembled (`NoPhantomTurn`); when one was, a
turn nobody made can be counted, and no document says otherwise. Of two detents turned
slowly enough at most one is lost (`TurnNotLostTwice`): the first can be, as
`m_lastEmitMs` is 0 at boot and its age wraps. The accumulator never passes
three steps (`EncoderTypeOK`), so that the clipping at eight is dead code.

**`Panel`, the button.** A press is one event and none is left behind for another screen
(`NoEventLeft`); a long press was one and a click was short, up to the debounce time and
two rounds (`PressTold`). The device is erased only by a button that was down for
the ten seconds, less a debounce (`ResetNeedsHold`), although
`m_factoryStartedMs` outlives its screen; and holding it does erase it, within
ten seconds, a debounce and four rounds (`HoldResets`): one of them because a stamp of 0 looks
like none.

**`Wifi`.** Whichever task changes the network last, and however their writes
mix, the blob ends up with what the settings hold (`SettingsReachStorage`). The
BLE stack is up exactly while a session is (`SessionHasStack`): if they parted, the next start
would fail for ever. At every step of the two tasks, also between the writes of one of them, a device
that is configured has credentials, unless the *user* dropped them or a write did
not go as it should (`unsaved`; `StrandedOnlyByHand`): it would neither connect nor
offer a session at its next start. A session from the menu is such a drop: it erases
the driver's credentials before it has new ones and leaves `wifiConfigured`
set, so that one that is cancelled leaves the device stranded until the user starts another. A
session is given the whole of its window from what it last heard
(`WindowNotCut`), with one exception that the model shows: an event that comes during
`tick` stamps a time that is ahead of the round's, `nowMs - m_startedAtMs` wraps, and
the session is over at once, when the state is not `Saving`. The window of the menu is counted from
`uptimeMs`, as the code does, which is as old as `UptimeLags` allows. Without a
sign of the phone it ends in time (`SessionEndsInTime`), unless it waits for an
address: then the window is opened again, for ever. The result is shown for its
fifteen seconds (`SuccessIsShown`), unless their end wraps. These three exceptions are what the code does
near a wrap or with a stale time. No document speaks of them, so that
they are hazards without a property and not findings.

**`IncubatorLiveness`.** Safe mode brings the relays down (`SafeModeCools`), and
a turner outside manual mode is stopped (`TurnerStops`), whatever restarts and
factory resets come between.

The same run checks that what `ClimateLoop` allows the rest of the firmware is all that the rest does:
each module's tick, each step of a command, a round and a restart are steps of `ClimateRounds`, or
none (`ClimateAsInRounds`). The properties of `Climate`, and the theorems about them, are therefore about
the firmware as it is composed. They would not be if, for instance, the scheduler cleared
`safeMode` (the mutant of the property).

### The bounds, and why they are enough

* `Wrap` is small so that the clock wraps many times; periods, minimum times and
  intervals are a few units but keep their order: period < minimum < wrap. The
  histories saturate at `Cap`, above every bound a property compares with.
* `LoopMs = {1, 2}` makes rounds of different length, so that a tick can
  be late and a period is not a multiple of the round.
* `Turning` changes plan, day and flags at any time; two intervals and none are enough for
  one that grows, shrinks or goes while it runs. `Cap` is above the largest bound,
  6 + 3 + 4 * 3. Three gaps in place of the four of `EggsTurned` are refuted by this instance.
* One loop of the thermostat: the two share no variable but the buzzer.
* Two levels, each of which can be the reading and the target: below, at and above the
  band are all there are to tell apart. A band can be inside an alarm band that nothing leaves, or
  the other way round. Neither relays nor alarms read what the other writes, so that `Climate` checks one at a
  time: its action constraint `SameKind` keeps the settings of a behaviour of one kind. A factory
  reset may still change the confirmation time. The proofs have no such restriction.
* `Lifecycle` has a plan that is as long as a plan may be (`MaxRows`) and a
  shorter one, an edit of the day that only the longer one has, writes that fail, noticed or not, and true dates
  from the first to the last day; a lost clock shows a day long before all of these.
* `Incubator` makes every tick due in every round (`Wrap` 2, periods 1). The
  timed runs are about when ticks are due; here it is about their order. Its settings
  put readings inside the alarm band; the alarms are the subject of `Climate`.

* `Panel` has presses up to `MaxHold`, longer than the ten seconds (4 units here)
  with all that can delay them, and a `Wrap` that is longer still: a press of
  49.7 days is left out. Only one of knob and button moves in a behaviour (`hand`), as
  they share nothing but the clock. `KnobSteps = -2 .. 2` contains the jump by two phases that the
  table cannot tell a direction of. The knob starts with both
  contacts open, where this part has its detent.
* `Sensor` has rounds of 1, 2 or 3, longer than the conversion, and a driver
  that reads a clock later than the round's but not than the next.

* `Wifi` has windows of two rounds and a clock of four: long enough to be heard,
  missed and over, short enough to wrap within every session. One network is enough to
  tell its name, the empty name and no network apart. A WiFi event is handled in
  the round in which it is posted, between any two of that round's steps: the
  event task has a higher priority than the main task, whose round lasts
  milliseconds. Phone and network do nothing while a handler or `markConnected` is
  half done (`Unhurried`), which takes microseconds and a write to flash, while they take
  seconds; a link can break at any moment. The run has writes that succeed (1.7 million
  states); with `SaveFails = TRUE` the same instance has 3.2 million and passes too, and
  the proofs cover both.

No run stops: each checks for deadlock.

### Fairness

Only `FairSpec` has any: weak fairness of `LoopStep`, the disjunction of
everything the main task does. The task is never suspended: it is the only one with
work, `loop()` is called for ever, and no call in it waits without a timeout. No fairness is
assumed of the user, of storage (a write may always fail), of SNTP or of
restarts. A device whose NVS cannot be initialised halts in `setup` and is
left out (`Init` is a boot that got past it). `SafeModeCools` and `TurnerStops` allow for manual mode, in
which the user has taken over.

## 4. What is proved

Every theorem holds for every value of the constants that the named assumptions admit: any number of rows, any
presets, settings, networks, periods, windows, clock widths and outputs, and any kind
of failure the constants can allow. Each module below proves one inductive
invariant of one composition, a lemma per action, and reads its properties off it.
`IncubatorProofs` extends `BatchLifecycleProofs` for what both need of the commands
and the scheduler: what each write leaves alone, that a preset's plan is valid, and
that the resolved day is a day of the batch.

### `IncubatorProofs`: the main loop

| Theorem | |
|---|---|
| `Invariance` | `Spec => []IInv` |
| `TypeCorrect` | `Spec => []TypeOK` |
| `ManualScreenHolds` | `Spec => []ManualScreen` |
| `TurnerOwnedHolds` | `Spec => []TurnerOwned` |
| `ManualRelaysShownHolds` | `Spec => []ManualRelaysShown` |
| `ManualIsManualHolds` | `Spec => ManualIsManual` |
| `ClimateAsInRoundsHolds` | `Spec => ClimateAsInRounds` |

The argument is one inductive invariant,

    IInv == TypeOK /\ CommandPhase /\ CommandScreen /\ PlanReady
            /\ ManualScreen /\ TurnerOwned /\ ManualRelaysShown

None of the three properties is inductive alone. A command that is still writing
may put the device in safe mode or replace the state with a fresh one; that this
does not take manual mode away from under the Manual screen needs
`CommandScreen`: a command that stores was issued from another screen.
`CommandPhase` says that a command is in progress only at the user interface's
place in `loop()`, so that no module's tick falls into it. `PlanReady` says that
a start that is about to apply its first row has a plan with one; without it
the target of the state could have no type. `TurnerOwned` needs
`ManualScreen`: the scheduler and the commands that store leave pin and
`m_isTurning` alone, and leaving manual mode, the one step after which the property must hold
for a turner the user started, switches all four outputs off.

Assumptions, each stated where its constant is declared: the data is of the
right sort; a preset has at least one day, its lockdown starts within it and its plan fits the
table (`PresetAssumption`; the four preset classes); and
`WiringAssumption`: the heater and the humidifier have pins. The proof found
the last one: with pin -1 the manual command sets the mirror flag and
`GpioOutput` stays off. The turner and the fan need no such
assumption, as nothing that is proved relates their flag to their pin.

`ManualIsManualHolds` is an action property: each step of `Next` is taken in turn
under the invariant.

`ClimateAsInRoundsHolds` is a refinement. It has a lemma for each step of `loop()` and of
a command (`SenseSeen`, `SchedulerSeen`, `ClimateTickSeen`, `TurningSeen`, `UiSeen`, `WriteSeen`, `RestartSeen`), and
`StepSeen` puts them together. `SeenIs` says that two states with the same part for the climate module look the same to it, `PinsType` and
`FlagsSame` that hiding the other outputs commutes with switching the module's own:
`SameReadings` and `SameDecisions` follow, by which the module's tick on the view is the view of its tick. The
invariant is needed in two places: a command may only reset the state
outside manual mode, since leaving manual mode has to switch the relays off (`Forget`;
`CommandScreen` with `ManualScreen`), and manual commands are given in manual mode only
(`UserCommand`; `ManualScreen`). `ClimateLoop` adds to `ClimateRounds` histories that constrain
nothing, so that with the theorems of `ClimateLoopProofs`, and their assumptions on the lengths of rounds,
relays and alarms are in time in the composed firmware. This last step is
an argument about histories, not a proof that tlapm checks.

### `BatchLifecycleProofs`: what survives

| Theorem | |
|---|---|
| `LifeInvariance` | `LifeSpec => []LifeIInv` |
| `LifeTypeCorrect` | `LifeSpec => []LifeTypeOK` |
| `AckedBatchIsKept` | `LifeSpec => []AckedBatchKept` |
| `StoredRowIsKept` | `LifeSpec => []StoredRowKept` |
| `DivergenceIsSafe` | `LifeSpec => []DivergedIsSafe` |
| `RowsNeverMissing` | `LifeSpec => []RowMissingNeedsTear` |
| `BatchRefinesDurable` | `LifeSpec => BatchIsDurable` |
| `ToldIsAlwaysKept` | `LifeSpec => []Durable!ToldIsKept` (through the refinement) |

`LifeIInv` says what a command leaves in memory and in storage *between* its
writes, where the properties allow nothing to be said. `AckedStored` is stronger than
`AckedBatchKept` (a batch is announced only when NVS holds it);
it survives a reset because `NothingToErase` says that what was announced is
withdrawn before the erasing begins. `SettledIsSafe` names the commands that may be unsettled
(`Unsettled`), so that a power failure in one of them lands outside the property and
a failed write in safe mode. `RowStored` and `RowPatched` follow an edit
from the table in memory into the file; whether it got there is part of the history `edit`, as the
code's return value does not tell. `RowsNeverMissing`, an action property, has an invariant of
its own, `RowsIInv`: while `torn` is FALSE memory and storage each hold a plan with the days of their
batch, or a file that does not load and is generated anew at the next start. It cannot say that the file
holds the plan in memory, since a save that was announced may have left another: `torn` is
decided when the batch is stored (`ForeignPlan`), and until the second write of the batch
`StoredWhileCommitting` holds it there. `DaysFromPreset` and `ClockBehind` are what it needs of the dates. `BatchRefinesDurable` maps
each step to a step of `DurableValue` or to a stutter, so that the batch inherits what
the abstract specification promises (`ToldIsAlwaysKept`).

### `WifiSettingsProofs`: the two tasks

| Theorem | |
|---|---|
| `WifiInvariance` | `WifiSpec => []WifiIInv` |
| `WifiTypeCorrect` | `WifiSpec => []WifiTypeOK` |
| `SessionHasStackHolds` | `WifiSpec => []SessionHasStack` |
| `SettingsReachStorageHolds` | `WifiSpec => []SettingsReachStorage` |

    WifiIInv == WifiTypeOK /\ SessionHasStack /\ StackIsStarted /\ StartIsAwaited
                /\ SettingsReachStorage

`SessionHasStack` is not inductive: `stopProvisioning` asks `m_startedStack` and
not the stack, so that the two have to agree (`StackIsStarted`), and the handler of
`PROV_START` sets `m_active` without asking for anything. It is sound only because
the event is handled before the session it belongs to can end (`StartIsAwaited`:
as long as one is queued, the main task sleeps and the session is active). This is
where the proof uses that the event task is the faster one. `SettingsReachStorage` is inductive
alone: every step that changes the settings is followed, in the same task, by a write that
reads them anew, so that it does not matter which task's write is the last.

Three more invariants, each given the first, are proved together as `WindowsInvariance`.

`GivenInv` is behind `StrandedOnlyByHand`. The two halves of the property are
written by different hands: the settings by `markConnected`, the credentials by
the driver, the phone and the commands. What relates them is that a network is
only noted while there is, or was, a link, and that a link needs credentials
(`NetworkWasGiven`, from the event in the queue to the last of the writes;
`SettingsWereGiven`, `BlobWasGiven`). Only the phone's refusal takes credentials away
without the user's doing. `FailIsAlone` says that it cannot meet a link, an address that is still to be
noted or a `markConnected` half done in the main task; `SentInSession` says why: a refusal
answers what was sent in this session, and there is no link while the answer is
awaited. `FailClears` orders the writes of the refusal: the settings before the credentials.

`WindowInv` is behind `WindowNotCut` and `SessionEndsInTime`. The window is
measured by the age of `m_startedAtMs`, the properties by `heard` and `promised`. A
handler stamps a time *ahead* of the round's, whose age wraps at once. `JustHeard` is that
state; it lasts until the next round, when the stamp is in the past again. In every
other, `NotEarly` and `NotLate` bound the difference of the two from each side, by nothing and by one of `Lags`.
`NotLate` holds only while the age has not wrapped. It has not as long as `tick` looks at it, since it
ends the session or finds that the window is not over (`AgeFits`); in the states in
which the link is up or an address is awaited it may, and the invariant claims nothing there
(`Watched`).

`FinishClock` is behind `SuccessIsShown`: until `shown` reaches the fifteen seconds,
`m_finishAtMs` is the time the network was found, a lag and `FinishMs`, modulo the
wrap. That the code compares it with `nowMs`, and not its age, is the exception in the property.

`WindowsAssumption` says what this needs: there is a longest round; every window with
one more round is shorter than a wrap, and so are the fifteen seconds with the lag of a handler, and
the age of `uptimeMs` with a round; a handler's lag is not longer than a round, so that it is done before
the next; `Cap`, which exists for TLC only, cuts no window off.

### `PanelLoopProofs`: knob and button

| Theorem | |
|---|---|
| `PanelInvariance` | `PanelSpec => []PanelIInv` |
| `EncoderTypeCorrect` | `PanelSpec => []EncoderTypeOK` |
| `NoPhantomTurnHolds`, `TurnNotLostTwiceHolds` | `PanelSpec => NoPhantomTurn`, `TurnNotLostTwice` |
| `NoEventLeftHolds` | `PanelSpec => []NoEventLeft` |
| `PressToldHolds` | `PanelSpec => PressTold` |
| `ResetNeedsHoldHolds` | `PanelSpec => ResetNeedsHold` |
| `HoldResetsHolds` | `PanelSpec => []HoldResets` |

    PanelIInv == LoopTypeOK /\ EncoderTypeOK /\ KnobInv /\ ButtonInv

`KnobInv` compares the accumulator with the way round. `Past` is how many phases the last sample is
past the detent. `AccumInRange` holds whatever the knob skips: the accumulator is
between what the knob did if it came from the detent on one side, and on
the other, and 0 in the detent; hence the three steps. As long as no phase was skipped it is one of
the two, and the way the knob went (`AccumIsTravel`), so that four steps are a detent.
`LostClock` compares the age of `m_lastEmitMs` with the time since the last detent, until it wraps.

`ButtonInv` compares the age of the last accepted edge with the time the button
has been down (`solidMs`) or was (`stretch`). `UpClock` and `DownClock` are the two states of the debouncing,
each with what it can hide: an edge for up to the debounce time and a round. `HoldNotEarly` says that the
stamp of the hold is never older than the edge, although it outlives its screen; `HoldNotLate`
that it is not more than three rounds younger, with a case of its own for the round
that starts at clock 0.

Assumptions (`RoundsAssumption`): there is a longest round, and a press, with a debounce time and a round, is
shorter than a wrap. `PressToldHolds` alone needs `ClickAssumption`: a debounce time and a round are
shorter than a long press, 1.5 s. The code does not enforce it. In a round that takes longer, as one with several writes to flash
may, a click is sampled as up when it is already told as a long press.

### `ClimateLoopProofs`, `TurningLoopProofs`, `SensorLoopProofs`: time

| Theorem | |
|---|---|
| `ClimateInvariance`, `ClimateTypeCorrect` | `ClimateLoopSpec => []ClimateIInv`, `[]ClimateLoopTypeOK` |
| `OnEdgesSpacedHolds` | `ClimateLoopSpec => OnEdgesSpaced` |
| `RelayGoesOffHolds` | `ClimateLoopSpec => []RelayGoesOff` |
| `AlarmNotEarlyHolds`, `AlarmNotLateHolds` | `ClimateLoopSpec => []AlarmNotEarly`, `[]AlarmNotLate` |
| `TurningInvariance` | `TurningLoopSpec => []TurningIInv` |
| `TurnBoundedHolds` | `TurningLoopSpec => []TurnBounded` |
| `EggsTurnedHolds` | `TurningLoopSpec => []EggsTurned` |
| `StartsSpacedHolds` | `TurningLoopSpec => StartsSpaced` |
| `SensorInvariance`, `SensorTypeCorrect` | `SensorLoopSpec => []SensorIInv`, `[]SensorTypeOK` |
| `KeepsPollingHolds`, `FreshUnlessWarnedHolds` | `SensorLoopSpec => []KeepsPolling`, `[]FreshUnlessWarned` |
| `SensorImplementsSensed` | `SensorLoopSpec => SensorAsSensed` |

The properties speak of real durations, the code of stamps whose age wraps. An
inductive invariant says how far the two can be apart. `ClockProofs` has the
arithmetic: `nowMs - t` grows with the time that passes as long as it stays below
a wrap (`SinceGrows`), and never by more (`SinceAtMost`).

The two cases need different invariants. That something is *not early* needs only that an age never
measures more than the time that passed (`TickSpan`, `SwitchClock`, `StartClock`, `AlarmClock`), which holds
however often it wraps. That something is *not late* needs that the stamp it waits by has not
wrapped since the waiting began. This is false when the waiting begins, as the stamp may be of any
age; it becomes true at the first tick that looks at it and finds that it is not time yet. So each such
invariant is a disjunction (`WasteClock`, `UnalarmedClock`, `StillTurning`, `StillWaiting`): the waiting
is younger than the last tick, or the stamp is below its threshold and the waiting is at most a
gap longer than the stamp's age. `TickClock` bounds the gaps. The second gap in `RelayGoesOff` and
`AlarmNotLate`, and the fourth in `EggsTurned`, come from there; that the last had to be four and
not three was found by this proof before an instance was chosen that shows it.

In `TurningLoop` the interval is not a constant of the run: day and plan move under it. `LongestOK` says that the row
in force never asks for more than the longest interval since the eggs last turned or were
allowed to, which is what `StillWaiting` compares the age of `lastTurningMs` with, and that no
plan asks for an interval that a wrap would cut off. `StartsSpacedHolds` needs none of it: the
start compares the age with the row it finds (`IntervalIs`), and the age is never more than the time
since the last start (`StartClock`).

`WaitClock` and `IdleClock` follow a poll of the sensor through its two phases, and
`SampleOfLastPoll` says that a sample without a warning is the one of the last poll.
`SensorImplementsSensed` discharges what `ClimateRounds` and `Incubator` assume of the sensor, as
`ClimateAsInRoundsHolds` does what `ClimateLoop` assumes of everything else.

Assumptions (`RoundsAssumption` in each module): there is a longest round, and a period, a duration, an interval or
a confirmation, with a gap, is shorter than `millis()` takes to wrap. A longest round is what the timeouts of I2C,
storage and display amount to; without one nothing that is timed could be promised. Beyond this
a turning lasts longer than 0 (`AppSettings::isValid`), the driver waits
for a conversion (`MeasureDelay` is 80 ms), and `Cap`, which exists for TLC only, does not cut the
minimum, the confirmation and the interval off.

### What is model-checked only

* Liveness (`SafeModeCools`, `TurnerStops`) is out of the proof system's reach.
* That the four statements of section 5 are violated is a matter of counterexamples.
* `WifiSettings` with the events of one round handled in a later one: neither checked nor proved, see section 3.

## 5. Where the code and its documents differ

1. **`TableIsTheTruth`.** `cmdResetPlan` stores the plan, then the batch. After a
   power cut between the two (the run has no write that fails), a restart finds the old batch and
   the new plan; `validateAndRepairPlan` accepts any plan that is well formed, so
   a batch can run with another species' table of another length.
   `docs/mywork/prompt-01-1.md:284-285` calls the table the single truth that all logic follows.
2. **`LockdownSurvives`.** No date is stored. After a power failure the clock
   says 1970, the day falls back to 1 and lockdown ends until SNTP answers;
   line 291 asks for operation by the last saved date without WiFi.
3. **`ManualTurnerShown`.** `applyRow` clears `turnerOn` without touching the
   pin. In manual mode `TurningModule` is suspended, so that a turner the user
   switched on keeps turning while the display shows it off, and the next click switches it
   on again. The runtime design calls `RuntimeState` the only truth of the system's state.
4. **`FactoryForgetsWifi`.** `cmdFactoryReset` erases the storage and the
   settings, not the credentials of the WiFi driver (`cmdClearWifiInfo` does), and does not
   restart. The link stays, or comes back, and the next `markConnected` marks the old network as
   configured and stores it. Line 267 says that the WiFi information is deleted.

One weakness is not in this list, as no document denies it: a save of the plan whose
`close()` fails is announced as done (`PlanStorage.cpp:93-100`). The user is told that a row is
saved which the next restart does not find, and a `StartBatch` can store its batch next to the old plan.
`Lifecycle` has these steps; what holds in spite of them is above.

`PROJECT.json` lists further hazards which have no property yet, each with the
reason: no document says what is right, or the module is still to be written.

## 6. The plan

The modules were written in the order `RuntimeState`, `ClimateModule`
and `ClimateLoop` (of which `ClimateRounds` was split off last), `PlanTable`, `TurningModule` and `TurningLoop`,
`IncubationScheduler`, `AppController` and `BatchLifecycle`, `UiController`,
`Incubator`, `IncubatorProofs`, `SensorManager` and `SensorLoop`,
`Ec11Encoder` and `PanelLoop`, `DurableValue` and `BatchLifecycleProofs`,
`ProvisioningManager`, `WifiSettings` and `WifiSettingsProofs`, `ClockProofs`,
`SensorLoopProofs`, `TurningLoopProofs`, `ClimateLoopProofs` and `PanelLoopProofs`. What could follow:

1. A timed composition of scheduler and turner: for how long after a start, or
   after a restart, can the turner run in a batch that is in lockdown.
2. The edit fields of `UiController` (`editDay`, the list window): is the row that
   is saved the row that was shown; the first click in manual mode.
3. That `Incubator` implements `TurningLoop` without its histories, as it does `ClimateRounds`: that
   day, flags, plans and restarts of the composed firmware are among those `TurningLoop` allows.
4. A thermostat with a dead band as an abstract specification, which `ClimateLoop` implements.

## 7. What is not modelled

* `cloud/`: the build defines `INC_ENABLE_CLOUD`, the code tests
  `INCUBATOR_ENABLE_CLOUD`. With it go the commands only the cloud issues;
  `StopBatch` is in `BatchLifecycle` nevertheless.
* `UpdateSettings`, and `ResetPlan` as a command of its own: only the cloud's parser
  issues them. The settings other than the network are therefore constants, and the only
  writes to the settings blob are those of provisioning and of the two commands that clear
  the network. The boot counter is written and only logged.
* The SNTP client: its effect, a jump of the wall clock, is `Sync` in `BatchLifecycle`.
* Cursors, edit fields and the list window of `UiController`: the user's choice.
* `src/managed_components/`: vendored libraries (Zigbee, LittleFS, libsodium and
  others), nearly all of the repository's 341,000 lines. The firmware's own code in `src/src/` and
  `src/include/` is about 5,400 lines, of which the models cover the control logic;
  of the libraries only the calls the firmware makes are modelled, as external.
* Renderers, display and fan drivers: pure output; the fan's command is refused.
* Text, JSON and number formats, ids, versions and time stamps of batch and
  plan; `nextTurningInMin` and the progress, which are only displayed.
* Floating point: readings are compared and subtracted, which integers do as well.
