CONSTANTS
  Loops <- mcLoops
  Wrap = 10
  Wired = {"heater", "humidifier", "turner", "fan"}
  Levels <- mcLevels
  DefaultTarget <- mcTarget
  DefaultDays = 2
  MaxDay = 2
  SettingsVals <- mcSettings
  Species = {"chicken"}
  Chicken = "chicken"
  Preset <- mcPreset
  MaxRows = 2
  Epochs = {0}
  DaySecs = 1
  TurningPeriod = 2
  Plans <- mcPlans
  LoopMs <- mcLoopMs
  Cap = 21
SPECIFICATION TurningLoopSpec
INVARIANT TurnBounded
INVARIANT EggsTurned
PROPERTY StartsSpaced
