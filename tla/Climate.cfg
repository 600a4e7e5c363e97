CONSTANTS
  Loops <- mcLoops
  Wrap = 12
  Wired = {"heater", "humidifier", "turner", "fan"}
  Levels <- mcLevels
  DefaultTarget <- mcTarget
  DefaultDays = 1
  MaxDay = 1
  SettingsVals <- mcSettings
  ClimatePeriod = 2
  RelayMinSwitch = 5
  LoopMs <- mcLoopMs
  Cap = 11
SPECIFICATION ClimateLoopSpec
ACTION_CONSTRAINT SameKind
INVARIANT ClimateLoopTypeOK
INVARIANT AlarmNotEarly
INVARIANT AlarmNotLate
INVARIANT RelayGoesOff
PROPERTY OnEdgesSpaced
