CONSTANTS
  Loops <- mcLoops
  Wrap = 16
  Wired = {"heater", "humidifier", "turner", "fan"}
  Levels <- mcLevels
  DefaultTarget <- mcTarget
  DefaultDays = 1
  MaxDay = 1
  SettingsVals <- mcSettings
  PollInterval = 5
  MeasureDelay = 2
  Lags <- mcLags
  LoopMs <- mcLoopMs
  Cap = 11
SPECIFICATION SensorLoopSpec
INVARIANT SensorTypeOK
INVARIANT FreshUnlessWarned
INVARIANT KeepsPolling
PROPERTY SensorAsSensed
