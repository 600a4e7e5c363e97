CONSTANTS
  Loops <- mcLoops
  Wrap = 2
  Wired = {"heater", "humidifier", "turner", "fan"}
  Levels <- mcLevels
  DefaultTarget <- mcTarget
  DefaultDays = 1
  MaxDay = 2
  SettingsVals <- mcSettings
  ClimatePeriod = 1
  RelayMinSwitch = 1
  Species = {"chicken"}
  Chicken = "chicken"
  Preset <- mcPreset
  MaxRows = 2
  Epochs = {0, 1}
  DaySecs = 1
  TurningPeriod = 1
  SchedulerPeriod = 1
  StartDates = {0}
  EditRows <- mcEditRows
  EditDays = {1}
  LoopMs <- mcLoopMs
  StorageFails = FALSE
SPECIFICATION Spec
INVARIANT ManualTurnerShown
