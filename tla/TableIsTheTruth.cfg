CONSTANTS
  Loops <- mcLoops
  Wrap = 2
  Wired = {"heater", "humidifier", "turner", "fan"}
  Levels <- mcLevels
  DefaultTarget <- mcTarget
  DefaultDays = 2
  MaxDay = 2
  SettingsVals <- mcSettings
  Species = {"chicken", "duck"}
  Chicken = "chicken"
  Preset <- mcPreset
  MaxRows = 2
  Epochs <- mcEpochs
  DaySecs = 1
  StartDates = {10}
  EditRows <- mcEditRows
  EditDays = {2}
  FirstDay = 10
  LastDay = 11
  SchedulerPeriod = 1
  StorageFails = FALSE
  SyncWorks = TRUE
SPECIFICATION LifeSpec
INVARIANT TableIsTheTruth
