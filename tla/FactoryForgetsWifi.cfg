CONSTANTS
  Wrap = 4
  Networks = {"home"}
  NoNetwork = "none"
  Unnamed = "unnamed"
  BootWindow = 2
  MenuWindow = 2
  SaveWindow = 2
  FinishMs = 2
  ReconnectMs = 1
  Lags <- mcLags
  StackFails = FALSE
  SaveFails = FALSE
  LoopMs <- mcLoopMs
  UptimeLags = {0}
  Cap = 3
SPECIFICATION WifiSpec
INVARIANT FactoryForgetsWifi
