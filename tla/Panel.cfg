CONSTANTS
  Wrap = 18
  KnobDebounce = 1
  EmitGap = 4
  ButtonDebounce = 2
  LongPress = 5
  HoldMs = 4
  KnobStarts = {3}
  KnobSteps <- mcAllSteps
  MaxHold = 14
  LoopMs <- mcLoopMs
  Cap = 14
SPECIFICATION PanelSpec
INVARIANT EncoderTypeOK
INVARIANT NoEventLeft
INVARIANT HoldResets
PROPERTY NoPhantomTurn
PROPERTY TurnNotLostTwice
PROPERTY PressTold
PROPERTY ResetNeedsHold
