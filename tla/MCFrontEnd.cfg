CONSTANTS
  Keys <- MCKeys
  MaxRoms = 2
  MaxQueue = 3
SPECIFICATION FrontEndSpec
INVARIANT PadMatchesKeys
PROPERTIES CloseReturns PauseStopsFrames
CHECK_DEADLOCK FALSE
