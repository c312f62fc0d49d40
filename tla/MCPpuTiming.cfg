SPECIFICATION Spec
CONSTANTS
  OamLen = 3
  LineLen = 10
  MinXfer = 2
  MaxXfer = 5
  VisibleLines = 2
  TotalLines = 4
  TickLens <- MCTickLens
INVARIANTS ClockExact ModeWindow WindowLine CoincidenceFresh
PROPERTIES VBlankOnEntry FramesKeepComing
