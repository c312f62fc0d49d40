SPECIFICATION Spec
CONSTANTS
  TileLen = 8
  MapTiles = 4
  OpaqueCols <- MCOpaqueCols
  Width = 18
  Lines <- MCLines
  ScxValues = {0}
  WxValues = {}
  LcdcValues <- NoSwitch
  Granule = 4
  MaxDots = 60
  Writes = {}
INVARIANTS PixelCorrect XferBounded
