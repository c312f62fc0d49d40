SPECIFICATION Spec
CONSTANTS
  TileLen = 8
  MapTiles = 4
  OpaqueCols <- MCOpaqueCols
  Width = 10
  Lines <- ScxLines
  ScxValues = {0, 5}
  WxValues = {}
  LcdcValues <- NoSwitch
  Granule = 4
  MaxDots = 8
  Writes = {"SCX"}
INVARIANT EnabledOnScreen
