SPECIFICATION Spec
CONSTANTS
  TileLen = 8
  MapTiles = 1
  OpaqueCols <- MCOpaqueCols
  Width = 2
  Lines <- LiveLines
  ScxValues = {5}
  WxValues = {8}
  LcdcValues <- AnySwitch
  Granule = 8
  MaxDots = 9
  Writes = {"LCD", "LCDC", "SCX", "WX"}
INVARIANT LockedForSprite
PROPERTY LineEnds
