CONSTANTS
  Delay = 12
  OamTime = 8
  TickLens = {4, 8}
  Offsets = {0, 159}
  Pages <- MCPages
  Addrs <- MCAddrs
  Values = {1}
  Rom <- MCRom
  BootRom <- MCBootRom
SPECIFICATION Spec
INVARIANTS SafeWithCart OamBlocked IntrusionsOverwritten
PROPERTIES DmaReadsAsCpu DmaEnds
CHECK_DEADLOCK FALSE
