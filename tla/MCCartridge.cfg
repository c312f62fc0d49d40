SPECIFICATION Spec
CONSTANTS
  Images <- MCImages
  RomAddrs <- MCRomAddrs
  RamAddrs <- MCRamAddrs
  RegValues = {0, 1, 10, 33}
  RamValues = {1, 26}
INVARIANTS HalvesKept RamHolds
