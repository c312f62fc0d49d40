SPECIFICATION Spec
CONSTANTS
  SysMod = 16
  TimaMod = 4
  MuxBits <- MCMuxBits
  MaxTick = 6
INVARIANT Accumulated
PROPERTIES ImplementsTimerSpec OverflowComes
