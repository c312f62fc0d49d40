SPECIFICATION Spec
CONSTANTS
  NumIrqs = 2
  NumBits = 3
  Ops <- AllOps
INVARIANTS ImeInv DurationExact
PROPERTIES EiShadow BoundaryDecision RequestsKept NestedEntryNeedsEi
PROPERTIES HaltWakes EiTakesEffect
