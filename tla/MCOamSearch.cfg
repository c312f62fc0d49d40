SPECIFICATION Spec
CONSTANTS
  NumEntries = 4
  MaxObjs = 3
  XValues = {6, 7, 8}
  YValues <- MCYValues
  LineValues = {0}
INVARIANTS Sorted Selection
