CONSTANTS
  Ram <- MCRam
  Starts <- MCStarts
SPECIFICATION Spec
INVARIANTS ArithmeticExact ShiftExact BcdExact
PROPERTIES PopMatches LowNibbleStays MicrostepsAgree
CHECK_DEADLOCK FALSE
