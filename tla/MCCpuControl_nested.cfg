SPECIFICATION Spec
CONSTANTS
  NumIrqs = 2
  NumBits = 2
  Ops <- ControlOps
PROPERTIES HandlerBeginsNext
