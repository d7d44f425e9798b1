SPECIFICATION Spec
CONSTANTS
  r1 = r1
  r2 = r2
  r3 = r3
  None = None
  Requests <- ThreeRequests
  Sockets = 2
  MaxPieces = 2
  LateRequests = FALSE
INVARIANTS OneCallback CallbackHasRequest WholeBody
PROPERTY Called
CHECK_DEADLOCK FALSE
