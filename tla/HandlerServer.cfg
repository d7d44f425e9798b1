SPECIFICATION Spec
CONSTANTS
  c1 = c1
  c2 = c2
  Conns = {c1, c2}
  MaxParts = 2
  MaxMessages = 4
  MayBreak = FALSE
  None = None
INVARIANT WholeMessages
CHECK_DEADLOCK FALSE
