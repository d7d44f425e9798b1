SPECIFICATION Spec
CONSTANTS
  MaxConnects = 2
  MaxSends = 3
  MaxParts = 3
  MaxMessages = 3
  None = None
INVARIANTS NothingThrown WholeMessages
PROPERTY Ready
CHECK_DEADLOCK FALSE
