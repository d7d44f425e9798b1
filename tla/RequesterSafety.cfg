SPECIFICATION Spec
CONSTANTS
  a = a
  b = b
  c = c
  d = d
  Requests = {a, b, c, d}
  MaxDepth = 4
  MaxId = 255
  None = None
SYMMETRY Symmetry
INVARIANTS CallbackOnce NoneForgotten IteratorValid
CHECK_DEADLOCK FALSE
