SPECIFICATION Spec
CONSTANTS
  a1 = a1
  a2 = a2
  c1 = c1
  c2 = c2
  c3 = c3
  p1 = p1
  p2 = p2
  Clients = {a1, a2}
  Calls = {c1, c2, c3}
  ClientOf <- Callers
  Cancellable = {c1, c2}
  Leaving = {a1}
  Cancelling = {c1}
  Addresses = {p1, p2}
  None = None
INVARIANT ProgressOwn
PROPERTIES KeepsCall Returns
CHECK_DEADLOCK FALSE
