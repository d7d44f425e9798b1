SPECIFICATION JsSpec
CONSTANTS
  c1 = c1
  c2 = c2
  c3 = c3
  Calls = {c1, c2, c3}
  Batches = {c2, c3}
  Silent = {c3}
  Answers = {"value", "falsy", "null"}
  MaxSockets = 3
INVARIANTS JsOwnAnswer KeptAnswer
PROPERTY JsSettles
CHECK_DEADLOCK FALSE
