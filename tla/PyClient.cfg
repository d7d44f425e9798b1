SPECIFICATION Spec
CONSTANTS
  c1 = c1
  c2 = c2
  Calls <- TwoCalls
  Batches <- OneBatch
  Silent = {}
  Answers = {"value", "falsy", "code"}
  MaxSockets = 3
  LoopReaches = {TRUE, FALSE}
INVARIANTS  OwnAnswer
 
CHECK_DEADLOCK FALSE
