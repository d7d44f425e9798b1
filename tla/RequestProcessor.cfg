SPECIFICATION ProcessorSpec
CONSTANTS
  MaxBatch = 2
  Versions = {"absent", "2.0", "text", "other"}
  Outcomes = {"result", "text", "error", "baddata"}
INVARIANTS OneReplyEach CalledAsAsked
 
CHECK_DEADLOCK FALSE
