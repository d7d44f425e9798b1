SPECIFICATION FairSpec
CONSTANTS
  r1 = r1
  r2 = r2
  n1 = n1
  id1 = id1
  id2 = id2
  t1 = t1
  t2 = t2
  Threads = {t1, t2}
  Requests = {r1, r2, n1}
  Cancellable = {r1, n1}
  Ids = {id1, id2}
  NoId = NoId
  IdOf <- OwnIds
  CancelIds = {id1, id2}
  Serialised = TRUE
  TempCancel = TempCancel
  Empty = Empty
  None = None
INVARIANTS AtMostOneReply AbortOnlyIfAsked PendingIsCancellable SkippedOnlyIfAborted
PROPERTIES KeepsPromise AnswerArrives CancelArrives JoinReturns
CHECK_DEADLOCK FALSE
