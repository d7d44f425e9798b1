SPECIFICATION LocksFairSpec
CONSTANTS
  t1 = t1
  t2 = t2
  r1 = r1
  r2 = r2
  ServiceThreads = {t1, t2}
  Requests = {r1, r2}
  Cancellable = {r1}
  Nobody = Nobody
 
PROPERTY ThreadsReturn
CHECK_DEADLOCK FALSE
