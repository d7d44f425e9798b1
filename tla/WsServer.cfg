SPECIFICATION FairSpec
CONSTANTS
  c1 = c1
  c2 = c2
  t1 = t1
  t2 = t2
  a = a
  b = b
  Conns = {c1, c2}
  Threads = {t1, t2}
  Senders = {a, b}
  Owner <- TwoThreads
  MaxSends = 3
  None = None
INVARIANT NoLostWakeup
PROPERTIES Delivered StopReturns
CHECK_DEADLOCK FALSE
