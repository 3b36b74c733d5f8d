SPECIFICATION Spec
CONSTANTS
  t1 = t1
  t2 = t2
  Threads = {t1, t2}
  N = 2
  Stream <- ShortStream
  Clients <- PlainClient
CHECK_DEADLOCK FALSE
INVARIANT NextRequestIsNew
