SPECIFICATION Spec
CONSTANTS
  t1 = t1
  t2 = t2
  c1 = c1
  Threads = {t1, t2}
  Conns = {c1}
  NoConn = NoConn
  Backlog = 1
  MaxStarts = 2
CHECK_DEADLOCK FALSE
SYMMETRY Symmetry
INVARIANT StartedWithIoThreads
