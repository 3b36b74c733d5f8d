SPECIFICATION Spec
CONSTANTS
  c1 = c1
  c2 = c2
  p1 = p1
  p2 = p2
  Conns = {c1, c2}
  NoConn = NoConn
  From <- MCFrom
  N = 2
  Stream <- MCStream
  Ips = {p1, p2}
  MaxId = 2
  MaxCount = 2
  NoRequest = NoRequest
CHECK_DEADLOCK FALSE
INVARIANTS
  TypeOK
  OnlyOwnBytes
  AnswersInOrder
  CountedOncePerConnection
  NoThreadOutlivesStop
PROPERTIES
  StopReturns
  ClientsAreServed
  RequestsAreAnswered
