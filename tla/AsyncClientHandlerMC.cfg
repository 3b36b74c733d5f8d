SPECIFICATION Spec
CONSTANTS
  t1 = t1
  t2 = t2
  t3 = t3
  Threads = {t1, t2, t3}
  N = 3
  Stream <- MCStream
  Clients <- MCClients
CHECK_DEADLOCK FALSE
INVARIANTS
  TypeOK
  OneDriver
  AnswersInOrder
  CloseAfterLastAnswer
PROPERTY RequestsAreAnswered
