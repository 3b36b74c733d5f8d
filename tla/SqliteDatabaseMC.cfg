SPECIFICATION Spec
CONSTANTS
  p1 = p1
  p2 = p2
  Ips = {p1, p2}
  MaxId = 2
  MaxCount = 1
  Early = {"get_client_id_by_ip"}
  NoRequest = NoRequest
SYMMETRY Symmetry
INVARIANTS
  TypeOK
  AnswersAreCommitted
  OneRowPerClient
PROPERTIES
  ImplementsRepository
  StuckUntilRestart
