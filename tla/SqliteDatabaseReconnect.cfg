SPECIFICATION Spec
CONSTANTS
  p1 = p1
  p2 = p2
  Ips = {p1, p2}
  MaxId = 1
  MaxCount = 1
  Early = {"get_client_id_by_ip"}
  NoRequest = NoRequest
INVARIANT AddReturnsItsClient
