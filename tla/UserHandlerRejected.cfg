SPECIFICATION Spec
CONSTANTS
  t1 = t1
  t2 = t2
  e1 = e1
  e2 = e2
  quoted = quoted
  noUsers = noUsers
  number = number
  half = half
  good = good
  Threads = {t1, t2}
  Endpoints = {e1}
  NoThread = NoThread
  NoUpload = NoUpload
  Torn = Torn
  Uploads <- MCUploads
  Outcome <- MCOutcome
  Size <- MCSize
  Forms <- MCForms
  People <- MCPeople
  MaxCountries = 1
  TopScore = 900
INVARIANT RejectedUploadStoresNothing
