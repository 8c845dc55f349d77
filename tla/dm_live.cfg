CONSTANTS
  p1 = p1  p2 = p2  p3 = p3  v1 = v1  v2 = v2  a = a  b = b
  Peers = {p1, p2, p3}
  Vids = {v1}
  Values = {b}
  K = 2  N = 3
  NoShard = NoShard  NoPeer = NoPeer  NoSid = NoSid  Vacant = Vacant  Mixed = Mixed
  Enumerations <- OnlyThree
  PutVids = {v1}
  Commanders = {p1}
  WaitForConfirm = TRUE
  Programs <- NoPrograms
  MaxInits = 1  MaxPuts = 1  MaxGets = 1  MaxFailures = 1
SPECIFICATION FairSpec
CHECK_DEADLOCK FALSE
PROPERTIES
  PutEventuallyConfirmed
  GetEventuallyAnswered
INVARIANTS
  ListedIsRecollectable
