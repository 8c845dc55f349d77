CONSTANTS
  p1 = p1  p2 = p2  p3 = p3  v1 = v1  v2 = v2  a = a  b = b
  Peers = {p1, p2, p3}
  Vids = {v1}
  Values = {a, b}
  K = 2  N = 3
  NoShard = NoShard  NoPeer = NoPeer  NoSid = NoSid  Vacant = Vacant  Mixed = Mixed
  Enumerations <- OnlyThree
  PutVids = {v1}
  Commanders = {p1}
  WaitForConfirm = TRUE
  Programs <- NoPrograms
  MaxInits = 1  MaxPuts = 2  MaxGets = 0  MaxFailures = 0
SPECIFICATION Spec
CHECK_DEADLOCK FALSE
INVARIANT ConfirmedMeansFullyStored
