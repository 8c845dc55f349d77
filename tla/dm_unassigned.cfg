CONSTANTS
  p1 = p1  p2 = p2  p3 = p3  v1 = v1  v2 = v2  a = a  b = b
  Peers = {p1, p2}
  Vids = {v1}
  Values = {b}
  K = 1  N = 1
  NoShard = NoShard  NoPeer = NoPeer  NoSid = NoSid  Vacant = Vacant  Mixed = Mixed
  Enumerations <- OnlyOne
  PutVids = {v1}
  Commanders = {p1}
  WaitForConfirm = TRUE
  Programs <- InPlace
  MaxInits = 1  MaxPuts = 0  MaxGets = 0  MaxFailures = 0
SPECIFICATION Spec
CHECK_DEADLOCK FALSE
INVARIANT MemoryNeverStops
