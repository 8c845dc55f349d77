CONSTANTS
  p1 = p1  p2 = p2  p3 = p3  v1 = v1  v2 = v2  a = a  b = b
  Peers = {p1, p2}
  Vids = {v1, v2}
  Values = {a, b}
  K = 2  N = 2
  NoShard = NoShard  NoPeer = NoPeer  NoSid = NoSid  Vacant = Vacant  Mixed = Mixed
  Enumerations <- OnlyTwo
  PutVids = {v1}
  Commanders = {p1}
  WaitForConfirm = FALSE
  Programs <- ToOther
  MaxInits = 1  MaxPuts = 1  MaxGets = 2  MaxFailures = 0
SPECIFICATION Spec
SYMMETRY Symmetric
CHECK_DEADLOCK FALSE
INVARIANTS
  KnownLocationIsAssigned
  RecollectedIsPut
  RecollectedIsComputed
