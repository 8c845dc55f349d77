CONSTANTS
  p1 = p1  p2 = p2  p3 = p3  v1 = v1  v2 = v2  a = a  b = b
  Peers = {p1, p2, p3}
  Vids = {v1}
  Values = {b}
  K = 1  N = 2
  NoShard = NoShard  NoPeer = NoPeer  NoSid = NoSid  Vacant = Vacant  Mixed = Mixed
  Enumerations <- TwoOrThree
  PutVids = {v1}
  Commanders = {p1}
  WaitForConfirm = FALSE
  Programs <- NoPrograms
  MaxInits = 2  MaxPuts = 1  MaxGets = 2  MaxFailures = 0
SPECIFICATION Spec
CHECK_DEADLOCK FALSE
INVARIANTS
  TypeOK
  ConfirmedMeansFullyStored
  NoShardLost
  ListedIsRecollectable
  ConfirmedOnce
  DistributionAgreement
  NothingStoredBeforeInit
PROPERTY
  ImplementsSharedMemory
