SPECIFICATION Spec
CONSTANTS
  p1 = p1
  p2 = p2
  f = f
  g = g
  Peers = {p1, p2}
  Programs = {f}
  Commanders = {p1}
  Links <- Pair
  Threshold = 2
  ZeroHash = ZeroHash
  NoPeer = NoPeer
  Idle = Idle
  NoSync = NoSync
  MaxSchedules = 2
  MaxLost = 0
  Unreliable = {}
INVARIANTS
  IdentifierNamesEvent
CHECK_DEADLOCK FALSE
