SPECIFICATION Spec
CONSTANTS
  p1 = p1
  p2 = p2
  f = f
  g = g
  Peers = {p1, p2}
  Programs = {f, g}
  Commanders = {p1}
  Links <- Pair
  Threshold = 1
  ZeroHash = ZeroHash
  NoPeer = NoPeer
  Idle = Idle
  NoSync = NoSync
  MaxSchedules = 1
  MaxLost = 0
  Unreliable = {p2}
INVARIANTS
  TypeOK
  SameExecutionOrder
  ReportedOnce
  ExecutedIsKnown
CHECK_DEADLOCK FALSE
