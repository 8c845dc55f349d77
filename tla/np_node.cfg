SPECIFICATION FairSpec
CONSTANTS
  Min = 2
  Max = 3
  Ramp = 2
  MaxPrograms = 1
  MaxSyncs = 1
INVARIANTS
  TypeOK
  ResetNeverPostpones
  NothingIsMissed
PROPERTIES
  GossipGoesOn
  ScheduledIsAnnounced
CHECK_DEADLOCK FALSE
