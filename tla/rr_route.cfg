SPECIFICATION FairSpec
CONSTANTS
  Requests = {k}
  Capacity = 2
  MaxIncoming = 2
  MaxOutgoing = 2
  MaxVersions = 1
  NoRequest = NoRequest
INVARIANTS
  TypeOK
  ResponsesAreMatched
  WaitersAreServed
  AnswersAreFresh
PROPERTIES
  
  IncomingIsAnswered
  OutgoingIsResolved
CHECK_DEADLOCK FALSE
