SPECIFICATION FairSpec
CONSTANTS
  Requests <- ClosedRequests
  ReadMax = 2
  FairMax = 3
  Limit = 1
  PipeCap = 1
  SockCap = 1
  MaxAge = 1
  StaticLen = 3
  Env = {"fin", "rst", "clock", "spawn"}
INVARIANTS AnswerServed NotDroppedWhenFull
PROPERTIES RejectIsFinal EventuallyClosed
