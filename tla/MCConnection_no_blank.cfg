SPECIFICATION Spec
CONSTANTS
  Requests <- NoBlankRequests
  ReadMax = 2
  FairMax = 3
  Limit = 1
  PipeCap = 1
  SockCap = 2
  MaxAge = 1
  StaticLen = 3
  Env = {}
INVARIANTS
  OutputIsBody
