SPECIFICATION Spec
CONSTANTS
  Requests <- WholeRequests
  ReadMax = 4
  FairMax = 3
  Limit = 1
  PipeCap = 1
  SockCap = 4
  MaxAge = 1
  StaticLen = 3
  Env = {}
INVARIANTS
  OpenMeansMore
