SPECIFICATION Spec
CONSTANTS
  Requests <- StreamRequests
  ReadMax = 2
  FairMax = 3
  Limit = 1
  PipeCap = 1
  SockCap = 2
  MaxAge = 1
  StaticLen = 3
  Env = {"fin", "rst"}
INVARIANTS
  TypeOK ConnInv StdinServed StdoutServed StdinBound SendBound
  AnswerIntact DoneIsComplete BodyConserved EofIsHonest
