CONSTANTS
  Servers = 1
  MaxFd = 7
  MaxConns = 2
  MaxCuts = 1
SPECIFICATION Spec
INVARIANT NoOrphans
CHECK_DEADLOCK FALSE
