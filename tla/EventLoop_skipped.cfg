CONSTANTS
  Servers = 1
  MaxFd = 7
  MaxConns = 2
  MaxCuts = 1
SPECIFICATION Spec
INVARIANT ClearsHandled
CHECK_DEADLOCK FALSE
