CONSTANTS
  Servers = 1
  MaxFd = 8
  MaxConns = 3
  MaxCuts = 1
SPECIFICATION Spec
PROPERTY BrokenIsStdin
CHECK_DEADLOCK FALSE
