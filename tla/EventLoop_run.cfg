CONSTANTS
  Servers = 2
  MaxFd = 9
  MaxConns = 2
  MaxCuts = 1
SPECIFICATION Spec
INVARIANTS TablesAgree CgiEntriesFollow NothingLeaked OutputHasClient
PROPERTY ClosesOwn
CHECK_DEADLOCK FALSE
