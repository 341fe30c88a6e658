SPECIFICATION Spec
CONSTANTS
  Forms <- HostForms
  Number <- MCNumber
  Address <- MCAddress
  Size <- MCSize
  Paths <- MCPaths
  Modulus <- MCModulus
INVARIANT ValidStarts
CHECK_DEADLOCK FALSE
