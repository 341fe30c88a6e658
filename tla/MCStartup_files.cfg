SPECIFICATION Spec
CONSTANTS
  Forms <- MCForms
  Number <- MCNumber
  Address <- MCAddress
  Size <- MCSize
  Paths <- MCPaths
  Modulus <- MCModulus
INVARIANTS AsWritten OneSocketEach
CHECK_DEADLOCK FALSE
