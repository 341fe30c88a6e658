SPECIFICATION Spec
CONSTANTS
  Forms <- LimitForms
  Number <- MCNumber
  Address <- MCAddress
  Size <- MCSize
  Paths <- MCPaths
  Modulus <- MCModulus
INVARIANT LimitStays
CHECK_DEADLOCK FALSE
