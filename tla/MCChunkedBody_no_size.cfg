SPECIFICATION Spec
CONSTANTS
  Byte <- MCByte
  Messages <- NoSize
  Hex <- MCHex
  Modulus = 256
  Limits = {0, 2}
INVARIANT EofAfterZero
CHECK_DEADLOCK FALSE
