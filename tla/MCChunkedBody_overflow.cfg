SPECIFICATION Spec
CONSTANTS
  Byte <- MCByte
  Messages <- TooBig
  Hex <- MCHex
  Modulus = 256
  Limits = {0, 2}
INVARIANT TrailersAfterZero
CHECK_DEADLOCK FALSE
