SPECIFICATION Spec
CONSTANTS
  Byte <- MCByte
  Messages <- MCMessages
  Hex <- MCHex
  Modulus = 256
  Limits = {0, 2}
PROPERTY StdinClosedOnError
CHECK_DEADLOCK FALSE
