SPECIFICATION Spec
CONSTANTS
  Byte <- MCByte
  Messages <- MCMessages
  Hex <- MCHex
  Modulus = 256
  Limits = {0, 2}
INVARIANTS BodyIsPrefix EndIsWhole LegalIsAccepted
PROPERTY Finishes
CHECK_DEADLOCK FALSE
