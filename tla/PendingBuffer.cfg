CONSTANTS
  Byte = {x, y}
  MaxLen = 6
  Threshold = 3
SPECIFICATION Spec
INVARIANT Reclaimed
PROPERTY QueueSpec
CHECK_DEADLOCK FALSE
