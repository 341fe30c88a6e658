SPECIFICATION Spec
CONSTANTS
  Bodies = {0, 2, 3, 5}
  Scripts <- Everything
  Cap = 2
  Timeout = 2
INVARIANTS OutputWhole CleanReturn
PROPERTY Returns
CHECK_DEADLOCK FALSE
