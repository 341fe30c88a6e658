SPECIFICATION Spec
CONSTANTS
  Reads <- AnyReads
  Declared = 2
  MaxReads = 4
INVARIANT SplitAtFirstBlank
CHECK_DEADLOCK FALSE
