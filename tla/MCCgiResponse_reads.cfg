SPECIFICATION Spec
CONSTANTS
  Reads <- AnyReads
  Declared = 2
  MaxReads = 5
INVARIANTS AnswerAsMeant CollectedIsFramed
CHECK_DEADLOCK FALSE
