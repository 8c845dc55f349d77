SPECIFICATION Spec
CONSTANTS
  N = 3
  EXP_TABLE <- Table
  Vids = {1, 2, 3}
  Programs <- LinearPrograms
  DataValues <- EdgeBytes
  None = None
INVARIANTS
  TypeOK
  ContextsDecodeToExpected
  RecollectedIsExpected
CHECK_DEADLOCK FALSE
