SPECIFICATION Spec
CONSTANTS
  N = 3
  EXP_TABLE <- Table
  Vids = {1, 2, 3}
  Programs <- LogicPrograms
  DataValues <- EdgeBytes
  None = None
INVARIANT
  RecollectedIsExpected
CHECK_DEADLOCK FALSE
