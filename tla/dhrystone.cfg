\* The program with its hundred runs, and every call of the library functions.
SPECIFICATION Spec
CONSTANTS
  Number_Of_Runs = 100
  SignBit = 524288
  Cycles = {1100, 2500}
  Starts = {0, 524000, 1048000}
  TopBit = 4
  Letters = {1, 7}
  MaxLength = 5
  IntBits = 8
  Nibbles = {0, 12}
INVARIANTS
  MainCommentsHold
  ReportIsRight
  CopiesExactly
  OrdersStrings
  NeverPastTerminator
  PrintsRight
PROPERTIES
  Terminates
CHECK_DEADLOCK FALSE
