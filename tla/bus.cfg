SPECIFICATION FairSpec
CONSTANTS
  Words = {0, 1}
  TimerAddr = 8
  Values = {0, 1}
  None = None
  MaxStall = 2
INVARIANTS
  ResponsesOwned
PROPERTIES
  ImplementsMemory
  OffersStand
  TransfersEnd
