\* setup_timer, called again and again while the counter runs.
SPECIFICATION FwSpec
CONSTANTS
  Half = 16
  ENABLE_MTIMECMP = TRUE
  Delays = {3, 15}
  MinGap = 2
  MaxGap = 3
  LastCall = 45
  LastCycle = 110
INVARIANTS
  ReadIsAtomic
  UpdateNeverEarly
  NoEarlyInterrupt
PROPERTIES
  ImplementsTimer
  InterruptComes
CHECK_DEADLOCK FALSE
