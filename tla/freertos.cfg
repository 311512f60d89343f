\* The demo with its three ticks, a tick counter that wraps every sixteen ticks
\* and a receiver that may take up to five ticks too long.
SPECIFICATION Spec
CONSTANTS
  TickRange = 16
  SendFrequency = 3
  MaxLate = 5
  MessageLength = 7
INVARIANTS
  AssertHolds
  AlwaysExpected
  WakesOnTime
PROPERTIES
  ImplementsBlink
  KeepsBlinking
CHECK_DEADLOCK FALSE
