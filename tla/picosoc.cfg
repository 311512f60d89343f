\* Both boards, every order of menu entries, the echo at the rate it keeps up with.
SPECIFICATION PicoSpec
CONSTANTS
  MenuRepeats = 10
  Typed = {"a", "newline", "!"}
  SendTime = 3
  ProgramTime = 2
  Gap = 7
  FaultyCells = {2, 100, 600, 2051}
INVARIANTS
  CodeReadable
  MemtestVerdict
PROPERTIES
  RegistersUnderstood
  NoOverrun
  EchoReturns
CHECK_DEADLOCK FALSE
