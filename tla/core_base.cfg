\* The small core, compressed: every class of base instruction, 2 or 4 bytes long, at even
\* addresses; one register port, the slow ALU, a coprocessor, no machine mode (traps stop
\* the core), and resetn low in the middle of anything.
SPECIFICATION Spec
CONSTANTS
  COMPRESSED_ISA = TRUE
  AddrSpace = 12
  MaxStall = 1
  MACHINE_ISA = FALSE
  WITH_PCPI = TRUE
  CATCH_MISALIGN = FALSE
  ENABLE_REGS_DUALPORT = FALSE
  ENABLE_CSR_CUSTOM_TRAP = FALSE
  TWO_CYCLE_ALU = TRUE
  TWO_CYCLE_COMPARE = TRUE
  BARREL_SHIFTER = FALSE
  TWO_STAGE_SHIFT = TRUE
  PROGADDR_RESET = 2
  PROGADDR_IRQ = 8
  IrqEnabled = {}
  IrqLines = {}
  LATCHED_IRQ = {}
  MASKED_IRQ = {}
  PCPI_TIMEOUT = 5
  PcpiClaimsLate = FALSE
  Kinds = {"lui", "shifti", "shift", "branch", "jalr", "load", "store", "rdcycle", "illegal"}
  Targets = {0, 6}
  DataAddrs = {4}
  CsrNames = {}
  MaxShift = 5
  MayReset = TRUE
INVARIANTS
  FetchCorrect
  StagesAgree
  BusMatchesRequest
  RequestsExclusive
  WriteBackOwner
PROPERTIES
  BusStable
  ImplementsIsa
