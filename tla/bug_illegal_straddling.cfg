\* An illegal instruction before a slow fetch.
SPECIFICATION Spec
CONSTANTS
  COMPRESSED_ISA = TRUE
  AddrSpace = 16
  MaxStall = 1
  MACHINE_ISA = TRUE
  WITH_PCPI = TRUE
  CATCH_MISALIGN = FALSE
  ENABLE_REGS_DUALPORT = TRUE
  ENABLE_CSR_CUSTOM_TRAP = TRUE
  TWO_CYCLE_ALU = FALSE
  TWO_CYCLE_COMPARE = FALSE
  BARREL_SHIFTER = FALSE
  TWO_STAGE_SHIFT = TRUE
  PROGADDR_RESET = 0
  PROGADDR_IRQ = 8
  IrqEnabled = {}
  IrqLines = {}
  LATCHED_IRQ = {}
  MASKED_IRQ = {}
  PCPI_TIMEOUT = 15
  PcpiClaimsLate = FALSE
  Kinds = {"addi", "illegal"}
  Targets = {0}
  DataAddrs = {4}
  CsrNames = {}
  MaxShift = 5
  MayReset = FALSE
PROPERTIES
  IllegalTraps
