\* Loads and stores of every size, aligned or not.
SPECIFICATION Spec
CONSTANTS
  COMPRESSED_ISA = FALSE
  AddrSpace = 16
  MaxStall = 1
  MACHINE_ISA = TRUE
  WITH_PCPI = FALSE
  CATCH_MISALIGN = TRUE
  ENABLE_REGS_DUALPORT = TRUE
  ENABLE_CSR_CUSTOM_TRAP = TRUE
  TWO_CYCLE_ALU = FALSE
  TWO_CYCLE_COMPARE = FALSE
  BARREL_SHIFTER = FALSE
  TWO_STAGE_SHIFT = TRUE
  PROGADDR_RESET = 0
  PROGADDR_IRQ = 8
  IrqEnabled = {}
  IrqLines = {}
  LATCHED_IRQ = {}
  MASKED_IRQ = {}
  PCPI_TIMEOUT = 5
  PcpiClaimsLate = FALSE
  Kinds = {"addi", "load", "store"}
  Targets = {0, 12}
  DataAddrs = {4, 5}
  CsrNames = {}
  MaxShift = 5
  MayReset = FALSE
INVARIANTS
  AccessesAligned
