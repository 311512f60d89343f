\* The compressed core with interrupts, csr writes and returns in any order.
SPECIFICATION Spec
CONSTANTS
  COMPRESSED_ISA = TRUE
  AddrSpace = 12
  MaxStall = 1
  MACHINE_ISA = TRUE
  WITH_PCPI = FALSE
  CATCH_MISALIGN = FALSE
  ENABLE_REGS_DUALPORT = TRUE
  ENABLE_CSR_CUSTOM_TRAP = TRUE
  TWO_CYCLE_ALU = FALSE
  TWO_CYCLE_COMPARE = FALSE
  BARREL_SHIFTER = FALSE
  TWO_STAGE_SHIFT = TRUE
  PROGADDR_RESET = 0
  PROGADDR_IRQ = 8
  IrqEnabled = {"timer"}
  IrqLines = {}
  LATCHED_IRQ = {}
  MASKED_IRQ = {}
  PCPI_TIMEOUT = 5
  PcpiClaimsLate = FALSE
  Kinds = {"addi", "csr", "mret", "jal", "wfi"}
  Targets = {0, 6}
  DataAddrs = {4}
  CsrNames = {"mstatus", "mie", "mip", "mepc"}
  MaxShift = 5
  MayReset = FALSE
PROPERTIES
  ImplementsIsa
