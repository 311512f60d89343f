\* Machine mode: an edge-triggered interrupt line, traps from returns to misaligned addresses,
\* unknown csrs, ecall and illegal instructions, and a coprocessor that answers, keeps the
\* core waiting, or does not know the instruction.
SPECIFICATION FairSpec
CONSTANTS
  COMPRESSED_ISA = FALSE
  AddrSpace = 12
  MaxStall = 1
  MACHINE_ISA = TRUE
  WITH_PCPI = TRUE
  CATCH_MISALIGN = TRUE
  ENABLE_REGS_DUALPORT = TRUE
  ENABLE_CSR_CUSTOM_TRAP = TRUE
  TWO_CYCLE_ALU = FALSE
  TWO_CYCLE_COMPARE = FALSE
  BARREL_SHIFTER = FALSE
  TWO_STAGE_SHIFT = TRUE
  PROGADDR_RESET = 0
  PROGADDR_IRQ = 8
  IrqEnabled = {"external"}
  IrqLines = {l1}
  LATCHED_IRQ = {l1}
  MASKED_IRQ = {}
  PCPI_TIMEOUT = 5
  PcpiClaimsLate = FALSE
  Kinds = {"jal", "csr", "mret", "wfi", "illegal", "ecall"}
  Targets = {0, 6}
  DataAddrs = {4}
  CsrNames = {"mie", "irq_mask", "irq_pend", "custom_trap", "other"}
  MaxShift = 5
  MayReset = FALSE
  l1 = l1
INVARIANTS
  TypeOK
  NoStaleExternal
PROPERTIES
  InterruptTaken
  IllegalTraps
  ImplementsIsa
  KeepsLaunching
