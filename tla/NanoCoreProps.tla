--------------------------- MODULE NanoCoreProps ---------------------------
(***************************************************************************)
(* What must hold of NanoCore.                                             *)
(***************************************************************************)
EXTENDS NanoCore

CpuStates == {"trap", "fetch", "ld_rs1", "ld_rs2", "exec", "shift", "stmem", "ldmem"}

(***************************************************************************)
(* Types                                                                   *)
(***************************************************************************)
DecoderTypeOK ==
  /\ decoded \in Instruction /\ insn \in Instruction
  /\ decoder_trigger \in BOOLEAN /\ decoder_pseudo_trigger \in BOOLEAN

MainTypeOK ==
  /\ cpu_state \in CpuStates
  /\ reg_pc \in AddrOrNone
  /\ latched_stalu \in BOOLEAN /\ latched_compr \in BOOLEAN
  /\ latched_rd \in AddrOrNone /\ do_waitirq \in BOOLEAN
  /\ reg_sh \in (0 .. MaxShift) \cup {None}

AluTypeOK ==
  /\ alu_wait \in BOOLEAN /\ alu_wait_2 \in BOOLEAN /\ alu_q \in BOOLEAN
  /\ alu_out_0_q \in {"taken", "not", "x"} /\ alu_out_q \in AddrOrNone

PcpiTypeOK ==
  /\ pcpi_valid \in BOOLEAN /\ pcpi_timeout \in BOOLEAN
  /\ pcpi_timeout_counter \in 0 .. PCPI_TIMEOUT

CsrTypeOK ==
  /\ mstatus_mie \in BOOLEAN /\ mstatus_mpie \in BOOLEAN
  /\ mie \subseteq IrqEnabled /\ mepc \in AddrOrNone
  /\ mtrap \in BOOLEAN /\ mtrap_prev \in BOOLEAN

IrqTypeOK ==
  /\ mip \subseteq IrqEnabled
  /\ irq_mask \subseteq IrqLines /\ irq_pending \subseteq IrqLines /\ eoi \subseteq IrqLines

\* Every register holds a value it can hold; the coprocessor's timeout counter
\* stays at 0 when it has got there, and mip and mie have only bits that exist.
TypeOK ==
  /\ MemTypeOK /\ DecoderTypeOK /\ MainTypeOK /\ AluTypeOK /\ PcpiTypeOK
  /\ CsrTypeOK /\ IrqTypeOK

(***************************************************************************)
(* The assertions of the source (nanorv32_core.v under `ifdef FORMAL)      *)
(***************************************************************************)
\* A request for instructions, one to read data and one to write data never
\* stand together (lines 636-647): the main state machine raises them in
\* different states, while the memory is still busy with an older one.
RequestsExclusive ==
  ~trap =>
    /\ Fetching => ~Wants("rdata") /\ ~Wants("wdata")
    /\ Wants("rdata") => ~Wants("wdata")

\* Why the requests exclude each other.  No request to read or write data is
\* raised before the prefetch that was running has ended; until the operands
\* are read nothing but the prefetch is asked for, and an instruction without
\* a jump has one running; stage 2 of the decoder has taken the prefetched
\* instruction before the data transfer ends, so that the second trigger finds
\* it there.
DataRequests ==
  IF cpu_state = "ldmem" THEN {"rdata"} ELSE IF cpu_state = "stmem" THEN {"wdata"} ELSE {}
Traps == StageOne \cup {"ecall", "ebreak", "illegal"}

\* in ld_rs1 only an instruction that nobody claims has the prefetch after it
\* claimed, to be rid of it before the handler is entered
GivingUp ==
  /\ cpu_state = "ld_rs1" /\ WITH_PCPI /\ ENABLE_REGS_DUALPORT /\ instr_trap
  /\ mem_do = {"prefetch", "rinst"}

RequestInv ==
  /\ IF DataRequests = {} THEN mem_do \subseteq {"prefetch", "rinst"}
                          ELSE mem_do \in {{"prefetch", "rinst"}, {}, DataRequests}
  /\ decoder_trigger => "rinst" \notin mem_do
  /\ cpu_state \in {"ld_rs1", "ld_rs2"} =>
       /\ mem_do \subseteq {"prefetch"} \/ GivingUp
       /\ ~decoder_trigger
       /\ insn.kind \notin Traps => mem_do = {"prefetch"}
  /\ cpu_state = "ld_rs2" => ~instr_trap \/ WITH_PCPI
  /\ DataRequests # {} /\ ~Wants("prefetch") /\ insn # decoded =>
       decoder_trigger /\ ~decoder_pseudo_trigger
  /\ decoder_pseudo_trigger => insn = decoded

\* What the bus does agrees with the request that made it do so, as the
\* assertions in the states of the bus state machine say (649-650, 703-742): no
\* request is withdrawn or replaced by another while its transfer is running.
BusMatchesRequest ==
  ~trap =>
    /\ mem_state = "READ" =>
         /\ ~mem_write /\ mem_do \cap {"prefetch", "rinst", "rdata"} # {}
         /\ mem_valid = ~mem_la_use_prefetched_high_word
         /\ mem_instr = Fetching
    /\ mem_state = "WRITE" => mem_write /\ Wants("wdata")
    /\ mem_state = "WAIT_FETCH" => ~mem_write /\ Wants("prefetch")
    /\ mem_valid /\ mem_instr => ~mem_write

(***************************************************************************)
(* The bus                                                                 *)
(***************************************************************************)
\* A transfer the memory has not answered stays on the bus unchanged, whatever
\* happens to the instruction that asked for it; only reset withdraws it.
BusStable ==
  [][mem_valid /\ stall' = stall + 1 =>
       mem_valid' /\ UNCHANGED <<mem_addr, mem_write, mem_instr>>]_vars

(***************************************************************************)
(* Instruction fetch                                                       *)
(***************************************************************************)
LaunchesNow == cpu_state = "fetch" /\ decoder_trigger

\* The instruction that is launched was read from the program counter, and
\* its second half from the address after the first: prefetches that a jump, a
\* trap or an interrupt made useless are never executed, and the halfword
\* buffer is never used for another address.
FetchCorrect ==
  LaunchesNow =>
    /\ decoded.at = current_pc
    /\ decoded.wide /\ COMPRESSED_ISA => decoded.upper = Plus(decoded.at, 2)

\* Stage 2 decodes the word that stage 1 decoded: no transfer replaces
\* mem_rdata_q on the edge between the two.
StagesAgree ==
  decoder_trigger /\ ~decoder_pseudo_trigger =>
    /\ mem_rdata_q.lo.at = decoded.at
    /\ mem_rdata_q.lo.wide = decoded.wide

(***************************************************************************)
(* Results                                                                 *)
(***************************************************************************)
\* A result is written to the destination of the instruction that computed it,
\* while reg_pc is still its address; a link register gets the address after it.
WriteBackOwner ==
  cpuregs_write =>
    /\ latched_rd = reg_pc
    /\ latched_branch => latched_compr = ~insn.wide

(***************************************************************************)
(* Coprocessor interface                                                   *)
(***************************************************************************)

IllegalInExecution ==
  cpu_state \in {"ld_rs1", "ld_rs2"} /\ insn.kind = "illegal" /\ insn.at = reg_pc
StaysIllegal == cpu_state' \in {"ld_rs1", "ld_rs2", "trap"} /\ insn' = insn
EntersHandler == cpu_state' = "fetch" /\ latched_branch' /\ reg_out' = PROGADDR_IRQ
PcpiAnswered == cpu_state' = "fetch" /\ pcpi_valid /\ ~pcpi_valid' /\ ~latched_branch'

\* An illegal instruction leaves execution in one of three ways: a coprocessor
\* answers for it, the trap handler is entered, or the core stops (README, lines
\* 250-252 and 656-658).  It is never replaced by the instruction after it.
\* Only a reset cuts it off.
IllegalTraps ==
  [][IllegalInExecution => StaysIllegal \/ EntersHandler \/ PcpiAnswered \/ Reset]_vars

(***************************************************************************)
(* Traps                                                                   *)
(***************************************************************************)
\* PROGADDR_IRQ is "the start address of the exception handler" (README, line
\* 437): the first instruction executed there is the one stored there.
HandlerStartsAtVector ==
  LaunchesNow /\ current_pc = PROGADDR_IRQ => decoded.at = PROGADDR_IRQ

\* "a misaligned memory access or jump will generate an exception" (README,
\* line 241): no transfer of a halfword or a word is asked for at an address
\* that is not a multiple of its size.
AccessesAligned ==
  CATCH_MISALIGN /\ mem_do \cap {"rdata", "wdata"} # {} =>
    CASE mem_wordsize = 0 -> reg_op1 % 4 = 0
      [] mem_wordsize = 1 -> reg_op1 % 2 = 0
      [] mem_wordsize = 2 -> TRUE

\* "an illegal instruction will cause an exception and transfer of the control
\* to the trap handler" (README, line 250), and so do ecall and ebreak.
TrapsEventually ==
  (cpu_state \in {"ld_rs1", "ld_rs2"} /\ instr_trap)
    ~> (cpu_state \in {"fetch", "trap"})

(***************************************************************************)
(* The instruction set                                                     *)
(***************************************************************************)
\* where the program is: a jump to a misaligned address has not happened
ArchPc ==
  IF cpu_state # "fetch" THEN reg_pc
  ELSE IF MisalignedJump THEN reg_pc ELSE current_pc

ClassOf(kind) ==
  CASE kind \in {"load", "store"} -> "data"
    [] kind \in {"illegal", "ebreak"} -> "unknown"
    [] kind = "ecall" -> "environment"
    [] kind \in {"branch", "jalr", "csr", "mret"} -> kind
    [] OTHER -> "plain"

\* the instruction in execution; stage 2 of the decoder has gone on to the next
\* one while a load or a store is on the bus
Executing ==
  CASE cpu_state \in {"fetch", "trap"} -> [kind |-> "nothing"]
    [] cpu_state \in {"ldmem", "stmem"} ->
         [kind |-> "data", target |-> None, cond |-> "not",
          length |-> IF reg_next_pc = Plus(reg_pc, 2) THEN 2 ELSE 4]
    [] OTHER -> [kind |-> ClassOf(insn.kind), target |-> insn.target,
                 cond |-> insn.cond, length |-> Length(insn)]

Sequential == INSTANCE NanoIsa WITH
  Addresses <- Addr, ResetPc <- PROGADDR_RESET, IrqPc <- PROGADDR_IRQ,
  Sources <- IrqEnabled, WithMachineIsa <- MACHINE_ISA,
  WithCustomTrap <- ENABLE_CSR_CUSTOM_TRAP, CatchMisalign <- CATCH_MISALIGN,
  After <- Plus, Aligned <- Align,
  pc <- ArchPc, running <- Executing,
  misjump <- (cpu_state = "fetch" /\ MisalignedJump),
  halted <- (cpu_state = "trap"),
  mie_global <- mstatus_mie, mpie <- mstatus_mpie, enabled <- mie, pending <- mip,
  epc <- mepc, in_trap <- mtrap, was_in_trap <- mtrap_prev

\* The core implements the sequential machine of NanoIsa: every instruction
\* takes effect once and in order, exceptions and interrupts save the address
\* of the instruction they interrupt, mret restores what they saved.
ImplementsIsa == Sequential!IsaSpec

(***************************************************************************)
(* External interrupts                                                     *)
(***************************************************************************)
\* An external interrupt that is taken is still pending and unmasked: mip
\* follows the registers one edge late, but the handler that has just cleared
\* a latched line, or masked one, is not interrupted by it again.
NoStaleExternal ==
  cpu_state = "fetch" /\ TakesInterrupt /\ mie \cap mip = {"external"} =>
    irq_pending \cap irq_mask # {}

(***************************************************************************)
(* Progress, with a memory that answers within MaxStall cycles             *)
(***************************************************************************)
\* the counter is full while a coprocessor holds the instruction
CoprocessorHolds == pcpi_valid /\ pcpi_timeout_counter = PCPI_TIMEOUT

\* The core always comes back to launch an instruction, unless it has stopped
\* in a trap, waits in wfi, or a coprocessor keeps it waiting for ever.
KeepsLaunching ==
  []<>(LaunchesNow \/ cpu_state = "trap" \/ do_waitirq \/ CoprocessorHolds)

\* An enabled interrupt that stays pending is taken: the core does not
\* postpone it for ever, wherever in an instruction it was raised.
InterruptTaken ==
  \/ <>[]pcpi_valid
  \/ (mstatus_mie /\ mie \cap mip # {})
       ~> (~mstatus_mie \/ mie \cap mip = {} \/ cpu_state = "trap")
=============================================================================
