------------------------------ MODULE NanoCore ------------------------------
(***************************************************************************)
(* The NanoRV32 processor core (rtl/nanorv32_core.v): the two-stage        *)
(* instruction decoder and the main state machine, composed with the       *)
(* memory interface of NanoMem.  One step is one rising edge of clk; every *)
(* register takes its next value in it, as the always blocks do.           *)
(*                                                                         *)
(* Abstraction: an instruction is its kind (how the main state machine     *)
(* treats it), the address it was fetched from, its length, and for jumps  *)
(* the address it computes.  The program is arbitrary: the decoder may     *)
(* find any instruction of Kinds in the words it is given.  The contents   *)
(* of the register file and of data words are left out; latched_rd holds   *)
(* the address of the instruction whose destination register it is.       *)
(***************************************************************************)
EXTENDS NanoMem, FiniteSets

CONSTANTS
  \* parameters of the core, by their names in the source
  MACHINE_ISA, WITH_PCPI, CATCH_MISALIGN, ENABLE_REGS_DUALPORT,
  ENABLE_CSR_CUSTOM_TRAP, TWO_CYCLE_ALU, TWO_CYCLE_COMPARE,
  BARREL_SHIFTER, TWO_STAGE_SHIFT,
  PROGADDR_RESET, PROGADDR_IRQ,
  IrqEnabled,       \* the sources that exist: MACHINE_ISA && ENABLE_IRQ_*
  IrqLines,         \* external interrupt lines in use
  LATCHED_IRQ, MASKED_IRQ,
  PCPI_TIMEOUT,     \* reload value of pcpi_timeout_counter (15 in the source)
  \* the program and its environment
  Kinds,            \* kinds of instruction the program contains
  Targets,          \* addresses jumps compute
  DataAddrs,        \* addresses loads and stores compute
  CsrNames,         \* registers the csr instructions write
  PcpiClaimsLate,   \* whether pcpi_wait may rise in the cycle the counter is 0
  MaxShift,         \* bound: the largest shift amount
  MayReset          \* whether resetn may go low again

AllKinds == {"lui", "addi", "add", "shifti", "shift", "branch", "jal", "jalr",
             "load", "store", "csr", "mret", "wfi", "rdcycle",
             "ecall", "ebreak", "illegal"}

IrqSources == {"software", "timer", "external"}
AllCsrs == {"mstatus", "mie", "mip", "mepc", "irq_mask", "irq_pend",
            "custom_trap", "other"}

ASSUME CoreAssumption ==
  /\ {MACHINE_ISA, WITH_PCPI, CATCH_MISALIGN, ENABLE_REGS_DUALPORT,
      ENABLE_CSR_CUSTOM_TRAP, TWO_CYCLE_ALU, TWO_CYCLE_COMPARE,
      BARREL_SHIFTER, TWO_STAGE_SHIFT, PcpiClaimsLate, MayReset} \subseteq BOOLEAN
  /\ PROGADDR_RESET \in Addr /\ PROGADDR_IRQ \in Addr
  /\ \A a \in {PROGADDR_RESET, PROGADDR_IRQ} : a % (IF COMPRESSED_ISA THEN 2 ELSE 4) = 0
  /\ IrqEnabled \subseteq IrqSources
  /\ ~MACHINE_ISA => IrqEnabled = {}
  /\ "external" \notin IrqEnabled => IrqLines = {}
  /\ LATCHED_IRQ \subseteq IrqLines /\ MASKED_IRQ \subseteq IrqLines
  /\ PCPI_TIMEOUT \in Nat /\ MaxShift \in Nat
  /\ Kinds \subseteq AllKinds
  /\ ~MACHINE_ISA => Kinds \cap {"csr", "mret", "wfi"} = {}
  /\ CsrNames \subseteq AllCsrs
  /\ Targets \subseteq Addr /\ Targets # {} /\ DataAddrs \subseteq Addr

VARIABLES
  \* instruction decoder
  decoded,                  \* what stage 1 holds (instr_*, is_*, decoded_*)
  insn,                     \* what stage 2 holds
  decoder_trigger, decoder_pseudo_trigger,
  \* main state machine
  cpu_state, reg_pc, latched_stalu, latched_compr, latched_rd,
  do_waitirq, reg_sh,
  alu_wait, alu_wait_2, alu_q, alu_out_0_q, alu_out_q,
  \* coprocessor interface
  pcpi_valid, pcpi_timeout_counter, pcpi_timeout,
  \* machine-mode registers
  mstatus_mie, mstatus_mpie, mie, mepc, mtrap, mtrap_prev,
  mip, irq_mask, irq_pending, eoi

decoderVars == <<decoded, insn, decoder_trigger, decoder_pseudo_trigger>>
csrVars == <<mstatus_mie, mstatus_mpie, mie, mepc, mtrap, mtrap_prev>>
irqVars == <<mip, irq_mask, irq_pending, eoi>>
pcpiVars == <<pcpi_valid, pcpi_timeout_counter, pcpi_timeout>>
aluVars == <<alu_wait, alu_wait_2, alu_q, alu_out_0_q, alu_out_q>>
mainVars == <<cpu_state, reg_pc, latched_stalu, latched_compr, latched_rd,
              do_waitirq, reg_sh>>
vars == <<requestVars, busVars, wordVars, stall, decoderVars, csrVars, irqVars,
          pcpiVars, aluVars, mainVars>>

(***************************************************************************)
(* Instruction decoder                                                     *)
(***************************************************************************)
\* `at' is the address the low half was read from, `upper' the high half's
Instruction == [kind : AllKinds, at : AddrOrNone, upper : AddrOrNone,
                wide : BOOLEAN, target : AddrOrNone, cond : {"taken", "not"}]

Length(i) == IF i.wide THEN 4 ELSE 2

\* kinds with no 16-bit encoding
WideOnly == {"csr", "mret", "wfi", "rdcycle", "ecall"}

\* immediates of jal and branch are even; jalr adds a register
TargetsOf(kind) ==
  CASE kind \in {"jal", "branch"} -> {t \in Targets : t % 2 = 0}
    [] kind = "jalr" -> Targets
    [] OTHER -> {None}

CondOf(kind) == IF kind = "branch" THEN {"taken", "not"} ELSE {"not"}

KindsOf(word) == IF word.lo.wide THEN Kinds ELSE Kinds \ WideOnly

\* the instructions a fetched word may turn out to be
Decodings(word) ==
  UNION {[kind : {k}, at : {word.lo.at}, upper : {word.hi.at},
          wide : {word.lo.wide}, target : TargetsOf(k), cond : CondOf(k)] :
         k \in KindsOf(word)}

\* stage 1 on the edge that ends a fetch, stage 2 one edge after decoder_trigger
Decode(in) ==
  /\ IF Wants("rinst") /\ mem_done(in)
       THEN decoded' \in Decodings(mem_rdata_latched(in))
       ELSE UNCHANGED decoded
  /\ insn' = IF decoder_trigger /\ ~decoder_pseudo_trigger THEN decoded ELSE insn

\* flags stage 1 sets itself: the main state machine sees them one edge early
StageOne == {"lui", "jal", "jalr", "mret", "wfi"}

instr_trap ==
  /\ decoded.kind \notin StageOne
  /\ insn.kind \in StageOne \cup {"ecall", "ebreak", "illegal"}

(***************************************************************************)
(* Helpers of the main state machine                                       *)
(***************************************************************************)
Align(a) == IF COMPRESSED_ISA THEN a - (a % 2) ELSE a - (a % 4)
Misaligned(a) == IF COMPRESSED_ISA THEN a % 2 # 0 ELSE a % 4 # 0

\* faulty: a transfer ends the request although a second word is needed
RequestsEndWithTransfer(in) == IF mem_xfer(in) THEN {} ELSE mem_do

\* the request flags an edge leaves, before the state machine raises others
RemainingRequests(in) == IF mem_done(in) THEN {} ELSE mem_do
WithRinst(requests, on) ==
  IF on THEN requests \cup {"rinst"} ELSE requests \ {"rinst"}

\* faulty: the prefetch is left running
PrefetchNotClaimed(in) == mem_do' = RemainingRequests(in)

\* mem_do_rinst <= mem_do_prefetch && !mem_done: turn the prefetch into a fetch
ClaimPrefetch(in) ==
  mem_do' = WithRinst(RemainingRequests(in), Wants("prefetch") /\ ~mem_done(in))

DefaultTrigger(in) == decoder_trigger' = (Wants("rinst") /\ mem_done(in))

\* registers the state machine clears unless the state says otherwise
NoStrobes == decoder_pseudo_trigger' = FALSE /\ do_waitirq' = FALSE
NoAluWait == alu_wait' = FALSE /\ alu_wait_2' = FALSE

KeepLatches == UNCHANGED <<latched_store, latched_branch, latched_stalu,
                           latched_compr, latched_rd>>
KeepPc == UNCHANGED <<reg_pc, reg_next_pc, mem_wordsize>>

CustomTrap(b) == MACHINE_ISA /\ ENABLE_CSR_CUSTOM_TRAP /\ b

(***************************************************************************)
(* The task do_trap.  It leaves latched_store, latched_branch, latched_rd  *)
(* and reg_out to the caller's values unless the trap is entered.          *)
(***************************************************************************)
TrapAllowed(set_mtrap) ==
  MACHINE_ISA /\ (~mtrap \/ ~set_mtrap \/ ~ENABLE_CSR_CUSTOM_TRAP)

TrapEntered(in, set_mtrap) ==
  TrapAllowed(set_mtrap) /\ (~Wants("prefetch") \/ mem_done(in))

\* faulty: mepc is the instruction after the one that traps
TrapSavesNextPc(in, set_mtrap, store, branch, rd) ==
  \/ /\ TrapEntered(in, set_mtrap)
     /\ mtrap' = CustomTrap(mtrap \/ set_mtrap)
     /\ mtrap_prev' = CustomTrap(mtrap)
     /\ mepc' = reg_next_pc
     /\ mstatus_mie' = FALSE /\ mstatus_mpie' = mstatus_mie
     /\ cpu_state' = "fetch"
     /\ latched_rd' = None /\ latched_branch' = TRUE /\ latched_store' = TRUE
     /\ reg_out' = PROGADDR_IRQ
     /\ UNCHANGED mie
  \/ /\ ~TrapEntered(in, set_mtrap)
     /\ cpu_state' = IF TrapAllowed(set_mtrap) THEN cpu_state ELSE "trap"
     /\ latched_rd' = rd /\ latched_branch' = branch /\ latched_store' = store
     /\ reg_out' = None
     /\ UNCHANGED csrVars

DoTrap(in, set_mtrap, store, branch, rd) ==
  \/ /\ TrapEntered(in, set_mtrap)
     /\ mtrap' = CustomTrap(mtrap \/ set_mtrap)
     /\ mtrap_prev' = CustomTrap(mtrap)
     /\ mepc' = reg_pc
     /\ mstatus_mie' = FALSE /\ mstatus_mpie' = mstatus_mie
     /\ cpu_state' = "fetch"
     /\ latched_rd' = None /\ latched_branch' = TRUE /\ latched_store' = TRUE
     /\ reg_out' = PROGADDR_IRQ
     /\ UNCHANGED mie
  \/ /\ ~TrapEntered(in, set_mtrap)
     /\ cpu_state' = IF TrapAllowed(set_mtrap) THEN cpu_state ELSE "trap"
     /\ latched_rd' = rd /\ latched_branch' = branch /\ latched_store' = store
     /\ reg_out' = None
     /\ UNCHANGED csrVars

\* the task do_instr_trap: ecall leaves mtrap alone
DoInstrTrap(in) ==
  DoTrap(in, insn.kind # "ecall", latched_store, latched_branch, latched_rd)

(***************************************************************************)
(* cpu_state_fetch                                                         *)
(***************************************************************************)
\* current_pc before its low bits are cleared
JumpedTo ==
  IF latched_branch /\ latched_store
    THEN IF latched_stalu THEN alu_out_q ELSE reg_out
    ELSE reg_next_pc

current_pc == Align(JumpedTo)

MisalignedJump == CATCH_MISALIGN /\ latched_branch /\ Misaligned(JumpedTo)

\* faulty: wfi goes first
IrqAfterWfi == decoder_trigger /\ mstatus_mie /\ mie \cap mip # {} /\ decoded.kind # "wfi"

IrqReady == decoder_trigger /\ mstatus_mie /\ mie \cap mip # {}
TakesInterrupt == MACHINE_ISA /\ IrqReady
WaitsForInterrupt ==
  /\ ~TakesInterrupt /\ MACHINE_ISA /\ decoded.kind = "wfi"
  /\ decoder_trigger \/ do_waitirq
Launches == ~TakesInterrupt /\ ~WaitsForInterrupt /\ decoder_trigger

\* the result of the last instruction goes to the register file
cpuregs_write ==
  cpu_state = "fetch" /\ (latched_branch \/ latched_store) /\ latched_rd # None

FetchDefaults ==
  /\ latched_stalu' = FALSE
  /\ reg_pc' = IF TakesInterrupt THEN PROGADDR_IRQ ELSE current_pc
  /\ latched_compr' = IF TakesInterrupt THEN latched_compr ELSE ~decoded.wide
  /\ decoder_pseudo_trigger' = FALSE
  /\ NoAluWait /\ reg_sh' = None /\ mem_wordsize' = 0
  /\ UNCHANGED <<pcpi_valid, reg_op1>>

\* mem_do_rinst <= !decoder_trigger && !do_waitirq && !mem_done
FetchRequest(in) ==
  mem_do' = WithRinst(RemainingRequests(in),
                      ~decoder_trigger /\ ~do_waitirq /\ ~mem_done(in))

\* faulty: the destination register of stage 2, one instruction behind
NoBranchLateRd ==
  /\ latched_store' = FALSE /\ latched_branch' = FALSE
  /\ latched_rd' = insn.at /\ reg_out' = None

NoBranch ==
  /\ latched_store' = FALSE /\ latched_branch' = FALSE
  /\ latched_rd' = decoded.at /\ reg_out' = None

FetchWait(in) ==
  /\ ~TakesInterrupt /\ ~WaitsForInterrupt /\ ~Launches
  /\ FetchDefaults /\ NoBranch /\ FetchRequest(in) /\ DefaultTrigger(in)
  /\ reg_next_pc' = current_pc
  /\ do_waitirq' = FALSE
  /\ UNCHANGED <<cpu_state, csrVars>>

FetchMisalignedJump(in) ==
  /\ MisalignedJump /\ ~TakesInterrupt /\ ~WaitsForInterrupt /\ ~Launches
  /\ FetchDefaults /\ FetchRequest(in)
  /\ DoTrap(in, TRUE, FALSE, FALSE, decoded.at)
  /\ decoder_trigger' = FALSE
  /\ reg_next_pc' = current_pc
  /\ do_waitirq' = FALSE

\* faulty: mepc is the instruction before the one interrupted
InterruptSavesRegPc(in) ==
  /\ TakesInterrupt
  /\ FetchDefaults /\ NoBranch /\ FetchRequest(in) /\ DefaultTrigger(in)
  /\ reg_next_pc' = PROGADDR_IRQ
  /\ mepc' = reg_pc
  /\ mtrap_prev' = CustomTrap(mtrap)
  /\ mstatus_mie' = FALSE /\ mstatus_mpie' = mstatus_mie
  /\ do_waitirq' = FALSE
  /\ UNCHANGED <<cpu_state, mie, mtrap>>

FetchInterrupt(in) ==
  /\ TakesInterrupt
  /\ FetchDefaults /\ NoBranch /\ FetchRequest(in) /\ DefaultTrigger(in)
  /\ reg_next_pc' = PROGADDR_IRQ
  /\ mepc' = current_pc
  /\ mtrap_prev' = CustomTrap(mtrap)
  /\ mstatus_mie' = FALSE /\ mstatus_mpie' = mstatus_mie
  /\ do_waitirq' = FALSE
  /\ UNCHANGED <<cpu_state, mie, mtrap>>

FetchWfi(in) ==
  /\ WaitsForInterrupt
  /\ FetchDefaults /\ NoBranch /\ DefaultTrigger(in)
  /\ IF mie \cap mip # {}
       THEN /\ reg_next_pc' = Plus(current_pc, Length(decoded))
            /\ mem_do' = WithRinst(RemainingRequests(in), ~mem_done(in))
            /\ do_waitirq' = FALSE
       ELSE /\ reg_next_pc' = current_pc
            /\ FetchRequest(in)
            /\ do_waitirq' = TRUE
  /\ UNCHANGED <<cpu_state, csrVars>>

\* launch_next_insn for a jal, which the fetch state executes itself
FetchJal(in) ==
  /\ Launches /\ decoded.kind = "jal"
  /\ FetchDefaults /\ DefaultTrigger(in)
  /\ latched_store' = FALSE /\ latched_branch' = TRUE
  /\ latched_rd' = decoded.at /\ reg_out' = None
  /\ reg_next_pc' = Align(decoded.target)
  /\ mem_do' = WithRinst(RemainingRequests(in), ~mem_done(in))
  /\ do_waitirq' = FALSE
  /\ UNCHANGED <<cpu_state, csrVars>>

\* faulty: every instruction is taken to be of 4 bytes
LaunchWide(in) ==
  /\ Launches /\ decoded.kind # "jal"
  /\ FetchDefaults /\ NoBranch /\ DefaultTrigger(in)
  /\ reg_next_pc' = Plus(current_pc, 4)
  /\ mem_do' = (RemainingRequests(in) \ {"rinst", "prefetch"})
                 \cup (IF decoded.kind \in {"jalr", "mret"} THEN {} ELSE {"prefetch"})
  /\ cpu_state' = "ld_rs1"
  /\ do_waitirq' = FALSE
  /\ UNCHANGED csrVars

FetchLaunch(in) ==
  /\ Launches /\ decoded.kind # "jal"
  /\ FetchDefaults /\ NoBranch /\ DefaultTrigger(in)
  /\ reg_next_pc' = Plus(current_pc, Length(decoded))
  /\ mem_do' = (RemainingRequests(in) \ {"rinst", "prefetch"})
                 \cup (IF decoded.kind \in {"jalr", "mret"} THEN {} ELSE {"prefetch"})
  /\ cpu_state' = "ld_rs1"
  /\ do_waitirq' = FALSE
  /\ UNCHANGED csrVars

\* a misaligned jump coincides with none of the others: the decoder is idle
\* after a jump (the model would deadlock if it were not)
Fetch(in) ==
  /\ cpu_state = "fetch"
  /\ \/ FetchMisalignedJump(in)
     \/ /\ ~MisalignedJump
        /\ \/ FetchWait(in) \/ FetchInterrupt(in) \/ FetchWfi(in)
           \/ FetchJal(in) \/ FetchLaunch(in)

(***************************************************************************)
(* cpu_state_ld_rs1 and cpu_state_ld_rs2                                   *)
(***************************************************************************)
\* the coprocessor answers, the trap is taken, or the core goes on waiting
PcpiReady(in) ==
  /\ in.pcpi_ready
  /\ mem_do' = WithRinst(RemainingRequests(in), ~mem_done(in))
  /\ pcpi_valid' = FALSE
  /\ latched_store' = in.pcpi_wr
  /\ cpu_state' = "fetch" /\ reg_out' = None
  /\ DefaultTrigger(in)
  /\ UNCHANGED <<latched_branch, latched_rd, csrVars>>

PcpiGivesUp == pcpi_timeout \/ insn.kind \in {"ecall", "ebreak"}

\* faulty: the prefetch is claimed while the coprocessor is at work
PcpiWaitClaims(in) ==
  /\ ~in.pcpi_ready /\ ~PcpiGivesUp
  /\ pcpi_valid' = TRUE
  /\ ClaimPrefetch(in) /\ DefaultTrigger(in) /\ reg_out' = None
  /\ UNCHANGED <<cpu_state, latched_store, latched_branch, latched_rd, csrVars>>

PcpiWait(in) ==
  /\ ~in.pcpi_ready /\ ~PcpiGivesUp
  /\ pcpi_valid' = TRUE
  /\ mem_do' = RemainingRequests(in) /\ DefaultTrigger(in) /\ reg_out' = None
  /\ UNCHANGED <<cpu_state, latched_store, latched_branch, latched_rd, csrVars>>

LdRs1Trap(in) ==
  /\ instr_trap
  /\ reg_op1' = None /\ reg_sh' = None
  /\ \/ /\ WITH_PCPI /\ ENABLE_REGS_DUALPORT
        /\ \/ PcpiReady(in) \/ PcpiWait(in)
           \/ /\ ~in.pcpi_ready /\ PcpiGivesUp
              /\ pcpi_valid' = FALSE
              /\ ClaimPrefetch(in)
              /\ decoder_trigger' = FALSE
              /\ DoInstrTrap(in)
     \/ /\ WITH_PCPI /\ ~ENABLE_REGS_DUALPORT
        /\ cpu_state' = "ld_rs2"
        /\ mem_do' = RemainingRequests(in) /\ DefaultTrigger(in) /\ reg_out' = None
        /\ UNCHANGED <<pcpi_valid, latched_store, latched_branch, latched_rd, csrVars>>
     \/ /\ ~WITH_PCPI
        /\ DoInstrTrap(in)
        /\ mem_do' = RemainingRequests(in) /\ DefaultTrigger(in)
        /\ UNCHANGED pcpi_valid
  /\ NoAluWait
  /\ UNCHANGED <<latched_stalu, latched_compr>>

\* rdcycle and the csr instructions have their result at once
ReadsOut(in) ==
  /\ latched_store' = TRUE /\ reg_out' = None
  /\ cpu_state' = "fetch"
  /\ mem_do' = RemainingRequests(in)
  /\ reg_op1' = None /\ reg_sh' = None /\ NoAluWait
  /\ UNCHANGED <<latched_branch, latched_stalu, latched_compr, latched_rd, pcpi_valid>>

LdRs1Counter(in) ==
  /\ ~instr_trap /\ insn.kind = "rdcycle"
  /\ ReadsOut(in) /\ DefaultTrigger(in)
  /\ UNCHANGED csrVars

LdRs1Mret(in) ==
  /\ decoded.kind = "mret"
  /\ mstatus_mie' = mstatus_mpie /\ mstatus_mpie' = TRUE
  /\ mtrap' = CustomTrap(mtrap_prev)
  /\ reg_out' = mepc
  /\ latched_store' = TRUE /\ latched_branch' = TRUE
  /\ cpu_state' = "fetch"
  /\ mem_do' = RemainingRequests(in) /\ DefaultTrigger(in)
  /\ reg_op1' = None /\ reg_sh' = None /\ NoAluWait
  /\ UNCHANGED <<mie, mepc, mtrap_prev, latched_stalu, latched_compr, latched_rd, pcpi_valid>>

\* the registers a csr instruction can write; irqVars are written by IrqStep
CsrWrites ==
  UNION {[csr : CsrNames \cap {"mstatus"}, mie : BOOLEAN, mpie : BOOLEAN],
         [csr : CsrNames \cap {"mie"}, sources : SUBSET IrqEnabled],
         [csr : CsrNames \cap {"mip"}, sources : SUBSET (IrqEnabled \cap {"software"})],
         [csr : CsrNames \cap {"mepc"}, addr : Targets],
         [csr : CsrNames \cap {"irq_mask", "irq_pend"}, lines : SUBSET IrqLines],
         [csr : CsrNames \cap {"custom_trap"}, mtrap : BOOLEAN, mtrap_prev : BOOLEAN],
         [csr : CsrNames \cap {"other"}]}

NoWrite == [csr |-> "none"]

ExecutesCsr ==
  /\ cpu_state = "ld_rs1" /\ MACHINE_ISA /\ ~instr_trap
  /\ insn.kind = "csr" /\ decoded.kind # "mret"

LdRs1Csr(in, w) ==
  /\ ExecutesCsr
  /\ ReadsOut(in) /\ DefaultTrigger(in)
  /\ mstatus_mie' = IF w.csr = "mstatus" THEN w.mie ELSE mstatus_mie
  /\ mstatus_mpie' = IF w.csr = "mstatus" THEN w.mpie ELSE mstatus_mpie
  /\ mie' = IF w.csr = "mie" THEN w.sources ELSE mie
  /\ mepc' = IF w.csr = "mepc" THEN w.addr ELSE mepc
  /\ mtrap' = CustomTrap(IF w.csr = "custom_trap" THEN w.mtrap ELSE mtrap)
  /\ mtrap_prev' = CustomTrap(IF w.csr = "custom_trap" THEN w.mtrap_prev ELSE mtrap_prev)

\* what the ALU instructions, the shifts and the stores do next
NeedsAluWait ==
  TWO_CYCLE_ALU \/ (TWO_CYCLE_COMPARE /\ decoded.kind = "branch" )

ToExec(in, wait, wait2) ==
  /\ cpu_state' = "exec"
  /\ alu_wait' = wait /\ alu_wait_2' = wait2
  /\ IF wait THEN mem_do' = RemainingRequests(in) ELSE ClaimPrefetch(in)
  /\ reg_sh' = None

ToShift(in) ==
  /\ cpu_state' = "shift"
  /\ mem_do' = RemainingRequests(in) /\ NoAluWait
  /\ reg_sh' \in 0 .. MaxShift

ToMemory(in, state) ==
  /\ cpu_state' = state
  /\ mem_do' = WithRinst(RemainingRequests(in), ~mem_done(in))
  /\ NoAluWait /\ reg_sh' = None

\* the default branches of both states, once both operands are read
Dispatch(in) ==
  CASE decoded.kind = "store" -> ToMemory(in, "stmem")
    [] insn.kind = "shift" /\ ~BARREL_SHIFTER /\ decoded.kind # "store" -> ToShift(in)
    [] OTHER -> ToExec(in, NeedsAluWait,
                       TWO_CYCLE_ALU /\ TWO_CYCLE_COMPARE /\ decoded.kind = "branch")

\* what the cases of ld_rs1 that only read operands have in common
Operands(in) ==
  /\ reg_op1' = None /\ reg_out' = None
  /\ DefaultTrigger(in)
  /\ UNCHANGED <<latched_store, latched_branch, latched_stalu, latched_compr,
                 latched_rd, pcpi_valid, csrVars>>

OneOperand == {"addi", "jalr"} \cup (IF BARREL_SHIFTER THEN {"shifti"} ELSE {})

LdRs1Operands(in) ==
  /\ ~instr_trap /\ insn.kind \notin {"rdcycle", "csr"} /\ decoded.kind # "mret"
  /\ Operands(in)
  /\ CASE insn.kind \in {"lui", "jal"} -> ToExec(in, TWO_CYCLE_ALU, FALSE)
       [] decoded.kind = "load" /\ insn.kind \notin {"lui", "jal"} -> ToMemory(in, "ldmem")
       [] insn.kind \in OneOperand /\ decoded.kind # "load" ->
            ToExec(in, TWO_CYCLE_ALU, FALSE)
       [] insn.kind = "shifti" /\ ~BARREL_SHIFTER /\ decoded.kind # "load" -> ToShift(in)
       [] OTHER ->
            IF ENABLE_REGS_DUALPORT THEN Dispatch(in)
            ELSE /\ cpu_state' = "ld_rs2"
                 /\ mem_do' = RemainingRequests(in) /\ NoAluWait /\ reg_sh' = None

LdRs1(in, w) ==
  /\ cpu_state = "ld_rs1"
  /\ \/ LdRs1Trap(in) \/ LdRs1Counter(in) \/ LdRs1Csr(in, w) \/ LdRs1Operands(in)
     \/ ~instr_trap /\ insn.kind # "rdcycle" /\ LdRs1Mret(in)
  /\ KeepPc /\ NoStrobes

LdRs2(in) ==
  /\ cpu_state = "ld_rs2"
  /\ \/ /\ WITH_PCPI /\ instr_trap
        /\ \/ PcpiReady(in) \/ PcpiWait(in)
           \/ /\ ~in.pcpi_ready /\ PcpiGivesUp
              /\ pcpi_valid' = FALSE
              /\ mem_do' = RemainingRequests(in) /\ DefaultTrigger(in)
              /\ DoInstrTrap(in)
        /\ NoAluWait /\ reg_sh' = None
        /\ UNCHANGED <<latched_stalu, latched_compr, reg_op1>>
     \/ /\ ~(WITH_PCPI /\ instr_trap)
        /\ Dispatch(in) /\ DefaultTrigger(in) /\ reg_out' = None
        /\ KeepLatches /\ UNCHANGED <<pcpi_valid, csrVars, reg_op1>>
  /\ KeepPc /\ NoStrobes

(***************************************************************************)
(* cpu_state_exec and the ALU registers                                    *)
(***************************************************************************)
\* the ALU has the operands of the instruction while it is in exec; with
\* TWO_CYCLE_ALU its result is in a register, one edge later
AluHolds == IF TWO_CYCLE_ALU THEN alu_q ELSE cpu_state = "exec"

alu_out_0 == IF AluHolds THEN insn.cond ELSE "x"

AluRegisters ==
  /\ alu_q' = (cpu_state = "exec")
  /\ alu_out_0_q' = alu_out_0
  /\ alu_out_q' = IF AluHolds /\ insn.kind = "jalr" THEN insn.target ELSE None

Condition == IF TWO_CYCLE_COMPARE THEN alu_out_0_q ELSE alu_out_0
BranchTaken == Condition # "not"

ExecWaits == (TWO_CYCLE_ALU \/ TWO_CYCLE_COMPARE) /\ (alu_wait \/ alu_wait_2)

\* reg_out <= reg_pc + decoded_imm
ExecTarget == IF insn.kind = "branch" THEN insn.target ELSE None

ExecWait(in) ==
  /\ ExecWaits
  /\ mem_do' = WithRinst(RemainingRequests(in),
                         Wants("prefetch") /\ ~alu_wait_2 /\ ~mem_done(in))
  /\ alu_wait' = alu_wait_2 /\ alu_wait_2' = FALSE
  /\ DefaultTrigger(in)
  /\ UNCHANGED cpu_state /\ KeepLatches

\* a branch waits for the fetch that follows it and then drops it if taken
ExecBranch(in) ==
  /\ ~ExecWaits /\ decoded.kind = "branch"
  /\ latched_rd' = None
  /\ latched_store' = BranchTaken /\ latched_branch' = BranchTaken
  /\ cpu_state' = IF mem_done(in) THEN "fetch" ELSE "exec"
  /\ IF BranchTaken
       THEN decoder_trigger' = FALSE /\ mem_do' = WithRinst(RemainingRequests(in), TRUE)
       ELSE DefaultTrigger(in) /\ mem_do' = RemainingRequests(in)
  /\ NoAluWait
  /\ UNCHANGED <<latched_stalu, latched_compr>>

ExecResult(in) ==
  /\ ~ExecWaits /\ decoded.kind # "branch"
  /\ latched_branch' = (decoded.kind = "jalr")
  /\ latched_store' = TRUE /\ latched_stalu' = TRUE
  /\ cpu_state' = "fetch"
  /\ mem_do' = RemainingRequests(in) /\ DefaultTrigger(in)
  /\ NoAluWait
  /\ UNCHANGED <<latched_compr, latched_rd>>

Exec(in) ==
  /\ cpu_state = "exec"
  /\ reg_out' = ExecTarget /\ reg_sh' = None
  /\ ExecWait(in) \/ ExecBranch(in) \/ ExecResult(in)
  /\ KeepPc /\ NoStrobes
  /\ UNCHANGED <<reg_op1, pcpi_valid, csrVars>>

(***************************************************************************)
(* cpu_state_shift                                                         *)
(***************************************************************************)
ShiftDone(in) ==
  /\ reg_sh = 0
  /\ ClaimPrefetch(in)
  /\ cpu_state' = "fetch" /\ reg_sh' = None

ShiftStep(in) ==
  /\ reg_sh # 0
  /\ reg_sh' = IF TWO_STAGE_SHIFT /\ reg_sh >= 4 THEN reg_sh - 4 ELSE reg_sh - 1
  /\ mem_do' = RemainingRequests(in)
  /\ UNCHANGED cpu_state

Shift(in) ==
  /\ cpu_state = "shift"
  /\ latched_store' = TRUE
  /\ ShiftDone(in) \/ ShiftStep(in)
  /\ DefaultTrigger(in) /\ reg_out' = None
  /\ KeepPc /\ NoStrobes /\ NoAluWait
  /\ UNCHANGED <<latched_branch, latched_stalu, latched_compr, latched_rd,
                 reg_op1, pcpi_valid, csrVars>>

(***************************************************************************)
(* cpu_state_stmem and cpu_state_ldmem.  `request' is the flag the state   *)
(* raises, `store' the value it gives latched_store.                       *)
(***************************************************************************)
Accesses(request) ==
  IF request = "rdata" THEN {"lw", "lh", "lhu", "lb"} ELSE {"sw", "sh", "sb"}

WordSize(access) ==
  CASE access \in {"lw", "sw"} -> 0
    [] access \in {"lh", "lhu", "sh"} -> 1
    [] access \in {"lb", "sb"} -> 2

\* lhu is not tested
MisalignedData(addr, access) ==
  /\ CATCH_MISALIGN
  /\ \/ access \in {"lw", "sw"} /\ addr % 4 # 0
     \/ access \in {"lh", "sh"} /\ addr % 2 # 0

\* the next instruction is fetched and the data transfer can start, or has ended
\* faulty: the data transfer is requested while the prefetch is running
FetchNeverAwaited(in) == TRUE

FetchOver(in) == ~Wants("prefetch") \/ mem_done(in)
TransferOver(in) == ~Wants("prefetch") /\ mem_done(in)

DataWait(in, store) ==
  /\ ~FetchOver(in)
  /\ mem_do' = RemainingRequests(in) /\ DefaultTrigger(in)
  /\ decoder_pseudo_trigger' = FALSE /\ reg_out' = None
  /\ latched_store' = store
  /\ UNCHANGED <<cpu_state, latched_branch, latched_rd, reg_op1, mem_wordsize, csrVars>>

DataStart(in, request, store) ==
  /\ FetchOver(in) /\ ~Wants(request) /\ ~TransferOver(in)
  /\ \E addr \in DataAddrs, access \in Accesses(request) :
       /\ reg_op1' = addr /\ mem_wordsize' = WordSize(access)
       /\ IF MisalignedData(addr, access)
            THEN /\ DoTrap(in, TRUE, store, latched_branch, latched_rd)
                 /\ mem_do' = RemainingRequests(in)
            ELSE /\ mem_do' = RemainingRequests(in) \cup {request}
                 /\ reg_out' = None /\ latched_store' = store
                 /\ UNCHANGED <<cpu_state, latched_branch, latched_rd, csrVars>>
  /\ DefaultTrigger(in) /\ decoder_pseudo_trigger' = FALSE

DataOngoing(in, request, store) ==
  /\ FetchOver(in) /\ Wants(request) /\ ~TransferOver(in)
  /\ mem_do' = RemainingRequests(in) /\ DefaultTrigger(in)
  /\ decoder_pseudo_trigger' = FALSE /\ reg_out' = None
  /\ latched_store' = store
  /\ UNCHANGED <<cpu_state, latched_branch, latched_rd, reg_op1, mem_wordsize, csrVars>>

\* the instruction fetched before the data transfer is triggered again; the
\* transfer that ends is the one requested (the model would deadlock otherwise)
\* faulty: the second trigger looks like the first
DataEndTriggers(in, request, store) ==
  /\ TransferOver(in) /\ Wants(request)
  /\ mem_do' = {} /\ UNCHANGED <<reg_op1, mem_wordsize>>
  /\ cpu_state' = "fetch"
  /\ decoder_trigger' = TRUE /\ decoder_pseudo_trigger' = FALSE
  /\ reg_out' = None /\ latched_store' = store
  /\ UNCHANGED <<latched_branch, latched_rd, csrVars>>

DataEnd(in, request, store) ==
  /\ TransferOver(in) /\ Wants(request)
  /\ mem_do' = {} /\ UNCHANGED <<reg_op1, mem_wordsize>>
  /\ cpu_state' = "fetch"
  /\ decoder_trigger' = TRUE /\ decoder_pseudo_trigger' = TRUE
  /\ reg_out' = None /\ latched_store' = store
  /\ UNCHANGED <<latched_branch, latched_rd, csrVars>>

DataTransfer(in, request, store) ==
  /\ \/ DataWait(in, store) \/ DataStart(in, request, store)
     \/ DataOngoing(in, request, store) \/ DataEnd(in, request, store)
  /\ do_waitirq' = FALSE /\ reg_sh' = None
  /\ NoAluWait
  /\ UNCHANGED <<reg_pc, reg_next_pc, latched_stalu, latched_compr, pcpi_valid>>

StMem(in) == cpu_state = "stmem" /\ DataTransfer(in, "wdata", latched_store)
LdMem(in) == cpu_state = "ldmem" /\ DataTransfer(in, "rdata", TRUE)

(***************************************************************************)
(* cpu_state_trap: the core has stopped                                    *)
(***************************************************************************)
Trap(in) ==
  /\ cpu_state = "trap"
  /\ mem_do' = RemainingRequests(in) /\ DefaultTrigger(in)
  /\ reg_out' = None /\ reg_sh' = None
  /\ KeepPc /\ KeepLatches /\ NoStrobes /\ NoAluWait
  /\ UNCHANGED <<cpu_state, reg_op1, pcpi_valid, csrVars>>

(***************************************************************************)
(* What every edge does besides: the timeout of the coprocessor interface  *)
(* and the interrupt registers                                             *)
(***************************************************************************)
\* faulty: the counter wraps below 0
PcpiCounterWraps(in) ==
  IF WITH_PCPI
    THEN /\ pcpi_timeout_counter' =
              IF pcpi_valid /\ ~in.pcpi_wait THEN pcpi_timeout_counter - 1 ELSE PCPI_TIMEOUT
         /\ pcpi_timeout' = (pcpi_timeout_counter = 0)
    ELSE UNCHANGED <<pcpi_timeout_counter, pcpi_timeout>>

PcpiTimeout(in) ==
  IF WITH_PCPI
    THEN /\ pcpi_timeout_counter' =
              IF pcpi_valid /\ ~in.pcpi_wait
                THEN IF pcpi_timeout_counter = 0 THEN 0 ELSE pcpi_timeout_counter - 1
                ELSE PCPI_TIMEOUT
         /\ pcpi_timeout' = (pcpi_timeout_counter = 0)
    ELSE UNCHANGED <<pcpi_timeout_counter, pcpi_timeout>>

\* with resetn low pcpi_valid and pcpi_timeout are cleared, the counter reloaded
PcpiIdle ==
  /\ pcpi_valid' = FALSE /\ pcpi_timeout' = FALSE
  /\ pcpi_timeout_counter' = IF WITH_PCPI THEN PCPI_TIMEOUT ELSE pcpi_timeout_counter

\* mip.external follows the registers, mip.timer the input, mip.software the csr
\* faulty: mip.external stays set until software writes it
ExternalStaysPending(in, software) ==
  mip' = ((IF irq_pending \cap irq_mask # {} THEN {"external"} ELSE {})
           \cap IrqEnabled)
         \cup (mip \cap {"external"})
         \cup (IF in.mtip THEN {"timer"} ELSE {})
         \cup software

InterruptPending(in, software) ==
  mip' = ((IF irq_pending \cap irq_mask # {} THEN {"external"} ELSE {})
           \cap IrqEnabled)
         \cup (IF in.mtip THEN {"timer"} ELSE {})
         \cup software

IrqStep(in, w) ==
  /\ InterruptPending(in, IF w.csr = "mip" THEN w.sources ELSE mip \cap {"software"})
  /\ irq_mask' = IF w.csr = "irq_mask" THEN w.lines ELSE irq_mask
  /\ irq_pending' = ((IF w.csr = "irq_pend" THEN w.lines ELSE irq_pending \cap LATCHED_IRQ)
                       \cup in.irq) \ MASKED_IRQ
  /\ eoi' = IF w.csr = "irq_pend" THEN irq_pending \ w.lines ELSE {}

(***************************************************************************)
(* The inputs of one edge: the memory's answer, the interrupt lines, and   *)
(* the coprocessor's, which speaks only while pcpi_valid is high           *)
(***************************************************************************)
PcpiInputs ==
  IF pcpi_valid /\ insn.kind = "illegal"
    THEN {c \in [wait : BOOLEAN, ready : BOOLEAN, wr : BOOLEAN] :
            /\ c.wr => c.ready
            /\ pcpi_timeout_counter = 0 /\ ~PcpiClaimsLate => ~c.wait}
    ELSE {[wait |-> FALSE, ready |-> FALSE, wr |-> FALSE]}

TimerInputs == IF "timer" \in IrqEnabled THEN BOOLEAN ELSE {FALSE}

Inputs ==
  {[ready |-> m.ready, lo |-> m.lo, hi |-> m.hi, irq |-> i, mtip |-> t,
    pcpi_wait |-> c.wait, pcpi_ready |-> c.ready, pcpi_wr |-> c.wr] :
     m \in MemInputs, i \in SUBSET IrqLines, t \in TimerInputs, c \in PcpiInputs}

Writes == IF ExecutesCsr THEN CsrWrites ELSE {NoWrite}

(***************************************************************************)
(* Reset                                                                   *)
(***************************************************************************)
NoInstruction == [kind |-> "illegal", at |-> None, upper |-> None,
                  wide |-> FALSE, target |-> None, cond |-> "not"]

Init ==
  /\ MemInit
  /\ reg_pc = PROGADDR_RESET /\ reg_next_pc = PROGADDR_RESET
  /\ decoded = NoInstruction /\ insn = NoInstruction
  /\ decoder_trigger = FALSE /\ decoder_pseudo_trigger = FALSE
  /\ cpu_state = "fetch"
  /\ latched_stalu = FALSE /\ latched_compr = TRUE /\ latched_rd = None
  /\ do_waitirq = FALSE /\ reg_sh = None
  /\ alu_wait = FALSE /\ alu_wait_2 = FALSE
  /\ alu_q = FALSE /\ alu_out_0_q = "x" /\ alu_out_q = None
  /\ pcpi_valid = FALSE /\ pcpi_timeout = FALSE
  /\ pcpi_timeout_counter = PCPI_TIMEOUT
  /\ mstatus_mie = FALSE /\ mstatus_mpie = TRUE /\ mie = {} /\ mip = {}
  /\ mtrap = FALSE /\ mtrap_prev = FALSE
  /\ mepc \in IF MACHINE_ISA THEN Targets ELSE {None}
  /\ irq_mask = {} /\ irq_pending = {} /\ eoi = {}

\* one edge with resetn low, in the middle of anything
Reset ==
  /\ MayReset
  /\ \E in \in Inputs :
       /\ MemReset(in)
       /\ PcpiIdle
       /\ InterruptPending(in, {})
       /\ irq_pending' = in.irq \ MASKED_IRQ
  /\ trap' = FALSE /\ mem_do' = {}
  /\ latched_store' = FALSE /\ latched_branch' = FALSE /\ latched_stalu' = FALSE
  /\ reg_out' = None /\ reg_sh' = None
  /\ reg_pc' = PROGADDR_RESET /\ reg_next_pc' = PROGADDR_RESET
  /\ decoder_trigger' = FALSE /\ NoStrobes /\ NoAluWait /\ AluRegisters
  /\ cpu_state' = "fetch"
  /\ mstatus_mie' = FALSE /\ mstatus_mpie' = TRUE /\ mie' = {}
  /\ mtrap' = FALSE /\ mtrap_prev' = FALSE
  /\ irq_mask' = {} /\ eoi' = {}
  /\ insn' = IF decoder_trigger /\ ~decoder_pseudo_trigger THEN decoded ELSE insn
  /\ UNCHANGED <<mepc, decoded, latched_compr, latched_rd, reg_op1, mem_wordsize>>

(***************************************************************************)
(* Specification.  The clock ticks for ever.                               *)
(***************************************************************************)
StateMachine(in, w) ==
  \/ Fetch(in) \/ LdRs1(in, w) \/ LdRs2(in) \/ Exec(in) \/ Shift(in)
  \/ StMem(in) \/ LdMem(in) \/ Trap(in)

Tick ==
  \E in \in Inputs, w \in Writes :
    /\ StateMachine(in, w)
    /\ trap' = (cpu_state = "trap")
    /\ MemStep(in) /\ Decode(in) /\ AluRegisters /\ PcpiTimeout(in) /\ IrqStep(in, w)

Next == Tick \/ Reset

Spec == Init /\ [][Next]_vars

FairSpec == Spec /\ WF_vars(Tick)
=============================================================================
