---------------------------- MODULE NanoIsaProofs ----------------------------
(***************************************************************************)
(* NanoCore implements NanoIsa: whatever the pipeline, the prefetch, the   *)
(* bus and the resets do, the software sees one instruction after the      *)
(* other.                                                                  *)
(***************************************************************************)
EXTENDS NanoFetchProofs

(***************************************************************************)
(* What the registers of the main state machine say about the instruction  *)
(* in execution                                                            *)
(***************************************************************************)
\* an instruction of the program, or what the decoder holds after reset
WellDecoded(d) ==
  /\ d.kind \in Kinds \cup {"illegal"}
  /\ d.target \in IF d.kind \in {"jal", "branch", "jalr"} THEN Targets ELSE {None}
  /\ d.kind # "branch" => d.cond = "not"
  /\ d.kind \in WideOnly => d.wide

\* the program counter and what it may be loaded from are addresses
PcInSpace ==
  /\ reg_pc \in Addr /\ reg_next_pc \in Addr
  /\ MACHINE_ISA => mepc \in Addr
  /\ cpu_state = "fetch" /\ latched_branch /\ latched_store =>
       (IF latched_stalu THEN alu_out_q ELSE reg_out) \in Addr

\* reg_next_pc is the address after the instruction in execution
NextFollows ==
  /\ cpu_state \in Operating => reg_next_pc = Plus(reg_pc, Length(insn))
  /\ cpu_state \in {"ldmem", "stmem"} => reg_next_pc \in {Plus(reg_pc, 2), Plus(reg_pc, 4)}

\* which instructions get as far as ld_rs2, exec and shift, and when the result
\* of a jalr is in the register it is read from
KindsByState ==
  /\ cpu_state \in {"ld_rs2", "exec"} => insn.kind \notin {"csr", "mret"}
  /\ cpu_state = "exec" => insn.kind # "ecall"
  /\ cpu_state = "shift" => insn.kind \in {"shift", "shifti"}
  /\ cpu_state = "exec" /\ TWO_CYCLE_ALU /\ ~alu_q => alu_wait

TrapFlags == ~(MACHINE_ISA /\ ENABLE_CSR_CUSTOM_TRAP) => ~mtrap /\ ~mtrap_prev

IsaInv ==
  /\ WellDecoded(decoded) /\ WellDecoded(insn)
  /\ PcInSpace /\ NextFollows /\ KindsByState /\ TrapFlags

(***************************************************************************)
(* The refinement mapping, state by state                                  *)
(***************************************************************************)
Refused == cpu_state = "fetch" /\ MisalignedJump
Stopped == cpu_state = "trap"
InOperation == [kind |-> ClassOf(insn.kind), target |-> insn.target,
                cond |-> insn.cond, length |-> Length(insn)]
InTransfer == [kind |-> "data", target |-> None, cond |-> "not",
               length |-> IF reg_next_pc = Plus(reg_pc, 2) THEN 2 ELSE 4]

Mapping ==
  /\ Refused = FALSE
  /\ cpu_state = "fetch" =>
       ArchPc = current_pc /\ Executing = [kind |-> "nothing"] /\ Stopped = FALSE
  /\ cpu_state = "trap" =>
       ArchPc = reg_pc /\ Executing = [kind |-> "nothing"] /\ Stopped = TRUE
  /\ cpu_state \in Operating =>
       ArchPc = reg_pc /\ Executing = InOperation /\ Stopped = FALSE
  /\ cpu_state \in {"ldmem", "stmem"} =>
       ArchPc = reg_pc /\ Executing = InTransfer /\ Stopped = FALSE

LEMMA Mapped == FetchInv => Mapping
<1> SUFFICES ASSUME FetchInv PROVE Mapping
  OBVIOUS
<1>1. ~MisalignedJump
  BY NoMisalignedJump DEF FetchInv, PcInv
<1> QED BY <1>1 DEF Mapping, Refused, Stopped, ArchPc, Executing, InOperation, InTransfer, Operating

LEMMA MappedNext == FetchInv' => Mapping'
  BY Mapped, PTL

LEMMA Classes ==
  /\ \A kind \in {"load", "store"} : ClassOf(kind) = "data"
  /\ \A kind \in {"illegal", "ebreak"} : ClassOf(kind) = "unknown"
  /\ ClassOf("ecall") = "environment"
  /\ \A kind \in {"branch", "jalr", "csr", "mret"} : ClassOf(kind) = kind
  /\ \A kind \in AllKinds \ {"load", "store", "illegal", "ebreak", "ecall", "branch", "jalr",
                             "csr", "mret"} : ClassOf(kind) = "plain"
  BY DEF ClassOf, AllKinds

(***************************************************************************)
(* What a step of the main state machine does to the instruction in        *)
(* execution                                                               *)
(***************************************************************************)
Stays == cpu_state' \in Operating /\ KindsByState' /\ UNCHANGED <<insn, csrVars>>

StartsTransfer ==
  /\ cpu_state \in Operating /\ cpu_state' \in {"ldmem", "stmem"}
  /\ insn.kind \in {"load", "store"}
  /\ UNCHANGED csrVars

Finishes ==
  /\ cpu_state' = "fetch" /\ ~latched_branch'
  /\ Executing.kind \in {"plain", "data", "unknown", "branch"}
  /\ Executing.kind = "branch" => Executing.cond # "taken"
  /\ UNCHANGED csrVars

Jumped ==
  /\ cpu_state' = "fetch" /\ latched_branch' /\ latched_store'
  /\ insn.kind = "jalr" \/ (insn.kind = "branch" /\ insn.cond = "taken")
  /\ (IF latched_stalu' THEN alu_out_q' ELSE reg_out') = insn.target
  /\ UNCHANGED csrVars

Returned ==
  /\ insn.kind = "mret"
  /\ cpu_state' = "fetch" /\ latched_branch' /\ latched_store' /\ ~latched_stalu'
  /\ reg_out' = mepc
  /\ mstatus_mie' = mstatus_mpie /\ mstatus_mpie' = TRUE /\ mtrap' = CustomTrap(mtrap_prev)
  /\ UNCHANGED <<mie, mepc, mtrap_prev>>

Wrote(in, w) == insn.kind = "csr" /\ LdRs1Csr(in, w) /\ ~latched_branch'

Halts ==
  /\ cpu_state' = "trap" /\ insn.kind \in {"illegal", "ebreak", "ecall"}
  /\ MACHINE_ISA => ENABLE_CSR_CUSTOM_TRAP /\ mtrap /\ insn.kind # "ecall"
  /\ UNCHANGED csrVars

\* the handler of an exception starts
Handles ==
  LET set == insn.kind # "ecall"
  IN /\ insn.kind \in {"illegal", "ebreak", "ecall"}
     /\ TrapAllowed(set)
     /\ cpu_state' = "fetch" /\ latched_branch' /\ latched_store' /\ ~latched_stalu'
     /\ reg_out' = PROGADDR_IRQ /\ mepc' = reg_pc
     /\ mstatus_mie' = FALSE /\ mstatus_mpie' = mstatus_mie
     /\ mtrap' = CustomTrap(mtrap \/ set) /\ mtrap_prev' = CustomTrap(mtrap)
     /\ UNCHANGED mie

\* an instruction no coprocessor takes, whose prefetch is now its own request
LEMMA GivingUpOutcomes ==
  ASSUME FetchInv, IsaInv, GivingUp, NEW in \in Inputs, NEW w,
         LdRs1(in, w) \/ LdRs2(in), Decode(in)
  PROVE  Stays \/ Handles \/ Halts
<1>0. /\ cpu_state = "ld_rs1" /\ insn = decoded /\ insn' = insn /\ latched_stalu' = FALSE
      /\ insn.kind \in {"ecall", "ebreak", "illegal"}
      /\ LdRs1(in, w) /\ LdRs1Trap(in) /\ ClaimStands(in)
  <2>1. ClaimStands(in)
    BY OffersStand DEF FetchInv
  <2>2. /\ insn' = insn /\ latched_stalu' = FALSE /\ LdRs1(in, w)
        /\ cpu_state = "ld_rs1" /\ instr_trap
    BY <2>1, GivingUpSteps DEF FetchInv, PcInv, GivingUp
  <2>3. insn = decoded
    BY <2>2 DEF FetchInv, PcInv, ControlInv, OperandControl, Operating
  <2>4. LdRs1Trap(in)
    BY <2>2 DEF LdRs1, LdRs1Counter, LdRs1Csr, ExecutesCsr, LdRs1Operands
  <2> QED BY <2>1, <2>2, <2>3, <2>4 DEF instr_trap, StageOne
<1>1. DoInstrTrap(in)
  BY <1>0 DEF GivingUp, ClaimStands, LdRs1Trap, PcpiReady, PcpiWait
<1>2. CASE TrapEntered(in, insn.kind # "ecall")
  BY <1>0, <1>1, <1>2 DEF DoInstrTrap, DoTrap, Handles, TrapEntered
<1>3. CASE ~TrapEntered(in, insn.kind # "ecall")
  <2>1. /\ cpu_state' = IF TrapAllowed(insn.kind # "ecall") THEN cpu_state ELSE "trap"
        /\ UNCHANGED csrVars
    BY <1>1, <1>3 DEF DoInstrTrap, DoTrap
  <2>2. CASE TrapAllowed(insn.kind # "ecall")
    BY <1>0, <2>1, <2>2 DEF Stays, KindsByState, Operating
  <2>3. CASE ~TrapAllowed(insn.kind # "ecall")
    BY <1>0, <2>1, <2>3 DEF Halts, TrapAllowed
  <2> QED BY <2>2, <2>3
<1> QED BY <1>2, <1>3

LEMMA OperandOutcomes ==
  ASSUME FetchInv, IsaInv, NEW in \in Inputs, NEW w \in Writes,
         LdRs1(in, w) \/ LdRs2(in), Decode(in), AluRegisters
  PROVE  Stays \/ StartsTransfer \/ Finishes \/ Returned \/ Wrote(in, w) \/ Handles \/ Halts
<1> SUFFICES ASSUME ~GivingUp
             PROVE  Stays \/ StartsTransfer \/ Finishes \/ Returned \/ Wrote(in, w) \/ Halts
  BY GivingUpOutcomes
<1>0. /\ cpu_state \in {"ld_rs1", "ld_rs2"} /\ insn = decoded /\ ~latched_branch
      /\ mem_do = IF decoded.kind \in Jumps THEN {} ELSE {"prefetch"}
      /\ insn.kind \in AllKinds
      /\ cpu_state = "ld_rs2" => insn.kind \notin {"csr", "mret"}
      /\ cpu_state = "ld_rs2" => ~instr_trap \/ WITH_PCPI
  BY DEF LdRs1, LdRs2, FetchInv, PcInv, ControlInv, OperandControl, LatchControl, Operating,
         TypeOK, DecoderTypeOK, Instruction, IsaInv, KindsByState, RequestInv
<1>1. ~mem_done(in) /\ insn' = insn /\ latched_stalu' = FALSE
  BY OperandSteps DEF FetchInv, PcInv
<1>2. alu_q' = FALSE
  BY <1>0 DEF AluRegisters
<1>3. cpu_state \in Operating /\ Executing = InOperation
  BY <1>0, Mapped DEF Mapping, Operating
<1>4. instr_trap <=> insn.kind \in {"ecall", "ebreak", "illegal"}
  BY <1>0 DEF instr_trap, StageOne
<1>5. ASSUME NEW wait, NEW wait2, ToExec(in, wait, wait2), TWO_CYCLE_ALU => wait,
             insn.kind \notin {"csr", "mret", "ecall"}, UNCHANGED csrVars
      PROVE  Stays
  BY <1>1, <1>5 DEF Stays, ToExec, KindsByState, Operating
<1>6. ASSUME ToShift(in), insn.kind \in {"shift", "shifti"}, UNCHANGED csrVars
      PROVE  Stays
  BY <1>1, <1>6 DEF Stays, ToShift, KindsByState, Operating
<1>7. ASSUME NEW state \in {"ldmem", "stmem"}, ToMemory(in, state),
             insn.kind \in {"load", "store"}, UNCHANGED csrVars
      PROVE  StartsTransfer
  BY <1>3, <1>7 DEF StartsTransfer, ToMemory
<1>8. ASSUME Dispatch(in), insn.kind \notin {"csr", "mret", "ecall"}, UNCHANGED csrVars
      PROVE  Stays \/ StartsTransfer
  <2>1. CASE decoded.kind = "store"
    <3>1. ToMemory(in, "stmem") /\ insn.kind = "store"
      BY <1>0, <1>8, <2>1 DEF Dispatch
    <3> QED BY <1>7, <1>8, <3>1
  <2>2. CASE decoded.kind # "store" /\ insn.kind = "shift" /\ ~BARREL_SHIFTER
    BY <1>6, <1>8, <2>2 DEF Dispatch
  <2>3. CASE decoded.kind # "store" /\ ~(insn.kind = "shift" /\ ~BARREL_SHIFTER)
    <3> DEFINE wait2 == TWO_CYCLE_ALU /\ TWO_CYCLE_COMPARE /\ decoded.kind = "branch"
    <3>1. ToExec(in, NeedsAluWait, wait2)
      BY <1>8, <2>3 DEF Dispatch
    <3>2. TWO_CYCLE_ALU => NeedsAluWait
      BY DEF NeedsAluWait
    <3> HIDE DEF wait2
    <3> QED BY <1>5, <1>8, <3>1, <3>2
  <2> QED BY <2>1, <2>2, <2>3
<1>9. ASSUME DoInstrTrap(in), instr_trap
      PROVE  Stays \/ Halts
  <2>1. ~TrapEntered(in, insn.kind # "ecall")
    <3>1. Wants("prefetch")
      BY <1>0, <1>4, <1>9 DEF Jumps, Wants
    <3> QED BY <1>1, <3>1 DEF TrapEntered
  <2>2. /\ cpu_state' = IF TrapAllowed(insn.kind # "ecall") THEN cpu_state ELSE "trap"
        /\ UNCHANGED csrVars
    BY <1>9, <2>1 DEF DoInstrTrap, DoTrap
  <2>3. CASE TrapAllowed(insn.kind # "ecall")
    BY <1>0, <1>1, <1>3, <1>4, <1>9, <2>2, <2>3 DEF Stays, KindsByState
  <2>4. CASE ~TrapAllowed(insn.kind # "ecall")
    BY <1>4, <1>9, <2>2, <2>4 DEF Halts, TrapAllowed
  <2> QED BY <2>3, <2>4
<1>17. ASSUME PcpiReady(in)
      PROVE  Finishes
  <2>1. insn.kind = "illegal"
    <3>1. PICK c \in PcpiInputs : in.pcpi_ready = c.ready
      BY DEF Inputs
    <3>2. c.ready
      BY <1>17, <3>1 DEF PcpiReady
    <3> QED BY <3>1, <3>2 DEF PcpiInputs
  <2>2. cpu_state' = "fetch" /\ latched_branch' = latched_branch /\ UNCHANGED csrVars
    BY <1>17 DEF PcpiReady
  <2> QED BY <1>0, <1>3, <2>1, <2>2, Classes DEF Finishes, InOperation
<1>18. ASSUME PcpiWait(in), instr_trap
      PROVE  Stays
  <2>1. cpu_state' = cpu_state /\ UNCHANGED csrVars
    BY <1>18 DEF PcpiWait
  <2> QED BY <1>0, <1>1, <1>3, <1>4, <1>18, <2>1 DEF Stays, KindsByState
<1>10. CASE LdRs1(in, w) /\ LdRs1Trap(in)
  <2>0. instr_trap
    BY <1>10 DEF LdRs1Trap
  <2>1. CASE WITH_PCPI /\ ~ENABLE_REGS_DUALPORT
    <3>1. cpu_state' = "ld_rs2" /\ UNCHANGED csrVars
      BY <1>10, <2>1 DEF LdRs1Trap
    <3> QED BY <1>1, <1>4, <2>0, <3>1 DEF Stays, KindsByState, Operating
  <2>2. CASE DoInstrTrap(in)
    BY <1>9, <2>0, <2>2
  <2>3. CASE PcpiReady(in)
    BY <1>17, <2>0, <2>3
  <2>4. CASE PcpiWait(in)
    BY <1>18, <2>0, <2>4
  <2> QED BY <1>10, <2>1, <2>2, <2>3, <2>4 DEF LdRs1Trap
<1>11. CASE LdRs1(in, w) /\ LdRs1Counter(in)
  <2>1. /\ cpu_state' = "fetch" /\ latched_branch' = latched_branch /\ insn.kind = "rdcycle"
        /\ UNCHANGED csrVars
    BY <1>11 DEF LdRs1Counter, ReadsOut
  <2> QED BY <1>0, <1>3, <2>1, Classes DEF Finishes, InOperation
<1>12. CASE LdRs1(in, w) /\ LdRs1Csr(in, w)
  BY <1>0, <1>12 DEF LdRs1Csr, ExecutesCsr, ReadsOut, Wrote
<1>13. CASE LdRs1(in, w) /\ LdRs1Mret(in)
  BY <1>0, <1>1, <1>13 DEF LdRs1Mret, Returned
<1>14. CASE LdRs1(in, w) /\ LdRs1Operands(in)
  <2>0. /\ UNCHANGED csrVars /\ insn.kind \notin {"csr", "mret", "ecall"}
    BY <1>0, <1>4, <1>14 DEF LdRs1Operands, Operands
  <2>1. CASE insn.kind \in {"lui", "jal"}
    BY <1>5, <1>14, <2>0, <2>1 DEF LdRs1Operands
  <2>2. CASE insn.kind \notin {"lui", "jal"} /\ decoded.kind = "load"
    BY <1>0, <1>7, <1>14, <2>0, <2>2 DEF LdRs1Operands
  <2>3. CASE insn.kind \notin {"lui", "jal"} /\ decoded.kind # "load" /\ insn.kind \in OneOperand
    BY <1>5, <1>14, <2>0, <2>3 DEF LdRs1Operands, OneOperand
  <2>4. CASE insn.kind \notin {"lui", "jal"} /\ decoded.kind # "load" /\ insn.kind \notin OneOperand
    <3>1. CASE insn.kind = "shifti" /\ ~BARREL_SHIFTER
      BY <1>6, <1>14, <2>0, <2>4, <3>1 DEF LdRs1Operands
    <3>2. CASE ~(insn.kind = "shifti" /\ ~BARREL_SHIFTER)
      <4>1. IF ENABLE_REGS_DUALPORT THEN Dispatch(in) ELSE cpu_state' = "ld_rs2"
        BY <1>14, <2>4, <3>2 DEF LdRs1Operands
      <4>2. CASE Dispatch(in)
        BY <1>8, <2>0, <4>2
      <4>3. CASE cpu_state' = "ld_rs2"
        BY <1>1, <2>0, <4>3 DEF Stays, KindsByState, Operating
      <4> QED BY <4>1, <4>2, <4>3
    <3> QED BY <3>1, <3>2
  <2> QED BY <2>1, <2>2, <2>3, <2>4
<1>15. CASE LdRs2(in) /\ WITH_PCPI /\ instr_trap
  BY <1>9, <1>15, <1>17, <1>18 DEF LdRs2
<1>16. CASE LdRs2(in) /\ ~(WITH_PCPI /\ instr_trap)
  <2>1. Dispatch(in) /\ UNCHANGED csrVars
    BY <1>16 DEF LdRs2
  <2>2. insn.kind \notin {"csr", "mret", "ecall"}
    BY <1>0, <1>4, <1>16 DEF LdRs2
  <2> QED BY <1>8, <2>1, <2>2
<1> QED BY <1>10, <1>11, <1>12, <1>13, <1>14, <1>15, <1>16 DEF LdRs1

LEMMA ExecOutcomes ==
  ASSUME FetchInv, IsaInv, NEW in, Exec(in), Decode(in), AluRegisters
  PROVE  Stays \/ Finishes \/ Jumped
<1>0. /\ cpu_state = "exec" /\ insn = decoded /\ ~decoder_trigger /\ ~latched_stalu
      /\ insn.kind \in AllKinds \ {"csr", "mret", "ecall"} /\ insn.cond \in {"taken", "not"}
      /\ UNCHANGED csrVars /\ ControlInv
  BY DEF Exec, FetchInv, PcInv, ControlInv, OperandControl, LatchControl, Operating,
         TypeOK, DecoderTypeOK, Instruction, IsaInv, KindsByState
<1>1. insn' = insn /\ Executing = InOperation
  BY <1>0, Mapped DEF Decode, Mapping, Operating
<1>2. ASSUME cpu_state' = "exec" PROVE Stays
  BY <1>0, <1>1, <1>2 DEF Stays, KindsByState, Operating, AluRegisters
<1>3. CASE ExecWait(in)
  BY <1>0, <1>2, <1>3 DEF ExecWait
<1>4. CASE ExecBranch(in) /\ ~mem_done(in)
  BY <1>2, <1>4 DEF ExecBranch
<1>5. CASE ExecBranch(in) /\ mem_done(in)
  <2>1. /\ cpu_state' = "fetch" /\ insn.kind = "branch"
        /\ latched_branch' = BranchTaken /\ latched_store' = BranchTaken
        /\ ~latched_stalu'
        /\ BranchTaken <=> insn.cond # "not"
    BY <1>0, <1>5, BranchDecided DEF ExecBranch
  <2>2. reg_out' = insn.target
    BY <2>1 DEF Exec, ExecTarget
  <2>3. CASE insn.cond = "taken"
    BY <1>0, <2>1, <2>2, <2>3 DEF Jumped
  <2>4. CASE insn.cond = "not"
    BY <1>0, <1>1, <2>1, <2>4, Classes DEF Finishes, InOperation
  <2> QED BY <1>0, <2>3, <2>4
<1>6. CASE ExecResult(in)
  <2>1. /\ cpu_state' = "fetch" /\ latched_store' = TRUE /\ latched_stalu' = TRUE
        /\ latched_branch' = (insn.kind = "jalr") /\ insn.kind # "branch"
    BY <1>0, <1>6 DEF ExecResult
  <2>2. CASE insn.kind = "jalr"
    <3>1. ~alu_wait
      BY <1>0, <1>6, BranchDecided DEF ExecResult
    <3>2. AluHolds
      BY <1>0, <3>1 DEF IsaInv, KindsByState, AluHolds
    <3>3. alu_out_q' = insn.target
      BY <2>2, <3>2 DEF AluRegisters
    <3> QED BY <1>0, <2>1, <2>2, <3>3 DEF Jumped
  <2>3. CASE insn.kind # "jalr"
    BY <1>0, <1>1, <2>1, <2>3, Classes DEF Finishes, InOperation
  <2> QED BY <2>2, <2>3
<1> QED BY <1>3, <1>4, <1>5, <1>6 DEF Exec

LEMMA ShiftOutcomes ==
  ASSUME FetchInv, IsaInv, NEW in, Shift(in), Decode(in)
  PROVE  Stays \/ Finishes
<1>0. /\ cpu_state = "shift" /\ ~decoder_trigger /\ ~latched_branch
      /\ insn.kind \in {"shift", "shifti"}
      /\ UNCHANGED <<csrVars, latched_branch>>
  BY DEF Shift, FetchInv, PcInv, ControlInv, OperandControl, LatchControl, Operating, IsaInv,
         KindsByState
<1>1. insn' = insn /\ Executing = InOperation
  BY <1>0, Mapped DEF Decode, Mapping, Operating
<1>2. CASE ShiftStep(in)
  BY <1>0, <1>1, <1>2 DEF Stays, ShiftStep, KindsByState, Operating
<1>3. CASE ShiftDone(in)
  BY <1>0, <1>1, <1>3, Classes DEF Finishes, ShiftDone, InOperation, AllKinds
<1> QED BY <1>2, <1>3 DEF Shift

\* a load or a store stays on the bus, or is over
KeepsTransfer == cpu_state \in {"ldmem", "stmem"} /\ UNCHANGED <<cpu_state, csrVars>>

LEMMA DataOutcomes ==
  ASSUME MisalignmentExcluded, FetchInv, NEW in, StMem(in) \/ LdMem(in)
  PROVE  KeepsTransfer \/ Finishes
<1>1. PICK request, store : DataTransfer(in, request, store)
  BY DEF StMem, LdMem
<1>2. cpu_state \in {"ldmem", "stmem"} /\ ~latched_branch /\ latched_branch' = latched_branch
  BY DataSteps DEF StMem, LdMem, FetchInv, PcInv
<1>3. Executing = InTransfer
  BY <1>2, Mapped DEF Mapping
<1>4. CASE DataStart(in, request, store)
  BY <1>2, <1>4, DataAligned DEF DataStart, KeepsTransfer
<1>5. CASE DataWait(in, store) \/ DataOngoing(in, request, store)
  BY <1>2, <1>5 DEF DataWait, DataOngoing, KeepsTransfer
<1>6. CASE DataEnd(in, request, store)
  BY <1>2, <1>3, <1>6 DEF DataEnd, Finishes, InTransfer
<1> QED BY <1>1, <1>4, <1>5, <1>6 DEF DataTransfer

(***************************************************************************)
(* Each kind of step is a step of NanoIsa, or none                         *)
(***************************************************************************)
IsaStep ==
  \/ Sequential!Start \/ Sequential!JalOrWfi \/ Sequential!Complete \/ Sequential!Jump
  \/ Sequential!Mret \/ Sequential!WriteCsr \/ Sequential!Exception \/ Sequential!Halt
  \/ Sequential!Interrupt \/ Sequential!PowerUp
  \/ UNCHANGED Sequential!isaVars

LEMMA JumpTargets ==
  /\ cpu_state' = "fetch" /\ ~latched_branch' => current_pc' = Align(reg_next_pc')
  /\ cpu_state' = "fetch" /\ latched_branch' /\ ~latched_store' => current_pc' = Align(reg_next_pc')
  /\ cpu_state' = "fetch" /\ latched_branch' /\ latched_store' =>
       current_pc' = Align(IF latched_stalu' THEN alu_out_q' ELSE reg_out')
  BY DEF current_pc, JumpedTo, Align

LEMMA AlignInSpace == \A a \in Addr : Align(a) \in Addr /\ Align(Align(a)) = Align(a)
<1> SUFFICES ASSUME NEW a \in Addr PROVE Align(a) \in Addr /\ Align(Align(a)) = Align(a)
  OBVIOUS
<1>1. a \in Nat /\ a < AddrSpace
  BY AddressSpace DEF Addr
<1>2. /\ (a % 2) \in Nat /\ (a % 2) <= a
      /\ (a % 4) \in Nat /\ (a % 4) <= a
  BY <1>1
<1>3. Align(a) \in Addr
  BY <1>1, <1>2, AddressSpace DEF Align, Addr
<1>4. IsAligned(Align(a))
  BY Addresses, AlignIs
<1> QED BY <1>3, <1>4 DEF IsAligned

\* the address a jump goes to is one, in every state
LEMMA CurrentInSpace ==
  ASSUME FetchInv, IsaInv
  PROVE  current_pc \in Addr /\ Align(current_pc) = current_pc
<1>1. JumpedTo \in Addr
  <2>1. CASE cpu_state = "fetch"
    BY <2>1 DEF IsaInv, PcInSpace, JumpedTo
  <2>2. CASE cpu_state # "fetch"
    <3>1. /\ ~latched_stalu
          /\ latched_branch => reg_out = insn.target /\ decoded.kind = "branch" /\ insn = decoded
      BY <2>2 DEF FetchInv, PcInv, ControlInv, LatchControl, ExecControl, OperandControl, Operating
    <3>2. latched_branch => reg_out \in Addr
      BY <3>1, CoreAssumption DEF IsaInv, WellDecoded
    <3> QED BY <3>1, <3>2 DEF IsaInv, PcInSpace, JumpedTo
  <2> QED BY <2>1, <2>2
<1> QED BY <1>1, AlignInSpace DEF current_pc

LEMMA FetchSteps ==
  ASSUME FetchInv, FetchInv', IsaInv, NEW in, Fetch(in), Decode(in)
  PROVE  IsaStep
<1> DEFINE Same == UNCHANGED csrVars
<1>0. /\ cpu_state = "fetch" /\ ArchPc = current_pc /\ Executing = [kind |-> "nothing"]
      /\ Stopped = FALSE /\ Refused = FALSE /\ Refused' = FALSE
      /\ current_pc \in Addr /\ Align(current_pc) = current_pc
      /\ ~MisalignedJump
  BY Mapped, MappedNext, CurrentInSpace, NoMisalignedJump
  DEF Fetch, FetchWait, FetchMisalignedJump, FetchInterrupt, FetchWfi, FetchJal, FetchLaunch,
      Mapping, FetchInv, PcInv
<1>1. cpu_state' = "fetch" =>
        ArchPc' = current_pc' /\ Executing' = [kind |-> "nothing"] /\ Stopped' = FALSE
  BY MappedNext DEF Mapping
<1>2. CASE FetchWait(in)
  <2>1. cpu_state' = "fetch" /\ ~latched_branch' /\ reg_next_pc' = current_pc /\ UNCHANGED csrVars
    BY <1>0, <1>2 DEF FetchWait, NoBranch
  <2>2. ArchPc' = ArchPc
    BY <1>0, <1>1, <2>1, JumpTargets
  <2> QED BY <1>0, <1>1, <2>1, <2>2
      DEF IsaStep, Sequential!isaVars, Sequential!csrs, csrVars, Refused, Stopped
<1>3. CASE FetchInterrupt(in)
  <2>1. cpu_state' = "fetch" /\ ~latched_branch' /\ reg_next_pc' = PROGADDR_IRQ
    BY <1>0, <1>3 DEF FetchInterrupt, NoBranch
  <2>2. ArchPc' = PROGADDR_IRQ
    BY <1>0, <1>1, <2>1, JumpTargets, ConstantsAligned DEF IsAligned
  <2>3. MACHINE_ISA /\ mstatus_mie /\ mie \cap mip # {}
    BY <1>3 DEF FetchInterrupt, TakesInterrupt, IrqReady
  <2>4. Sequential!Interrupt
    BY <1>0, <1>1, <1>3, <2>1, <2>2, <2>3
    DEF Sequential!Interrupt, Sequential!Between, Sequential!Nothing, FetchInterrupt, CustomTrap,
        Refused, Stopped
  <2> QED BY <2>4 DEF IsaStep
<1>4. CASE FetchWfi(in)
  <2>1. /\ cpu_state' = "fetch" /\ ~latched_branch' /\ UNCHANGED csrVars
        /\ MACHINE_ISA /\ decoded.kind = "wfi"
    BY <1>0, <1>4 DEF FetchWfi, NoBranch, WaitsForInterrupt
  <2>2. CASE mie \cap mip # {}
    <3>1. reg_next_pc' = Plus(current_pc, 4)
      BY <1>4, <2>1, <2>2 DEF FetchWfi, IsaInv, WellDecoded, WideOnly, Length
    <3>2. ArchPc' = Plus(ArchPc, 4)
      <4>1. IsAligned(Plus(current_pc, 4))
        BY <1>0, Addresses, NextIs DEF IsAligned
      <4> QED BY <1>0, <1>1, <2>1, <3>1, <4>1, JumpTargets DEF IsAligned
    <3>3. Sequential!JalOrWfi
      BY <1>0, <1>1, <2>1, <3>2
      DEF Sequential!JalOrWfi, Sequential!Between, Sequential!Nothing, Sequential!csrs, csrVars,
          Refused, Stopped
    <3> QED BY <3>3 DEF IsaStep
  <2>3. CASE ~(mie \cap mip # {})
    <3>1. ArchPc' = ArchPc
      BY <1>0, <1>1, <1>4, <2>1, <2>3, JumpTargets DEF FetchWfi
    <3> QED BY <1>0, <1>1, <2>1, <3>1
        DEF IsaStep, Sequential!isaVars, Sequential!csrs, csrVars, Refused, Stopped
  <2> QED BY <2>2, <2>3
<1>5. CASE FetchJal(in)
  <2>1. /\ cpu_state' = "fetch" /\ latched_branch' /\ ~latched_store' /\ UNCHANGED csrVars
        /\ reg_next_pc' = Align(decoded.target) /\ decoded.kind = "jal"
    BY <1>0, <1>5 DEF FetchJal
  <2>2. decoded.target \in Addr
    BY <2>1, CoreAssumption DEF IsaInv, WellDecoded
  <2>3. ArchPc' = Align(decoded.target)
    BY <1>1, <2>1, <2>2, JumpTargets, AlignInSpace
  <2>4. Sequential!JalOrWfi
    BY <1>0, <1>1, <2>1, <2>2, <2>3
    DEF Sequential!JalOrWfi, Sequential!Between, Sequential!Nothing, Sequential!csrs, csrVars,
        Refused, Stopped
  <2> QED BY <2>4 DEF IsaStep
<1>6. CASE FetchLaunch(in)
  <2>1. cpu_state' = "ld_rs1" /\ reg_pc' = current_pc /\ UNCHANGED csrVars
    BY <1>6 DEF FetchLaunch, FetchDefaults, Launches
  <2>2. ArchPc' = ArchPc /\ Executing' = InOperation' /\ Stopped' = FALSE
    BY <1>0, <2>1, MappedNext DEF Mapping, Operating
  <2>3. InOperation'.kind \in Sequential!Class
    BY DEF InOperation, ClassOf, Sequential!Class
  <2>4. Sequential!Start
    BY <1>0, <2>1, <2>2, <2>3
    DEF Sequential!Start, Sequential!Between, Sequential!Nothing, Sequential!Class, Sequential!csrs,
        csrVars, Refused, Stopped
  <2> QED BY <2>4 DEF IsaStep
<1> QED BY <1>0, <1>2, <1>3, <1>4, <1>5, <1>6 DEF Fetch, FetchMisalignedJump

\* the addresses after an instruction are aligned, and differ with its length
LEMMA NextDiffers == \A a \in Addr : Plus(a, 2) # Plus(a, 4)
<1> SUFFICES ASSUME NEW a \in Addr PROVE Plus(a, 2) # Plus(a, 4)
  OBVIOUS
<1>1. a \in Nat /\ a < AddrSpace /\ AddrSpace \in Nat /\ AddrSpace >= 4
  BY MemAssumption DEF Addr
<1>2. a \in AddrOrNone
  BY Addresses
<1>3. Plus(a, 2) = IF a + 2 < AddrSpace THEN a + 2 ELSE a + 2 - AddrSpace
  BY <1>1, <1>2, PlusCases
<1>4. Plus(a, 4) = IF a + 4 < AddrSpace THEN a + 4 ELSE a + 4 - AddrSpace
  BY <1>1, <1>2, PlusCases
<1> QED BY <1>1, <1>3, <1>4

\* what all states but fetch have in common
LEMMA StartsFromOperation ==
  ASSUME FetchInv, IsaInv, cpu_state \in Operating \cup {"ldmem", "stmem"}
  PROVE  /\ ArchPc = reg_pc /\ Stopped = FALSE /\ Refused = FALSE
         /\ Executing # [kind |-> "nothing"]
         /\ reg_next_pc = Plus(ArchPc, Executing.length)
         /\ Align(reg_next_pc) = reg_next_pc
<1>1. Mapping /\ Align(reg_next_pc) = reg_next_pc
  BY Mapped DEF FetchInv, PcInv, IsAligned
<1>2. CASE cpu_state \in Operating
  <2>1. Executing = InOperation
    BY <1>1, <1>2 DEF Mapping
  <2>2. InOperation.kind # "nothing"
    BY DEF InOperation, ClassOf
  <2> QED BY <1>1, <1>2, <2>1, <2>2 DEF Mapping, IsaInv, NextFollows, InOperation
<1>3. CASE cpu_state \in {"ldmem", "stmem"}
  <2>1. Executing = InTransfer
    BY <1>1, <1>3 DEF Mapping
  <2>2. InTransfer.kind # "nothing"
    BY DEF InTransfer
  <2>3. reg_next_pc \in {Plus(reg_pc, 2), Plus(reg_pc, 4)}
    BY <1>3 DEF IsaInv, NextFollows
  <2> QED BY <1>1, <1>3, <2>1, <2>2, <2>3 DEF Mapping, InTransfer
<1> QED BY <1>2, <1>3

LEMMA EndsInFetch ==
  ASSUME FetchInv', cpu_state' = "fetch"
  PROVE  /\ ArchPc' = current_pc' /\ Executing' = [kind |-> "nothing"]
         /\ Stopped' = FALSE /\ Refused' = FALSE
  BY MappedNext DEF Mapping

LEMMA FinishesCompletes ==
  ASSUME FetchInv, FetchInv', IsaInv, cpu_state \in Operating \cup {"ldmem", "stmem"},
         UNCHANGED reg_next_pc, Finishes
  PROVE  Sequential!Complete
<1>1. ArchPc' = Plus(ArchPc, Executing.length)
  BY StartsFromOperation, EndsInFetch, JumpTargets DEF Finishes
<1> QED BY <1>1, StartsFromOperation, EndsInFetch
    DEF Sequential!Complete, Sequential!Running, Sequential!Taken, Sequential!Nothing,
        Sequential!GoesOn, Sequential!csrs, csrVars, Finishes, Refused, Stopped

LEMMA JumpedJumps ==
  ASSUME FetchInv, FetchInv', IsaInv, cpu_state \in Operating, Jumped
  PROVE  Sequential!Jump
<1>1. Executing = InOperation
  BY Mapped DEF Mapping
<1>2. /\ ArchPc' = Align(Executing.target)
      /\ Executing.kind = "jalr" \/ (Executing.kind = "branch" /\ Executing.cond = "taken")
  BY <1>1, EndsInFetch, JumpTargets, Classes DEF Jumped, InOperation
<1>3. CATCH_MISALIGN => Executing.target = Align(Executing.target)
  BY <1>1 DEF InOperation, FetchInv, PcInv, JumpsAligned, IsAligned
<1> QED BY <1>2, <1>3, StartsFromOperation, EndsInFetch
    DEF Sequential!Jump, Sequential!Running, Sequential!Taken, Sequential!Nothing,
        Sequential!JumpsTo, Sequential!csrs, csrVars, Jumped, Refused, Stopped

LEMMA MachineKinds ==
  ASSUME IsaInv, insn.kind \in {"csr", "mret", "wfi"}
  PROVE  MACHINE_ISA
  BY CoreAssumption DEF IsaInv, WellDecoded

LEMMA ReturnedReturns ==
  ASSUME FetchInv, FetchInv', IsaInv, cpu_state \in Operating, Returned
  PROVE  Sequential!Mret
<1>1. Executing = InOperation
  BY Mapped DEF Mapping
<1>2. ArchPc' = Align(mepc) /\ Executing.kind = "mret" /\ MACHINE_ISA
  BY <1>1, EndsInFetch, JumpTargets, Classes, MachineKinds DEF Returned, InOperation
<1>3. CATCH_MISALIGN => mepc = Align(mepc)
  BY DEF FetchInv, PcInv, JumpsAligned, IsAligned
<1>4. mtrap' = mtrap_prev
  <2>1. mtrap_prev \in BOOLEAN
    BY DEF FetchInv, PcInv, TypeOK, CsrTypeOK
  <2> QED BY <2>1 DEF Returned, CustomTrap, IsaInv, TrapFlags
<1> QED BY <1>2, <1>3, <1>4, StartsFromOperation, EndsInFetch
    DEF Sequential!Mret, Sequential!Running, Sequential!Nothing, Sequential!JumpsTo, Returned,
        Refused, Stopped

LEMMA WroteWrites ==
  ASSUME FetchInv, FetchInv', IsaInv, cpu_state \in Operating, UNCHANGED reg_next_pc,
         NEW in, NEW w \in Writes, Wrote(in, w)
  PROVE  Sequential!WriteCsr
<1>1. Executing = InOperation
  BY Mapped DEF Mapping
<1>2. cpu_state' = "fetch" /\ LdRs1Csr(in, w) /\ w \in CsrWrites
  BY DEF Wrote, LdRs1Csr, ReadsOut, Writes
<1>3. ArchPc' = Plus(ArchPc, Executing.length) /\ Executing.kind = "csr" /\ MACHINE_ISA
  BY <1>1, <1>2, StartsFromOperation, EndsInFetch, JumpTargets, Classes, MachineKinds
  DEF Wrote, InOperation
<1>4. /\ mtrap \in BOOLEAN /\ mtrap_prev \in BOOLEAN
      /\ mstatus_mie \in BOOLEAN /\ mstatus_mpie \in BOOLEAN
  BY DEF FetchInv, PcInv, TypeOK, CsrTypeOK
<1>5. w.csr # "custom_trap" => mtrap' = mtrap /\ mtrap_prev' = mtrap_prev
  BY <1>2, <1>4 DEF LdRs1Csr, CustomTrap, IsaInv, TrapFlags
<1>6. \/ mstatus_mie' \in BOOLEAN /\ mstatus_mpie' \in BOOLEAN
           /\ UNCHANGED <<mie, mepc, mtrap, mtrap_prev>>
      \/ mie' \in SUBSET IrqEnabled
           /\ UNCHANGED <<mstatus_mie, mstatus_mpie, mepc, mtrap, mtrap_prev>>
      \/ mepc' \in Addr
           /\ UNCHANGED <<mstatus_mie, mstatus_mpie, mie, mtrap, mtrap_prev>>
      \/ ENABLE_CSR_CUSTOM_TRAP /\ mtrap' \in BOOLEAN /\ mtrap_prev' \in BOOLEAN
           /\ UNCHANGED <<mstatus_mie, mstatus_mpie, mie, mepc>>
  <2>1. CASE w.csr = "mstatus"
    BY <1>2, <1>5, <2>1, CsrWriteTypes DEF LdRs1Csr
  <2>2. CASE w.csr = "mie"
    BY <1>2, <1>5, <2>2, CsrWriteTypes DEF LdRs1Csr
  <2>3. CASE w.csr = "mepc"
    <3>1. w.addr \in Targets
      BY <1>2, <2>3 DEF CsrWrites
    <3> QED BY <1>2, <1>5, <2>3, <3>1, CoreAssumption DEF LdRs1Csr
  <2>4. CASE w.csr = "custom_trap" /\ ENABLE_CSR_CUSTOM_TRAP
    BY <1>2, <2>4, CustomTrapType DEF LdRs1Csr
  <2>5. CASE w.csr = "custom_trap" /\ ~ENABLE_CSR_CUSTOM_TRAP
    <3>1. mtrap' = mtrap /\ mtrap_prev' = mtrap_prev
      BY <1>2, <1>4, <2>5 DEF LdRs1Csr, CustomTrap, IsaInv, TrapFlags
    <3> QED BY <1>2, <1>4, <2>5, <3>1 DEF LdRs1Csr
  <2>6. CASE w.csr \notin {"mstatus", "mie", "mepc", "custom_trap"}
    BY <1>2, <1>4, <1>5, <2>6 DEF LdRs1Csr
  <2> QED BY <2>1, <2>2, <2>3, <2>4, <2>5, <2>6
<1> QED BY <1>2, <1>3, <1>6, StartsFromOperation, EndsInFetch
    DEF Sequential!WriteCsr, Sequential!Running, Sequential!Nothing, Sequential!GoesOn,
        Refused, Stopped

LEMMA HandlesException ==
  ASSUME FetchInv, FetchInv', IsaInv, cpu_state \in Operating, Handles
  PROVE  Sequential!Exception
<1>1. Executing = InOperation
  BY Mapped DEF Mapping
<1>2. /\ Executing.kind \in {"unknown", "environment"}
      /\ Executing.kind = "environment" <=> insn.kind = "ecall"
  BY <1>1, Classes DEF Handles, InOperation
<1>3. ArchPc' = PROGADDR_IRQ /\ mepc' = ArchPc
  BY StartsFromOperation, EndsInFetch, JumpTargets, ConstantsAligned DEF Handles, IsAligned
<1>4. mtrap \in BOOLEAN /\ mtrap_prev \in BOOLEAN
  BY DEF FetchInv, PcInv, TypeOK, CsrTypeOK
<1>5. /\ MACHINE_ISA
      /\ insn.kind # "ecall" /\ ENABLE_CSR_CUSTOM_TRAP => ~mtrap
      /\ mtrap' = (ENABLE_CSR_CUSTOM_TRAP /\ (mtrap \/ insn.kind # "ecall"))
      /\ mtrap_prev' = (ENABLE_CSR_CUSTOM_TRAP /\ mtrap)
  BY <1>4 DEF Handles, TrapAllowed, CustomTrap
<1> QED BY <1>2, <1>3, <1>5, StartsFromOperation, EndsInFetch
    DEF Sequential!Exception, Sequential!Faults, Sequential!Running, Sequential!Nothing,
        Handles, Refused, Stopped

LEMMA HaltsHalt ==
  ASSUME FetchInv, FetchInv', IsaInv, cpu_state \in Operating, UNCHANGED reg_pc, Halts
  PROVE  Sequential!Halt
<1>1. Executing = InOperation
  BY Mapped DEF Mapping
<1>2. Executing.kind \in {"unknown", "environment"}
  BY <1>1, Classes DEF Halts, InOperation
<1>3. /\ ArchPc' = reg_pc' /\ Executing' = [kind |-> "nothing"] /\ Stopped' = TRUE
      /\ Refused' = FALSE
  BY MappedNext DEF Mapping, Halts
<1>4. ArchPc' \in Addr
  BY <1>3 DEF IsaInv, PcInSpace
<1> QED BY <1>2, <1>3, <1>4, StartsFromOperation
    DEF Sequential!Halt, Sequential!Faults, Sequential!Running, Sequential!Nothing,
        Sequential!csrs, csrVars, Halts, Refused, Stopped

\* steps the software does not see
LEMMA StaysStutters ==
  ASSUME FetchInv, FetchInv', cpu_state \in Operating, UNCHANGED reg_pc, Stays
  PROVE  UNCHANGED Sequential!isaVars
<1>1. Executing = InOperation /\ Executing' = InOperation' /\ InOperation' = InOperation
  BY Mapped, MappedNext DEF Mapping, Stays, InOperation
<1>2. /\ ArchPc' = ArchPc /\ Stopped = FALSE /\ Stopped' = FALSE
      /\ Refused = FALSE /\ Refused' = FALSE
  BY Mapped, MappedNext DEF Mapping, Stays
<1> QED BY <1>1, <1>2
    DEF Sequential!isaVars, Sequential!csrs, csrVars, Stays, Refused, Stopped

LEMMA TransferStutters ==
  ASSUME FetchInv, FetchInv', IsaInv, UNCHANGED <<reg_pc, reg_next_pc>>,
         StartsTransfer \/ KeepsTransfer
  PROVE  UNCHANGED Sequential!isaVars
<1>1. /\ cpu_state' \in {"ldmem", "stmem"} /\ UNCHANGED csrVars
      /\ InTransfer' = InTransfer
  BY DEF StartsTransfer, KeepsTransfer, InTransfer
<1>2. /\ ArchPc' = reg_pc /\ Executing' = InTransfer /\ Stopped' = FALSE /\ Refused' = FALSE
  BY <1>1, MappedNext DEF Mapping
<1>3. /\ ArchPc = reg_pc /\ Stopped = FALSE /\ Refused = FALSE
  BY Mapped DEF Mapping, StartsTransfer, KeepsTransfer
<1>4. Executing = InTransfer
  <2>1. CASE KeepsTransfer
    BY <2>1, Mapped DEF Mapping, KeepsTransfer
  <2>2. CASE StartsTransfer
    <3>1. Executing = InOperation
      BY <2>2, Mapped DEF Mapping, StartsTransfer
    <3>2. ClassOf(insn.kind) = "data" /\ insn.target = None /\ insn.cond = "not"
      BY <2>2, Classes DEF StartsTransfer, IsaInv, WellDecoded
    <3>3. Length(insn) = IF reg_next_pc = Plus(reg_pc, 2) THEN 2 ELSE 4
      <4>1. reg_next_pc = Plus(reg_pc, Length(insn)) /\ Plus(reg_pc, 2) # Plus(reg_pc, 4)
        BY <2>2, NextDiffers DEF StartsTransfer, IsaInv, NextFollows, PcInSpace
      <4> QED BY <4>1 DEF Length
    <3> QED BY <3>1, <3>2, <3>3 DEF InOperation, InTransfer
  <2> QED BY <2>1, <2>2
<1> QED BY <1>1, <1>2, <1>3, <1>4
    DEF Sequential!isaVars, Sequential!csrs, csrVars, Refused, Stopped

LEMMA StoppedStutters ==
  ASSUME FetchInv, FetchInv', NEW in, Trap(in)
  PROVE  UNCHANGED Sequential!isaVars
<1>1. cpu_state = "trap" /\ cpu_state' = "trap" /\ reg_pc' = reg_pc /\ UNCHANGED csrVars
  BY DEF Trap, KeepPc
<1> QED BY <1>1, Mapped, MappedNext
    DEF Mapping, Sequential!isaVars, Sequential!csrs, csrVars, Refused, Stopped

LEMMA ResetPowersUp ==
  ASSUME FetchInv', Reset
  PROVE  Sequential!PowerUp
<1>1. /\ cpu_state' = "fetch" /\ ~latched_branch' /\ reg_next_pc' = PROGADDR_RESET
  BY DEF Reset
<1>2. ArchPc' = PROGADDR_RESET
  BY <1>1, EndsInFetch, JumpTargets, ConstantsAligned DEF IsAligned
<1> QED BY <1>1, <1>2, EndsInFetch
    DEF Sequential!PowerUp, Sequential!Nothing, Reset, Refused, Stopped

\* which of these a step is
LEMMA Outcomes ==
  ASSUME MisalignmentExcluded, FetchInv, IsaInv,
         NEW in \in Inputs, NEW w \in Writes, StateMachine(in, w), ~Fetch(in), ~Trap(in),
         Decode(in), AluRegisters
  PROVE  /\ UNCHANGED <<reg_pc, reg_next_pc>>
         /\ \/ /\ cpu_state \in Operating
               /\ \/ Stays \/ StartsTransfer \/ Finishes \/ Jumped \/ Returned \/ Wrote(in, w)
                  \/ Handles \/ Halts
            \/ cpu_state \in {"ldmem", "stmem"} /\ (KeepsTransfer \/ Finishes)
<1>1. CASE LdRs1(in, w) \/ LdRs2(in)
  <2>1. cpu_state \in Operating /\ UNCHANGED <<reg_pc, reg_next_pc>>
    BY <1>1 DEF LdRs1, LdRs2, KeepPc, Operating
  <2> QED BY <1>1, <2>1, OperandOutcomes
<1>2. CASE Exec(in)
  <2>1. cpu_state \in Operating /\ UNCHANGED <<reg_pc, reg_next_pc>>
    BY <1>2 DEF Exec, KeepPc, Operating
  <2> QED BY <1>2, <2>1, ExecOutcomes
<1>3. CASE Shift(in)
  <2>1. cpu_state \in Operating /\ UNCHANGED <<reg_pc, reg_next_pc>>
    BY <1>3 DEF Shift, KeepPc, Operating
  <2> QED BY <1>3, <2>1, ShiftOutcomes
<1>4. CASE StMem(in) \/ LdMem(in)
  <2>1. cpu_state \in {"ldmem", "stmem"} /\ UNCHANGED <<reg_pc, reg_next_pc>>
    BY <1>4 DEF StMem, LdMem, DataTransfer
  <2> QED BY <1>4, <2>1, DataOutcomes
<1> QED BY <1>1, <1>2, <1>3, <1>4 DEF StateMachine

LEMMA TickRefines ==
  ASSUME MisalignmentExcluded, FetchInv, FetchInv', IsaInv,
         NEW in \in Inputs, NEW w \in Writes, StateMachine(in, w), Decode(in), AluRegisters
  PROVE  IsaStep
<1>1. CASE Fetch(in)
  BY <1>1, FetchSteps
<1>2. CASE Trap(in)
  BY <1>2, StoppedStutters DEF IsaStep
<1>3. CASE ~Fetch(in) /\ ~Trap(in)
  <2>1. /\ UNCHANGED <<reg_pc, reg_next_pc>>
        /\ \/ /\ cpu_state \in Operating
              /\ \/ Stays \/ StartsTransfer \/ Finishes \/ Jumped \/ Returned \/ Wrote(in, w)
                 \/ Handles \/ Halts
           \/ cpu_state \in {"ldmem", "stmem"} /\ (KeepsTransfer \/ Finishes)
    BY <1>3, Outcomes
  <2>2. CASE StartsTransfer \/ KeepsTransfer
    BY <2>1, <2>2, TransferStutters DEF IsaStep
  <2>3. CASE Finishes
    BY <2>1, <2>3, FinishesCompletes DEF IsaStep
  <2>4. CASE cpu_state \in Operating /\ Stays
    BY <2>1, <2>4, StaysStutters DEF IsaStep
  <2>5. CASE cpu_state \in Operating /\ (Jumped \/ Returned)
    BY <2>5, JumpedJumps, ReturnedReturns DEF IsaStep
  <2>6. CASE cpu_state \in Operating /\ Wrote(in, w)
    BY <2>1, <2>6, WroteWrites DEF IsaStep
  <2>7. CASE cpu_state \in Operating /\ (Handles \/ Halts)
    BY <2>1, <2>7, HandlesException, HaltsHalt DEF IsaStep
  <2> QED BY <2>1, <2>2, <2>3, <2>4, <2>5, <2>6, <2>7
<1> QED BY <1>1, <1>2, <1>3

(***************************************************************************)
(* IsaInv is kept by every step                                            *)
(***************************************************************************)
LEMMA IsaInvInit == Init => IsaInv
<1> SUFFICES ASSUME Init PROVE IsaInv
  OBVIOUS
<1>1. WellDecoded(decoded) /\ WellDecoded(insn)
  BY DEF Init, NoInstruction, WellDecoded, WideOnly
<1>2. cpu_state = "fetch" /\ ~latched_branch
  BY DEF Init, MemInit
<1>3. /\ reg_pc = PROGADDR_RESET /\ reg_next_pc = PROGADDR_RESET /\ ~mtrap /\ ~mtrap_prev
      /\ MACHINE_ISA => mepc \in Targets
  BY DEF Init
<1>4. PcInSpace
  BY <1>2, <1>3, CoreAssumption DEF PcInSpace
<1> QED BY <1>1, <1>2, <1>3, <1>4 DEF IsaInv, NextFollows, KindsByState, TrapFlags, Operating

LEMMA DecodesWell ==
  ASSUME IsaInv, NEW in, Decode(in)
  PROVE  WellDecoded(decoded') /\ WellDecoded(insn')
<1>1. WellDecoded(decoded')
  <2>1. CASE decoded' = decoded
    BY <2>1 DEF IsaInv
  <2>2. CASE decoded' # decoded
    <3> DEFINE word == mem_rdata_latched(in)
    <3>1. decoded' \in Decodings(word)
      BY <2>2 DEF Decode
    <3>2. PICK k \in KindsOf(word) :
            decoded' \in [kind : {k}, at : {word.lo.at}, upper : {word.hi.at},
                          wide : {word.lo.wide}, target : TargetsOf(k), cond : CondOf(k)]
      BY <3>1 DEF Decodings
    <3>3. /\ decoded'.kind = k /\ decoded'.wide = word.lo.wide
          /\ decoded'.target \in TargetsOf(k) /\ decoded'.cond \in CondOf(k)
      BY <3>2
    <3>4. k \in Kinds /\ (k \in WideOnly => word.lo.wide)
      BY <3>2 DEF KindsOf
    <3>5. decoded'.target \in IF k \in {"jal", "branch", "jalr"} THEN Targets ELSE {None}
      BY <3>3 DEF TargetsOf
    <3>6. k # "branch" => decoded'.cond = "not"
      BY <3>3 DEF CondOf
    <3> HIDE DEF word
    <3> QED BY <3>3, <3>4, <3>5, <3>6 DEF WellDecoded
  <2> QED BY <2>1, <2>2
<1>2. WellDecoded(insn')
  BY DEF Decode, IsaInv
<1> QED BY <1>1, <1>2

\* what a step of the fetch state leaves
LEMMA FetchLeaves ==
  ASSUME FetchInv, IsaInv, NEW in, Fetch(in), Decode(in)
  PROVE  /\ reg_next_pc' \in Addr
         /\ cpu_state' \in {"fetch", "ld_rs1"}
         /\ ~(latched_branch' /\ latched_store')
         /\ cpu_state' = "ld_rs1" => reg_next_pc' = Plus(reg_pc', Length(insn'))
         /\ mtrap' = mtrap /\ mtrap_prev' \in {mtrap_prev, CustomTrap(mtrap)}
<1>0. /\ cpu_state = "fetch" /\ ~MisalignedJump
      /\ current_pc \in Addr
      /\ \A n \in {2, 4} : Plus(current_pc, n) \in Addr
  BY NoMisalignedJump, CurrentInSpace, PlusType, Addresses DEF Fetch, FetchInv, PcInv,
     FetchWait, FetchMisalignedJump, FetchInterrupt, FetchWfi, FetchJal, FetchLaunch
<1>1. CASE FetchWait(in)
  BY <1>0, <1>1 DEF FetchWait, NoBranch, csrVars
<1>2. CASE FetchInterrupt(in)
  BY <1>0, <1>2, CoreAssumption DEF FetchInterrupt, NoBranch
<1>3. CASE FetchWfi(in)
  BY <1>0, <1>3 DEF FetchWfi, NoBranch, Length, csrVars
<1>4. CASE FetchJal(in)
  <2>1. decoded.target \in Addr
    BY <1>4, CoreAssumption DEF FetchJal, IsaInv, WellDecoded
  <2> QED BY <1>0, <1>4, <2>1, AlignInSpace DEF FetchJal, csrVars
<1>5. CASE FetchLaunch(in)
  <2>1. insn' = decoded /\ reg_pc' = current_pc
    BY <1>5 DEF FetchLaunch, Launches, FetchDefaults, Decode, FetchInv, PcInv, RequestInv
  <2> QED BY <1>0, <1>5, <2>1 DEF FetchLaunch, NoBranch, Length, csrVars
<1> QED BY <1>0, <1>1, <1>2, <1>3, <1>4, <1>5 DEF Fetch, FetchMisalignedJump

\* what a step of another state leaves
LEMMA OutcomesLeave ==
  ASSUME FetchInv, IsaInv, NEW in, NEW w, UNCHANGED <<reg_pc, reg_next_pc>>,
         \/ /\ cpu_state \in Operating
            /\ \/ Stays \/ StartsTransfer \/ Finishes \/ Jumped \/ Returned \/ Wrote(in, w)
               \/ Handles \/ Halts
         \/ cpu_state \in {"ldmem", "stmem"} /\ (KeepsTransfer \/ Finishes)
  PROVE  /\ cpu_state' = "fetch" /\ latched_branch' /\ latched_store' =>
              (IF latched_stalu' THEN alu_out_q' ELSE reg_out') \in Addr
         /\ NextFollows' /\ KindsByState' /\ TrapFlags'
<1>1. CASE cpu_state \in Operating /\ Stays
  BY <1>1 DEF Stays, NextFollows, IsaInv, TrapFlags, csrVars, Length, Operating
<1>2. CASE StartsTransfer
  BY <1>2 DEF StartsTransfer, NextFollows, KindsByState, IsaInv, TrapFlags, csrVars, Length,
              Operating
<1>3. CASE KeepsTransfer
  BY <1>3 DEF KeepsTransfer, NextFollows, KindsByState, IsaInv, TrapFlags, csrVars, Operating
<1>4. CASE Finishes
  BY <1>4 DEF Finishes, NextFollows, KindsByState, IsaInv, TrapFlags, csrVars, Operating
<1>5. CASE Jumped
  <2>1. insn.target \in Addr
    BY <1>5, CoreAssumption DEF Jumped, IsaInv, WellDecoded
  <2> QED BY <1>5, <2>1 DEF Jumped, NextFollows, KindsByState, IsaInv, TrapFlags, csrVars, Operating
<1>6. CASE Returned
  <2>1. mepc \in Addr
    BY <1>6, MachineKinds DEF Returned, IsaInv, PcInSpace
  <2> QED BY <1>6, <2>1 DEF Returned, NextFollows, KindsByState, IsaInv, TrapFlags, CustomTrap,
                            Operating
<1>7. CASE Wrote(in, w)
  BY <1>7 DEF Wrote, LdRs1Csr, ReadsOut, NextFollows, KindsByState, IsaInv, TrapFlags, CustomTrap,
              Operating
<1>8. CASE Halts
  BY <1>8 DEF Halts, NextFollows, KindsByState, IsaInv, TrapFlags, csrVars, Operating
<1>9. CASE Handles
  <2>1. PROGADDR_IRQ \in Addr /\ mtrap' = CustomTrap(mtrap \/ insn.kind # "ecall")
        /\ mtrap_prev' = CustomTrap(mtrap)
    BY <1>9, CoreAssumption DEF Handles
  <2> QED BY <1>9, <2>1 DEF Handles, NextFollows, KindsByState, TrapFlags, CustomTrap, Operating
<1> QED BY <1>1, <1>2, <1>3, <1>4, <1>5, <1>6, <1>7, <1>8, <1>9

LEMMA IsaInvTick ==
  ASSUME MisalignmentExcluded, FetchInv, IsaInv,
         NEW in \in Inputs, NEW w \in Writes, StateMachine(in, w), Decode(in), AluRegisters
  PROVE  IsaInv'
<1>1. WellDecoded(decoded') /\ WellDecoded(insn')
  BY DecodesWell
<1>2. reg_pc' \in Addr /\ (MACHINE_ISA => mepc' \in Addr)
  BY JumpAddresses, CurrentInSpace, CoreAssumption DEF IsaInv, PcInSpace
<1>3. CASE Fetch(in)
  <2>1. /\ reg_next_pc' \in Addr
        /\ cpu_state' \in {"fetch", "ld_rs1"}
        /\ ~(latched_branch' /\ latched_store')
        /\ cpu_state' = "ld_rs1" => reg_next_pc' = Plus(reg_pc', Length(insn'))
        /\ mtrap' = mtrap /\ mtrap_prev' \in {mtrap_prev, CustomTrap(mtrap)}
    BY <1>3, FetchLeaves
  <2>2. NextFollows' /\ KindsByState'
    BY <2>1 DEF NextFollows, KindsByState, Operating, Length
  <2>3. TrapFlags'
    BY <2>1 DEF TrapFlags, CustomTrap, IsaInv
  <2> QED BY <1>1, <1>2, <2>1, <2>2, <2>3 DEF IsaInv, PcInSpace
<1>4. CASE Trap(in)
  <2>1. cpu_state' = "trap" /\ UNCHANGED <<reg_next_pc, mtrap, mtrap_prev>>
    BY <1>4 DEF Trap, KeepPc, csrVars
  <2> QED BY <1>1, <1>2, <2>1 DEF IsaInv, PcInSpace, NextFollows, KindsByState, TrapFlags, Operating
<1>5. CASE ~Fetch(in) /\ ~Trap(in)
  <2>1. /\ UNCHANGED <<reg_pc, reg_next_pc>>
        /\ \/ /\ cpu_state \in Operating
              /\ \/ Stays \/ StartsTransfer \/ Finishes \/ Jumped \/ Returned \/ Wrote(in, w)
                 \/ Handles \/ Halts
           \/ cpu_state \in {"ldmem", "stmem"} /\ (KeepsTransfer \/ Finishes)
    BY <1>5, Outcomes
  <2>2. /\ cpu_state' = "fetch" /\ latched_branch' /\ latched_store' =>
             (IF latched_stalu' THEN alu_out_q' ELSE reg_out') \in Addr
        /\ NextFollows' /\ KindsByState' /\ TrapFlags'
    BY <2>1, OutcomesLeave
  <2> QED BY <1>1, <1>2, <2>1, <2>2 DEF IsaInv, PcInSpace
<1> QED BY <1>3, <1>4, <1>5

LEMMA IsaInvReset ==
  ASSUME IsaInv, Reset
  PROVE  IsaInv'
<1>1. WellDecoded(decoded') /\ WellDecoded(insn')
  BY DEF Reset, IsaInv
<1>2. /\ cpu_state' = "fetch" /\ ~latched_branch' /\ ~mtrap' /\ ~mtrap_prev'
      /\ reg_pc' = PROGADDR_RESET /\ reg_next_pc' = PROGADDR_RESET /\ mepc' = mepc
  BY DEF Reset
<1>3. PcInSpace'
  BY <1>2, CoreAssumption DEF PcInSpace, IsaInv
<1> QED BY <1>1, <1>2, <1>3 DEF IsaInv, NextFollows, KindsByState, TrapFlags, Operating

LEMMA IsaInvNext ==
  ASSUME MisalignmentExcluded
  PROVE  FetchInv /\ IsaInv /\ [Next]_vars => IsaInv'
<1> SUFFICES ASSUME FetchInv, IsaInv, [Next]_vars PROVE IsaInv'
  OBVIOUS
<1>1. CASE Tick
  BY <1>1, IsaInvTick DEF Tick
<1>2. CASE Reset
  BY <1>2, IsaInvReset
<1>3. CASE UNCHANGED vars
  BY <1>3 DEF vars, requestVars, decoderVars, mainVars, csrVars, aluVars, IsaInv, WellDecoded,
              PcInSpace, NextFollows, KindsByState, TrapFlags, Length
<1> QED BY <1>1, <1>2, <1>3 DEF Next

(***************************************************************************)
(* The theorem                                                             *)
(***************************************************************************)
LEMMA InitRefines ==
  ASSUME FetchInv, Init
  PROVE  Sequential!IsaInit
<1>1. /\ cpu_state = "fetch" /\ ~latched_branch /\ reg_next_pc = PROGADDR_RESET
      /\ MACHINE_ISA => mepc \in Addr
  BY CoreAssumption DEF Init, MemInit
<1>2. /\ ArchPc = PROGADDR_RESET /\ Executing = [kind |-> "nothing"]
      /\ Refused = FALSE /\ Stopped = FALSE
  BY <1>1, Mapped, ConstantsAligned DEF Mapping, current_pc, JumpedTo, IsAligned
<1> QED BY <1>1, <1>2 DEF Sequential!IsaInit, Sequential!Nothing, Init, Refused, Stopped

LEMMA NextRefines ==
  ASSUME MisalignmentExcluded
  PROVE  FetchInv /\ FetchInv' /\ IsaInv /\ [Next]_vars =>
           [Sequential!IsaNext]_<<Sequential!isaVars, mip>>
<1> SUFFICES ASSUME FetchInv, FetchInv', IsaInv, [Next]_vars
             PROVE  [Sequential!IsaNext]_<<Sequential!isaVars, mip>>
  OBVIOUS
<1>1. Sequential!Lines
  BY DEF FetchInv, PcInv, TypeOK, IrqTypeOK, Sequential!Lines
<1>2. CASE Tick
  <2>1. IsaStep
    BY <1>2, TickRefines DEF Tick
  <2> QED BY <1>1, <2>1 DEF IsaStep, Sequential!IsaNext
<1>3. CASE Reset
  BY <1>1, <1>3, ResetPowersUp DEF Sequential!IsaNext
<1>4. CASE UNCHANGED vars
  <2>1. /\ ArchPc' = ArchPc /\ Executing' = Executing /\ Refused' = Refused /\ Stopped' = Stopped
        /\ UNCHANGED <<csrVars, mip>>
    BY <1>4 DEF vars, requestVars, decoderVars, mainVars, csrVars, aluVars, irqVars, ArchPc, Executing,
                Refused, Stopped, MisalignedJump, current_pc, JumpedTo, Align, Misaligned, Length
  <2> QED BY <2>1 DEF Sequential!isaVars, Sequential!csrs, csrVars, Refused, Stopped
<1> QED BY <1>2, <1>3, <1>4 DEF Next

\* The core implements the sequential machine of NanoIsa.  Behind the pipeline
\* of two decoder stages, the prefetch, the states an instruction passes
\* through, the waits for the memory and the second trigger after a load or a
\* store (rtl/nanorv32_core.v), software sees each instruction take effect once,
\* in order, at the program counter; a jump goes to the address the instruction
\* computed, an interrupt saves the address of the instruction it comes before
\* and mret goes back to it.  Under the assumptions no access or jump is
\* misaligned.  An ecall, an ebreak or an illegal instruction starts the handler
\* where it is given up in ld_rs1 (WITH_PCPI with both read ports); elsewhere it
\* waits for a prefetch nothing claims, or stops the core.
THEOREM ImplementsSequential ==
  ASSUME PcpiTimely, MisalignmentExcluded, VectorInWord
  PROVE  Spec => ImplementsIsa
<1>1. Init => FetchInv /\ IsaInv /\ Sequential!IsaInit
  BY FetchInvInit, IsaInvInit, InitRefines
<1>2. FetchInv /\ IsaInv /\ [Next]_vars => IsaInv'
  BY IsaInvNext
<1>3. FetchInv /\ FetchInv' /\ IsaInv /\ [Next]_vars =>
        [Sequential!IsaNext]_<<Sequential!isaVars, mip>>
  BY NextRefines
<1> QED BY <1>1, <1>2, <1>3, FetchInvariant, PTL DEF Spec, ImplementsIsa, Sequential!IsaSpec
=============================================================================
