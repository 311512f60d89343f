-------------------------- MODULE NanoFetchProofs --------------------------
(***************************************************************************)
(* Proofs about the fetch of instructions: what the core executes is what  *)
(* it has fetched from the program counter, and a transfer that is on the  *)
(* bus belongs to the request that stands.  For every program, address     *)
(* space, memory latency and sequence of resets; a core that offers        *)
(* instructions to a coprocessor while it prefetches has to have a memory  *)
(* that is faster than the coprocessor's timeout (PcpiTimely).             *)
(***************************************************************************)
EXTENDS NanoCoreProofs

(***************************************************************************)
(* What is assumed of the program and of the configuration                 *)
(***************************************************************************)
\* with CATCH_MISALIGN no jump and no data access is misaligned
MisalignmentExcluded ==
  CATCH_MISALIGN => /\ \A t \in Targets : Align(t) = t
                    /\ \A a \in DataAddrs : a % 4 = 0

\* With two register ports an unknown instruction is offered to the coprocessor
\* in ld_rs1, while the prefetch behind it runs.  The coprocessor does not claim
\* it in the cycle in which the counter is 0.  Giving up reloads the counter, so
\* the timeout ends three cycles later; the memory has to answer by then.  A
\* compressed core may have a second word to read after it has given up, and one
\* cycle for that.
PcpiTimely ==
  WITH_PCPI /\ ENABLE_REGS_DUALPORT /\ "illegal" \in Kinds =>
    /\ ~PcpiClaimsLate /\ PCPI_TIMEOUT > 0 /\ MaxStall <= PCPI_TIMEOUT + 3
    /\ COMPRESSED_ISA => MaxStall = 0

\* the interrupt vector of a compressed core that has interrupts is a word
VectorInWord == COMPRESSED_ISA /\ IrqEnabled # {} => PROGADDR_IRQ % 4 = 0

(***************************************************************************)
(* The main state machine: which request stands in which state             *)
(***************************************************************************)
Operating == {"ld_rs1", "ld_rs2", "exec", "shift"}
Jumps == {"jalr", "mret"}

\* a taken branch waits for the end of the fetch it makes useless
Dropped == cpu_state = "exec" /\ latched_branch

FetchControl ==
  cpu_state = "fetch" =>
    /\ decoder_trigger \/ do_waitirq => mem_do = {} /\ ~latched_branch
    /\ latched_branch => mem_do \in {{}, {"rinst"}}
    /\ latched_branch /\ latched_store /\ mem_do # {} => ~latched_stalu /\ reg_out % 2 = 0

LatchControl ==
  cpu_state # "fetch" =>
    /\ ~latched_stalu /\ ~do_waitirq
    /\ latched_branch => cpu_state = "exec" /\ latched_store

OperandControl ==
  cpu_state \in Operating =>
    /\ insn = decoded /\ ~decoder_trigger
    /\ cpu_state # "exec" =>
         GivingUp \/ mem_do = IF decoded.kind \in Jumps THEN {} ELSE {"prefetch"}
    /\ cpu_state = "shift" => decoded.kind \notin Jumps
    /\ cpu_state = "ld_rs2" => decoded.kind # "mret"

\* the prefetch is claimed when the ALU has nothing more to wait for
ExecControl ==
  cpu_state = "exec" =>
    /\ mem_do = IF decoded.kind = "jalr" THEN {}
                ELSE IF alu_wait THEN {"prefetch"} ELSE {"prefetch", "rinst"}
    /\ alu_wait_2 => alu_wait
    /\ alu_wait => TWO_CYCLE_ALU \/ TWO_CYCLE_COMPARE
    /\ latched_branch => decoded.kind = "branch" /\ ~alu_wait /\ insn.cond # "not"
                           /\ reg_out = insn.target

\* no branch is decided before the comparison is in the register it is read from
CompareControl ==
  cpu_state = "exec" /\ decoded.kind = "branch" =>
    /\ TWO_CYCLE_ALU /\ ~alu_q => alu_wait /\ (TWO_CYCLE_COMPARE => alu_wait_2)
    /\ TWO_CYCLE_COMPARE /\ alu_out_0_q # insn.cond => alu_wait

TrapControl == trap => cpu_state = "trap"

TargetControl ==
  /\ decoded.kind = "branch" => decoded.target % 2 = 0
  /\ insn.kind = "branch" => insn.target % 2 = 0

ControlInv ==
  /\ FetchControl /\ LatchControl /\ OperandControl /\ ExecControl
  /\ CompareControl /\ TrapControl /\ TargetControl

LEMMA ControlInit == Init => ControlInv
  BY DEF Init, MemInit, ControlInv, FetchControl, LatchControl, OperandControl, ExecControl,
         CompareControl, TrapControl, TargetControl, Operating, NoInstruction

(***************************************************************************)
(* The steps of the state machine keep the control invariant.  mem_done is *)
(* all they know of the memory interface, and a prefetch alone never makes *)
(* it true.                                                                *)
(***************************************************************************)
LEMMA DecodedTargets ==
  ASSUME TargetControl, NEW in, Decode(in)
  PROVE  TargetControl'
<1>1. decoded'.kind = "branch" => decoded'.target % 2 = 0
  <2>1. CASE Wants("rinst") /\ mem_done(in)
    <3>1. decoded' \in Decodings(mem_rdata_latched(in))
      BY <2>1 DEF Decode
    <3>2. decoded'.target \in TargetsOf(decoded'.kind)
      BY <3>1 DEF Decodings
    <3> QED BY <3>2 DEF TargetsOf
  <2>2. CASE ~(Wants("rinst") /\ mem_done(in))
    BY <2>2 DEF Decode, TargetControl
  <2> QED BY <2>1, <2>2
<1>2. insn' \in {insn, decoded}
  BY DEF Decode
<1> QED BY <1>1, <1>2 DEF TargetControl

\* without a transfer that ends, both stages wait for a trigger
LEMMA DecoderKept ==
  ASSUME NEW in, Decode(in), ~mem_done(in)
  PROVE  /\ decoded' = decoded
         /\ ~decoder_trigger => insn' = insn
         /\ DefaultTrigger(in) => decoder_trigger' = FALSE
         /\ RemainingRequests(in) = mem_do
  BY DEF Decode, DefaultTrigger, RemainingRequests

\* The fetch state: nothing is asked for when an instruction is held.
LEMMA FetchControls ==
  ASSUME RequestInv, ControlInv, ~MisalignedJump, NEW in, Fetch(in), Decode(in),
         trap' = (cpu_state = "trap")
  PROVE  ControlInv'
<1> USE DEF Wants, WithRinst
<1>0. /\ cpu_state = "fetch" /\ mem_do \subseteq {"prefetch", "rinst"}
      /\ decoder_trigger \/ do_waitirq => mem_do = {} /\ ~latched_branch
      /\ decoder_pseudo_trigger => insn = decoded
      /\ latched_stalu' = FALSE
  BY DEF Fetch, FetchWait, FetchMisalignedJump, FetchInterrupt, FetchWfi, FetchJal, FetchLaunch,
         FetchDefaults, RequestInv, DataRequests, ControlInv, FetchControl
<1>1. mem_do = {} => ~mem_done(in)
  BY DoneNeedsRequest
<1>2. TargetControl'
  BY DecodedTargets DEF ControlInv
<1>3. trap' = FALSE
  BY <1>0
<1>4. ASSUME cpu_state' = "fetch",
             decoder_trigger' \/ do_waitirq' => mem_do' = {} /\ ~latched_branch',
             latched_branch' => mem_do' \in {{}, {"rinst"}} /\ ~latched_store'
      PROVE  ControlInv'
  BY <1>2, <1>3, <1>4
  DEF ControlInv, FetchControl, LatchControl, OperandControl, ExecControl, CompareControl,
      TrapControl, Operating
<1>5. CASE FetchWait(in) \/ FetchInterrupt(in)
  <2>1. /\ cpu_state' = "fetch" /\ do_waitirq' = FALSE /\ latched_branch' = FALSE
        /\ FetchRequest(in) /\ DefaultTrigger(in)
    BY <1>0, <1>5 DEF FetchWait, FetchInterrupt, NoBranch
  <2>2. decoder_trigger' => mem_do' = {}
    BY <2>1 DEF FetchRequest, DefaultTrigger, RemainingRequests
  <2> QED BY <1>4, <2>1, <2>2
<1>6. CASE FetchWfi(in)
  <2>1. mem_do = {} /\ ~mem_done(in) /\ (decoder_trigger \/ do_waitirq)
    BY <1>0, <1>1, <1>6 DEF FetchWfi, WaitsForInterrupt
  <2>2. decoder_trigger' = FALSE /\ latched_branch' = FALSE /\ cpu_state' = "fetch"
    BY <1>0, <1>6, <2>1 DEF FetchWfi, NoBranch, DefaultTrigger
  <2>3. do_waitirq' => mem_do' = {}
    BY <1>6, <2>1 DEF FetchWfi, FetchRequest, RemainingRequests
  <2> QED BY <1>4, <2>2, <2>3
<1>7. CASE FetchJal(in)
  <2>1. mem_do = {} /\ ~mem_done(in)
    BY <1>0, <1>1, <1>7 DEF FetchJal, Launches
  <2>2. /\ cpu_state' = "fetch" /\ decoder_trigger' = FALSE /\ do_waitirq' = FALSE
        /\ latched_store' = FALSE /\ mem_do' = {"rinst"}
    BY <1>0, <1>7, <2>1 DEF FetchJal, DefaultTrigger, RemainingRequests
  <2> QED BY <1>4, <2>2
<1>8. CASE FetchLaunch(in)
  <2>1. mem_do = {} /\ ~mem_done(in) /\ decoder_trigger
    BY <1>0, <1>1, <1>8 DEF FetchLaunch, Launches
  <2>2. decoded' = decoded /\ insn' = decoded
    BY <1>0, <2>1 DEF Decode
  <2>3. /\ cpu_state' = "ld_rs1" /\ decoder_trigger' = FALSE /\ do_waitirq' = FALSE
        /\ latched_branch' = FALSE
        /\ mem_do' = IF decoded.kind \in Jumps THEN {} ELSE {"prefetch"}
    BY <1>8, <2>1 DEF FetchLaunch, DefaultTrigger, NoBranch, RemainingRequests, Jumps
  <2> QED BY <1>0, <1>2, <1>3, <2>2, <2>3
      DEF ControlInv, FetchControl, LatchControl, OperandControl, ExecControl, CompareControl,
          TrapControl, Operating
<1> QED BY <1>5, <1>6, <1>7, <1>8 DEF Fetch, FetchMisalignedJump

\* What ld_rs1 and ld_rs2 may do once nothing but a prefetch is asked for.
Keeps == mem_do' = mem_do /\ latched_branch' = latched_branch
Rests == cpu_state' \in {"trap", "fetch", cpu_state} /\ decoded.kind \notin Jumps /\ Keeps
Returns == cpu_state' = "fetch" /\ decoded.kind = "mret" /\ mem_do' = mem_do /\ latched_branch'
GivesUp ==
  /\ cpu_state' \in {"ld_rs1", "trap"} /\ decoded.kind \notin Jumps /\ ~latched_branch'
  /\ mem_do' = {"prefetch", "rinst"}
  /\ cpu_state' = "ld_rs1" => WITH_PCPI /\ ENABLE_REGS_DUALPORT /\ instr_trap
Answered ==
  /\ cpu_state' = "fetch" /\ decoded.kind \notin Jumps /\ latched_branch' = latched_branch
  /\ mem_do' = {"prefetch", "rinst"}
ReadsMore == cpu_state' = "ld_rs2" /\ decoded.kind # "mret" /\ Keeps
Executes(in) ==
  /\ decoded.kind # "mret" /\ latched_branch' = latched_branch
  /\ \E wait \in BOOLEAN, wait2 \in BOOLEAN :
       /\ ToExec(in, wait, wait2)
       /\ wait2 => wait
       /\ wait => TWO_CYCLE_ALU \/ TWO_CYCLE_COMPARE
       /\ decoded.kind = "branch" => /\ TWO_CYCLE_ALU \/ TWO_CYCLE_COMPARE => wait
                                     /\ TWO_CYCLE_ALU /\ TWO_CYCLE_COMPARE => wait2
Shifts(in) == ToShift(in) /\ decoded.kind \notin Jumps /\ latched_branch' = latched_branch
Accessing(in) ==
  /\ decoded.kind \notin Jumps /\ latched_branch' = latched_branch
  /\ ToMemory(in, "ldmem") \/ ToMemory(in, "stmem")

ToNext(in) ==
  Rests \/ Returns \/ GivesUp \/ Answered \/ ReadsMore \/ Executes(in) \/ Shifts(in) \/ Accessing(in)

LEMMA DispatchSteps ==
  ASSUME NEW in, Dispatch(in), decoded.kind # "mret", latched_branch' = latched_branch,
         insn = decoded
  PROVE  ToNext(in)
<1>1. CASE decoded.kind = "store"
  <2>1. ToMemory(in, "stmem")
    BY <1>1 DEF Dispatch
  <2>2. Accessing(in)
    BY <1>1, <2>1 DEF Accessing, Jumps
  <2> QED BY <2>2 DEF ToNext
<1>2. CASE decoded.kind # "store" /\ insn.kind = "shift" /\ ~BARREL_SHIFTER
  <2>1. ToShift(in)
    BY <1>2 DEF Dispatch
  <2>2. Shifts(in)
    BY <1>2, <2>1 DEF Shifts, Jumps
  <2> QED BY <2>2 DEF ToNext
<1>3. CASE decoded.kind # "store" /\ ~(insn.kind = "shift" /\ ~BARREL_SHIFTER)
  <2> DEFINE wait == NeedsAluWait
             wait2 == TWO_CYCLE_ALU /\ TWO_CYCLE_COMPARE /\ decoded.kind = "branch"
  <2>1. ToExec(in, wait, wait2)
    BY <1>3 DEF Dispatch
  <2>2. /\ wait \in BOOLEAN /\ wait2 \in BOOLEAN /\ (wait2 => wait)
        /\ wait => TWO_CYCLE_ALU \/ TWO_CYCLE_COMPARE
        /\ decoded.kind = "branch" => /\ TWO_CYCLE_ALU \/ TWO_CYCLE_COMPARE => wait
                                      /\ TWO_CYCLE_ALU /\ TWO_CYCLE_COMPARE => wait2
    BY AluParameters DEF NeedsAluWait
  <2> HIDE DEF wait, wait2
  <2>3. Executes(in)
    BY <2>1, <2>2 DEF Executes
  <2> QED BY <2>3 DEF ToNext
<1> QED BY <1>1, <1>2, <1>3

LEMMA OneOperandSteps ==
  ASSUME NEW in, ToExec(in, TWO_CYCLE_ALU, FALSE), decoded.kind \notin {"mret", "branch"},
         latched_branch' = latched_branch
  PROVE  ToNext(in)
<1> DEFINE wait == TWO_CYCLE_ALU
<1>1. ToExec(in, wait, FALSE) /\ wait \in BOOLEAN /\ (wait => TWO_CYCLE_ALU)
  BY AluParameters
<1> HIDE DEF wait
<1>2. Executes(in)
  BY <1>1 DEF Executes
<1> QED BY <1>2 DEF ToNext

\* the prefetch is waited for and the handler is entered, or the core stops
Abandons(in) ==
  \/ ~mem_done(in) /\ GivesUp /\ decoded' = decoded
  \/ /\ mem_done(in) /\ mem_do' = {}
     /\ \/ cpu_state' = "fetch" /\ latched_branch' /\ latched_store' /\ reg_out' = PROGADDR_IRQ
        \/ cpu_state' = "trap" /\ ~latched_branch'

LEMMA GivingUpSteps ==
  ASSUME ControlInv, NEW in, ClaimStands(in), GivingUp, NEW w, LdRs1(in, w) \/ LdRs2(in), Decode(in)
  PROVE  /\ LdRs1(in, w)
         /\ decoder_trigger' = FALSE /\ do_waitirq' = FALSE
         /\ insn' = insn /\ latched_stalu' = FALSE /\ UNCHANGED <<reg_pc, reg_next_pc>>
         /\ Abandons(in)
<1>1. /\ cpu_state = "ld_rs1" /\ WITH_PCPI /\ ENABLE_REGS_DUALPORT /\ instr_trap
      /\ mem_do = {"prefetch", "rinst"}
  BY DEF GivingUp
<1>2. /\ insn = decoded /\ ~decoder_trigger /\ ~latched_stalu /\ ~latched_branch
  BY <1>1 DEF ControlInv, OperandControl, LatchControl, Operating
<1>3. LdRs1(in, w) /\ LdRs1Trap(in)
  BY <1>1 DEF LdRs1, LdRs2, LdRs1Counter, LdRs1Csr, ExecutesCsr, LdRs1Operands
<1>4. /\ ClaimPrefetch(in) /\ decoder_trigger' = FALSE /\ DoInstrTrap(in)
      /\ latched_stalu' = latched_stalu
  BY <1>1, <1>3 DEF LdRs1Trap, ClaimStands, PcpiReady, PcpiWait
<1>5. insn' = insn /\ (~mem_done(in) => decoded' = decoded)
  BY <1>2 DEF Decode
<1>6. decoded.kind \notin Jumps
  BY <1>1 DEF instr_trap, StageOne, Jumps
<1>7. ASSUME ~mem_done(in) PROVE Abandons(in)
  <2>1. mem_do' = {"prefetch", "rinst"}
    BY <1>1, <1>4, <1>7 DEF ClaimPrefetch, RemainingRequests, WithRinst, Wants
  <2>2. ~TrapEntered(in, insn.kind # "ecall")
    BY <1>1, <1>7 DEF TrapEntered, Wants
  <2>3. cpu_state' \in {"ld_rs1", "trap"} /\ ~latched_branch'
    BY <1>1, <1>2, <1>4, <2>2 DEF DoInstrTrap, DoTrap
  <2> QED BY <1>1, <1>5, <1>6, <1>7, <2>1, <2>3 DEF Abandons, GivesUp
<1>8. ASSUME mem_done(in) PROVE Abandons(in)
  <2>1. mem_do' = {}
    BY <1>4, <1>8 DEF ClaimPrefetch, RemainingRequests, WithRinst
  <2>2. \/ /\ cpu_state' = "fetch" /\ latched_branch' = TRUE /\ latched_store' = TRUE
           /\ reg_out' = PROGADDR_IRQ
        \/ cpu_state' = "trap" /\ latched_branch' = latched_branch
    BY <1>4, <1>8 DEF DoInstrTrap, DoTrap, TrapEntered
  <2> QED BY <1>2, <1>8, <2>1, <2>2 DEF Abandons
<1> QED BY <1>2, <1>3, <1>4, <1>5, <1>7, <1>8 DEF LdRs1, NoStrobes, KeepPc

LEMMA OperandSteps ==
  ASSUME ControlInv, NEW in, ~GivingUp, NEW w, LdRs1(in, w) \/ LdRs2(in), Decode(in)
  PROVE  /\ ~mem_done(in)
         /\ decoder_trigger' = FALSE /\ do_waitirq' = FALSE
         /\ insn' = insn /\ decoded' = decoded
         /\ latched_stalu' = FALSE /\ UNCHANGED <<reg_pc, reg_next_pc>>
         /\ ToNext(in)
<1>0. /\ cpu_state \in {"ld_rs1", "ld_rs2"} /\ do_waitirq' = FALSE
      /\ UNCHANGED <<reg_pc, reg_next_pc>>
      /\ mem_do = IF decoded.kind \in Jumps THEN {} ELSE {"prefetch"}
      /\ insn = decoded /\ ~decoder_trigger /\ ~latched_stalu /\ ~latched_branch
  BY DEF LdRs1, LdRs2, NoStrobes, KeepPc, ControlInv, OperandControl, LatchControl, Operating
<1>1. ~mem_done(in)
  BY <1>0, DoneNeedsRequest
<1>2. /\ insn' = insn /\ decoded' = decoded /\ RemainingRequests(in) = mem_do
      /\ DefaultTrigger(in) => decoder_trigger' = FALSE
  BY <1>0, <1>1, DecoderKept
<1>4. ASSUME instr_trap PROVE decoded.kind \notin Jumps
  BY <1>4 DEF instr_trap, StageOne, Jumps
<1>5. ASSUME DoInstrTrap(in), mem_do' = mem_do, instr_trap
      PROVE  Rests
  <2>1. ~TrapEntered(in, insn.kind # "ecall")
    BY <1>0, <1>1, <1>4, <1>5 DEF TrapEntered, Wants
  <2>2. cpu_state' \in {cpu_state, "trap"} /\ latched_branch' = latched_branch
    BY <1>5, <2>1 DEF DoInstrTrap, DoTrap
  <2> QED BY <1>4, <1>5, <2>2 DEF Rests, Keeps
<1>10. CASE cpu_state = "ld_rs1" /\ LdRs1Trap(in)
  <2>1. /\ instr_trap /\ latched_stalu' = latched_stalu /\ decoder_trigger' = FALSE
        /\ mem_do = {"prefetch"} /\ decoded.kind \notin Jumps
    BY <1>0, <1>2, <1>4, <1>10 DEF LdRs1Trap, PcpiReady, PcpiWait
  <2>2. CASE WITH_PCPI /\ ~ENABLE_REGS_DUALPORT
    <3>1. cpu_state' = "ld_rs2" /\ latched_branch' = latched_branch /\ mem_do' = mem_do
      BY <1>2, <1>10, <2>2 DEF LdRs1Trap
    <3>2. ReadsMore
      BY <1>4, <2>1, <3>1 DEF ReadsMore, Keeps, Jumps
    <3> QED BY <1>0, <1>1, <1>2, <2>1, <3>2 DEF ToNext
  <2>3. CASE ~WITH_PCPI
    <3>1. Rests
      BY <1>2, <1>5, <1>10, <2>1, <2>3 DEF LdRs1Trap
    <3> QED BY <1>0, <1>1, <1>2, <2>1, <3>1 DEF ToNext
  <2>4. CASE WITH_PCPI /\ ENABLE_REGS_DUALPORT
    <3>1. CASE PcpiReady(in)
      <4>1. Answered
        BY <1>1, <1>2, <2>1, <3>1 DEF PcpiReady, Answered, WithRinst
      <4> QED BY <1>0, <1>1, <1>2, <2>1, <4>1 DEF ToNext
    <3>2. CASE PcpiWait(in)
      <4>1. Rests
        BY <1>2, <2>1, <3>2 DEF PcpiWait, Rests, Keeps
      <4> QED BY <1>0, <1>1, <1>2, <2>1, <4>1 DEF ToNext
    <3>3. CASE ClaimPrefetch(in) /\ DoInstrTrap(in)
      <4>1. mem_do' = {"prefetch", "rinst"}
        BY <1>1, <1>2, <2>1, <3>3 DEF ClaimPrefetch, WithRinst, Wants
      <4>2. ~TrapEntered(in, insn.kind # "ecall")
        BY <1>1, <2>1 DEF TrapEntered, Wants
      <4>3. cpu_state' \in {"ld_rs1", "trap"} /\ ~latched_branch'
        BY <1>0, <1>10, <3>3, <4>2 DEF DoInstrTrap, DoTrap
      <4>4. GivesUp
        BY <2>1, <2>4, <4>1, <4>3 DEF GivesUp
      <4> QED BY <1>0, <1>1, <1>2, <2>1, <4>4 DEF ToNext
    <3> QED BY <1>10, <2>4, <3>1, <3>2, <3>3 DEF LdRs1Trap
  <2> QED BY <2>2, <2>3, <2>4
<1>6. CASE LdRs1Counter(in) \/ LdRs1Csr(in, w)
  <2>1. ReadsOut(in) /\ DefaultTrigger(in) /\ insn.kind \in {"rdcycle", "csr"}
    BY <1>6 DEF LdRs1Counter, LdRs1Csr, ExecutesCsr
  <2>2. /\ mem_do' = mem_do /\ cpu_state' = "fetch"
        /\ latched_branch' = latched_branch /\ latched_stalu' = latched_stalu
    BY <1>2, <2>1 DEF ReadsOut
  <2>3. decoded.kind \notin Jumps
    BY <1>0, <2>1 DEF Jumps
  <2>4. Rests
    BY <2>2, <2>3 DEF Rests, Keeps
  <2> QED BY <1>0, <1>1, <1>2, <2>1, <2>2, <2>4 DEF ToNext
<1>7. CASE LdRs1Mret(in)
  <2>1. /\ mem_do' = mem_do /\ cpu_state' = "fetch" /\ decoded.kind = "mret"
        /\ DefaultTrigger(in) /\ latched_stalu' = latched_stalu /\ latched_branch'
    BY <1>2, <1>7 DEF LdRs1Mret
  <2>2. Returns
    BY <2>1 DEF Returns
  <2> QED BY <1>0, <1>1, <1>2, <2>1, <2>2 DEF ToNext
<1>8. CASE LdRs1Operands(in)
  <2>0. /\ DefaultTrigger(in) /\ latched_stalu' = latched_stalu
        /\ latched_branch' = latched_branch /\ decoded.kind # "mret"
    BY <1>8 DEF LdRs1Operands, Operands
  <2>1. ASSUME insn.kind \in {"lui", "jal"} PROVE ToNext(in)
    <3>1. ToExec(in, TWO_CYCLE_ALU, FALSE)
      BY <1>8, <2>1 DEF LdRs1Operands
    <3> QED BY <1>0, <2>0, <2>1, <3>1, OneOperandSteps
  <2>2. ASSUME insn.kind \notin {"lui", "jal"}, decoded.kind = "load" PROVE ToNext(in)
    <3>1. ToMemory(in, "ldmem")
      BY <1>8, <2>2 DEF LdRs1Operands
    <3>2. Accessing(in)
      BY <2>0, <2>2, <3>1 DEF Accessing, Jumps
    <3> QED BY <3>2 DEF ToNext
  <2>3. ASSUME insn.kind \notin {"lui", "jal"}, decoded.kind # "load",
               insn.kind \in OneOperand
        PROVE  ToNext(in)
    <3>1. ToExec(in, TWO_CYCLE_ALU, FALSE)
      BY <1>8, <2>3 DEF LdRs1Operands, OneOperand
    <3>2. decoded.kind \notin {"mret", "branch"}
      BY <1>0, <2>3 DEF OneOperand
    <3> QED BY <2>0, <3>1, <3>2, OneOperandSteps
  <2>4. ASSUME insn.kind \notin {"lui", "jal"}, decoded.kind # "load",
               insn.kind \notin OneOperand, insn.kind = "shifti" /\ ~BARREL_SHIFTER
        PROVE  ToNext(in)
    <3>1. ToShift(in)
      BY <1>8, <2>4 DEF LdRs1Operands
    <3>2. Shifts(in)
      BY <1>0, <2>0, <2>4, <3>1 DEF Shifts, Jumps
    <3> QED BY <3>2 DEF ToNext
  <2>5. ASSUME insn.kind \notin {"lui", "jal"}, decoded.kind # "load",
               insn.kind \notin OneOperand, ~(insn.kind = "shifti" /\ ~BARREL_SHIFTER)
        PROVE  ToNext(in)
    <3>1. \/ Dispatch(in)
          \/ cpu_state' = "ld_rs2" /\ mem_do' = RemainingRequests(in)
      BY <1>8, <2>5 DEF LdRs1Operands
    <3>2. CASE Dispatch(in)
      BY <1>0, <2>0, <3>2, DispatchSteps
    <3>3. CASE cpu_state' = "ld_rs2" /\ mem_do' = RemainingRequests(in)
      <4>1. ReadsMore
        BY <1>2, <2>0, <3>3 DEF ReadsMore, Keeps
      <4> QED BY <4>1 DEF ToNext
    <3> QED BY <3>1, <3>2, <3>3
  <2>6. ToNext(in)
    BY <2>1, <2>2, <2>3, <2>4, <2>5
  <2> QED BY <1>0, <1>1, <1>2, <2>0, <2>6
<1>9. CASE LdRs2(in)
  <2>1. DefaultTrigger(in) /\ latched_stalu' = latched_stalu
    BY <1>9 DEF LdRs2, KeepLatches, PcpiReady, PcpiWait
  <2>2. CASE ~(WITH_PCPI /\ instr_trap)
    <3>1. Dispatch(in) /\ latched_branch' = latched_branch
      BY <1>9, <2>2 DEF LdRs2, KeepLatches
    <3>2. decoded.kind # "mret"
      BY <1>9 DEF LdRs2, ControlInv, OperandControl, Operating
    <3>3. ToNext(in)
      BY <1>0, <3>1, <3>2, DispatchSteps
    <3> QED BY <1>0, <1>1, <1>2, <2>1, <3>3
  <2>3. CASE WITH_PCPI /\ instr_trap
    <3>1. mem_do = {"prefetch"} /\ decoded.kind \notin Jumps
      BY <1>0, <1>4, <2>3
    <3>2. CASE PcpiReady(in)
      <4>1. Answered
        BY <1>1, <1>2, <3>1, <3>2 DEF PcpiReady, Answered, WithRinst
      <4> QED BY <1>0, <1>1, <1>2, <2>1, <4>1 DEF ToNext
    <3>3. CASE PcpiWait(in)
      <4>1. Rests
        BY <1>2, <3>1, <3>3 DEF PcpiWait, Rests, Keeps
      <4> QED BY <1>0, <1>1, <1>2, <2>1, <4>1 DEF ToNext
    <3>4. CASE DoInstrTrap(in) /\ mem_do' = RemainingRequests(in)
      <4>1. Rests
        BY <1>2, <1>5, <2>3, <3>4
      <4> QED BY <1>0, <1>1, <1>2, <2>1, <4>1 DEF ToNext
    <3> QED BY <1>9, <2>3, <3>2, <3>3, <3>4 DEF LdRs2
  <2> QED BY <2>2, <2>3
<1> QED BY <1>6, <1>7, <1>8, <1>9, <1>10 DEF LdRs1

LEMMA OperandControls ==
  ASSUME ControlInv, NEW in, ClaimStands(in), NEW w, LdRs1(in, w) \/ LdRs2(in), Decode(in),
         AluRegisters, trap' = (cpu_state = "trap")
  PROVE  ControlInv'
<1>11. CASE GivingUp
  <2>1. /\ decoder_trigger' = FALSE /\ do_waitirq' = FALSE
        /\ insn' = insn /\ latched_stalu' = FALSE /\ Abandons(in)
    BY <1>11, GivingUpSteps
  <2>2. TargetControl' /\ insn = decoded /\ trap' = FALSE
    BY <1>11, DecodedTargets DEF ControlInv, OperandControl, Operating, GivingUp
  <2>3. CASE ~mem_done(in)
    <3>1. GivesUp /\ decoded' = decoded
      BY <2>1, <2>3 DEF Abandons
    <3>2. cpu_state' = "ld_rs1" => GivingUp'
      BY <2>1, <3>1 DEF GivesUp, GivingUp, instr_trap
    <3> QED BY <2>1, <2>2, <3>1, <3>2
        DEF GivesUp, ControlInv, FetchControl, LatchControl, OperandControl, ExecControl,
            CompareControl, TrapControl, Operating
  <2>4. CASE mem_done(in)
    <3>1. cpu_state' \in {"fetch", "trap"} /\ mem_do' = {} /\ (cpu_state' = "trap" => ~latched_branch')
      BY <2>1, <2>4 DEF Abandons
    <3> QED BY <2>1, <2>2, <3>1
        DEF ControlInv, FetchControl, LatchControl, OperandControl, ExecControl,
            CompareControl, TrapControl, Operating
  <2> QED BY <2>3, <2>4
<1> SUFFICES ASSUME ~GivingUp PROVE ControlInv'
  BY <1>11
<1>0. /\ cpu_state \in {"ld_rs1", "ld_rs2"} /\ insn = decoded
      /\ mem_do = IF decoded.kind \in Jumps THEN {} ELSE {"prefetch"}
      /\ ~latched_branch
      /\ cpu_state = "ld_rs2" => decoded.kind # "mret"
  BY DEF LdRs1, LdRs2, ControlInv, OperandControl, LatchControl, TrapControl, Operating
<1>1. /\ ~mem_done(in)
      /\ decoder_trigger' = FALSE /\ do_waitirq' = FALSE
      /\ insn' = insn /\ decoded' = decoded /\ latched_stalu' = FALSE
      /\ ToNext(in)
  BY OperandSteps
<1>2. trap' = FALSE /\ TargetControl' /\ RemainingRequests(in) = mem_do
  BY <1>0, <1>1, DecodedTargets, DecoderKept DEF ControlInv
<1> USE DEF ControlInv, FetchControl, LatchControl, OperandControl, ExecControl, CompareControl,
            TrapControl, Operating
<1>3. CASE Rests
  BY <1>0, <1>1, <1>2, <1>3 DEF Rests, Keeps
<1>4. CASE Returns
  BY <1>0, <1>1, <1>2, <1>4 DEF Returns, Jumps
<1>9. CASE Answered
  BY <1>0, <1>1, <1>2, <1>9 DEF Answered
<1>10. CASE GivesUp
  <2>1. cpu_state' = "ld_rs1" => GivingUp'
    BY <1>1, <1>10 DEF GivesUp, GivingUp, instr_trap
  <2> QED BY <1>0, <1>1, <1>2, <1>10, <2>1 DEF GivesUp
<1>5. CASE ReadsMore
  BY <1>0, <1>1, <1>2, <1>5 DEF ReadsMore, Keeps
<1>6. CASE Executes(in)
  <2>1. decoded.kind # "mret" /\ ~latched_branch'
    BY <1>0, <1>6 DEF Executes
  <2>2. PICK wait \in BOOLEAN, wait2 \in BOOLEAN :
           /\ ToExec(in, wait, wait2)
           /\ wait2 => wait
           /\ wait => TWO_CYCLE_ALU \/ TWO_CYCLE_COMPARE
           /\ decoded.kind = "branch" => /\ TWO_CYCLE_ALU \/ TWO_CYCLE_COMPARE => wait
                                         /\ TWO_CYCLE_ALU /\ TWO_CYCLE_COMPARE => wait2
    BY <1>6 DEF Executes
  <2>3. /\ cpu_state' = "exec" /\ alu_wait' = wait /\ alu_wait_2' = wait2
        /\ mem_do' = IF wait THEN mem_do
                     ELSE IF "prefetch" \in mem_do THEN mem_do \cup {"rinst"}
                     ELSE mem_do \ {"rinst"}
    BY <1>1, <1>2, <2>2 DEF ToExec, ClaimPrefetch, WithRinst, Wants
  <2>4. mem_do' = IF decoded'.kind = "jalr" THEN {}
                  ELSE IF alu_wait' THEN {"prefetch"} ELSE {"prefetch", "rinst"}
    BY <1>0, <1>1, <2>1, <2>3 DEF Jumps
  <2>5. CompareControl'
    BY <1>1, <2>2, <2>3
  <2>6. ExecControl'
    BY <2>1, <2>2, <2>3, <2>4
  <2> QED BY <1>0, <1>1, <1>2, <2>1, <2>3, <2>5, <2>6
<1>7. CASE Shifts(in)
  BY <1>0, <1>1, <1>2, <1>7 DEF Shifts, ToShift
<1>8. CASE Accessing(in)
  BY <1>0, <1>1, <1>2, <1>8 DEF Accessing, ToMemory
<1> QED BY <1>1, <1>3, <1>4, <1>5, <1>6, <1>7, <1>8, <1>9, <1>10 DEF ToNext

\* What the exec state does.
LEMMA BranchDecided ==
  ASSUME ControlInv, cpu_state = "exec", ~ExecWaits
  PROVE  /\ ~alu_wait
         /\ mem_do = IF decoded.kind = "jalr" THEN {} ELSE {"prefetch", "rinst"}
         /\ decoded.kind = "branch" => (BranchTaken <=> insn.cond # "not")
<1>1. ~alu_wait
  BY DEF ControlInv, ExecControl, ExecWaits
<1>2. decoded.kind = "branch" => Condition = insn.cond
  <2> SUFFICES ASSUME decoded.kind = "branch" PROVE Condition = insn.cond
    OBVIOUS
  <2>1. (TWO_CYCLE_ALU => alu_q) /\ (TWO_CYCLE_COMPARE => alu_out_0_q = insn.cond)
    BY <1>1 DEF ControlInv, CompareControl
  <2> QED BY <2>1 DEF Condition, alu_out_0, AluHolds
<1> QED BY <1>1, <1>2 DEF BranchTaken, ControlInv, ExecControl

LEMMA ExecControls ==
  ASSUME ControlInv, NEW in, Exec(in), Decode(in), AluRegisters, trap' = (cpu_state = "trap")
  PROVE  ControlInv'
<1> USE DEF Operating, Wants, WithRinst
<1>0. /\ cpu_state = "exec" /\ insn = decoded /\ ~decoder_trigger /\ ~latched_stalu
      /\ do_waitirq' = FALSE /\ reg_out' = ExecTarget /\ trap' = FALSE
      /\ latched_branch => decoded.kind = "branch" /\ insn.cond # "not" /\ reg_out = insn.target
  BY DEF Exec, NoStrobes, ControlInv, OperandControl, LatchControl, ExecControl
<1>1. TargetControl' /\ TargetControl /\ insn' = insn
  BY <1>0, DecodedTargets DEF ControlInv, Decode
<1>2. CASE ExecWait(in)
  <2>1. alu_wait /\ ~latched_branch
    BY <1>0, <1>2 DEF ExecWait, ExecWaits, ControlInv, ExecControl
  <2>2. mem_do = IF decoded.kind = "jalr" THEN {} ELSE {"prefetch"}
    BY <1>0, <2>1 DEF ControlInv, ExecControl
  <2>3. ~mem_done(in)
    BY <2>2, DoneNeedsRequest
  <2>4. decoded' = decoded /\ decoder_trigger' = FALSE /\ RemainingRequests(in) = mem_do
    BY <1>2, <2>3, DecoderKept DEF ExecWait
  <2>5. /\ cpu_state' = "exec" /\ ~latched_branch' /\ ~latched_stalu'
        /\ alu_wait' = alu_wait_2 /\ alu_wait_2' = FALSE
        /\ mem_do' = WithRinst(mem_do, Wants("prefetch") /\ ~alu_wait_2 /\ ~mem_done(in))
    BY <1>0, <1>2, <2>1, <2>4 DEF ExecWait, KeepLatches
  <2>6. mem_do' = IF decoded'.kind = "jalr" THEN {}
                  ELSE IF alu_wait' THEN {"prefetch"} ELSE {"prefetch", "rinst"}
    BY <2>2, <2>3, <2>4, <2>5
  <2>7. alu_wait_2 => TWO_CYCLE_ALU \/ TWO_CYCLE_COMPARE
    BY <1>0 DEF ControlInv, ExecControl
  <2>8. CompareControl'
    BY <1>0, <1>1, <2>4, <2>5 DEF ControlInv, CompareControl, AluRegisters, alu_out_0, AluHolds
  <2>9. ExecControl'
    BY <2>5, <2>6, <2>7 DEF ExecControl
  <2> QED BY <1>0, <1>1, <2>4, <2>5, <2>8, <2>9
      DEF ControlInv, FetchControl, LatchControl, OperandControl, TrapControl
<1>3. CASE ExecBranch(in)
  <2>1. /\ mem_do = {"prefetch", "rinst"} /\ ~alu_wait
        /\ BranchTaken <=> insn.cond # "not"
    BY <1>0, <1>3, BranchDecided DEF ExecBranch
  <2>2. /\ cpu_state' = IF mem_done(in) THEN "fetch" ELSE "exec"
        /\ latched_branch' = BranchTaken /\ latched_store' = BranchTaken
        /\ latched_stalu' = latched_stalu /\ alu_wait' = FALSE /\ alu_wait_2' = FALSE
    BY <1>3 DEF ExecBranch, NoAluWait
  <2>3. ~mem_done(in) => decoded' = decoded
    BY DecoderKept
  <2>4. CASE BranchTaken
    <3>1. /\ decoder_trigger' = FALSE /\ reg_out' = insn.target /\ reg_out' % 2 = 0
          /\ mem_do' = IF mem_done(in) THEN {"rinst"} ELSE {"prefetch", "rinst"}
      BY <1>0, <1>1, <1>3, <2>1, <2>4
      DEF ExecBranch, ExecTarget, RemainingRequests, TargetControl
    <3>2. insn.kind = "branch"
      BY <1>0, <1>3 DEF ExecBranch
    <3>3. latched_branch' /\ latched_store' /\ insn.cond # "not"
      BY <2>1, <2>2, <2>4
    <3>4. CASE mem_done(in)
      BY <1>0, <1>1, <2>2, <3>1, <3>3, <3>4
      DEF ControlInv, FetchControl, LatchControl, OperandControl, ExecControl, CompareControl,
          TrapControl
    <3>5. CASE ~mem_done(in)
      <4>1. CompareControl'
        BY <1>0, <1>1, <2>1, <2>2, <2>3, <3>5
        DEF CompareControl, ControlInv, AluRegisters, alu_out_0, AluHolds
      <4> QED BY <1>0, <1>1, <2>2, <2>3, <3>1, <3>2, <3>3, <3>5, <4>1
          DEF ControlInv, FetchControl, LatchControl, OperandControl, ExecControl, TrapControl
    <3> QED BY <3>4, <3>5
  <2>5. CASE ~BranchTaken
    <3>1. /\ decoder_trigger' <=> mem_done(in)
          /\ mem_do' = IF mem_done(in) THEN {} ELSE {"prefetch", "rinst"}
      BY <1>3, <2>1, <2>5 DEF ExecBranch, DefaultTrigger, RemainingRequests
    <3>2. ~latched_branch'
      BY <2>2, <2>5
    <3>3. CASE mem_done(in)
      BY <1>0, <1>1, <2>2, <3>1, <3>2, <3>3
      DEF ControlInv, FetchControl, LatchControl, OperandControl, ExecControl, CompareControl,
          TrapControl
    <3>4. CASE ~mem_done(in)
      <4>1. CompareControl'
        BY <1>0, <1>1, <2>1, <2>2, <2>3, <3>4
        DEF CompareControl, ControlInv, AluRegisters, alu_out_0, AluHolds
      <4> QED BY <1>0, <1>1, <1>3, <2>1, <2>2, <2>3, <3>1, <3>2, <3>4, <4>1
          DEF ControlInv, FetchControl, LatchControl, OperandControl, ExecControl, TrapControl,
              ExecBranch
    <3> QED BY <3>3, <3>4
  <2> QED BY <2>4, <2>5
<1>4. CASE ExecResult(in)
  <2>1. /\ mem_do = IF decoded.kind = "jalr" THEN {} ELSE {"prefetch", "rinst"}
        /\ decoded.kind # "branch"
    BY <1>0, <1>4, BranchDecided DEF ExecResult
  <2>2. /\ cpu_state' = "fetch" /\ latched_branch' = (decoded.kind = "jalr")
        /\ mem_do' = RemainingRequests(in) /\ DefaultTrigger(in)
    BY <1>4 DEF ExecResult
  <2>3. mem_do' = IF decoded.kind = "jalr" \/ mem_done(in) THEN {} ELSE {"prefetch", "rinst"}
    BY <2>1, <2>2 DEF RemainingRequests
  <2>4. decoder_trigger' => mem_do' = {} /\ ~latched_branch'
    BY <2>1, <2>2, <2>3 DEF DefaultTrigger
  <2>5. latched_branch' => mem_do' = {}
    BY <2>2, <2>3
  <2> QED BY <1>0, <1>1, <2>2, <2>4, <2>5
      DEF ControlInv, FetchControl, LatchControl, OperandControl, ExecControl, CompareControl,
          TrapControl
<1> QED BY <1>2, <1>3, <1>4 DEF Exec

LEMMA ShiftControls ==
  ASSUME ControlInv, NEW in, Shift(in), Decode(in), trap' = (cpu_state = "trap")
  PROVE  ControlInv'
<1>0. /\ cpu_state = "shift" /\ insn = decoded /\ ~decoder_trigger
      /\ mem_do = {"prefetch"} /\ ~latched_branch /\ decoded.kind \notin Jumps
  BY DEF Shift, ControlInv, OperandControl, LatchControl, Operating, GivingUp
<1>1. ~mem_done(in)
  BY <1>0, DoneNeedsRequest
<1>2. /\ decoded' = decoded /\ insn' = insn /\ decoder_trigger' = FALSE
      /\ RemainingRequests(in) = mem_do /\ trap' = FALSE /\ TargetControl'
  BY <1>0, <1>1, DecoderKept, DecodedTargets DEF Shift, ControlInv
<1>3. /\ cpu_state' = "shift" /\ mem_do' = mem_do
      \/ cpu_state' = "fetch"
  BY <1>2 DEF Shift, ShiftDone, ShiftStep
<1>4. ~latched_branch' /\ ~latched_stalu' /\ do_waitirq' = FALSE
  BY <1>0 DEF Shift, NoStrobes, ControlInv, LatchControl
<1> QED BY <1>0, <1>2, <1>3, <1>4
    DEF ControlInv, FetchControl, LatchControl, OperandControl, ExecControl, CompareControl,
        TrapControl, Operating

LEMMA DataAligned ==
  ASSUME MisalignmentExcluded, NEW addr \in DataAddrs, NEW access
  PROVE  ~MisalignedData(addr, access)
<1> SUFFICES ASSUME CATCH_MISALIGN PROVE ~MisalignedData(addr, access)
  BY DEF MisalignedData
<1>1. addr \in Nat /\ addr % 4 = 0
  BY CoreAssumption, AddressSpace DEF MisalignmentExcluded, Addr
<1>2. addr % 2 = 0
  BY <1>1
<1> QED BY <1>1, <1>2 DEF MisalignedData

\* what the data states leave alone, and how they end
LEMMA DataSteps ==
  ASSUME MisalignmentExcluded, RequestInv, ControlInv, NEW in, StMem(in) \/ LdMem(in)
  PROVE  /\ UNCHANGED <<latched_branch, latched_stalu, latched_rd, latched_compr,
                        reg_pc, reg_next_pc>>
         /\ do_waitirq' = FALSE /\ ~latched_branch
         /\ \/ /\ cpu_state' = cpu_state /\ DefaultTrigger(in)
               /\ Wants("prefetch") /\ ~mem_done(in) => mem_do' = mem_do
               /\ Wants("prefetch") /\ mem_done(in) => mem_do' \subseteq DataRequests
               /\ ~Wants("prefetch") => ~mem_done(in) /\ mem_do \subseteq mem_do'
                                          /\ mem_do' \subseteq DataRequests
            \/ /\ cpu_state' = "fetch" /\ decoder_trigger' = TRUE
               /\ ~Wants("prefetch") /\ mem_done(in) /\ mem_do' = {}
<1>1. PICK request, store : /\ DataTransfer(in, request, store) /\ DataRequests = {request}
                            /\ request \in {"rdata", "wdata"}
                            /\ cpu_state \in {"ldmem", "stmem"}
  BY DEF StMem, LdMem, DataRequests
<1>2. /\ mem_do \in {{"prefetch", "rinst"}, {}, {request}} /\ ~latched_branch
      /\ UNCHANGED <<latched_stalu, latched_compr, reg_pc, reg_next_pc>> /\ do_waitirq' = FALSE
  BY <1>1 DEF RequestInv, DataTransfer, ControlInv, LatchControl
<1> USE DEF Wants, RemainingRequests
<1>3. CASE DataWait(in, store)
  BY <1>1, <1>2, <1>3 DEF DataWait, FetchOver
<1>4. CASE DataStart(in, request, store)
  <2>1. /\ mem_do' = RemainingRequests(in) \cup {request}
        /\ UNCHANGED <<cpu_state, latched_branch, latched_rd>> /\ DefaultTrigger(in)
        /\ request \notin mem_do /\ (~Wants("prefetch") \/ mem_done(in))
        /\ ~(~Wants("prefetch") /\ mem_done(in))
    BY <1>4, DataAligned DEF DataStart, FetchOver, TransferOver
  <2> QED BY <1>1, <1>2, <2>1
<1>5. CASE DataOngoing(in, request, store)
  BY <1>1, <1>2, <1>5 DEF DataOngoing, TransferOver
<1>6. CASE DataEnd(in, request, store)
  BY <1>1, <1>2, <1>6 DEF DataEnd, TransferOver
<1> QED BY <1>1, <1>3, <1>4, <1>5, <1>6 DEF DataTransfer

LEMMA DataControls ==
  ASSUME MisalignmentExcluded, RequestInv, ControlInv, NEW in, StMem(in) \/ LdMem(in),
         Decode(in), trap' = (cpu_state = "trap")
  PROVE  ControlInv'
<1>1. cpu_state \in {"ldmem", "stmem"} /\ ~latched_branch /\ ~latched_stalu
  BY DEF StMem, LdMem, ControlInv, LatchControl
<1>2. /\ ~latched_branch' /\ ~latched_stalu' /\ do_waitirq' = FALSE
      /\ cpu_state' \in {"ldmem", "stmem", "fetch"}
      /\ cpu_state' = "fetch" => mem_do' = {}
  BY <1>1, DataSteps
<1>3. TargetControl' /\ trap' = FALSE
  BY <1>1, DecodedTargets DEF ControlInv
<1> QED BY <1>2, <1>3
    DEF ControlInv, FetchControl, LatchControl, OperandControl, ExecControl, CompareControl,
        TrapControl, Operating

LEMMA TrapControls ==
  ASSUME ControlInv, NEW in, Trap(in), Decode(in), trap' = (cpu_state = "trap")
  PROVE  ControlInv'
<1>0. cpu_state = "trap" /\ ~latched_branch /\ ~latched_stalu
  BY DEF Trap, ControlInv, LatchControl
<1>2. /\ cpu_state' = "trap"
      /\ TargetControl' /\ do_waitirq' = FALSE /\ ~latched_branch' /\ ~latched_stalu'
  BY <1>0, DecodedTargets DEF Trap, KeepLatches, NoStrobes, ControlInv
<1> QED BY <1>0, <1>2
    DEF ControlInv, FetchControl, LatchControl, OperandControl, ExecControl, CompareControl,
        TrapControl, Operating

LEMMA ResetControls ==
  ASSUME ControlInv, Reset
  PROVE  ControlInv'
<1>1. /\ cpu_state' = "fetch" /\ mem_do' = {} /\ latched_branch' = FALSE /\ trap' = FALSE
  BY DEF Reset
<1>2. decoded' = decoded /\ insn' \in {insn, decoded}
  BY DEF Reset
<1>3. TargetControl'
  BY <1>2 DEF ControlInv, TargetControl
<1> QED BY <1>1, <1>3
    DEF ControlInv, FetchControl, LatchControl, OperandControl, ExecControl, CompareControl,
        TrapControl, Operating

(***************************************************************************)
(* Addresses.  The address space is a whole number of words, so a program  *)
(* counter that wraps around stays aligned.                                *)
(***************************************************************************)
IsAligned(a) == Align(a) = a

LEMMA Numbers == \A a \in AddrOrNone : a \in Nat /\ a <= AddrSpace
  BY AddressSpace DEF AddrOrNone

LEMMA Wrapped ==
  ASSUME NEW S \in Nat \ {0}, NEW x \in Nat
  PROVE  /\ x < S => x % S = x
         /\ x >= S /\ x < 2 * S => x % S = x - S
         /\ x = 2 * S => x % S = 0
  BY SMT

\* a sum of an address and an offset, with the wrap spelt out
LEMMA PlusCases ==
  ASSUME NEW a \in AddrOrNone, NEW n \in {2, 4}
  PROVE  /\ Plus(a, n) \in Nat
         /\ a + n < AddrSpace => Plus(a, n) = a + n
         /\ a + n >= AddrSpace /\ a + n < 2 * AddrSpace => Plus(a, n) = a + n - AddrSpace
         /\ a + n >= 2 * AddrSpace => Plus(a, n) = 0 /\ a + n = 2 * AddrSpace
<1>1. AddrSpace \in Nat \ {0} /\ AddrSpace >= 4
  BY MemAssumption
<1>2. a + n \in Nat /\ a + n <= 2 * AddrSpace /\ a \in Nat /\ n \in Nat
  BY <1>1, Numbers
<1>3. PICK x \in Nat : x = a + n
  BY <1>2
<1>4. Plus(a, n) = x % AddrSpace
  BY <1>3 DEF Plus
<1>5. /\ x < AddrSpace => Plus(a, n) = x
      /\ x >= AddrSpace /\ x < 2 * AddrSpace => Plus(a, n) = x - AddrSpace
      /\ x = 2 * AddrSpace => Plus(a, n) = 0
  BY <1>1, <1>4, Wrapped
<1>6. x < AddrSpace \/ (x >= AddrSpace /\ x < 2 * AddrSpace) \/ x = 2 * AddrSpace
  BY <1>1, <1>2, <1>3
<1>7. Plus(a, n) \in Nat
  BY PlusType DEF Addr
<1>8. x >= 2 * AddrSpace => x = 2 * AddrSpace
  BY <1>1, <1>2, <1>3
<1> QED BY <1>1, <1>2, <1>3, <1>5, <1>7, <1>8

\* the two low bits of a sum do not depend on the wrap
LEMMA PlusLowBits ==
  ASSUME NEW a \in AddrOrNone, NEW n \in {2, 4}
  PROVE  Plus(a, n) % 4 = (a + n) % 4
<1>1. AddrSpace \in Nat /\ AddrSpace % 4 = 0 /\ a \in Nat
  BY MemAssumption, Numbers
<1>2. CASE a + n < AddrSpace
  BY <1>2, PlusCases
<1>3. CASE a + n >= AddrSpace /\ a + n < 2 * AddrSpace
  <2>1. (a + n - AddrSpace) % 4 = (a + n) % 4
    BY <1>1, <1>3
  <2> QED BY <1>3, <2>1, PlusCases
<1>4. CASE a + n >= 2 * AddrSpace
  <2>1. (a + n) % 4 = 0
    BY <1>1, <1>4, PlusCases
  <2> QED BY <1>4, <2>1, PlusCases
<1> QED BY <1>1, <1>2, <1>3, <1>4

LEMMA AlignIs ==
  ASSUME NEW a \in AddrOrNone
  PROVE  /\ IsAligned(a) <=> IF COMPRESSED_ISA THEN a % 4 \in {0, 2} ELSE a % 4 = 0
         /\ Misaligned(a) <=> ~IsAligned(a)
         /\ IsAligned(Align(a)) /\ WordOf(Align(a)) = WordOf(a)
         /\ a % 2 = 0 => (COMPRESSED_ISA => Align(a) = a)
<1>1. a \in Nat
  BY Numbers
<1>2. Align(a) \in AddrOrNone
  BY AlignType
<1>3. CASE COMPRESSED_ISA
  <2>1. /\ Align(a) = a - (a % 2)
        /\ Align(Align(a)) = (a - (a % 2)) - ((a - (a % 2)) % 2)
    BY <1>3 DEF Align
  <2>2. /\ (a - (a % 2)) % 2 = 0
        /\ a - (a % 2) = a <=> a % 2 = 0
        /\ (a - (a % 2)) - ((a - (a % 2)) % 4) = a - (a % 4)
        /\ a % 2 = 0 <=> a % 4 \in {0, 2}
    BY <1>1
  <2> QED BY <1>1, <1>3, <2>1, <2>2 DEF IsAligned, Misaligned, WordOf
<1>4. CASE ~COMPRESSED_ISA
  <2>1. /\ Align(a) = a - (a % 4)
        /\ Align(Align(a)) = (a - (a % 4)) - ((a - (a % 4)) % 4)
    BY <1>4 DEF Align
  <2>2. /\ (a - (a % 4)) % 4 = 0
        /\ a - (a % 4) = a <=> a % 4 = 0
    BY <1>1
  <2> QED BY <1>1, <1>4, <2>1, <2>2 DEF IsAligned, Misaligned, WordOf
<1> QED BY <1>3, <1>4

\* an aligned address is that of a word, or in the upper half of one
LEMMA WordIs ==
  ASSUME NEW a \in AddrOrNone, IsAligned(a)
  PROVE  /\ ~(COMPRESSED_ISA /\ UpperHalf(a)) => WordOf(a) = a
         /\ COMPRESSED_ISA /\ UpperHalf(a) =>
              Plus(WordOf(a), 2) = a /\ Plus(WordOf(a), 4) = Plus(a, 2)
<1>1. a \in Nat /\ a <= AddrSpace /\ AddrSpace \in Nat /\ AddrSpace % 4 = 0 /\ AddrSpace >= 4
  BY MemAssumption, Numbers
<1>2. ~(COMPRESSED_ISA /\ UpperHalf(a)) => a % 4 = 0
  BY <1>1, AlignIs DEF UpperHalf
<1>3. ASSUME COMPRESSED_ISA, UpperHalf(a)
      PROVE  Plus(WordOf(a), 2) = a /\ Plus(WordOf(a), 4) = Plus(a, 2)
  <2>1. a % 4 = 2
    BY <1>1, <1>3, AlignIs DEF UpperHalf
  <2>2. a - 2 \in Nat /\ a < AddrSpace /\ WordOf(a) = a - 2
    BY <1>1, <2>1 DEF WordOf
  <2>3. (a - 2) + 2 = a /\ (a - 2) + 4 = a + 2
    BY <1>1
  <2>4. Plus(WordOf(a), 2) = a % AddrSpace /\ Plus(WordOf(a), 4) = (a + 2) % AddrSpace
    BY <2>2, <2>3 DEF Plus
  <2> QED BY <1>1, <2>2, <2>4, Wrapped DEF Plus
<1>4. a % 4 = 0 => WordOf(a) = a
  BY <1>1 DEF WordOf
<1> QED BY <1>2, <1>3, <1>4

\* the address of the next instruction
LEMMA NextIs ==
  ASSUME NEW a \in AddrOrNone, IsAligned(a)
  PROVE  /\ IsAligned(Plus(a, 4)) /\ (COMPRESSED_ISA => IsAligned(Plus(a, 2)))
         /\ UpperHalf(Plus(a, 4)) <=> UpperHalf(a)
         /\ COMPRESSED_ISA => (UpperHalf(Plus(a, 2)) <=> ~UpperHalf(a))
         /\ COMPRESSED_ISA /\ UpperHalf(a) => Plus(Plus(a, 2), 2) = Plus(a, 4)
<1>0. a \in Nat /\ a <= AddrSpace /\ AddrSpace \in Nat /\ AddrSpace % 4 = 0 /\ AddrSpace >= 4
  BY MemAssumption, Numbers
<1>1. Plus(a, 2) \in AddrOrNone /\ Plus(a, 4) \in AddrOrNone
  BY PlusType, Addresses
<1>2. Plus(a, 2) % 4 = (a + 2) % 4 /\ Plus(a, 4) % 4 = (a + 4) % 4
  BY PlusLowBits
<1>3. (a + 4) % 4 = a % 4
  BY <1>0
<1>4. /\ a % 4 = 0 => (a + 2) % 4 = 2
      /\ a % 4 = 2 => (a + 2) % 4 = 0
  BY <1>0
<1>5. IsAligned(Plus(a, 4)) /\ (COMPRESSED_ISA => IsAligned(Plus(a, 2)))
  <2>1. IF COMPRESSED_ISA THEN a % 4 \in {0, 2} ELSE a % 4 = 0
    BY AlignIs
  <2>2. IF COMPRESSED_ISA THEN Plus(a, 4) % 4 \in {0, 2} ELSE Plus(a, 4) % 4 = 0
    BY <1>2, <1>3, <2>1
  <2>3. COMPRESSED_ISA => Plus(a, 2) % 4 \in {0, 2}
    BY <1>2, <1>4, <2>1
  <2> QED BY <1>1, <2>2, <2>3, AlignIs
<1>6. UpperHalf(Plus(a, 4)) <=> UpperHalf(a)
  BY <1>2, <1>3 DEF UpperHalf
<1>7. COMPRESSED_ISA => (UpperHalf(Plus(a, 2)) <=> ~UpperHalf(a))
  <2>1. COMPRESSED_ISA => a % 4 \in {0, 2}
    BY AlignIs
  <2> QED BY <1>2, <1>4, <2>1 DEF UpperHalf
<1>8. ASSUME COMPRESSED_ISA, UpperHalf(a) PROVE Plus(Plus(a, 2), 2) = Plus(a, 4)
  <2>1. a % 4 = 2 /\ a <= AddrSpace - 2
    BY <1>0, <1>8, AlignIs DEF UpperHalf
  <2>2. CASE a = AddrSpace - 2
    <3>1. Plus(a, 2) = 0
      BY <1>0, <2>2, PlusCases
    <3>2. 0 \in AddrOrNone /\ 0 + 2 < AddrSpace /\ a + 4 < 2 * AddrSpace /\ a + 4 >= AddrSpace
      BY <1>0, <2>2 DEF AddrOrNone
    <3>3. Plus(0, 2) = 2
      BY <3>2, PlusCases
    <3>4. Plus(a, 4) = a + 4 - AddrSpace
      BY <3>2, PlusCases
    <3> QED BY <1>0, <2>2, <3>1, <3>3, <3>4
  <2>3. CASE a < AddrSpace - 2
    <3>1. Plus(a, 2) = a + 2
      BY <1>0, <2>3, PlusCases
    <3>2. Plus(a + 2, 2) = ((a + 2) + 2) % AddrSpace /\ (a + 2) + 2 = a + 4
      BY <1>0 DEF Plus
    <3> QED BY <3>1, <3>2 DEF Plus
  <2> QED BY <1>0, <2>1, <2>2, <2>3
<1> QED BY <1>5, <1>6, <1>7, <1>8

(***************************************************************************)
(* In a program without misaligned jumps every address a jump can take is  *)
(* aligned, so cpu_state_fetch never raises the exception for them.        *)
(***************************************************************************)
JumpsAligned ==
  CATCH_MISALIGN =>
    /\ IsAligned(reg_out) /\ IsAligned(alu_out_q) /\ IsAligned(mepc) /\ IsAligned(reg_pc)
    /\ IsAligned(insn.target) /\ IsAligned(decoded.target)

LEMMA ConstantsAligned ==
  IsAligned(None) /\ IsAligned(PROGADDR_IRQ) /\ IsAligned(PROGADDR_RESET)
<1>1. None % 4 = 0
  BY MemAssumption DEF None
<1>2. \A a \in {PROGADDR_IRQ, PROGADDR_RESET} : a % (IF COMPRESSED_ISA THEN 2 ELSE 4) = 0
  BY CoreAssumption
<1>3. \A a \in {PROGADDR_IRQ, PROGADDR_RESET} :
        IF COMPRESSED_ISA THEN a % 2 = 0 ELSE a % 4 = 0
  BY <1>2
<1>4. PROGADDR_IRQ \in Nat /\ PROGADDR_RESET \in Nat
  BY Addresses, Numbers
<1>5. \A a \in {PROGADDR_IRQ, PROGADDR_RESET} :
        IF COMPRESSED_ISA THEN a % 4 \in {0, 2} ELSE a % 4 = 0
  <2>1. \A a \in Nat : a % 2 = 0 => a % 4 \in {0, 2}
    OBVIOUS
  <2> QED BY <1>3, <1>4, <2>1
<1>6. IsAligned(None)
  BY <1>1, Addresses, AlignIs
<1> QED BY <1>5, <1>6, Addresses, AlignIs

\* where the state machine gets the addresses from that it jumps to
LEMMA TrapAddresses ==
  ASSUME NEW in, NEW set, NEW store, NEW branch, NEW rd, DoTrap(in, set, store, branch, rd)
  PROVE  reg_out' \in {None, PROGADDR_IRQ} /\ mepc' \in {mepc, reg_pc}
  BY DEF DoTrap, csrVars

LEMMA JumpAddresses ==
  ASSUME NEW in, NEW w \in Writes, StateMachine(in, w)
  PROVE  /\ reg_out' \in {None, mepc, PROGADDR_IRQ, insn.target}
         /\ mepc' \in {mepc, reg_pc, current_pc} \cup Targets
         /\ reg_pc' \in {reg_pc, PROGADDR_IRQ, current_pc}
<1>1. CASE Fetch(in)
  <2>1. FetchDefaults
    BY <1>1 DEF Fetch, FetchWait, FetchMisalignedJump, FetchInterrupt, FetchWfi, FetchJal,
                FetchLaunch
  <2>2. reg_out' \in {None, PROGADDR_IRQ} /\ mepc' \in {mepc, reg_pc, current_pc}
    <3>1. CASE FetchMisalignedJump(in)
      BY <3>1, TrapAddresses DEF FetchMisalignedJump
    <3>2. CASE ~FetchMisalignedJump(in)
      BY <1>1, <3>2
      DEF Fetch, FetchWait, FetchInterrupt, FetchWfi, FetchJal, FetchLaunch, NoBranch, csrVars
    <3> QED BY <3>1, <3>2
  <2> QED BY <2>1, <2>2 DEF FetchDefaults
<1>2. CASE LdRs1(in, w)
  <2>1. CASE LdRs1Trap(in)
    <3>1. CASE DoInstrTrap(in)
      BY <1>2, <3>1, TrapAddresses DEF LdRs1, KeepPc, DoInstrTrap
    <3>2. CASE ~DoInstrTrap(in)
      BY <1>2, <2>1, <3>2 DEF LdRs1, KeepPc, LdRs1Trap, PcpiReady, PcpiWait, csrVars
    <3> QED BY <3>1, <3>2
  <2>2. CASE LdRs1Counter(in) \/ LdRs1Mret(in) \/ LdRs1Operands(in)
    BY <1>2, <2>2 DEF LdRs1, KeepPc, LdRs1Counter, LdRs1Mret, LdRs1Operands, ReadsOut, Operands,
                      csrVars
  <2>3. CASE LdRs1Csr(in, w)
    <3>1. w.csr = "mepc" => w.addr \in Targets
      <4>1. w \in CsrWrites \/ w.csr = "none"
        BY DEF Writes, NoWrite
      <4> QED BY <4>1 DEF CsrWrites
    <3> QED BY <1>2, <2>3, <3>1 DEF LdRs1, KeepPc, LdRs1Csr, ReadsOut
  <2> QED BY <1>2, <2>1, <2>2, <2>3 DEF LdRs1
<1>3. CASE LdRs2(in)
  <2>1. CASE DoInstrTrap(in)
    BY <1>3, <2>1, TrapAddresses DEF LdRs2, KeepPc, DoInstrTrap
  <2>2. CASE ~DoInstrTrap(in)
    BY <1>3, <2>2 DEF LdRs2, KeepPc, PcpiReady, PcpiWait, csrVars
  <2> QED BY <2>1, <2>2
<1>4. CASE Exec(in) \/ Shift(in) \/ Trap(in)
  BY <1>4 DEF Exec, Shift, Trap, KeepPc, ExecTarget, csrVars
<1>5. ASSUME NEW request, NEW store, DataTransfer(in, request, store)
      PROVE  reg_out' \in {None, PROGADDR_IRQ} /\ mepc' \in {mepc, reg_pc} /\ reg_pc' = reg_pc
  <2>1. CASE DataStart(in, request, store)
    <3>1. CASE \E access, addr : DoTrap(in, TRUE, store, latched_branch, latched_rd)
      BY <1>5, <3>1, TrapAddresses DEF DataTransfer
    <3>2. CASE UNCHANGED csrVars /\ reg_out' = None
      BY <1>5, <3>2 DEF DataTransfer, csrVars
    <3> QED BY <2>1, <3>1, <3>2 DEF DataStart
  <2>2. CASE DataWait(in, store) \/ DataOngoing(in, request, store) \/ DataEnd(in, request, store)
    BY <1>5, <2>2 DEF DataTransfer, DataWait, DataOngoing, DataEnd, csrVars
  <2> QED BY <1>5, <2>1, <2>2 DEF DataTransfer
<1>6. CASE StMem(in) \/ LdMem(in)
  BY <1>5, <1>6 DEF StMem, LdMem
<1> QED BY <1>1, <1>2, <1>3, <1>4, <1>6 DEF StateMachine

LEMMA JumpsStayAligned ==
  ASSUME MisalignmentExcluded, TypeOK, JumpsAligned, NEW in, NEW w \in Writes,
         StateMachine(in, w), Decode(in), AluRegisters
  PROVE  JumpsAligned'
<1> SUFFICES ASSUME CATCH_MISALIGN PROVE JumpsAligned'
  BY DEF JumpsAligned
<1>1. \A t \in Targets : IsAligned(t)
  BY DEF MisalignmentExcluded, IsAligned
<1>2. IsAligned(current_pc)
  <2>1. JumpedTo \in AddrOrNone
    BY CurrentPcType, TypesFromParts DEF TypeOK
  <2> QED BY <2>1, AlignIs DEF current_pc
<1>3. IsAligned(reg_out') /\ IsAligned(mepc') /\ IsAligned(reg_pc')
  BY <1>1, <1>2, JumpAddresses, ConstantsAligned DEF JumpsAligned
<1>4. IsAligned(alu_out_q')
  BY ConstantsAligned DEF JumpsAligned, AluRegisters
<1>5. IsAligned(decoded'.target)
  <2>1. CASE Wants("rinst") /\ mem_done(in)
    <3>1. decoded' \in Decodings(mem_rdata_latched(in))
      BY <2>1 DEF Decode
    <3>2. decoded'.target \in TargetsOf(decoded'.kind)
      BY <3>1 DEF Decodings
    <3> QED BY <1>1, <3>2, ConstantsAligned DEF TargetsOf
  <2>2. CASE ~(Wants("rinst") /\ mem_done(in))
    BY <2>2 DEF Decode, JumpsAligned
  <2> QED BY <2>1, <2>2
<1>6. IsAligned(insn'.target)
  BY DEF Decode, JumpsAligned
<1> QED BY <1>3, <1>4, <1>5, <1>6 DEF JumpsAligned, IsAligned, Align

LEMMA NoMisalignedJump ==
  ASSUME TypeOK, JumpsAligned, IsAligned(reg_next_pc)
  PROVE  ~MisalignedJump
<1>1. JumpedTo \in AddrOrNone
  BY CurrentPcType, TypesFromParts DEF TypeOK
<1>2. CATCH_MISALIGN => IsAligned(JumpedTo)
  BY DEF JumpsAligned, JumpedTo
<1> QED BY <1>1, <1>2, AlignIs DEF MisalignedJump

LEMMA JumpsAlignedInit ==
  ASSUME MisalignmentExcluded, Init
  PROVE  JumpsAligned
<1>1. CATCH_MISALIGN => \A t \in Targets : IsAligned(t)
  BY DEF MisalignmentExcluded, IsAligned
<1> QED BY <1>1, ConstantsAligned DEF JumpsAligned, Init, MemInit, NoInstruction

LEMMA ResetAligned ==
  ASSUME JumpsAligned, Reset
  PROVE  JumpsAligned'
<1>1. insn' \in {insn, decoded} /\ decoded' = decoded /\ mepc' = mepc
      /\ reg_out' = None /\ reg_pc' = PROGADDR_RESET /\ alu_out_q' \in {insn.target, None}
  BY DEF Reset, AluRegisters
<1> QED BY <1>1, ConstantsAligned DEF JumpsAligned, IsAligned, Align

(***************************************************************************)
(* What the memory interface knows.  The address the program counter asks  *)
(* for is Wanted; the bus, the halfword buffer and the word that was read  *)
(* last follow it, except while a taken branch waits for the fetch it      *)
(* drops.                                                                  *)
(***************************************************************************)
Wanted == IF cpu_state = "fetch" THEN current_pc ELSE reg_next_pc
Upper(a) == COMPRESSED_ISA /\ UpperHalf(a)
Following == ~trap /\ Fetching /\ ~Dropped
BufferHolds(a) == prefetched_high_word /\ ~latched_branch /\ mem_16bit_buffer.at = a

BufferInv == prefetched_high_word => ~clear_prefetched_high_word_q

\* the bus, whatever the addresses
BusInv ==
  ~trap =>
    /\ mem_state \in {"IDLE", "WAIT_FETCH"} => ~mem_valid
    /\ mem_state = "WRITE" => mem_valid /\ mem_write /\ ~mem_instr /\ mem_do = {"wdata"}
    /\ mem_state = "WAIT_FETCH" => ~mem_write /\ Wants("prefetch") /\ ~latched_branch
    /\ mem_state = "READ" =>
         /\ ~mem_write /\ (mem_instr <=> Fetching)
         /\ Fetching \/ (mem_do = {"rdata"} /\ mem_valid)
         /\ cpu_state = "fetch" => ~latched_branch
    /\ mem_la_secondword =>
         mem_state = "READ" /\ mem_valid /\ COMPRESSED_ISA /\ Wants("rinst")
    /\ last_mem_valid => mem_valid
    /\ last_mem_valid /\ mem_la_firstword_reg => mem_la_firstword \/ mem_la_secondword

\* A request that has not started: the buffer holds the halfword if there is
\* one to use, and a prefetch never starts at an odd halfword without it.
IdleInv ==
  Following /\ mem_state = "IDLE" =>
    /\ Wants("prefetch") => cpu_state = "ld_rs1"
    /\ Upper(Wanted) =>
         \/ BufferHolds(Wanted)
         \/ ~Wants("prefetch") /\ (latched_branch \/ ~prefetched_high_word)

\* a read of the first word, of the second, or of the buffer alone
ReadInv ==
  Following /\ mem_state = "READ" =>
    /\ mem_valid /\ ~mem_la_secondword =>
         /\ mem_addr = WordOf(Wanted)
         /\ Upper(Wanted) => ~prefetched_high_word /\ ~Wants("prefetch")
         /\ last_mem_valid => (mem_la_firstword_reg <=> mem_la_firstword)
    /\ mem_la_secondword =>
         /\ mem_addr = Plus(WordOf(Wanted), 4) /\ Upper(Wanted)
         /\ mem_16bit_buffer.at = Wanted /\ mem_16bit_buffer.wide
    /\ ~mem_valid => Upper(Wanted) /\ BufferHolds(Wanted)

\* the halves of an instruction, and the halfword after a 16-bit one
HoldsWord(w, a) ==
  /\ w.lo.at = a
  /\ ~COMPRESSED_ISA => w.lo.wide
  /\ COMPRESSED_ISA /\ w.lo.wide => w.hi.at = Plus(a, 2)

\* a prefetched word that waits to be claimed
WaitInv ==
  Following /\ mem_state = "WAIT_FETCH" =>
    /\ HoldsWord(mem_rdata_q, Wanted) /\ ~Upper(Wanted)
    /\ COMPRESSED_ISA /\ ~mem_rdata_q.lo.wide => BufferHolds(Plus(Wanted, 2))

DroppedInv ==
  Dropped => mem_state \in {"IDLE", "READ"} /\ (mem_state = "READ" => mem_valid)

\* an instruction that is decoded and not launched yet
Held ==
  \/ cpu_state = "fetch" /\ (decoder_trigger \/ do_waitirq)
  \/ cpu_state \in {"ldmem", "stmem"} /\ ~Wants("prefetch")

After == Plus(Wanted, Length(decoded))

HeldInv ==
  Held =>
    /\ decoded.at = Wanted /\ ~latched_branch
    /\ ~COMPRESSED_ISA => decoded.wide
    /\ COMPRESSED_ISA /\ decoded.wide => decoded.upper = Plus(Wanted, 2)
    /\ Upper(After) => BufferHolds(After)

\* nothing asked for and nothing held, as after an interrupt
EmptyInv ==
  cpu_state = "fetch" /\ mem_do = {} /\ ~Held /\ ~latched_branch =>
    ~Upper(reg_next_pc) \/ ~prefetched_high_word

MemInv ==
  /\ BufferInv /\ BusInv /\ IdleInv /\ ReadInv /\ WaitInv /\ DroppedInv /\ HeldInv /\ EmptyInv

\* what the state machine guarantees the memory interface
PcInv ==
  /\ TypeOK /\ RequestInv /\ ControlInv /\ JumpsAligned /\ IsAligned(reg_next_pc)
  /\ do_waitirq => MACHINE_ISA /\ decoded.kind = "wfi"

(***************************************************************************)
(* Wires                                                                   *)
(***************************************************************************)
LEMMA WantedType ==
  ASSUME PcInv
  PROVE  Wanted \in AddrOrNone /\ IsAligned(Wanted)
<1>1. JumpedTo \in AddrOrNone /\ current_pc \in AddrOrNone
  BY CurrentPcType, TypesFromParts DEF PcInv, TypeOK
<1>2. reg_next_pc \in AddrOrNone
  BY DEF PcInv, TypeOK, MemTypeOK, RequestTypeOK
<1>3. IsAligned(current_pc)
  BY <1>1, AlignIs DEF current_pc
<1> QED BY <1>1, <1>2, <1>3 DEF Wanted, PcInv

\* the address the memory interface reads from is that of the program counter
LEMMA NextPcIsWanted ==
  ASSUME PcInv, mem_do # {}, ~Dropped
  PROVE  WordOf(next_pc) = WordOf(Wanted) /\ (COMPRESSED_ISA => next_pc = Wanted)
<1>1. reg_next_pc \in AddrOrNone /\ reg_out \in AddrOrNone
  BY DEF PcInv, TypeOK, MemTypeOK, RequestTypeOK
<1>2. CASE cpu_state = "fetch"
  <2>1. Wanted = Align(JumpedTo)
    BY <1>2 DEF Wanted, current_pc
  <2>2. CASE latched_store /\ latched_branch
    <3>1. ~latched_stalu /\ reg_out % 2 = 0
      BY <1>2, <2>2 DEF PcInv, ControlInv, FetchControl
    <3>2. next_pc = reg_out /\ JumpedTo = reg_out
      BY <2>2, <3>1 DEF next_pc, JumpedTo
    <3> QED BY <1>1, <2>1, <3>1, <3>2, AlignIs
  <2>3. CASE ~(latched_store /\ latched_branch)
    <3>1. next_pc = reg_next_pc /\ JumpedTo = reg_next_pc
      BY <2>3 DEF next_pc, JumpedTo
    <3> QED BY <1>1, <2>1, <3>1 DEF PcInv, IsAligned
  <2> QED BY <2>2, <2>3
<1>3. CASE cpu_state # "fetch"
  BY <1>3 DEF PcInv, ControlInv, LatchControl, Dropped, next_pc, Wanted
<1> QED BY <1>2, <1>3

LEMMA Firstword ==
  PcInv /\ Fetching /\ ~Dropped => (mem_la_firstword <=> Upper(Wanted) /\ ~mem_la_secondword)
<1>1. Fetching => mem_do # {}
  BY DEF Fetching, Wants
<1> QED BY <1>1, NextPcIsWanted DEF mem_la_firstword, Upper

LEMMA FirstwordNext ==
  (PcInv /\ Fetching /\ ~Dropped => (mem_la_firstword <=> Upper(Wanted) /\ ~mem_la_secondword))'
  BY Firstword, PTL

\* the halfword buffer is discarded by a jump and by nothing else
LEMMA Buffered ==
  ASSUME BufferInv
  PROVE  /\ prefetched_high_word =>
              (clear_prefetched_high_word <=> latched_branch /\ COMPRESSED_ISA)
         /\ mem_la_use_prefetched_high_word <=>
              mem_la_firstword /\ prefetched_high_word /\ ~latched_branch
  BY DEF BufferInv, clear_prefetched_high_word, mem_la_use_prefetched_high_word,
         mem_la_firstword

\* the word the memory answers with
LEMMA MemoryWord ==
  ASSUME NEW in \in Inputs, mem_valid, in.ready
  PROVE  /\ mem_xfer(in)
         /\ mem_rdata(in).lo.at = mem_addr /\ mem_rdata(in).hi.at = Plus(mem_addr, 2)
         /\ ~COMPRESSED_ISA => mem_rdata(in).lo.wide
<1>1. ~COMPRESSED_ISA => in.lo
  BY DEF Inputs, MemInputs
<1> QED BY <1>1 DEF mem_xfer, mem_rdata

LEMMA LatchedWord ==
  ASSUME NEW in
  PROVE  /\ mem_la_use_prefetched_high_word =>
              mem_rdata_latched(in) = [lo |-> mem_16bit_buffer, hi |-> NoHalf]
         /\ ~mem_la_use_prefetched_high_word /\ COMPRESSED_ISA /\ mem_la_secondword =>
              mem_rdata_latched(in) =
                [lo |-> mem_16bit_buffer, hi |-> mem_rdata_latched_noshuffle(in).lo]
         /\ ~mem_la_use_prefetched_high_word /\ mem_la_firstword =>
              mem_rdata_latched(in) = [lo |-> mem_rdata_latched_noshuffle(in).hi, hi |-> NoHalf]
         /\ ~mem_la_firstword /\ ~(COMPRESSED_ISA /\ mem_la_secondword) =>
              mem_rdata_latched(in) = mem_rdata_latched_noshuffle(in)
<1>1. mem_la_use_prefetched_high_word => mem_la_firstword
  BY DEF mem_la_use_prefetched_high_word
<1>2. mem_la_firstword => ~mem_la_secondword
  BY DEF mem_la_firstword
<1> QED BY <1>1, <1>2 DEF mem_rdata_latched

(***************************************************************************)
(* Transfers                                                               *)
(***************************************************************************)
\* which action of the bus state machine an edge takes
LEMMA BusActions ==
  ASSUME ~trap, NEW in, MemStep(in)
  PROVE  /\ mem_state = "IDLE" => Idle
         /\ mem_state = "READ" =>
              /\ NeedsSecondWord(in) => ReadSecondWord(in)
              /\ ~NeedsSecondWord(in) /\ mem_xfer(in) => ReadComplete(in)
              /\ ~mem_xfer(in) => BusWait(in)
         /\ mem_state = "WRITE" =>
              IF mem_xfer(in) THEN WriteComplete(in) ELSE BusWait(in)
         /\ mem_state = "WAIT_FETCH" => WaitFetch
         /\ BusAddress(in) /\ EveryEdge(in)
         /\ mem_la_firstword_reg' = FirstwordOfTransfer
         /\ last_mem_valid' = (mem_valid /\ ~in.ready)
         /\ clear_prefetched_high_word_q' = clear_prefetched_high_word
  BY DEF MemStep, Idle, ReadSecondWord, ReadComplete, WriteComplete, BusWait, WaitFetch,
         NeedsSecondWord

LEMMA BufferNext ==
  ASSUME NEW in, MemStep(in)
  PROVE  BufferInv'
<1>1. prefetched_high_word' => ~clear_prefetched_high_word
  BY DEF MemStep, Trapped, Idle, ReadSecondWord, ReadComplete, WriteComplete, BusWait, WaitFetch
<1> QED BY <1>1 DEF BufferInv, MemStep

\* Following a wire that a register remembers: the transfer of the upper half
\* of a word that is running is the one that stands.
LEMMA TransferKnown ==
  ASSUME BusInv, ReadInv, Following, mem_state = "READ", ~mem_la_secondword
  PROVE  FirstwordOfTransfer <=> mem_la_firstword
  BY DEF BusInv, ReadInv, Following, FirstwordOfTransfer

\* the request ends when no second word is needed, and only then
LEMMA DoneIsWhole ==
  ASSUME ~trap, BusInv, NEW in, mem_done(in)
  PROVE  ~NeedsSecondWord(in)
<1> SUFFICES ASSUME NeedsSecondWord(in) PROVE FALSE
  OBVIOUS
<1>1. ~mem_la_firstword
  BY DEF NeedsSecondWord, mem_done
<1> QED BY <1>1 DEF NeedsSecondWord, FirstwordOfTransfer, BusInv

LEMMA WholeIsDone ==
  ASSUME BusInv, ReadInv, Following, mem_state = "READ", Wants("rinst"), NEW in,
         mem_xfer(in), ~NeedsSecondWord(in)
  PROVE  mem_done(in)
<1>1. mem_la_firstword => ~mem_la_secondword
  BY DEF mem_la_firstword
<1>2. mem_la_firstword => ~mem_rdata_latched(in).lo.wide
  BY <1>1, TransferKnown DEF NeedsSecondWord, mem_la_firstword
<1> QED BY <1>2 DEF mem_done, Wants

LEMMA FetchAlone ==
  ASSUME RequestInv, Fetching
  PROVE  mem_do \in {{"prefetch"}, {"rinst"}, {"prefetch", "rinst"}}
  BY DEF RequestInv, Fetching, Wants, DataRequests

\* a request that ends leaves the bus idle
LEMMA DoneEndsTransfer ==
  ASSUME ~trap, RequestInv, BusInv, NEW in, MemStep(in), mem_done(in)
  PROVE  /\ mem_state' = "IDLE" /\ ~mem_valid' /\ ~mem_la_secondword'
         /\ mem_state = "WAIT_FETCH" \/ (mem_state \in {"READ", "WRITE"} /\ mem_xfer(in))
<1>1. ~NeedsSecondWord(in)
  BY DoneIsWhole
<1>2. \/ mem_xfer(in) /\ mem_state # "IDLE" /\ mem_do \cap {"rinst", "rdata", "wdata"} # {}
      \/ mem_state = "WAIT_FETCH" /\ Wants("rinst")
  BY DEF mem_done
<1>3. CASE mem_state = "WAIT_FETCH"
  <2>1. Wants("rinst")
    BY <1>2, <1>3 DEF BusInv, mem_xfer
  <2>2. ~mem_valid /\ ~mem_la_secondword
    BY <1>3 DEF BusInv
  <2> QED BY <1>3, <2>1, <2>2, BusActions DEF WaitFetch
<1>4. CASE mem_state = "READ"
  <2>1. mem_xfer(in) /\ ReadComplete(in)
    BY <1>1, <1>2, <1>4, BusActions
  <2>2. Wants("rinst") \/ Wants("rdata")
    BY <1>2, <1>4, FetchAlone DEF BusInv, Wants
  <2> QED BY <1>4, <2>1, <2>2 DEF ReadComplete
<1>5. CASE mem_state = "WRITE"
  <2>1. mem_xfer(in) /\ WriteComplete(in) /\ ~mem_la_secondword
    BY <1>2, <1>5, BusActions DEF BusInv
  <2> QED BY <1>5, <2>1 DEF WriteComplete
<1>6. mem_state \in {"WAIT_FETCH", "READ", "WRITE"}
  BY <1>2, BusActions DEF MemStep, Idle, ReadSecondWord, ReadComplete, WriteComplete, BusWait,
                          WaitFetch
<1> QED BY <1>3, <1>4, <1>5, <1>6

(***************************************************************************)
(* The fetch goes on: the request stands, the prefetch may be claimed, and *)
(* a branch that is taken meanwhile drops it.                              *)
(***************************************************************************)
GoesOn ==
  /\ mem_do' \in {mem_do, mem_do \cup {"rinst"}}
  /\ Wanted' = Wanted /\ ~Held'
  /\ latched_branch' =>
       Dropped' /\ cpu_state = "exec" /\ mem_do = {"prefetch", "rinst"}

LEMMA GoingOn ==
  ASSUME RequestInv, BusInv, LatchControl, Following, GoesOn, NEW in, MemStep(in)
  PROVE  /\ Fetching' /\ ~Wants("wdata")' /\ ~Wants("rdata") /\ ~Wants("wdata") /\ mem_do # {}
         /\ Wants("rinst") => Wants("rinst")'
         /\ Wants("prefetch") <=> Wants("prefetch")'
         /\ BufferInv' /\ HeldInv' /\ EmptyInv'
         /\ mem_state = "READ" => ~latched_branch
         /\ Dropped' => Wants("rinst") /\ Wants("prefetch") /\ cpu_state = "exec"
<1>1. mem_do \in {{"prefetch"}, {"rinst"}, {"prefetch", "rinst"}}
  BY FetchAlone DEF Following
<1>2. mem_do' \in {{"prefetch"}, {"rinst"}, {"prefetch", "rinst"}}
      /\ (Wants("rinst") => Wants("rinst")') /\ (Wants("prefetch") <=> Wants("prefetch")')
  BY <1>1 DEF GoesOn, Wants
<1>3. mem_state = "READ" => ~latched_branch
  BY DEF Following, BusInv, LatchControl, Dropped
<1>4. Dropped' => Wants("rinst") /\ Wants("prefetch") /\ cpu_state = "exec"
  BY DEF GoesOn, Dropped, Wants
<1>5. Fetching' /\ ~Wants("wdata")' /\ ~Wants("rdata") /\ ~Wants("wdata") /\ mem_do # {}
  BY <1>1, <1>2 DEF Fetching, Wants
<1>6. HeldInv' /\ EmptyInv'
  BY <1>2 DEF GoesOn, HeldInv, EmptyInv
<1> QED BY <1>2, <1>3, <1>4, <1>5, <1>6, BufferNext

\* A read starts, unless the halfword is in the buffer.
LEMMA FetchStarts ==
  ASSUME PcInv, PcInv', MemInv, Following, GoesOn, mem_state = "IDLE",
         NEW in \in Inputs, MemStep(in)
  PROVE  MemInv'
<1>0. ~trap /\ Fetching /\ ~Dropped /\ RequestInv /\ BusInv /\ BufferInv
  BY DEF Following, PcInv, MemInv
<1>1. /\ Fetching' /\ ~Wants("wdata")' /\ ~Wants("rdata") /\ ~Wants("wdata") /\ mem_do # {}
      /\ Wants("prefetch") <=> Wants("prefetch")'
      /\ BufferInv' /\ HeldInv' /\ EmptyInv' 
      /\ Dropped' => Wants("rinst") /\ Wants("prefetch") /\ cpu_state = "exec"
  BY <1>0, GoingOn DEF PcInv, ControlInv
<1>2. /\ Wants("prefetch") => cpu_state = "ld_rs1"
      /\ Upper(Wanted) => \/ BufferHolds(Wanted)
                          \/ ~Wants("prefetch") /\ (latched_branch \/ ~prefetched_high_word)
  BY DEF MemInv, IdleInv
<1>3. ~Dropped' /\ ~latched_branch'
  BY <1>1, <1>2 DEF GoesOn
<1>4. ~mem_valid /\ ~mem_la_secondword
  BY <1>0 DEF BusInv
<1>5. Idle /\ BusAddress(in) /\ last_mem_valid' = FALSE
  BY <1>0, <1>4, BusActions
<1>6. /\ mem_state' = "READ" /\ (mem_valid' <=> ~mem_la_use_prefetched_high_word)
      /\ mem_instr' = Fetching
      /\ mem_la_secondword' = mem_la_secondword /\ mem_16bit_buffer' = mem_16bit_buffer
      /\ prefetched_high_word' <=> prefetched_high_word /\ ~clear_prefetched_high_word
  BY <1>1, <1>5 DEF Idle
<1>7. ~mem_write'
  <2>1. StartsRead /\ ~mem_la_write
    BY <1>1, <1>0 DEF StartsRead, mem_la_write, Fetching, Wants
  <2> QED BY <1>5, <2>1 DEF BusAddress
<1>8. mem_la_firstword <=> Upper(Wanted)
  BY <1>0, <1>4, Firstword
<1>9. ~mem_la_use_prefetched_high_word => mem_addr' = WordOf(Wanted)
  <2>1. SUFFICES ASSUME ~mem_la_use_prefetched_high_word PROVE mem_addr' = WordOf(Wanted)
    OBVIOUS
  <2>2. ~mem_xfer(in) /\ mem_la_read(in)
    BY <1>0, <1>4, <2>1 DEF mem_xfer, mem_la_read, Fetching, Wants
  <2>3. mem_addr' = WordOf(next_pc)
    BY <1>0, <1>5, <2>2 DEF BusAddress, mem_la_addr
  <2> QED BY <1>0, <1>1, <2>3, NextPcIsWanted
<1>10. Wanted' = Wanted
  BY DEF GoesOn
<1>11. BusInv'
  BY <1>0, <1>1, <1>3, <1>4, <1>5, <1>6, <1>7 DEF BusInv
<1>12. ReadInv'
  <2>1. CASE mem_la_use_prefetched_high_word
    <3>1. Upper(Wanted) /\ prefetched_high_word /\ ~latched_branch
      BY <1>0, <1>8, <2>1, Buffered
    <3>2. BufferHolds(Wanted) /\ prefetched_high_word'
      BY <1>0, <1>2, <1>6, <3>1, Buffered
    <3> QED BY <1>3, <1>4, <1>6, <1>10, <2>1, <3>1, <3>2 DEF ReadInv, BufferHolds, Upper
  <2>2. CASE ~mem_la_use_prefetched_high_word
    <3>1. Upper(Wanted) => ~BufferHolds(Wanted)
      BY <1>0, <1>8, <2>2, Buffered DEF BufferHolds
    <3>2. Upper(Wanted) => ~Wants("prefetch")' /\ ~prefetched_high_word'
      BY <1>0, <1>1, <1>2, <1>6, <3>1, Buffered DEF Upper
    <3> QED BY <1>4, <1>5, <1>6, <1>9, <1>10, <2>2, <3>2 DEF ReadInv, Upper
  <2> QED BY <2>1, <2>2
<1> QED BY <1>1, <1>3, <1>6, <1>11, <1>12
    DEF MemInv, IdleInv, WaitInv, DroppedInv

\* A read that waits for the memory stays what it is.  A branch that drops it
\* has the prefetch for the instruction after it, which started a word.
LEMMA FetchWaits ==
  ASSUME PcInv, PcInv', MemInv, Following, GoesOn, mem_state = "READ",
         NEW in \in Inputs, MemStep(in), ~mem_xfer(in)
  PROVE  MemInv'
<1>0. ~trap /\ Fetching /\ ~Dropped /\ RequestInv /\ BusInv /\ BufferInv
  BY DEF Following, PcInv, MemInv
<1>1. /\ Fetching' /\ ~Wants("wdata")' /\ ~Wants("rdata") /\ ~Wants("wdata") /\ mem_do # {}
      /\ Wants("rinst") => Wants("rinst")'
      /\ Wants("prefetch") <=> Wants("prefetch")'
      /\ BufferInv' /\ HeldInv' /\ EmptyInv' /\ ~latched_branch
      /\ Dropped' => Wants("rinst") /\ Wants("prefetch") /\ cpu_state = "exec"
  BY <1>0, GoingOn DEF PcInv, ControlInv
<1>2. /\ mem_valid /\ ~mem_la_secondword =>
           /\ mem_addr = WordOf(Wanted)
           /\ Upper(Wanted) => ~prefetched_high_word /\ ~Wants("prefetch")
           /\ last_mem_valid => (mem_la_firstword_reg <=> mem_la_firstword)
      /\ mem_la_secondword =>
           /\ mem_addr = Plus(WordOf(Wanted), 4) /\ Upper(Wanted)
           /\ mem_16bit_buffer.at = Wanted /\ mem_16bit_buffer.wide
      /\ ~mem_valid => Upper(Wanted) /\ BufferHolds(Wanted)
  BY DEF MemInv, ReadInv
<1>3. BusWait(in) /\ BusAddress(in) /\ (last_mem_valid' <=> mem_valid)
      /\ mem_la_firstword_reg' = FirstwordOfTransfer
  <2>1. mem_valid => ~in.ready
    BY DEF mem_xfer
  <2>2. last_mem_valid' = (mem_valid /\ ~in.ready)
    BY <1>0, BusActions
  <2> QED BY <1>0, <2>1, <2>2, BusActions
<1>4. /\ mem_state' = "READ" /\ mem_valid' = mem_valid /\ mem_instr' = mem_instr
      /\ mem_la_secondword' = mem_la_secondword /\ mem_16bit_buffer' = mem_16bit_buffer
      /\ prefetched_high_word' <=> prefetched_high_word
  BY <1>0, <1>1, <1>3, Buffered DEF BusWait
<1>5. mem_addr' = mem_addr /\ ~mem_write'
  <2>1. ~mem_la_read(in) /\ ~mem_la_write
    BY DEF mem_la_read, mem_la_write, NeedsSecondWord
  <2> QED BY <1>0, <1>3, <2>1 DEF BusAddress, BusInv
<1>6. Wanted' = Wanted
  BY DEF GoesOn
<1>7. mem_la_firstword <=> Upper(Wanted) /\ ~mem_la_secondword
  BY <1>0, Firstword
<1>8. ~mem_la_secondword => (FirstwordOfTransfer <=> Upper(Wanted))
  BY <1>0, <1>7, TransferKnown DEF MemInv
<1>9. ~Dropped' => (mem_la_firstword' <=> Upper(Wanted) /\ ~mem_la_secondword')
  BY <1>1, <1>6, FirstwordNext DEF Upper
<1>10. Dropped' => mem_valid /\ ~(Upper(Wanted) /\ ~mem_la_secondword)
  <2>1. ASSUME Dropped', ~mem_valid PROVE FALSE
    <3>1. mem_la_use_prefetched_high_word
      BY <1>0, <1>2, <1>7, <2>1, Buffered DEF BufferHolds, BusInv
    <3> QED BY <1>1, <2>1, <3>1 DEF mem_xfer
  <2> QED BY <1>1, <1>2, <2>1
<1>11. mem_valid /\ ~mem_la_secondword => (mem_la_firstword_reg' <=> Upper(Wanted))
  BY <1>3, <1>8
<1>12. BusInv'
  <2>1. last_mem_valid' /\ mem_la_firstword_reg' => mem_la_firstword' \/ mem_la_secondword'
    BY <1>3, <1>4, <1>9, <1>10, <1>11
  <2>2. cpu_state' = "fetch" => ~latched_branch'
    BY DEF GoesOn, Dropped
  <2> QED BY <1>0, <1>1, <1>3, <1>4, <1>5, <2>1, <2>2 DEF BusInv
<1>13. ReadInv'
  <2> SUFFICES ASSUME ~Dropped' PROVE ReadInv'
    BY DEF ReadInv, Following
  <2>1. ~latched_branch'
    BY DEF GoesOn
  <2>2. mem_valid' /\ ~mem_la_secondword' =>
           /\ mem_addr' = WordOf(Wanted')
           /\ Upper(Wanted') => ~prefetched_high_word' /\ ~Wants("prefetch")'
           /\ last_mem_valid' => (mem_la_firstword_reg' <=> mem_la_firstword')
    BY <1>1, <1>2, <1>4, <1>5, <1>6, <1>9, <1>11
  <2>3. mem_la_secondword' =>
           /\ mem_addr' = Plus(WordOf(Wanted'), 4) /\ Upper(Wanted')
           /\ mem_16bit_buffer'.at = Wanted' /\ mem_16bit_buffer'.wide
    BY <1>2, <1>4, <1>5, <1>6
  <2>4. ~mem_valid' => Upper(Wanted') /\ BufferHolds(Wanted)'
    BY <1>2, <1>4, <1>6, <2>1 DEF BufferHolds
  <2> QED BY <2>2, <2>3, <2>4 DEF ReadInv, Upper
<1> QED BY <1>1, <1>4, <1>10, <1>12, <1>13
    DEF MemInv, IdleInv, WaitInv, DroppedInv

\* The second word is asked for; the half in the first is in the buffer.
LEMMA SecondWordStarts ==
  ASSUME PcInv, PcInv', MemInv, Following, GoesOn, mem_state = "READ",
         NEW in \in Inputs, MemStep(in), NeedsSecondWord(in)
  PROVE  MemInv'
<1>0. ~trap /\ Fetching /\ ~Dropped /\ RequestInv /\ BusInv /\ BufferInv
  BY DEF Following, PcInv, MemInv
<1>1. /\ Fetching' /\ ~Wants("wdata")' /\ ~Wants("rdata") /\ ~Wants("wdata") /\ mem_do # {}
      /\ Wants("rinst") => Wants("rinst")'
      /\ BufferInv' /\ HeldInv' /\ EmptyInv' /\ ~latched_branch
  BY <1>0, GoingOn DEF PcInv, ControlInv
<1>2. /\ COMPRESSED_ISA /\ mem_xfer(in) /\ FirstwordOfTransfer /\ ~mem_la_secondword
      /\ mem_rdata_latched(in).lo.wide
  BY DEF NeedsSecondWord
<1>3. mem_la_firstword /\ Upper(Wanted)
  BY <1>0, <1>2, TransferKnown, Firstword DEF MemInv
<1>4. /\ mem_valid =>
           /\ mem_addr = WordOf(Wanted) /\ ~prefetched_high_word /\ ~Wants("prefetch")
      /\ ~mem_valid => BufferHolds(Wanted)
  BY <1>2, <1>3 DEF MemInv, ReadInv
<1>5. ReadSecondWord(in) /\ BusAddress(in)
  BY <1>0, BusActions
<1>6. /\ mem_state' = "READ" /\ mem_valid' /\ mem_la_secondword' /\ mem_instr' = mem_instr
      /\ mem_16bit_buffer' = IF mem_la_use_prefetched_high_word THEN mem_16bit_buffer
                             ELSE mem_rdata(in).hi
  BY <1>5 DEF ReadSecondWord
<1>7. mem_addr' = Plus(WordOf(Wanted), 4) /\ ~mem_write'
  <2>1. mem_la_read(in) /\ ~mem_la_write
    BY <1>0 DEF mem_la_read, mem_la_write
  <2>2. mem_addr' = Plus(WordOf(next_pc), 4)
    BY <1>0, <1>2, <1>5, <2>1 DEF BusAddress, mem_la_addr
  <2> QED BY <1>0, <1>1, <1>5, <2>1, <2>2, NextPcIsWanted DEF BusAddress
<1>8. Wants("rinst")
  BY <1>0, <1>2, <1>4 DEF mem_xfer, Fetching
<1>9. mem_16bit_buffer'.at = Wanted /\ mem_16bit_buffer'.wide
  <2>1. CASE mem_la_use_prefetched_high_word
    <3>1. ~mem_valid
      BY <1>0, <1>4, <2>1, Buffered
    <3> QED BY <1>2, <1>4, <1>6, <2>1, <3>1, LatchedWord DEF BufferHolds
  <2>2. CASE ~mem_la_use_prefetched_high_word
    <3>1. mem_valid /\ in.ready
      BY <1>2, <2>2 DEF mem_xfer
    <3>2. mem_rdata(in).hi.at = Plus(WordOf(Wanted), 2)
      BY <1>4, <3>1, MemoryWord
    <3>3. mem_rdata(in).hi.wide
      BY <1>2, <1>3, <2>2, LatchedWord DEF mem_rdata_latched_noshuffle
    <3> QED BY <1>3, <1>6, <2>2, <3>2, <3>3, WantedType, WordIs DEF Upper
  <2> QED BY <2>1, <2>2
<1>10. Wanted' = Wanted
  BY DEF GoesOn
<1>11. BusInv'
  <2>1. cpu_state' = "fetch" => ~latched_branch'
    BY DEF GoesOn, Dropped
  <2> QED BY <1>0, <1>1, <1>2, <1>6, <1>7, <1>8, <2>1 DEF BusInv
<1>12. ReadInv'
  BY <1>3, <1>6, <1>7, <1>9, <1>10 DEF ReadInv, Upper
<1> QED BY <1>1, <1>6, <1>11, <1>12
    DEF MemInv, IdleInv, WaitInv, DroppedInv

\* The prefetched word is there before it is claimed.
LEMMA PrefetchEnds ==
  ASSUME PcInv, PcInv', MemInv, Following, GoesOn, mem_state = "READ",
         NEW in \in Inputs, MemStep(in), mem_xfer(in), ~NeedsSecondWord(in), ~mem_done(in)
  PROVE  MemInv'
<1>0. ~trap /\ Fetching /\ ~Dropped /\ RequestInv /\ BusInv /\ BufferInv
  BY DEF Following, PcInv, MemInv
<1>1. /\ Fetching' /\ ~Wants("wdata")' /\ ~Wants("rdata") /\ ~Wants("wdata") /\ mem_do # {}
      /\ Wants("prefetch") <=> Wants("prefetch")'
      /\ BufferInv' /\ HeldInv' /\ EmptyInv' /\ ~latched_branch
      /\ Dropped' => Wants("rinst")
  BY <1>0, GoingOn DEF PcInv, ControlInv
<1>2. ~Wants("rinst") /\ Wants("prefetch")
  BY <1>0, WholeIsDone DEF MemInv, Fetching
<1>3. ~Dropped' /\ ~latched_branch'
  BY <1>1, <1>2 DEF GoesOn
<1>4. mem_valid /\ in.ready /\ ~mem_la_secondword
  BY <1>0, <1>2 DEF mem_xfer, BusInv
<1>5. mem_addr = WordOf(Wanted) /\ ~Upper(Wanted)
  BY <1>2, <1>4 DEF MemInv, ReadInv
<1>6. ~mem_la_firstword
  BY <1>0, <1>5, Firstword
<1>7. ReadComplete(in) /\ BusAddress(in) /\ EveryEdge(in) /\ ~last_mem_valid'
  BY <1>0, <1>4, BusActions
<1>8. mem_addr = Wanted
  BY <1>5, WantedType, WordIs DEF Upper
<1>9. HoldsWord(mem_rdata_q', Wanted) /\ (mem_rdata_q'.lo.wide <=> mem_rdata(in).lo.wide)
  <2>1. mem_rdata_q' = mem_rdata(in)
    BY <1>4, <1>6, <1>7, LatchedWord DEF EveryEdge, mem_rdata_latched_noshuffle
  <2> QED BY <1>4, <1>8, <2>1, MemoryWord DEF HoldsWord
<1>10. /\ mem_state' = "WAIT_FETCH" /\ ~mem_valid' /\ ~mem_la_secondword'
       /\ mem_instr' = mem_instr
  BY <1>1, <1>2, <1>7 DEF ReadComplete
<1>11. COMPRESSED_ISA /\ ~mem_rdata(in).lo.wide =>
         prefetched_high_word' /\ mem_16bit_buffer'.at = Plus(Wanted, 2)
  <2> SUFFICES ASSUME COMPRESSED_ISA, ~mem_rdata(in).lo.wide
               PROVE  prefetched_high_word' /\ mem_16bit_buffer'.at = Plus(Wanted, 2)
    OBVIOUS
  <2>1. mem_16bit_buffer' = mem_rdata(in).hi
    BY <1>1, <1>7 DEF ReadComplete
  <2>2. prefetched_high_word' = ~clear_prefetched_high_word
    BY <1>1, <1>7 DEF ReadComplete
  <2>3. ~clear_prefetched_high_word
    BY <1>0, <1>1 DEF clear_prefetched_high_word, BufferInv
  <2> QED BY <1>4, <1>8, <2>1, <2>2, <2>3, MemoryWord
<1>12. ~mem_write'
  <2>1. ~mem_la_read(in) /\ ~mem_la_write
    BY DEF mem_la_read, mem_la_write
  <2> QED BY <1>0, <1>7, <2>1 DEF BusAddress, BusInv
<1>13. Wanted' = Wanted
  BY DEF GoesOn
<1>14. BusInv'
  BY <1>1, <1>2, <1>3, <1>7, <1>10, <1>12 DEF BusInv
<1>15. WaitInv'
  BY <1>3, <1>5, <1>9, <1>11, <1>13 DEF WaitInv, BufferHolds, Upper, HoldsWord
<1> QED BY <1>1, <1>3, <1>10, <1>14, <1>15
    DEF MemInv, IdleInv, ReadInv, DroppedInv

\* A prefetched word stays until it is claimed.
LEMMA PrefetchStands ==
  ASSUME PcInv, PcInv', MemInv, Following, GoesOn, mem_state = "WAIT_FETCH",
         NEW in \in Inputs, MemStep(in), ~mem_done(in)
  PROVE  MemInv'
<1>0. ~trap /\ Fetching /\ ~Dropped /\ RequestInv /\ BusInv /\ BufferInv
  BY DEF Following, PcInv, MemInv
<1>1. /\ Fetching' /\ ~Wants("wdata")' /\ ~Wants("rdata") /\ ~Wants("wdata") /\ mem_do # {}
      /\ Wants("prefetch") <=> Wants("prefetch")'
      /\ BufferInv' /\ HeldInv' /\ EmptyInv'
      /\ Dropped' => Wants("rinst")
  BY <1>0, GoingOn DEF PcInv, ControlInv
<1>2. ~mem_valid /\ ~mem_la_secondword /\ ~mem_write /\ Wants("prefetch") /\ ~latched_branch
  BY <1>0 DEF BusInv
<1>3. /\ HoldsWord(mem_rdata_q, Wanted) /\ ~Upper(Wanted)
      /\ COMPRESSED_ISA /\ ~mem_rdata_q.lo.wide => BufferHolds(Plus(Wanted, 2))
  BY DEF MemInv, WaitInv
<1>4. ~mem_la_firstword
  BY <1>0, <1>3, Firstword
<1>5. ~Wants("rinst")
  BY <1>4 DEF mem_done
<1>6. ~Dropped' /\ ~latched_branch'
  BY <1>1, <1>5 DEF GoesOn, Wants
<1>7. WaitFetch /\ BusAddress(in) /\ EveryEdge(in) /\ ~last_mem_valid'
  BY <1>0, <1>2, BusActions
<1>8. /\ mem_state' = "WAIT_FETCH" /\ ~mem_valid' /\ ~mem_la_secondword'
      /\ mem_16bit_buffer' = mem_16bit_buffer /\ mem_instr' = mem_instr
      /\ prefetched_high_word' <=> prefetched_high_word
  BY <1>0, <1>2, <1>5, <1>7, Buffered DEF WaitFetch
<1>9. mem_rdata_q' = mem_rdata_q
  BY <1>2, <1>5, <1>7 DEF EveryEdge, mem_xfer
<1>10. ~mem_write'
  <2>1. ~mem_la_read(in) /\ ~mem_la_write
    BY DEF mem_la_read, mem_la_write
  <2> QED BY <1>2, <1>7, <2>1 DEF BusAddress
<1>11. Wanted' = Wanted
  BY DEF GoesOn
<1>12. BusInv'
  BY <1>1, <1>2, <1>6, <1>7, <1>8, <1>10 DEF BusInv
<1>13. WaitInv'
  BY <1>3, <1>6, <1>8, <1>9, <1>11 DEF WaitInv, BufferHolds, Upper, HoldsWord
<1> QED BY <1>1, <1>6, <1>8, <1>12, <1>13
    DEF MemInv, IdleInv, ReadInv, DroppedInv

LEMMA FetchGoesOn ==
  ASSUME PcInv, PcInv', MemInv, Following, GoesOn, NEW in \in Inputs, MemStep(in), ~mem_done(in)
  PROVE  MemInv'
<1>1. mem_state \in {"IDLE", "READ", "WAIT_FETCH"}
  <2>1. mem_state # "WRITE"
    BY DEF Following, MemInv, BusInv, Fetching, Wants
  <2> QED BY <2>1 DEF PcInv, TypeOK, MemTypeOK, BusTypeOK
<1>2. NeedsSecondWord(in) => mem_xfer(in)
  BY DEF NeedsSecondWord
<1> QED BY <1>1, <1>2, FetchStarts, FetchWaits, SecondWordStarts, PrefetchEnds, PrefetchStands

(***************************************************************************)
(* A fetch that is dropped runs to its end; what it returns is not used.   *)
(***************************************************************************)
DropGoesOn ==
  Dropped /\ Dropped' /\ mem_do = {"prefetch", "rinst"} /\ mem_do' = mem_do /\ next_pc' = next_pc

LEMMA DroppedGoesOn ==
  ASSUME PcInv, MemInv, ~trap, DropGoesOn, NEW in \in Inputs, MemStep(in), ~mem_done(in)
  PROVE  MemInv'
<1>0. BusInv /\ BufferInv /\ BufferInv' /\ latched_branch /\ Fetching /\ Fetching'
      /\ Wants("rinst") /\ Wants("rinst")' /\ ~Wants("wdata") /\ mem_do # {}
  BY BufferNext DEF MemInv, DropGoesOn, Dropped, Fetching, Wants
<1>1. mem_state \in {"IDLE", "READ"} /\ (mem_state = "READ" => mem_valid)
  BY DEF MemInv, DroppedInv, DropGoesOn
<1>2. ~mem_la_use_prefetched_high_word
  BY <1>0, Buffered
<1>3. ~Following' /\ HeldInv' /\ EmptyInv'
  BY DEF DropGoesOn, Following, HeldInv, Held, EmptyInv, Dropped
<1>4. /\ BusAddress(in) /\ mem_la_firstword_reg' = FirstwordOfTransfer
      /\ last_mem_valid' = (mem_valid /\ ~in.ready)
  BY BusActions
<1>5. ~mem_la_write /\ (mem_state = "IDLE" => StartsRead)
  BY <1>0 DEF mem_la_write, StartsRead, Fetching, Wants
<1>6. ~mem_write'
  BY <1>0, <1>1, <1>4, <1>5 DEF BusAddress, BusInv
<1>7. cpu_state' # "fetch"
  BY DEF DropGoesOn, Dropped
<1>8. CASE mem_state = "IDLE"
  <2>1. Idle
    BY <1>8, BusActions
  <2>2. /\ mem_state' = "READ" /\ mem_valid' /\ mem_instr' = Fetching
        /\ ~mem_la_secondword' /\ ~last_mem_valid'
    BY <1>0, <1>2, <1>4, <1>8, <2>1 DEF Idle, BusInv
  <2>3. BusInv'
    BY <1>0, <1>6, <1>7, <2>2 DEF BusInv
  <2> QED BY <1>0, <1>3, <2>2, <2>3 DEF MemInv, IdleInv, ReadInv, WaitInv, DroppedInv
<1>9. CASE mem_state = "READ" /\ ~mem_xfer(in)
  <2>1. BusWait(in) /\ mem_valid /\ ~in.ready
    BY <1>1, <1>9, BusActions DEF mem_xfer
  <2>2. /\ mem_state' = "READ" /\ mem_valid' /\ mem_instr' = mem_instr
        /\ mem_la_secondword' = mem_la_secondword
    BY <1>9, <2>1 DEF BusWait
  <2>3. mem_la_firstword' <=> mem_la_firstword
    BY <1>0, <2>2 DEF mem_la_firstword, DropGoesOn
  <2>4. mem_la_firstword_reg' => mem_la_firstword \/ mem_la_secondword
    BY <1>0, <1>4 DEF BusInv, FirstwordOfTransfer
  <2>5. BusInv'
    BY <1>0, <1>6, <1>7, <1>9, <2>2, <2>3, <2>4 DEF BusInv
  <2> QED BY <1>0, <1>3, <2>2, <2>5 DEF MemInv, IdleInv, ReadInv, WaitInv, DroppedInv
<1>10. CASE NeedsSecondWord(in)
  <2>1. mem_state = "READ" /\ COMPRESSED_ISA /\ mem_valid
    BY <1>0, <1>1, <1>2, <1>10 DEF NeedsSecondWord, mem_xfer, BusInv
  <2>2. ReadSecondWord(in)
    BY <1>10, <2>1, BusActions
  <2>3. mem_state' = "READ" /\ mem_valid' /\ mem_instr' = mem_instr /\ mem_la_secondword'
    BY <2>2 DEF ReadSecondWord
  <2>4. BusInv'
    BY <1>0, <1>6, <1>7, <2>1, <2>3 DEF BusInv
  <2> QED BY <1>0, <1>3, <2>3, <2>4 DEF MemInv, IdleInv, ReadInv, WaitInv, DroppedInv
<1>11. CASE mem_state = "READ" /\ mem_xfer(in) /\ ~NeedsSecondWord(in)
  <2>1. ReadComplete(in) /\ in.ready
    BY <1>2, <1>11, BusActions DEF mem_xfer
  <2>2. mem_state' = "IDLE" /\ ~mem_valid' /\ ~mem_la_secondword' /\ ~last_mem_valid'
    BY <1>0, <1>4, <2>1 DEF ReadComplete
  <2>3. BusInv'
    BY <1>0, <1>6, <1>7, <2>2 DEF BusInv
  <2> QED BY <1>0, <1>3, <2>2, <2>3 DEF MemInv, IdleInv, ReadInv, WaitInv, DroppedInv
<1> QED BY <1>1, <1>8, <1>9, <1>10, <1>11

(***************************************************************************)
(* A request that ends                                                     *)
(***************************************************************************)
\* the buffer is used while the bus is idle
LEMMA BufferOrBus ==
  ASSUME PcInv, MemInv, ~trap, mem_la_use_prefetched_high_word
  PROVE  ~mem_valid
<1>1. /\ mem_la_firstword /\ prefetched_high_word /\ ~latched_branch
      /\ Fetching /\ COMPRESSED_ISA /\ ~mem_la_secondword
  BY Buffered DEF MemInv, mem_la_firstword
<1>2. Following
  BY <1>1 DEF Following, Dropped
<1>3. Upper(Wanted)
  BY <1>1, <1>2, Firstword DEF Following
<1>4. mem_valid => mem_state = "READ"
  <2>1. mem_state \in {"IDLE", "READ", "WRITE", "WAIT_FETCH"}
    BY DEF PcInv, TypeOK, MemTypeOK, BusTypeOK
  <2> QED BY <1>1, <2>1 DEF MemInv, BusInv, Fetching, Wants
<1> QED BY <1>1, <1>2, <1>3, <1>4 DEF MemInv, ReadInv

LEMMA BusIdles ==
  ASSUME PcInv, MemInv, ~trap, NEW in, MemStep(in), mem_done(in)
  PROVE  BusInv'
<1>1. /\ mem_state' = "IDLE" /\ ~mem_valid' /\ ~mem_la_secondword'
      /\ mem_state = "WAIT_FETCH" \/ (mem_state \in {"READ", "WRITE"} /\ mem_xfer(in))
  BY DoneEndsTransfer DEF PcInv, MemInv
<1>2. mem_valid => in.ready
  BY <1>1, BufferOrBus DEF mem_xfer, MemInv, BusInv
<1>3. ~last_mem_valid'
  BY <1>2, BusActions
<1> QED BY <1>1, <1>3 DEF BusInv

\* A branch that is taken begins the fetch of its target; a handler that is
\* entered has its first fetch one edge later; a core that stops has none.
Redirected ==
  /\ ~Held' /\ cpu_state' \in {"fetch", "trap"} /\ mem_do' \in {{}, {"rinst"}}
  /\ IF cpu_state' = "fetch" THEN latched_branch' ELSE mem_do' = {}

LEMMA FetchIsRedirected ==
  ASSUME PcInv, MemInv, ~trap, Redirected, NEW in, MemStep(in), mem_done(in)
  PROVE  MemInv'
<1>1. BusInv' /\ BufferInv'
  BY BusIdles, BufferNext
<1>2. mem_state' = "IDLE"
  BY DoneEndsTransfer DEF PcInv, MemInv
<1> QED BY <1>1, <1>2
    DEF Redirected, MemInv, IdleInv, ReadInv, WaitInv, DroppedInv, HeldInv, EmptyInv, Wants, Dropped,
        Following, Fetching

\* What a fetch that is not dropped returns is the instruction at Wanted, and
\* the buffer has the halfword after it if that is in the same word.
LEMMA FetchedWord ==
  ASSUME PcInv, MemInv, Following, Wants("rinst"), NEW in \in Inputs, MemStep(in), mem_done(in)
  PROVE  LET word == mem_rdata_latched(in)
             length == IF word.lo.wide THEN 4 ELSE 2
         IN /\ HoldsWord(word, Wanted)
            /\ Upper(Plus(Wanted, length)) =>
                 prefetched_high_word' /\ mem_16bit_buffer'.at = Plus(Wanted, length)
<1> DEFINE word == mem_rdata_latched(in)
           length == IF word.lo.wide THEN 4 ELSE 2
<1>0. ~trap /\ Fetching /\ ~Dropped /\ RequestInv /\ BusInv /\ BufferInv
  BY DEF Following, PcInv, MemInv
<1>1. ~NeedsSecondWord(in) /\ ~Wants("rdata") /\ ~Wants("wdata")
  BY <1>0, DoneIsWhole, FetchAlone DEF Wants
<1>2. mem_la_firstword <=> Upper(Wanted) /\ ~mem_la_secondword
  BY <1>0, Firstword
<1>3. mem_la_firstword => ~word.lo.wide
  BY DEF mem_done
<1>4. Wanted \in AddrOrNone /\ IsAligned(Wanted)
  BY WantedType
<1>5. /\ Upper(Plus(Wanted, 4)) <=> Upper(Wanted)
      /\ COMPRESSED_ISA => (Upper(Plus(Wanted, 2)) <=> ~Upper(Wanted))
      /\ Upper(Wanted) => /\ Plus(WordOf(Wanted), 2) = Wanted
                          /\ Plus(WordOf(Wanted), 4) = Plus(Wanted, 2)
                          /\ Plus(Plus(Wanted, 2), 2) = Plus(Wanted, 4)
      /\ ~Upper(Wanted) => WordOf(Wanted) = Wanted
  BY <1>4, NextIs, WordIs DEF Upper
<1>6. CASE mem_state = "WAIT_FETCH"
  <2>1. /\ HoldsWord(mem_rdata_q, Wanted) /\ ~Upper(Wanted)
        /\ COMPRESSED_ISA /\ ~mem_rdata_q.lo.wide => BufferHolds(Plus(Wanted, 2))
        /\ ~mem_valid /\ ~latched_branch /\ ~mem_la_secondword
    BY <1>0, <1>6 DEF MemInv, WaitInv, BusInv
  <2>2. ~mem_xfer(in) /\ ~mem_la_firstword
    BY <1>0, <1>2, <2>1, Buffered DEF mem_xfer
  <2>3. word = mem_rdata_q
    BY <2>1, <2>2, LatchedWord DEF mem_rdata_latched_noshuffle
  <2>4. mem_16bit_buffer' = mem_16bit_buffer /\ (prefetched_high_word' <=> prefetched_high_word)
    BY <1>0, <1>6, <2>1, BusActions, Buffered DEF WaitFetch
  <2> QED BY <1>5, <2>1, <2>3, <2>4 DEF BufferHolds, HoldsWord, Upper
<1>7. CASE mem_state = "READ"
  <2>1. mem_xfer(in) /\ ReadComplete(in) /\ ~latched_branch
    <3>1. mem_xfer(in)
      BY <1>0, <1>7, DoneEndsTransfer
    <3>2. ~latched_branch
      BY <1>0, <1>7 DEF BusInv, PcInv, ControlInv, LatchControl, Dropped
    <3> QED BY <1>0, <1>1, <1>7, <3>1, <3>2, BusActions
  <2>2. /\ COMPRESSED_ISA /\ (~mem_rdata(in).lo.wide \/ mem_la_secondword) =>
             prefetched_high_word' /\ mem_16bit_buffer' = mem_rdata(in).hi
    BY <1>0, <1>1, <2>1, Buffered DEF ReadComplete, clear_prefetched_high_word, BufferInv
  <2>3. CASE ~mem_valid
    <3>1. Upper(Wanted) /\ BufferHolds(Wanted) /\ ~mem_la_secondword
      BY <1>0, <1>7, <2>3 DEF MemInv, ReadInv, BusInv
    <3>2. mem_la_use_prefetched_high_word
      BY <2>1, <2>3 DEF mem_xfer
    <3>3. word.lo.at = Wanted /\ ~word.lo.wide
      BY <1>2, <1>3, <3>1, <3>2, LatchedWord DEF BufferHolds
    <3> QED BY <1>5, <3>1, <3>3 DEF HoldsWord, Upper
  <2>4. CASE mem_valid
    <3>1. ~mem_la_use_prefetched_high_word /\ in.ready
      BY <1>0, <2>1, <2>4, BufferOrBus DEF mem_xfer
    <3>2. /\ mem_rdata(in).lo.at = mem_addr /\ mem_rdata(in).hi.at = Plus(mem_addr, 2)
          /\ ~COMPRESSED_ISA => mem_rdata(in).lo.wide
      BY <2>4, <3>1, MemoryWord
    <3>3. mem_rdata_latched_noshuffle(in) = mem_rdata(in)
      BY <2>1 DEF mem_rdata_latched_noshuffle
    <3>4. CASE mem_la_secondword
      <4>1. /\ mem_addr = Plus(WordOf(Wanted), 4) /\ Upper(Wanted)
            /\ mem_16bit_buffer.at = Wanted /\ mem_16bit_buffer.wide
        BY <1>7, <3>4 DEF MemInv, ReadInv
      <4>2. word = [lo |-> mem_16bit_buffer, hi |-> mem_rdata(in).lo]
        BY <3>1, <3>3, <3>4, <4>1, LatchedWord DEF Upper
      <4>3. word.lo.at = Wanted /\ word.lo.wide /\ word.hi.at = Plus(Wanted, 2)
        BY <1>5, <3>2, <4>1, <4>2
      <4>4. prefetched_high_word' /\ mem_16bit_buffer'.at = Plus(Wanted, 4)
        BY <1>5, <2>2, <3>2, <3>4, <4>1 DEF Upper
      <4> QED BY <4>3, <4>4, <4>1 DEF HoldsWord, Upper
    <3>5. CASE ~mem_la_secondword
      <4>1. mem_addr = WordOf(Wanted)
        BY <1>7, <2>4, <3>5 DEF MemInv, ReadInv
      <4>2. CASE Upper(Wanted)
        <5>1. word = [lo |-> mem_rdata(in).hi, hi |-> NoHalf] /\ ~word.lo.wide
          BY <1>2, <1>3, <3>1, <3>3, <3>5, <4>2, LatchedWord
        <5> QED BY <1>5, <3>2, <4>1, <4>2, <5>1 DEF HoldsWord, Upper
      <4>3. CASE ~Upper(Wanted)
        <5>1. word = mem_rdata(in)
          BY <1>2, <3>1, <3>3, <3>5, <4>3, LatchedWord
        <5>2. COMPRESSED_ISA /\ ~word.lo.wide =>
                prefetched_high_word' /\ mem_16bit_buffer'.at = Plus(Wanted, 2)
          BY <1>5, <2>2, <3>2, <4>1, <4>3, <5>1
        <5> QED BY <1>5, <3>2, <4>1, <4>3, <5>1, <5>2 DEF HoldsWord, Upper
      <4> QED BY <4>2, <4>3
    <3> QED BY <3>4, <3>5
  <2> QED BY <2>3, <2>4
<1>8. mem_state \in {"WAIT_FETCH", "READ"}
  BY <1>0, <1>1, DoneEndsTransfer DEF BusInv, Wants
<1> QED BY <1>6, <1>7, <1>8

\* The instruction that was fetched is decoded and held.
Delivered ==
  /\ Held' /\ Wanted' = Wanted /\ ~latched_branch'
  /\ mem_do' \in {{}, {"rdata"}, {"wdata"}}

LEMMA FetchIsDelivered ==
  ASSUME PcInv, MemInv, Following, Wants("rinst"), Delivered,
         NEW in \in Inputs, MemStep(in), Decode(in), mem_done(in)
  PROVE  MemInv'
<1> DEFINE word == mem_rdata_latched(in)
           length == IF word.lo.wide THEN 4 ELSE 2
<1>1. BusInv' /\ BufferInv'
  BY BusIdles, BufferNext DEF Following
<1>2. ~Fetching' /\ ~Dropped'
  BY DEF Delivered, Fetching, Wants, Dropped
<1>3. decoded'.at = word.lo.at /\ decoded'.upper = word.hi.at /\ decoded'.wide = word.lo.wide
  <2>1. decoded' \in Decodings(word)
    BY DEF Decode
  <2> QED BY <2>1 DEF Decodings
<1>4. /\ HoldsWord(word, Wanted)
      /\ Upper(Plus(Wanted, length)) =>
           prefetched_high_word' /\ mem_16bit_buffer'.at = Plus(Wanted, length)
  BY FetchedWord
<1>5. Wanted' = Wanted /\ ~latched_branch'
  BY DEF Delivered
<1>6. After' = Plus(Wanted, length)
  BY <1>3, <1>5 DEF After, Length
<1>7. HeldInv'
  <2>1. Upper(After') => BufferHolds(After)'
    BY <1>4, <1>5, <1>6 DEF BufferHolds
  <2> QED BY <1>3, <1>4, <1>5, <2>1 DEF HeldInv, HoldsWord, Upper
<1> QED BY <1>1, <1>2, <1>7
    DEF Delivered, MemInv, IdleInv, ReadInv, WaitInv, DroppedInv, EmptyInv, Following

(***************************************************************************)
(* An instruction is held while data are transferred, or while the core    *)
(* waits for an interrupt: the halfword buffer is left alone.              *)
(***************************************************************************)
HoldsOn(in) ==
  /\ Held /\ Held' /\ Wanted' = Wanted /\ decoded' = decoded /\ ~latched_branch'
  /\ mem_do \in {{}, {"rdata"}, {"wdata"}} /\ mem_do' \in {{}, {"rdata"}, {"wdata"}}
  /\ mem_do # {} /\ ~mem_done(in) => mem_do' = mem_do

LEMMA HoldingOn ==
  ASSUME PcInv, MemInv, ~trap, NEW in \in Inputs, HoldsOn(in), MemStep(in)
  PROVE  MemInv'
<1>0. /\ BusInv /\ BufferInv /\ BufferInv' /\ ~latched_branch /\ RequestInv
      /\ ~Fetching /\ ~Fetching' /\ ~Dropped' /\ ~Wants("prefetch") /\ ~Wants("rinst")
  BY BufferNext DEF MemInv, PcInv, HeldInv, HoldsOn, Fetching, Wants, Dropped
<1>1. ~mem_la_firstword /\ ~mem_la_use_prefetched_high_word /\ ~mem_la_secondword
  BY <1>0 DEF mem_la_firstword, mem_la_use_prefetched_high_word, BusInv
<1>2. ~FirstwordOfTransfer /\ ~NeedsSecondWord(in)
  BY <1>0, <1>1 DEF FirstwordOfTransfer, NeedsSecondWord, BusInv
<1>3. mem_xfer(in) <=> mem_valid /\ in.ready
  BY <1>0 DEF mem_xfer
<1>4. /\ BusAddress(in) /\ mem_la_firstword_reg' = FirstwordOfTransfer
      /\ last_mem_valid' = (mem_valid /\ ~in.ready)
  BY BusActions
<1>5. mem_state \in {"IDLE", "READ", "WRITE"}
      /\ (mem_state = "READ" => mem_do = {"rdata"} /\ mem_valid)
      /\ (mem_state = "WRITE" => mem_do = {"wdata"} /\ mem_valid)
  <2>1. mem_state \in {"IDLE", "READ", "WRITE", "WAIT_FETCH"}
    BY DEF PcInv, TypeOK, MemTypeOK, BusTypeOK
  <2> QED BY <1>0, <2>1 DEF BusInv
<1>6. /\ BusInv'
      /\ mem_16bit_buffer' = mem_16bit_buffer /\ (prefetched_high_word' <=> prefetched_high_word)
  <2>1. CASE mem_state = "IDLE" /\ mem_do = {}
    <3>1. Idle /\ ~mem_valid
      BY <1>0, <2>1, BusActions DEF BusInv
    <3>2. ~Wants("wdata")
      BY <2>1 DEF Wants
    <3>3. mem_state' = mem_state /\ mem_valid' = mem_valid
      BY <2>1, <3>1, <3>2 DEF Idle
    <3>4. /\ ~mem_la_secondword' /\ ~last_mem_valid' /\ mem_16bit_buffer' = mem_16bit_buffer
          /\ prefetched_high_word' <=> prefetched_high_word
      BY <1>0, <1>1, <1>4, <3>1, Buffered DEF Idle
    <3> QED BY <2>1, <3>1, <3>3, <3>4 DEF BusInv
  <2>2. CASE mem_state = "IDLE" /\ mem_do # {}
    <3>1. Idle /\ ~mem_valid /\ mem_do' = mem_do
      BY <1>0, <2>2, BusActions DEF BusInv, HoldsOn, mem_done
    <3>2. /\ ~mem_la_secondword' /\ ~last_mem_valid' /\ mem_16bit_buffer' = mem_16bit_buffer
          /\ prefetched_high_word' <=> prefetched_high_word
      BY <1>0, <1>1, <1>4, <2>2, <3>1, Buffered DEF Idle
    <3>3. CASE mem_do = {"rdata"}
      <4>1. /\ mem_state' = "READ" /\ mem_valid' /\ mem_instr' = Fetching /\ mem_do' = {"rdata"}
        BY <1>1, <3>1, <3>3 DEF Idle, Wants
      <4>2. StartsRead /\ ~mem_la_write
        BY <2>2, <3>3 DEF StartsRead, mem_la_write, Wants
      <4>3. ~mem_write'
        BY <1>4, <4>2 DEF BusAddress
      <4>4. cpu_state' = "fetch" => ~latched_branch'
        BY DEF HoldsOn
      <4> QED BY <1>0, <3>2, <4>1, <4>3, <4>4 DEF BusInv
    <3>4. CASE mem_do = {"wdata"}
      <4>1. mem_state' = "WRITE" /\ mem_valid' /\ ~mem_instr' /\ mem_do' = {"wdata"}
        BY <3>1, <3>4 DEF Idle, Wants
      <4>2. mem_la_write
        BY <2>2, <3>4 DEF mem_la_write, Wants
      <4>3. mem_write'
        BY <1>4, <4>2 DEF BusAddress
      <4> QED BY <3>2, <4>1, <4>3 DEF BusInv
    <3> QED BY <2>2, <3>3, <3>4 DEF HoldsOn
  <2>3. CASE mem_state # "IDLE" /\ ~mem_xfer(in)
    <3>1. BusWait(in) /\ mem_do' = mem_do
      BY <1>5, <2>3, BusActions DEF HoldsOn, mem_done
    <3>2. /\ mem_state' = mem_state /\ mem_valid' = mem_valid /\ mem_instr' = mem_instr
          /\ ~mem_la_secondword' /\ mem_16bit_buffer' = mem_16bit_buffer
          /\ prefetched_high_word' <=> prefetched_high_word
      BY <1>0, <1>1, <3>1, Buffered DEF BusWait
    <3>3. ~mem_la_firstword_reg'
      BY <1>2, <1>4
    <3>4. mem_write' <=> mem_write
      <4>1. ~mem_la_read(in) /\ ~mem_la_write /\ ~StartsRead
        BY <1>2, <2>3 DEF mem_la_read, mem_la_write, StartsRead
      <4> QED BY <1>4, <4>1 DEF BusAddress
    <3>5. cpu_state' = "fetch" => ~latched_branch'
      BY DEF HoldsOn
    <3> QED BY <1>0, <1>5, <2>3, <3>1, <3>2, <3>3, <3>4, <3>5 DEF BusInv
  <2>4. CASE mem_state = "READ" /\ mem_xfer(in)
    <3>1. mem_done(in)
      BY <1>1, <1>5, <2>4 DEF mem_done
    <3>2. ReadComplete(in)
      BY <1>2, <2>4, BusActions
    <3>3. /\ mem_16bit_buffer' = mem_16bit_buffer
          /\ prefetched_high_word' <=> prefetched_high_word
      BY <1>0, <1>5, <2>4, <3>2, Buffered DEF ReadComplete, Wants
    <3> QED BY <3>1, <3>3, BusIdles
  <2>5. CASE mem_state = "WRITE" /\ mem_xfer(in)
    <3>1. mem_done(in)
      BY <1>1, <1>5, <2>5 DEF mem_done
    <3>2. WriteComplete(in)
      BY <2>5, BusActions
    <3>3. /\ mem_16bit_buffer' = mem_16bit_buffer
          /\ prefetched_high_word' <=> prefetched_high_word
      BY <1>0, <3>2, Buffered DEF WriteComplete
    <3> QED BY <3>1, <3>3, BusIdles
  <2> QED BY <1>5, <2>1, <2>2, <2>3, <2>4, <2>5
<1>7. HeldInv'
  <2>1. HeldInv /\ Held /\ After' = After /\ Wanted' = Wanted /\ decoded' = decoded
    BY DEF MemInv, HoldsOn, After
  <2> QED BY <1>0, <1>6, <2>1 DEF HeldInv, BufferHolds, Upper, HoldsOn
<1> QED BY <1>0, <1>6, <1>7
    DEF HoldsOn, MemInv, IdleInv, ReadInv, WaitInv, DroppedInv, EmptyInv, Following

(***************************************************************************)
(* Nothing is asked for: the next request begins, and the halfword it may  *)
(* need is in the buffer or the buffer is empty.                           *)
(***************************************************************************)
Begins ==
  /\ ~Held' /\ (latched_branch' => mem_do' = {} \/ cpu_state' = "fetch")
  /\ \/ mem_do' = {} /\ (cpu_state' = "fetch" => latched_branch' \/ ~Upper(reg_next_pc'))
     \/ mem_do' = {"rinst"} /\ cpu_state' = "fetch" /\ latched_branch'
     \/ /\ mem_do' = {"rinst"} /\ cpu_state' = "fetch" /\ ~latched_branch'
        /\ cpu_state = "fetch" /\ ~Held /\ Wanted' = Wanted
     \/ /\ mem_do' = {"rinst"} \/ (mem_do' = {"prefetch"} /\ cpu_state' = "ld_rs1")
        /\ ~latched_branch' /\ Held /\ Wanted' = After

LEMMA Beginning ==
  ASSUME PcInv, MemInv, ~trap, mem_do = {}, Begins, NEW in \in Inputs, MemStep(in)
  PROVE  MemInv'
<1>0. /\ BusInv /\ BufferInv /\ BufferInv'
      /\ ~Fetching /\ \A r : ~Wants(r)
  BY BufferNext DEF MemInv, Fetching, Wants
<1>1. mem_state = "IDLE"
  <2>1. mem_state \in {"IDLE", "READ", "WRITE", "WAIT_FETCH"}
    BY DEF PcInv, TypeOK, MemTypeOK, BusTypeOK
  <2> QED BY <1>0, <2>1 DEF BusInv
<1>2. ~mem_valid /\ ~mem_la_secondword /\ Idle
  BY <1>0, <1>1, BusActions DEF BusInv
<1>3. /\ mem_state' = "IDLE" /\ ~mem_valid' /\ ~mem_la_secondword'
      /\ mem_16bit_buffer' = mem_16bit_buffer
      /\ prefetched_high_word' <=> prefetched_high_word /\ ~clear_prefetched_high_word
  <2>1. ~Wants("wdata")
    BY <1>0
  <2>2. mem_state' = mem_state /\ mem_valid' = mem_valid
    BY <1>2, <2>1 DEF Idle
  <2>3. /\ ~mem_la_secondword' /\ mem_16bit_buffer' = mem_16bit_buffer
        /\ prefetched_high_word' <=> prefetched_high_word /\ ~clear_prefetched_high_word
    BY <1>2 DEF Idle
  <2> QED BY <1>1, <1>2, <2>2, <2>3
<1>4. ~last_mem_valid'
  BY <1>2, BusActions
<1>5. BusInv'
  BY <1>3, <1>4 DEF BusInv
<1>6. prefetched_high_word' <=> prefetched_high_word /\ ~(latched_branch /\ COMPRESSED_ISA)
  BY <1>0, <1>3, Buffered
<1>7. IdleInv'
  <2> SUFFICES ASSUME Following' PROVE IdleInv'
    BY DEF IdleInv
  <2>1. mem_do' # {}
    BY DEF Following, Fetching, Wants
  <2>2. CASE mem_do' = {"rinst"} /\ cpu_state' = "fetch" /\ latched_branch'
    BY <2>2 DEF IdleInv, Wants
  <2>3. CASE /\ mem_do' = {"rinst"} /\ cpu_state' = "fetch" /\ ~latched_branch'
             /\ cpu_state = "fetch" /\ ~Held /\ Wanted' = Wanted
    <3>1. ASSUME Upper(Wanted), ~latched_branch PROVE ~prefetched_high_word
      <4>1. Wanted = reg_next_pc
        BY <2>3, <3>1 DEF Wanted, current_pc, JumpedTo, PcInv, IsAligned
      <4> QED BY <2>3, <3>1, <4>1 DEF MemInv, EmptyInv
    <3>2. Upper(Wanted') => ~prefetched_high_word'
      BY <1>6, <2>3, <3>1 DEF Upper
    <3> QED BY <2>3, <3>2 DEF IdleInv, Wants, Upper
  <2>4. CASE /\ mem_do' = {"rinst"} \/ (mem_do' = {"prefetch"} /\ cpu_state' = "ld_rs1")
             /\ ~latched_branch' /\ Held /\ Wanted' = After
    <3>1. ~latched_branch /\ (Upper(After) => BufferHolds(After))
      BY <2>4 DEF MemInv, HeldInv
    <3>2. Upper(After) => prefetched_high_word' /\ mem_16bit_buffer'.at = After
      BY <1>3, <1>6, <3>1 DEF BufferHolds
    <3> QED BY <2>4, <3>2 DEF IdleInv, Wants, Upper, BufferHolds
  <2> QED BY <2>1, <2>2, <2>3, <2>4 DEF Begins
<1>8. EmptyInv'
  <2> SUFFICES ASSUME cpu_state' = "fetch", mem_do' = {}, ~latched_branch' PROVE EmptyInv'
    BY DEF EmptyInv
  <2>1. ~Upper(reg_next_pc')
    BY DEF Begins
  <2> QED BY <2>1 DEF EmptyInv, Upper
<1> QED BY <1>0, <1>3, <1>5, <1>7, <1>8
    DEF Begins, MemInv, ReadInv, WaitInv, DroppedInv, HeldInv

(***************************************************************************)
(* Every step of the main state machine is one of these.                   *)
(***************************************************************************)
Classified(in) ==
  \/ mem_do = {} /\ Begins
  \/ Following /\ ~mem_done(in) /\ GoesOn
  \/ ~mem_done(in) /\ DropGoesOn
  \/ mem_done(in) /\ Redirected
  \/ Following /\ Wants("rinst") /\ mem_done(in) /\ Delivered
  \/ HoldsOn(in)

LEMMA WantedNext ==
  /\ cpu_state' # "fetch" => Wanted' = reg_next_pc'
  /\ cpu_state' = "fetch" /\ ~latched_branch' => Wanted' = Align(reg_next_pc')
  BY DEF Wanted, current_pc, JumpedTo

\* the address after an instruction that is held is that of an instruction
LEMMA AfterAligned ==
  ASSUME PcInv, HeldInv, Held
  PROVE  After \in AddrOrNone /\ IsAligned(After)
<1>1. Wanted \in AddrOrNone /\ IsAligned(Wanted)
  BY WantedType
<1>2. Length(decoded) = 4 \/ (Length(decoded) = 2 /\ COMPRESSED_ISA)
  BY DEF Length, HeldInv
<1>3. After = Plus(Wanted, 4) \/ (After = Plus(Wanted, 2) /\ COMPRESSED_ISA)
  BY <1>2 DEF After
<1>4. Plus(Wanted, 4) \in AddrOrNone /\ Plus(Wanted, 2) \in AddrOrNone
  BY <1>1, PlusType, Addresses
<1> QED BY <1>1, <1>3, <1>4, NextIs

LEMMA FetchClasses ==
  ASSUME VectorInWord, PcInv, MemInv, ~trap, NEW in \in Inputs, Fetch(in), Decode(in)
  PROVE  Classified(in) /\ IsAligned(reg_next_pc')
<1> USE DEF Wants, WithRinst
<1>0. /\ cpu_state = "fetch" /\ mem_do \subseteq {"prefetch", "rinst"} /\ ~Dropped
      /\ decoder_trigger \/ do_waitirq => mem_do = {} /\ ~latched_branch
      /\ do_waitirq => MACHINE_ISA /\ decoded.kind = "wfi"
      /\ Wanted = current_pc /\ IsAligned(current_pc) /\ Align(current_pc) = current_pc
      /\ Held <=> decoder_trigger \/ do_waitirq
  <2>1. cpu_state = "fetch" /\ Wanted = current_pc /\ ~Dropped
    BY DEF Fetch, Wanted, Dropped
  <2>2. IsAligned(current_pc) /\ Align(current_pc) = current_pc
    BY <2>1, WantedType DEF IsAligned
  <2> QED BY <2>1, <2>2
      DEF PcInv, RequestInv, DataRequests, ControlInv, FetchControl, Held
<1>1. mem_do = {} => ~mem_done(in)
  BY DoneNeedsRequest
<1>2. mem_done(in) => Wants("rinst")
  BY <1>0, DoneNeedsRequest
<1>3. ~MisalignedJump
  BY NoMisalignedJump DEF PcInv
<1>4. mem_do # {} => Following
  BY <1>0 DEF Following, Fetching
<1>5. CASE FetchWait(in)
  <2>1. ~decoder_trigger /\ ~do_waitirq
    BY <1>0, <1>5 DEF FetchWait, Launches, WaitsForInterrupt
  <2>2. /\ cpu_state' = "fetch" /\ ~do_waitirq' /\ ~latched_branch'
        /\ reg_next_pc' = current_pc /\ FetchRequest(in) /\ DefaultTrigger(in)
    BY <1>0, <1>5 DEF FetchWait, NoBranch
  <2>3. Wanted' = Wanted
    BY <1>0, <2>2, WantedNext
  <2>4. CASE mem_do = {}
    <3>1. mem_do' = {"rinst"} /\ ~decoder_trigger'
      BY <1>1, <2>1, <2>2, <2>4 DEF FetchRequest, DefaultTrigger, RemainingRequests
    <3>2. Begins
      BY <1>0, <2>1, <2>2, <2>3, <3>1 DEF Begins, Held
    <3> QED BY <1>0, <2>2, <2>4, <3>2 DEF Classified
  <2>5. CASE mem_do # {} /\ ~mem_done(in)
    <3>1. mem_do' = mem_do \cup {"rinst"} /\ ~decoder_trigger'
      BY <2>1, <2>2, <2>5 DEF FetchRequest, DefaultTrigger, RemainingRequests
    <3>2. GoesOn
      BY <2>2, <2>3, <3>1 DEF GoesOn, Held
    <3> QED BY <1>0, <1>4, <2>2, <2>5, <3>2 DEF Classified
  <2>6. CASE mem_done(in)
    <3>1. mem_do' = {} /\ decoder_trigger'
      BY <1>2, <2>2, <2>6 DEF FetchRequest, DefaultTrigger, RemainingRequests
    <3>2. Delivered
      BY <2>2, <2>3, <3>1 DEF Delivered, Held
    <3>3. mem_do # {}
      BY <1>1, <2>6
    <3> QED BY <1>0, <1>2, <1>4, <2>2, <2>6, <3>2, <3>3 DEF Classified
  <2> QED BY <2>4, <2>5, <2>6
<1>6. CASE FetchInterrupt(in)
  <2>1. mem_do = {} /\ decoder_trigger /\ mie \cap mip # {}
    BY <1>0, <1>6 DEF FetchInterrupt, TakesInterrupt, IrqReady
  <2>2. /\ cpu_state' = "fetch" /\ ~do_waitirq' /\ ~latched_branch'
        /\ reg_next_pc' = PROGADDR_IRQ /\ FetchRequest(in) /\ DefaultTrigger(in)
    BY <1>0, <1>6 DEF FetchInterrupt, NoBranch
  <2>3. mem_do' = {} /\ ~decoder_trigger'
    BY <1>1, <2>1, <2>2 DEF FetchRequest, DefaultTrigger, RemainingRequests
  <2>4. ~Upper(PROGADDR_IRQ)
    <3>1. IrqEnabled # {}
      BY <2>1 DEF PcInv, TypeOK, CsrTypeOK
    <3> QED BY <3>1 DEF VectorInWord, Upper, UpperHalf
  <2>5. Begins
    BY <2>2, <2>3, <2>4 DEF Begins, Held
  <2> QED BY <2>1, <2>2, <2>5, ConstantsAligned DEF Classified
<1>7. CASE FetchWfi(in)
  <2>1. mem_do = {} /\ Held
    BY <1>0, <1>7 DEF FetchWfi, WaitsForInterrupt
  <2>2. cpu_state' = "fetch" /\ ~latched_branch' /\ DefaultTrigger(in)
    BY <1>0, <1>7 DEF FetchWfi, NoBranch
  <2>3. ~decoder_trigger' /\ decoded' = decoded
    BY <1>1, <2>1, <2>2 DEF DefaultTrigger, Decode
  <2>4. CASE mie \cap mip # {}
    <3>1. reg_next_pc' = After /\ mem_do' = {"rinst"} /\ ~do_waitirq'
      BY <1>0, <1>1, <1>7, <2>1, <2>4 DEF FetchWfi, RemainingRequests, After
    <3>2. IsAligned(After)
      BY <2>1, AfterAligned DEF MemInv
    <3>3. Wanted' = After
      BY <2>2, <3>1, <3>2, WantedNext DEF IsAligned
    <3>4. Begins
      BY <2>1, <2>2, <2>3, <3>1, <3>3 DEF Begins, Held
    <3> QED BY <2>1, <3>1, <3>2, <3>4 DEF Classified
  <2>5. CASE ~(mie \cap mip # {})
    <3>1. /\ reg_next_pc' = current_pc /\ mem_do' = {} /\ do_waitirq'
      BY <1>0, <1>1, <1>7, <2>1, <2>5
      DEF FetchWfi, WaitsForInterrupt, FetchRequest, RemainingRequests
    <3>2. Wanted' = Wanted
      BY <1>0, <2>2, <3>1, WantedNext
    <3>3. HoldsOn(in)
      BY <2>1, <2>2, <2>3, <3>1, <3>2 DEF HoldsOn, Held
    <3> QED BY <1>0, <3>1, <3>3 DEF Classified
  <2> QED BY <2>4, <2>5
<1>8. CASE FetchJal(in)
  <2>1. mem_do = {} /\ ~mem_done(in)
    BY <1>0, <1>1, <1>8 DEF FetchJal, Launches
  <2>2. /\ cpu_state' = "fetch" /\ ~decoder_trigger' /\ ~do_waitirq'
        /\ latched_branch' /\ mem_do' = {"rinst"}
        /\ reg_next_pc' = Align(decoded.target)
    BY <1>0, <1>8, <2>1 DEF FetchJal, DefaultTrigger, RemainingRequests
  <2>3. IsAligned(Align(decoded.target))
    <3>1. decoded.target \in AddrOrNone
      BY DEF PcInv, TypeOK, DecoderTypeOK, Instruction
    <3> QED BY <3>1, AlignIs
  <2>4. Begins
    BY <2>2 DEF Begins, Held
  <2> QED BY <2>1, <2>2, <2>3, <2>4 DEF Classified
<1>9. CASE FetchLaunch(in)
  <2>1. mem_do = {} /\ ~mem_done(in) /\ Held
    BY <1>0, <1>1, <1>9 DEF FetchLaunch, Launches
  <2>2. /\ cpu_state' = "ld_rs1" /\ ~latched_branch' /\ reg_next_pc' = After
        /\ mem_do' \in {{}, {"prefetch"}}
    BY <1>0, <1>9, <2>1 DEF FetchLaunch, NoBranch, After, RemainingRequests
  <2>3. Wanted' = After /\ IsAligned(After)
    BY <2>1, <2>2, WantedNext, AfterAligned DEF MemInv
  <2>4. Begins
    BY <2>1, <2>2, <2>3 DEF Begins, Held
  <2> QED BY <2>1, <2>2, <2>3, <2>4 DEF Classified
<1> QED BY <1>3, <1>5, <1>6, <1>7, <1>8, <1>9 DEF Fetch, FetchMisalignedJump

\* The states that execute an instruction have the prefetch of the next one
\* running, unless the instruction jumps.
LEMMA PrefetchKeepsGoing ==
  ASSUME PcInv, ~trap, cpu_state \notin {"fetch", "ldmem", "stmem"}, mem_do = {"prefetch"},
         NEW in, ~mem_done(in), ~latched_branch, ~latched_branch', reg_next_pc' = reg_next_pc,
         mem_do' \in {{"prefetch"}, {"prefetch", "rinst"}},
         cpu_state' = "fetch" => ~decoder_trigger' /\ ~do_waitirq'
  PROVE  Classified(in)
<1>1. Following
  BY DEF Following, Fetching, Wants, Dropped
<1>2. Wanted = reg_next_pc /\ Wanted' = reg_next_pc
  BY WantedNext DEF Wanted, PcInv, IsAligned
<1>3. mem_do \cup {"rinst"} = {"prefetch", "rinst"}
  OBVIOUS
<1>4. mem_do' \in {mem_do, mem_do \cup {"rinst"}}
  BY <1>3
<1>5. ~Held'
  <2>1. Wants("prefetch")'
    BY DEF Wants
  <2> QED BY <2>1 DEF Held
<1>6. GoesOn
  BY <1>2, <1>4, <1>5 DEF GoesOn
<1> QED BY <1>1, <1>6 DEF Classified

\* a jump has no prefetch running
LEMMA JumpAsksNothing ==
  ASSUME NEW in, mem_do = {}, mem_do' = {},
         latched_branch' \/ cpu_state' \notin {"fetch", "ldmem", "stmem"},
         cpu_state' \notin {"ldmem", "stmem"},
         cpu_state' = "fetch" => ~decoder_trigger' /\ ~do_waitirq'
  PROVE  Classified(in)
<1>1. Begins
  BY DEF Begins, Held
<1> QED BY <1>1 DEF Classified

LEMMA OperandClasses ==
  ASSUME PcInv, ~trap, NEW in, ClaimStands(in), NEW w, LdRs1(in, w) \/ LdRs2(in), Decode(in)
  PROVE  Classified(in) /\ IsAligned(reg_next_pc')
<1>12. CASE GivingUp
  <2>1. /\ decoder_trigger' = FALSE /\ do_waitirq' = FALSE /\ reg_next_pc' = reg_next_pc
        /\ Abandons(in)
    BY <1>12, GivingUpSteps DEF PcInv
  <2>2. /\ cpu_state = "ld_rs1" /\ mem_do = {"prefetch", "rinst"}
    BY <1>12 DEF GivingUp
  <2>3. CASE ~mem_done(in)
    <3>1. mem_do' = mem_do /\ cpu_state' \in {"ld_rs1", "trap"} /\ ~latched_branch'
      BY <2>1, <2>2, <2>3 DEF Abandons, GivesUp
    <3>2. Following
      BY <2>2 DEF Following, Fetching, Wants, Dropped
    <3>3. Wanted' = Wanted
      BY <2>1, <2>2, <3>1, WantedNext DEF Wanted
    <3>4. GoesOn
      BY <3>1, <3>3 DEF GoesOn, Held
    <3> QED BY <2>1, <2>3, <3>2, <3>4 DEF Classified, PcInv, IsAligned
  <2>4. CASE mem_done(in)
    <3>1. Redirected
      BY <2>1, <2>4 DEF Abandons, Redirected, Held
    <3> QED BY <2>1, <2>4, <3>1 DEF Classified, PcInv, IsAligned
  <2> QED BY <2>3, <2>4
<1> SUFFICES ASSUME ~GivingUp PROVE Classified(in) /\ IsAligned(reg_next_pc')
  BY <1>12
<1>1. /\ cpu_state \in {"ld_rs1", "ld_rs2"}
      /\ mem_do = IF decoded.kind \in Jumps THEN {} ELSE {"prefetch"}
      /\ ~latched_branch
  BY DEF LdRs1, LdRs2, PcInv, ControlInv, OperandControl, LatchControl, Operating
<1>2. /\ ~mem_done(in) /\ ~decoder_trigger' /\ ~do_waitirq'
      /\ reg_next_pc' = reg_next_pc /\ ToNext(in)
  BY OperandSteps DEF PcInv
<1> SUFFICES Classified(in)
  BY <1>2 DEF PcInv
<1>3. RemainingRequests(in) = mem_do
  BY <1>2 DEF RemainingRequests
<1>4. ASSUME ~latched_branch', mem_do = {"prefetch"},
             mem_do' \in {{"prefetch"}, {"prefetch", "rinst"}}
      PROVE  Classified(in)
  BY <1>1, <1>2, <1>4, PrefetchKeepsGoing
<1>5. CASE Rests
  BY <1>1, <1>4, <1>5 DEF Rests, Keeps
<1>6. CASE Returns
  BY <1>1, <1>2, <1>6, JumpAsksNothing DEF Returns, Jumps
<1>11. CASE Answered \/ GivesUp
  <2>1. mem_do = {"prefetch"}
    BY <1>1, <1>11 DEF Answered, GivesUp
  <2> QED BY <1>1, <1>4, <1>11, <2>1 DEF Answered, GivesUp
<1>7. CASE ReadsMore
  <2>1. cpu_state' = "ld_rs2" /\ mem_do' = mem_do /\ ~latched_branch'
    BY <1>1, <1>7 DEF ReadsMore, Keeps
  <2>2. CASE mem_do = {}
    BY <2>1, <2>2, JumpAsksNothing
  <2>3. CASE mem_do = {"prefetch"}
    BY <1>4, <2>1, <2>3
  <2> QED BY <1>1, <2>2, <2>3
<1>8. CASE Executes(in)
  <2>1. ~latched_branch' /\ \E wait, wait2 : ToExec(in, wait, wait2)
    BY <1>1, <1>8 DEF Executes
  <2>2. /\ cpu_state' = "exec"
        /\ \/ mem_do' = mem_do
           \/ mem_do' = IF "prefetch" \in mem_do THEN mem_do \cup {"rinst"}
                        ELSE mem_do \ {"rinst"}
    BY <1>2, <1>3, <2>1 DEF ToExec, ClaimPrefetch, WithRinst, Wants
  <2>3. CASE mem_do = {}
    <3>1. mem_do' = {}
      BY <2>2, <2>3
    <3> QED BY <2>2, <2>3, <3>1, JumpAsksNothing
  <2>4. CASE mem_do = {"prefetch"}
    <3>1. mem_do' \in {{"prefetch"}, {"prefetch", "rinst"}}
      BY <2>2, <2>4
    <3> QED BY <1>4, <2>1, <2>4, <3>1
  <2> QED BY <1>1, <2>3, <2>4
<1>9. CASE Shifts(in)
  BY <1>1, <1>3, <1>4, <1>9 DEF Shifts, ToShift
<1>10. CASE Accessing(in)
  <2>1. mem_do' = WithRinst(mem_do, ~mem_done(in)) /\ ~latched_branch' /\ mem_do = {"prefetch"}
    BY <1>1, <1>3, <1>10 DEF Accessing, ToMemory
  <2>2. mem_do' = {"prefetch", "rinst"}
    BY <1>2, <2>1 DEF WithRinst
  <2> QED BY <1>4, <2>1, <2>2
<1> QED BY <1>2, <1>5, <1>6, <1>7, <1>8, <1>9, <1>10, <1>11 DEF ToNext

LEMMA ExecClasses ==
  ASSUME PcInv, ~trap, NEW in, Exec(in), Decode(in)
  PROVE  Classified(in) /\ IsAligned(reg_next_pc')
<1> USE DEF Wants, WithRinst
<1>0. /\ cpu_state = "exec" /\ reg_next_pc' = reg_next_pc /\ ~do_waitirq'
      /\ insn = decoded /\ ControlInv /\ IsAligned(reg_next_pc)
      /\ latched_branch => /\ decoded.kind = "branch" /\ ~alu_wait /\ insn.cond # "not"
                           /\ reg_out = insn.target /\ latched_store
  BY DEF Exec, KeepPc, NoStrobes, PcInv, ControlInv, OperandControl, ExecControl, LatchControl,
         Operating
<1>1. Wanted = reg_next_pc /\ (~latched_branch' => Wanted' = reg_next_pc)
  BY <1>0, WantedNext DEF Wanted, IsAligned
<1>2. CASE ExecWait(in)
  <2>1. alu_wait /\ ~latched_branch /\ cpu_state' = "exec" /\ latched_branch' = latched_branch
    BY <1>0, <1>2 DEF ExecWait, ExecWaits, KeepLatches, ControlInv, ExecControl
  <2>2. mem_do = IF decoded.kind = "jalr" THEN {} ELSE {"prefetch"}
    BY <1>0, <2>1 DEF ControlInv, ExecControl
  <2>3. ~mem_done(in)
    BY <2>2, DoneNeedsRequest
  <2>4. mem_do' = WithRinst(mem_do, Wants("prefetch") /\ ~alu_wait_2 /\ ~mem_done(in))
    BY <1>2, <2>3 DEF ExecWait, RemainingRequests
  <2>5. CASE mem_do = {}
    <3>1. mem_do' = {}
      BY <2>4, <2>5
    <3> QED BY <1>0, <2>1, <2>5, <3>1, JumpAsksNothing
  <2>6. CASE mem_do = {"prefetch"}
    <3>1. mem_do' \in {{"prefetch"}, {"prefetch", "rinst"}}
      BY <2>4, <2>6
    <3> QED BY <1>0, <2>1, <2>3, <2>6, <3>1, PrefetchKeepsGoing
  <2> QED BY <2>2, <2>5, <2>6
<1>3. CASE ExecBranch(in)
  <2>1. /\ mem_do = {"prefetch", "rinst"} /\ ~alu_wait
        /\ BranchTaken <=> insn.cond # "not"
    BY <1>0, <1>3, BranchDecided DEF ExecBranch
  <2>2. /\ cpu_state' = IF mem_done(in) THEN "fetch" ELSE "exec"
        /\ latched_branch' = BranchTaken /\ latched_store' = BranchTaken
        /\ Fetching
    BY <1>3, <2>1 DEF ExecBranch, Fetching
  <2>3. CASE BranchTaken /\ mem_done(in)
    <3>1. mem_do' = {"rinst"} /\ ~decoder_trigger'
      BY <1>3, <2>1, <2>3 DEF ExecBranch, RemainingRequests
    <3>2. Redirected
      BY <1>0, <2>2, <2>3, <3>1 DEF Redirected, Held
    <3> QED BY <1>0, <2>3, <3>2 DEF Classified
  <2>4. CASE BranchTaken /\ ~mem_done(in)
    <3>1. mem_do' = mem_do /\ Dropped' /\ reg_out' = insn.target
      <4>1. mem_do' = mem_do
        BY <1>3, <2>1, <2>4 DEF ExecBranch, RemainingRequests
      <4>2. reg_out' = insn.target
        BY <1>0, <1>3 DEF Exec, ExecBranch, ExecTarget
      <4> QED BY <2>2, <2>4, <4>1, <4>2 DEF Dropped
    <3>2. CASE latched_branch
      <4>1. next_pc' = next_pc
        BY <1>0, <2>2, <2>4, <3>1, <3>2 DEF next_pc
      <4>2. DropGoesOn
        BY <1>0, <2>1, <3>1, <3>2, <4>1 DEF DropGoesOn, Dropped
      <4> QED BY <1>0, <2>4, <4>2 DEF Classified
    <3>3. CASE ~latched_branch
      <4>1. Following
        BY <2>2, <3>3 DEF Following, Dropped
      <4>2. Wanted' = Wanted /\ ~Held'
        BY <1>0, <1>1, <2>2, <2>4, WantedNext DEF Held
      <4>3. GoesOn
        BY <1>0, <2>1, <3>1, <4>2 DEF GoesOn
      <4> QED BY <1>0, <2>4, <4>1, <4>3 DEF Classified
    <3> QED BY <3>2, <3>3
  <2>5. CASE ~BranchTaken
    <3>1. ~latched_branch /\ ~latched_branch'
      BY <1>0, <2>1, <2>2, <2>5
    <3>2. Following
      BY <2>2, <3>1 DEF Following, Dropped
    <3>3. /\ mem_do' = IF mem_done(in) THEN {} ELSE mem_do
          /\ decoder_trigger' <=> mem_done(in)
      BY <1>3, <2>1, <2>5 DEF ExecBranch, DefaultTrigger, RemainingRequests
    <3>4. CASE mem_done(in)
      <4>1. Delivered
        BY <1>1, <2>2, <3>1, <3>3, <3>4 DEF Delivered, Held
      <4> QED BY <1>0, <2>1, <3>2, <3>4, <4>1 DEF Classified
    <3>5. CASE ~mem_done(in)
      <4>1. GoesOn
        BY <1>1, <2>2, <3>1, <3>3, <3>5 DEF GoesOn, Held
      <4> QED BY <1>0, <3>2, <3>5, <4>1 DEF Classified
    <3> QED BY <3>4, <3>5
  <2> QED BY <1>0, <2>3, <2>4, <2>5
<1>4. CASE ExecResult(in)
  <2>1. /\ mem_do = IF decoded.kind = "jalr" THEN {} ELSE {"prefetch", "rinst"}
        /\ ~latched_branch
    BY <1>0, <1>4, BranchDecided DEF ExecResult
  <2>2. /\ cpu_state' = "fetch" /\ latched_branch' = (decoded.kind = "jalr")
        /\ mem_do' = RemainingRequests(in) /\ DefaultTrigger(in)
    BY <1>4 DEF ExecResult
  <2>3. CASE decoded.kind = "jalr"
    <3>1. mem_do' = {} /\ ~decoder_trigger'
      BY <2>1, <2>2, <2>3 DEF RemainingRequests, DefaultTrigger
    <3> QED BY <1>0, <2>1, <2>2, <2>3, <3>1, JumpAsksNothing
  <2>4. CASE decoded.kind # "jalr"
    <3>1. Following /\ ~latched_branch'
      BY <2>1, <2>2, <2>4 DEF Following, Fetching, Dropped
    <3>2. CASE mem_done(in)
      <4>1. mem_do' = {} /\ decoder_trigger'
        BY <2>1, <2>2, <2>4, <3>2 DEF RemainingRequests, DefaultTrigger
      <4>2. Delivered
        BY <1>1, <2>2, <3>1, <4>1 DEF Delivered, Held
      <4> QED BY <1>0, <2>1, <2>4, <3>1, <3>2, <4>2 DEF Classified
    <3>3. CASE ~mem_done(in)
      <4>1. mem_do' = mem_do /\ ~decoder_trigger'
        BY <2>2, <3>3 DEF RemainingRequests, DefaultTrigger
      <4>2. GoesOn
        BY <1>0, <1>1, <2>2, <3>1, <4>1 DEF GoesOn, Held
      <4> QED BY <1>0, <3>1, <3>3, <4>2 DEF Classified
    <3> QED BY <3>2, <3>3
  <2> QED BY <2>3, <2>4
<1> QED BY <1>0, <1>2, <1>3, <1>4 DEF Exec

LEMMA ShiftClasses ==
  ASSUME PcInv, ~trap, NEW in, Shift(in), Decode(in)
  PROVE  Classified(in) /\ IsAligned(reg_next_pc')
<1>0. /\ cpu_state = "shift" /\ ~decoder_trigger /\ mem_do = {"prefetch"} /\ ~latched_branch
      /\ reg_next_pc' = reg_next_pc /\ ~latched_branch' /\ ~do_waitirq'
  BY DEF Shift, KeepPc, NoStrobes, PcInv, ControlInv, OperandControl, LatchControl, Operating,
         GivingUp
<1>1. ~mem_done(in)
  BY <1>0, DoneNeedsRequest
<1>2. RemainingRequests(in) = mem_do /\ ~decoder_trigger'
  BY <1>0, <1>1 DEF Shift, DefaultTrigger, RemainingRequests
<1>3. mem_do' \in {{"prefetch"}, {"prefetch", "rinst"}}
  <2>1. CASE ShiftDone(in)
    BY <1>0, <1>1, <1>2, <2>1 DEF ShiftDone, ClaimPrefetch, WithRinst, Wants
  <2>2. CASE ShiftStep(in)
    BY <1>0, <1>2, <2>2 DEF ShiftStep
  <2> QED BY <2>1, <2>2 DEF Shift
<1>4. Classified(in)
  BY <1>0, <1>1, <1>2, <1>3, PrefetchKeepsGoing
<1> QED BY <1>0, <1>4 DEF PcInv

LEMMA DataClasses ==
  ASSUME MisalignmentExcluded, PcInv, ~trap, NEW in, StMem(in) \/ LdMem(in), Decode(in)
  PROVE  Classified(in) /\ IsAligned(reg_next_pc')
<1>0. /\ cpu_state \in {"ldmem", "stmem"} /\ DataRequests \in {{"rdata"}, {"wdata"}}
      /\ mem_do \in {{"prefetch", "rinst"}, {}, DataRequests}
  BY DEF StMem, LdMem, DataRequests, PcInv, RequestInv
<1>1. /\ UNCHANGED <<latched_branch, reg_next_pc>>
      /\ do_waitirq' = FALSE /\ ~latched_branch
      /\ \/ /\ cpu_state' = cpu_state /\ DefaultTrigger(in)
            /\ Wants("prefetch") /\ ~mem_done(in) => mem_do' = mem_do
            /\ Wants("prefetch") /\ mem_done(in) => mem_do' \subseteq DataRequests
            /\ ~Wants("prefetch") => ~mem_done(in) /\ mem_do \subseteq mem_do'
                                       /\ mem_do' \subseteq DataRequests
         \/ /\ cpu_state' = "fetch" /\ decoder_trigger' = TRUE
            /\ ~Wants("prefetch") /\ mem_done(in) /\ mem_do' = {}
  BY DataSteps DEF PcInv
<1> SUFFICES Classified(in)
  BY <1>1 DEF PcInv
<1>2. ~latched_branch' /\ Wanted = reg_next_pc /\ Wanted' = Wanted
  BY <1>0, <1>1, WantedNext DEF Wanted, PcInv, IsAligned
<1>3. Held <=> ~Wants("prefetch")
  BY <1>0 DEF Held
<1>4. CASE Wants("prefetch")
  <2>1. mem_do = {"prefetch", "rinst"} /\ Wants("rinst") /\ cpu_state' = cpu_state
    BY <1>0, <1>1, <1>4 DEF Wants
  <2>2. Following
    BY <1>0, <2>1 DEF Following, Dropped, Fetching
  <2>3. CASE mem_done(in)
    <3>1. mem_do' \in {{}, {"rdata"}, {"wdata"}}
      BY <1>0, <1>1, <1>4, <2>1, <2>3
    <3>2. Held'
      BY <1>0, <2>1, <3>1 DEF Held, Wants
    <3>3. Delivered
      BY <1>2, <3>1, <3>2 DEF Delivered
    <3> QED BY <2>1, <2>2, <2>3, <3>3 DEF Classified
  <2>4. CASE ~mem_done(in)
    <3>1. mem_do' = mem_do
      BY <1>0, <1>1, <1>4, <2>1, <2>4
    <3>2. ~Held'
      BY <1>0, <2>1, <3>1 DEF Held, Wants
    <3>3. GoesOn
      BY <1>2, <3>1, <3>2 DEF GoesOn
    <3> QED BY <2>2, <2>4, <3>3 DEF Classified
  <2> QED BY <2>3, <2>4
<1>5. CASE ~Wants("prefetch")
  <2>1. mem_do \in {{}, {"rdata"}, {"wdata"}} /\ mem_do \subseteq DataRequests
    BY <1>0, <1>5 DEF Wants
  <2>2. decoded' = decoded
    BY <2>1 DEF Decode, Wants
  <2>3. /\ mem_do' \in {{}, {"rdata"}, {"wdata"}} /\ Held'
        /\ mem_do # {} /\ ~mem_done(in) => mem_do' = mem_do
    <3>1. CASE cpu_state' = cpu_state
      <4>1. mem_do \subseteq mem_do' /\ mem_do' \subseteq DataRequests
        BY <1>0, <1>1, <1>5, <3>1
      <4>2. mem_do' \in {{}, {"rdata"}, {"wdata"}} /\ (mem_do # {} => mem_do' = mem_do)
        BY <1>0, <2>1, <4>1
      <4>3. Held'
        BY <1>0, <3>1, <4>2 DEF Held, Wants
      <4> QED BY <4>2, <4>3
    <3>2. CASE cpu_state' = "fetch"
      BY <1>0, <1>1, <3>2 DEF Held
    <3> QED BY <1>1, <3>1, <3>2
  <2>4. HoldsOn(in)
    BY <1>2, <1>3, <1>5, <2>1, <2>2, <2>3 DEF HoldsOn
  <2> QED BY <2>4 DEF Classified
<1> QED BY <1>4, <1>5

(***************************************************************************)
(* An instruction that only a coprocessor may know is offered to it while  *)
(* the prefetch of the next one is running.  The counter has run no longer *)
(* than the memory has stalled; so a memory that is fast enough ends the   *)
(* prefetch while the timeout it may cause still stands.                   *)
(***************************************************************************)
Offered == cpu_state = "ld_rs1" /\ instr_trap /\ insn.kind = "illegal"

OfferStarts ==
  /\ pcpi_valid => Offered /\ ~Wants("rinst")
  /\ cpu_state = "fetch" /\ decoder_trigger => pcpi_timeout_counter = PCPI_TIMEOUT

OfferStands ==
  Offered /\ ~Wants("rinst") =>
    /\ mem_state \in {"IDLE", "READ", "WAIT_FETCH"}
    /\ mem_state = "IDLE" <=> ~pcpi_valid
    /\ ~pcpi_valid => ~pcpi_timeout /\ pcpi_timeout_counter = PCPI_TIMEOUT
    /\ mem_state = "READ" /\ mem_valid =>
         IF pcpi_timeout THEN stall > PCPI_TIMEOUT
                         ELSE pcpi_timeout_counter + stall >= PCPI_TIMEOUT
    /\ pcpi_timeout => pcpi_timeout_counter = 0

OfferEnds ==
  Offered /\ Wants("rinst") =>
    /\ pcpi_timeout
    /\ \/ mem_state = "WAIT_FETCH"
       \/ /\ COMPRESSED_ISA /\ mem_state = "READ"
          /\ IF mem_valid THEN mem_la_secondword ELSE pcpi_timeout_counter = 0
       \/ /\ ~COMPRESSED_ISA /\ mem_state = "READ" /\ mem_valid
          /\ stall >= PCPI_TIMEOUT + (IF pcpi_timeout_counter = 0 THEN 2 ELSE 3)

OfferInv ==
  WITH_PCPI /\ ENABLE_REGS_DUALPORT =>
    cpu_state # "ld_rs2" /\ OfferStarts /\ OfferStands /\ OfferEnds

\* a claim the coprocessor has let pass is not answered any more
LEMMA OffersStand ==
  ASSUME KnownInv, OfferInv, NEW in \in Inputs
  PROVE  ClaimStands(in)
<1> SUFFICES ASSUME GivingUp PROVE ~in.pcpi_ready /\ PcpiGivesUp
  BY DEF ClaimStands
<1>1. insn = decoded /\ instr_trap /\ cpu_state = "ld_rs1" /\ WITH_PCPI /\ ENABLE_REGS_DUALPORT
      /\ Wants("rinst")
  BY DEF GivingUp, KnownInv, Wants
<1>2. ~pcpi_valid
  BY <1>1 DEF OfferInv, OfferStarts
<1>3. ~in.pcpi_ready
  BY <1>2 DEF Inputs, PcpiInputs
<1>4. CASE insn.kind = "illegal"
  BY <1>1, <1>3, <1>4 DEF OfferInv, OfferEnds, Offered, PcpiGivesUp
<1>5. CASE insn.kind # "illegal"
  BY <1>1, <1>3, <1>5 DEF instr_trap, PcpiGivesUp
<1> QED BY <1>4, <1>5

\* the prefetch on the bus, until it is claimed
LEMMA PrefetchOnBus ==
  ASSUME PcInv, MemInv, cpu_state = "ld_rs1", mem_do = {"prefetch"},
         NEW in \in Inputs, MemStep(in)
  PROVE  /\ mem_state \in {"IDLE", "READ", "WAIT_FETCH"}
         /\ mem_state = "IDLE" => mem_state' = "READ" /\ stall' = 0
         /\ mem_state = "READ" /\ mem_valid /\ in.ready => mem_state' = "WAIT_FETCH"
         /\ mem_state = "READ" /\ mem_valid /\ ~in.ready =>
              mem_state' = "READ" /\ mem_valid' /\ stall' = stall + 1 /\ stall < MaxStall
         /\ mem_state = "READ" /\ ~mem_valid => mem_state' = "READ" /\ ~mem_valid'
         /\ mem_state = "WAIT_FETCH" => mem_state' = "WAIT_FETCH"
<1>1. ~trap /\ Following /\ Wants("prefetch") /\ ~Wants("rinst") /\ BusInv /\ ReadInv
  BY DEF PcInv, ControlInv, TrapControl, Following, Fetching, Dropped, Wants, MemInv
<1>2. mem_state \in {"IDLE", "READ", "WAIT_FETCH"}
  <2>1. mem_state # "WRITE"
    BY <1>1 DEF BusInv, Wants
  <2> QED BY <2>1 DEF PcInv, TypeOK, MemTypeOK, BusTypeOK
<1>3. mem_xfer(in) => mem_valid /\ in.ready
  BY <1>1 DEF mem_xfer
<1>4. ~NeedsSecondWord(in)
  <2> SUFFICES ASSUME NeedsSecondWord(in) PROVE FALSE
    OBVIOUS
  <2>1. mem_valid /\ ~mem_la_secondword /\ FirstwordOfTransfer /\ mem_state = "READ"
    BY <1>1, <1>2, <1>3 DEF NeedsSecondWord, BusInv
  <2>2. mem_la_firstword
    BY <1>1, <2>1, TransferKnown
  <2>3. Upper(Wanted)
    BY <1>1, <2>2, Firstword DEF Following
  <2> QED BY <1>1, <2>1, <2>3 DEF ReadInv
<1>5. ASSUME mem_state = "IDLE" PROVE mem_state' = "READ" /\ stall' = 0
  BY <1>1, <1>5, BusActions DEF BusInv, Idle, EveryEdge, Wants
<1>6. ASSUME mem_state = "READ", mem_valid, in.ready PROVE mem_state' = "WAIT_FETCH"
  BY <1>1, <1>4, <1>6, BusActions DEF ReadComplete, mem_xfer, Wants
<1>7. ASSUME mem_state = "READ", mem_valid, ~in.ready
      PROVE  mem_state' = "READ" /\ mem_valid' /\ stall' = stall + 1 /\ stall < MaxStall
  <2>1. BusWait(in) /\ EveryEdge(in)
    BY <1>1, <1>3, <1>7, BusActions
  <2>2. stall # MaxStall
    BY <1>7 DEF Inputs, MemInputs
  <2>3. stall \in 0 .. MaxStall /\ MaxStall \in Nat
    BY MemAssumption DEF PcInv, TypeOK, MemTypeOK, BusTypeOK
  <2> QED BY <1>7, <2>1, <2>2, <2>3 DEF BusWait, EveryEdge
<1>8. ASSUME mem_state = "READ", ~mem_valid PROVE mem_state' = "READ" /\ ~mem_valid'
  BY <1>1, <1>3, <1>8, BusActions DEF BusWait
<1>9. ASSUME mem_state = "WAIT_FETCH" PROVE mem_state' = "WAIT_FETCH"
  BY <1>1, <1>9, BusActions DEF WaitFetch
<1> QED BY <1>2, <1>5, <1>6, <1>7, <1>8, <1>9

\* and when it has been claimed but is not over
LEMMA ClaimOnBus ==
  ASSUME PcInv, MemInv, cpu_state = "ld_rs1", mem_do = {"prefetch", "rinst"},
         NEW in \in Inputs, MemStep(in), ~mem_done(in)
  PROVE  /\ mem_state # "WAIT_FETCH"
         /\ mem_state = "READ" /\ ~mem_valid =>
              mem_state' = "READ" /\ mem_valid' /\ mem_la_secondword'
         /\ mem_state = "READ" /\ mem_la_secondword => mem_valid /\ ~in.ready
         /\ mem_state = "READ" /\ mem_valid /\ ~COMPRESSED_ISA =>
              mem_state' = "READ" /\ mem_valid' /\ stall' = stall + 1 /\ stall < MaxStall
<1>1. ~trap /\ Following /\ Wants("rinst") /\ BusInv /\ BufferInv /\ ReadInv
  BY DEF PcInv, ControlInv, TrapControl, Following, Fetching, Dropped, Wants, MemInv
<1>2. mem_la_firstword <=> Upper(Wanted) /\ ~mem_la_secondword
  BY <1>1, Firstword DEF Following
<1>3. mem_state # "WAIT_FETCH"
  BY <1>1, <1>2 DEF MemInv, WaitInv, mem_done
<1>4. ASSUME mem_state = "READ", ~mem_valid
      PROVE  mem_state' = "READ" /\ mem_valid' /\ mem_la_secondword'
  <2>1. mem_la_use_prefetched_high_word
    BY <1>1, <1>2, <1>4, Buffered DEF ReadInv, BufferHolds, BusInv
  <2>2. mem_xfer(in)
    BY <1>1, <2>1 DEF mem_xfer
  <2>3. NeedsSecondWord(in)
    BY <1>1, <1>4, <2>2, WholeIsDone
  <2> QED BY <1>1, <1>4, <2>3, BusActions DEF ReadSecondWord
<1>5. ASSUME mem_state = "READ", mem_la_secondword PROVE mem_valid /\ ~in.ready
  <2>1. mem_valid /\ ~NeedsSecondWord(in)
    BY <1>1, <1>5 DEF BusInv, NeedsSecondWord
  <2>2. ~mem_xfer(in)
    BY <1>1, <1>5, <2>1, WholeIsDone
  <2> QED BY <2>1, <2>2 DEF mem_xfer
<1>6. ASSUME mem_state = "READ", mem_valid, ~COMPRESSED_ISA
      PROVE  mem_state' = "READ" /\ mem_valid' /\ stall' = stall + 1 /\ stall < MaxStall
  <2>1. ~mem_la_use_prefetched_high_word
    BY <1>1, <1>6, BufferOrBus
  <2>2. ~mem_la_firstword
    BY <1>2, <1>6 DEF Upper
  <2>3. ~NeedsSecondWord(in)
    <3>1. NeedsSecondWord(in) => ~mem_la_secondword /\ FirstwordOfTransfer /\ mem_xfer(in)
      BY DEF NeedsSecondWord
    <3> QED BY <1>1, <1>6, <2>2, <3>1, TransferKnown
  <2>4. ~mem_xfer(in)
    BY <1>1, <1>6, <2>3, WholeIsDone
  <2>5. ~in.ready
    BY <1>6, <2>4 DEF mem_xfer
  <2>6. BusWait(in) /\ EveryEdge(in)
    BY <1>1, <1>6, <2>4, BusActions
  <2>7. stall # MaxStall
    BY <1>6, <2>5 DEF Inputs, MemInputs
  <2>8. stall \in 0 .. MaxStall /\ MaxStall \in Nat
    BY MemAssumption DEF PcInv, TypeOK, MemTypeOK, BusTypeOK
  <2> QED BY <1>6, <2>5, <2>6, <2>7, <2>8 DEF BusWait, EveryEdge
<1> QED BY <1>3, <1>4, <1>5, <1>6

\* what the coprocessor interface does in ld_rs1
LEMMA OfferSteps ==
  ASSUME KnownInv, WITH_PCPI, ENABLE_REGS_DUALPORT, NEW in, NEW w, LdRs1(in, w)
  PROVE  /\ cpu_state' # "ld_rs2"
         /\ pcpi_valid' => \/ ~instr_trap /\ pcpi_valid
                           \/ PcpiWait(in) /\ Offered
         /\ Offered =>
              \/ PcpiReady(in)
              \/ PcpiWait(in) /\ ~pcpi_timeout
              \/ ~in.pcpi_ready /\ pcpi_timeout /\ pcpi_valid' = FALSE /\ ClaimPrefetch(in)
<1>0. cpu_state = "ld_rs1" /\ insn = decoded
  BY DEF LdRs1, KnownInv
<1>1. CASE LdRs1Trap(in)
  <2>1. \/ PcpiReady(in) \/ PcpiWait(in)
        \/ /\ ~in.pcpi_ready /\ PcpiGivesUp /\ pcpi_valid' = FALSE /\ ClaimPrefetch(in)
           /\ DoInstrTrap(in)
    BY <1>1 DEF LdRs1Trap
  <2>2. PcpiWait(in) => Offered /\ ~pcpi_timeout
    BY <1>0, <1>1 DEF LdRs1Trap, PcpiWait, PcpiGivesUp, Offered, instr_trap
  <2>3. Offered /\ PcpiGivesUp => pcpi_timeout
    BY DEF Offered, PcpiGivesUp
  <2>4. cpu_state' # "ld_rs2"
    BY <1>0, <2>1 DEF PcpiReady, PcpiWait, DoInstrTrap, DoTrap
  <2>5. PcpiReady(in) => pcpi_valid' = FALSE
    BY DEF PcpiReady
  <2> QED BY <2>1, <2>2, <2>3, <2>4, <2>5
<1>2. CASE ~LdRs1Trap(in)
  <2>1. ~instr_trap /\ pcpi_valid' = pcpi_valid /\ cpu_state' # "ld_rs2"
    <3>1. CASE LdRs1Counter(in) \/ LdRs1Csr(in, w)
      BY <3>1 DEF LdRs1Counter, LdRs1Csr, ExecutesCsr, ReadsOut
    <3>2. CASE ~instr_trap /\ LdRs1Mret(in)
      BY <3>2 DEF LdRs1Mret
    <3>3. CASE LdRs1Operands(in)
      BY <3>3 DEF LdRs1Operands, Operands, Dispatch, ToExec, ToShift, ToMemory
    <3> QED BY <1>2, <3>1, <3>2, <3>3 DEF LdRs1
  <2> QED BY <2>1 DEF Offered
<1> QED BY <1>1, <1>2

LEMMA OfferTick ==
  ASSUME PcpiTimely, PcInv, MemInv, KnownInv, OfferInv, NEW in \in Inputs, NEW w,
         StateMachine(in, w), MemStep(in), Decode(in), PcpiTimeout(in)
  PROVE  OfferInv'
<1> SUFFICES ASSUME WITH_PCPI, ENABLE_REGS_DUALPORT PROVE OfferInv'
  BY DEF OfferInv
<1>0. cpu_state # "ld_rs2" /\ OfferStarts /\ OfferStands /\ OfferEnds /\ ClaimStands(in)
  BY OffersStand DEF OfferInv
<1>1. /\ pcpi_timeout_counter' =
           IF pcpi_valid /\ ~in.pcpi_wait
             THEN IF pcpi_timeout_counter = 0 THEN 0 ELSE pcpi_timeout_counter - 1
             ELSE PCPI_TIMEOUT
      /\ pcpi_timeout' <=> pcpi_timeout_counter = 0
      /\ pcpi_timeout_counter \in Nat /\ pcpi_timeout_counter <= PCPI_TIMEOUT
      /\ PCPI_TIMEOUT \in Nat /\ stall \in 0 .. MaxStall /\ MaxStall \in Nat
  <2>1. pcpi_timeout_counter \in 0 .. PCPI_TIMEOUT /\ stall \in 0 .. MaxStall
        /\ PCPI_TIMEOUT \in Nat /\ MaxStall \in Nat
    BY CoreAssumption, MemAssumption DEF PcInv, TypeOK, PcpiTypeOK, MemTypeOK, BusTypeOK
  <2>2. pcpi_timeout' = (pcpi_timeout_counter = 0)
    BY DEF PcpiTimeout
  <2>3. pcpi_timeout_counter' =
           IF pcpi_valid /\ ~in.pcpi_wait
             THEN IF pcpi_timeout_counter = 0 THEN 0 ELSE pcpi_timeout_counter - 1
             ELSE PCPI_TIMEOUT
    BY DEF PcpiTimeout
  <2>4. pcpi_timeout' <=> (pcpi_timeout_counter = 0)
    BY <2>2
  <2>5. pcpi_timeout_counter \in Nat /\ pcpi_timeout_counter <= PCPI_TIMEOUT
    BY <2>1
  <2> QED BY <2>1, <2>3, <2>4, <2>5
<1>2. ASSUME "illegal" \in Kinds
      PROVE  /\ ~PcpiClaimsLate /\ PCPI_TIMEOUT > 0 /\ MaxStall <= PCPI_TIMEOUT + 3
             /\ COMPRESSED_ISA => MaxStall = 0
  BY <1>2 DEF PcpiTimely
<1>3. ASSUME cpu_state' \notin {"ld_rs1", "ld_rs2"}, ~pcpi_valid', decoder_trigger' => ~pcpi_valid
      PROVE  OfferInv'
  BY <1>1, <1>3 DEF OfferInv, OfferStarts, OfferStands, OfferEnds, Offered
<1>4. CASE Fetch(in)
  <2>1. cpu_state = "fetch" /\ FetchDefaults /\ ~pcpi_valid
    BY <1>0, <1>4 DEF Fetch, FetchWait, FetchMisalignedJump, FetchInterrupt, FetchWfi, FetchJal,
                      FetchLaunch, OfferStarts, Offered
  <2>2. ~pcpi_valid'
    BY <2>1 DEF FetchDefaults
  <2>3. CASE FetchLaunch(in)
    <3>1. decoder_trigger /\ mem_do = {}
      BY <2>1, <2>3 DEF FetchLaunch, Launches, PcInv, ControlInv, FetchControl
    <3>2. decoded' = decoded /\ insn' = decoded /\ cpu_state' = "ld_rs1"
      BY <2>3, <3>1 DEF Decode, Wants, FetchLaunch, PcInv, RequestInv
    <3>3. mem_do' \subseteq {"prefetch"}
      BY <2>3, <3>1 DEF FetchLaunch, RemainingRequests
    <3>4. mem_state = "IDLE" /\ ~trap
      BY <2>1, <3>1
      DEF PcInv, ControlInv, TrapControl, MemInv, BusInv, Fetching, Wants, TypeOK, MemTypeOK,
          BusTypeOK
    <3>5. mem_state' = "IDLE"
      BY <3>1, <3>4, BusActions DEF Idle, Wants
    <3>6. Offered' => ~pcpi_timeout'
      <4> SUFFICES ASSUME Offered' PROVE ~pcpi_timeout'
        OBVIOUS
      <4>1. decoded.kind = "illegal" /\ decoded.kind \in Kinds
        BY <3>1, <3>2 DEF Offered, KnownInv
      <4>2. pcpi_timeout_counter = PCPI_TIMEOUT
        BY <1>0, <2>1, <3>1 DEF OfferStarts
      <4> QED BY <1>1, <1>2, <4>1, <4>2
    <3>7. pcpi_timeout_counter' = PCPI_TIMEOUT
      BY <1>1, <2>1
    <3> QED BY <2>2, <3>2, <3>3, <3>5, <3>6, <3>7
        DEF OfferInv, OfferStarts, OfferStands, OfferEnds, Wants
  <2>4. CASE ~FetchLaunch(in)
    <3>1. cpu_state' \in {"fetch", "trap"}
      BY <1>4, <2>1, <2>4 DEF Fetch, FetchWait, FetchMisalignedJump, FetchInterrupt, FetchWfi,
                              FetchJal, DoTrap
    <3> QED BY <1>3, <2>1, <2>2, <3>1
  <2> QED BY <2>3, <2>4
<1>5. CASE LdRs1(in, w)
  <2>1. /\ cpu_state = "ld_rs1" /\ insn' = insn /\ ~decoder_trigger'
        /\ cpu_state' = "ld_rs1" => decoded' = decoded /\ ~mem_done(in)
    <3>1. CASE GivingUp
      BY <1>0, <1>5, <3>1, GivingUpSteps DEF PcInv, Abandons, GivingUp
    <3>2. CASE ~GivingUp
      BY <1>5, <3>2, OperandSteps DEF PcInv, LdRs1
    <3> QED BY <3>1, <3>2
  <2>2. /\ cpu_state' # "ld_rs2"
        /\ pcpi_valid' => PcpiWait(in) /\ Offered
        /\ Offered =>
              \/ PcpiReady(in)
              \/ PcpiWait(in) /\ ~pcpi_timeout
              \/ ~in.pcpi_ready /\ pcpi_timeout /\ pcpi_valid' = FALSE /\ ClaimPrefetch(in)
    BY <1>0, <1>5, OfferSteps DEF OfferStarts, Offered
  <2>3. CASE cpu_state' # "ld_rs1"
    <3>1. ~pcpi_valid'
      BY <2>1, <2>2, <2>3 DEF PcpiWait
    <3> QED BY <1>3, <2>1, <2>2, <2>3, <3>1
  <2>4. CASE cpu_state' = "ld_rs1"
    <3>1. Offered' <=> Offered
      BY <2>1, <2>4 DEF Offered, instr_trap
    <3>2. CASE ~Offered
      BY <2>1, <2>2, <2>4, <3>1, <3>2 DEF OfferInv, OfferStarts, OfferStands, OfferEnds
    <3>3. CASE Offered
      <4>0. /\ "illegal" \in Kinds /\ insn.kind = "illegal" /\ instr_trap
            /\ decoded.kind \notin Jumps
        BY <2>1, <3>3 DEF Offered, KnownInv, instr_trap, Jumps, StageOne
      <4>1. mem_do = {"prefetch"} \/ GivingUp
        BY <2>1, <4>0 DEF PcInv, ControlInv, OperandControl, Operating
      <4>2. pcpi_valid /\ pcpi_timeout_counter = 0 => ~in.pcpi_wait
        BY <1>2, <4>0 DEF Inputs, PcpiInputs
      <4>3. ~PcpiReady(in)
        BY <2>4 DEF PcpiReady
      <4>4. CASE mem_do = {"prefetch"} /\ PcpiWait(in) /\ ~pcpi_timeout
        <5>1. ~Wants("rinst") /\ pcpi_valid' = TRUE /\ mem_do' = {"prefetch"}
          BY <2>1, <4>4 DEF Wants, PcpiWait, RemainingRequests
        <5>2. /\ mem_state = "IDLE" <=> ~pcpi_valid
              /\ ~pcpi_valid => pcpi_timeout_counter = PCPI_TIMEOUT
              /\ mem_state = "READ" /\ mem_valid => pcpi_timeout_counter + stall >= PCPI_TIMEOUT
          BY <1>0, <3>3, <4>4, <5>1 DEF OfferStands
        <5>3. mem_state' \in {"READ", "WAIT_FETCH"}
          BY <2>1, <4>4, PrefetchOnBus
        <5>4. pcpi_timeout' => pcpi_timeout_counter' = 0
          BY <1>1, <1>2, <4>0, <4>2, <5>2
        <5>5. ASSUME mem_state' = "READ", mem_valid'
              PROVE  IF pcpi_timeout' THEN stall' > PCPI_TIMEOUT
                                      ELSE pcpi_timeout_counter' + stall' >= PCPI_TIMEOUT
          <6>1. CASE mem_state = "IDLE"
            <7>1. stall' = 0 /\ pcpi_timeout_counter = PCPI_TIMEOUT /\ ~pcpi_valid
              BY <2>1, <4>4, <5>2, <6>1, PrefetchOnBus
            <7>2. ~pcpi_timeout' /\ pcpi_timeout_counter' = PCPI_TIMEOUT
              BY <1>1, <1>2, <4>0, <7>1
            <7> QED BY <1>1, <7>1, <7>2
          <6>2. CASE mem_state = "READ"
            <7>1. mem_valid /\ stall' = stall + 1 /\ stall < MaxStall
              BY <2>1, <4>4, <5>5, <6>2, PrefetchOnBus
            <7>2. pcpi_timeout_counter + stall >= PCPI_TIMEOUT
              BY <5>2, <6>2, <7>1
            <7>3. stall \in Nat
              BY <1>1
            <7>4. CASE pcpi_timeout_counter = 0
              BY <1>1, <7>1, <7>2, <7>3, <7>4
            <7>5. CASE pcpi_timeout_counter # 0
              <8>1. ~pcpi_timeout'
                    /\ pcpi_timeout_counter' \in {pcpi_timeout_counter - 1, PCPI_TIMEOUT}
                BY <1>1, <7>5
              <8> QED BY <1>1, <7>1, <7>2, <7>3, <8>1
            <7> QED BY <7>4, <7>5
          <6> QED BY <2>1, <4>4, <5>5, <6>1, <6>2, PrefetchOnBus
        <5>6. OfferStands'
          BY <5>1, <5>3, <5>4, <5>5 DEF OfferStands
        <5>7. OfferStarts' /\ OfferEnds'
          BY <2>4, <3>1, <3>3, <5>1 DEF OfferStarts, OfferEnds, Wants
        <5> QED BY <2>2, <5>6, <5>7 DEF OfferInv
      <4>5. ASSUME pcpi_timeout, pcpi_valid' = FALSE, ClaimPrefetch(in) PROVE OfferInv'
        <5>1. mem_do' = {"prefetch", "rinst"} /\ Wants("rinst")'
          BY <2>1, <2>4, <4>1, <4>5
          DEF ClaimPrefetch, RemainingRequests, WithRinst, Wants, GivingUp
        <5> SUFFICES ASSUME TRUE PROVE OfferEnds'
          BY <2>2, <2>4, <4>5, <5>1 DEF OfferInv, OfferStarts, OfferStands
        <5>2. CASE mem_do = {"prefetch"}
          <6>1. /\ mem_state \in {"READ", "WAIT_FETCH"} /\ pcpi_valid
                /\ mem_state = "READ" /\ mem_valid => stall > PCPI_TIMEOUT
                /\ pcpi_timeout_counter = 0
            BY <1>0, <3>3, <4>5, <5>2 DEF OfferStands, Wants
          <6>2. pcpi_timeout' /\ pcpi_timeout_counter' = 0
            BY <1>1, <4>2, <6>1
          <6>3. CASE mem_state = "WAIT_FETCH"
            <7>1. mem_state' = "WAIT_FETCH"
              BY <2>1, <5>2, <6>3, PrefetchOnBus
            <7> QED BY <6>2, <7>1 DEF OfferEnds
          <6>5. CASE mem_state = "READ" /\ mem_valid /\ in.ready
            <7>1. mem_state' = "WAIT_FETCH"
              BY <2>1, <5>2, <6>5, PrefetchOnBus
            <7> QED BY <6>2, <7>1 DEF OfferEnds
          <6>6. CASE mem_state = "READ" /\ mem_valid /\ ~in.ready
            <7>1. mem_state' = "READ" /\ stall' = stall + 1 /\ stall > PCPI_TIMEOUT
              BY <2>1, <5>2, <6>1, <6>6, PrefetchOnBus
            <7>2. ~COMPRESSED_ISA /\ stall' >= PCPI_TIMEOUT + 2
              BY <1>1, <1>2, <4>0, <7>1
            <7>3. mem_valid'
              BY <2>1, <5>2, <6>6, PrefetchOnBus
            <7> QED BY <6>2, <7>1, <7>2, <7>3 DEF OfferEnds
          <6>4. CASE mem_state = "READ" /\ ~mem_valid
            <7>1. mem_state' = "READ" /\ ~mem_valid'
              BY <2>1, <5>2, <6>1, <6>4, PrefetchOnBus
            <7>2. COMPRESSED_ISA
              BY <2>1, <5>2, <6>1, <6>4
              DEF PcInv, ControlInv, TrapControl, MemInv, ReadInv, Following, Fetching, Wants,
                  Dropped, Upper
            <7> QED BY <6>2, <7>1, <7>2 DEF OfferEnds
          <6> QED BY <6>1, <6>3, <6>4, <6>5, <6>6
        <5>3. CASE GivingUp
          <6>1. /\ mem_do = {"prefetch", "rinst"} /\ Wants("rinst")
                /\ mem_state # "WAIT_FETCH"
            BY <2>1, <2>4, <5>3, ClaimOnBus DEF GivingUp, Wants
          <6>2. \/ /\ COMPRESSED_ISA /\ mem_state = "READ"
                   /\ IF mem_valid THEN mem_la_secondword ELSE pcpi_timeout_counter = 0
                \/ /\ ~COMPRESSED_ISA /\ mem_state = "READ" /\ mem_valid
                   /\ stall >= PCPI_TIMEOUT + (IF pcpi_timeout_counter = 0 THEN 2 ELSE 3)
            BY <1>0, <3>3, <6>1 DEF OfferEnds
          <6>3. CASE COMPRESSED_ISA
            <7>1. ~mem_valid
              <8> SUFFICES ASSUME mem_valid PROVE FALSE
                OBVIOUS
              <8>1. ~in.ready
                BY <2>1, <2>4, <6>1, <6>2, <6>3, ClaimOnBus
              <8>2. stall # MaxStall
                BY <8>1 DEF Inputs, MemInputs
              <8> QED BY <1>1, <1>2, <4>0, <6>3, <8>2
            <7>2. mem_state' = "READ" /\ mem_valid' /\ mem_la_secondword'
              BY <2>1, <2>4, <6>1, <6>2, <6>3, <7>1, ClaimOnBus
            <7> QED BY <1>1, <6>2, <6>3, <7>1, <7>2 DEF OfferEnds
          <6>4. CASE ~COMPRESSED_ISA
            <7>1. mem_state' = "READ" /\ mem_valid' /\ stall' = stall + 1 /\ stall < MaxStall
              BY <2>1, <2>4, <6>1, <6>2, <6>4, ClaimOnBus
            <7>2. pcpi_timeout_counter = 0 /\ stall >= PCPI_TIMEOUT + 2
              BY <1>1, <1>2, <4>0, <6>2, <6>4, <7>1
            <7>3. pcpi_timeout' /\ stall' >= PCPI_TIMEOUT + 3
              BY <1>1, <7>1, <7>2
            <7> QED BY <6>4, <7>1, <7>3, <1>1 DEF OfferEnds
          <6> QED BY <6>3, <6>4
        <5> QED BY <4>1, <5>2, <5>3
      <4>6. PcpiWait(in) => ~GivingUp
        BY <1>0 DEF ClaimStands, PcpiWait
      <4> QED BY <2>2, <3>3, <4>1, <4>3, <4>4, <4>5, <4>6
    <3> QED BY <3>2, <3>3
  <2> QED BY <2>3, <2>4
<1>6. CASE Exec(in) \/ Shift(in) \/ StMem(in) \/ LdMem(in) \/ Trap(in)
  <2>1. /\ cpu_state \in {"exec", "shift", "stmem", "ldmem", "trap"}
        /\ cpu_state' \in {cpu_state, "fetch", "trap"} /\ pcpi_valid' = pcpi_valid
    <3>1. CASE Exec(in) \/ Shift(in) \/ Trap(in)
      BY <3>1 DEF Exec, ExecWait, ExecBranch, ExecResult, Shift, ShiftDone, ShiftStep, Trap
    <3>2. CASE StMem(in) \/ LdMem(in)
      BY <3>2 DEF StMem, LdMem, DataTransfer, DataWait, DataStart, DataOngoing, DataEnd, DoTrap
    <3> QED BY <1>6, <3>1, <3>2
  <2>2. ~pcpi_valid
    BY <1>0, <2>1 DEF OfferStarts, Offered
  <2> QED BY <1>3, <2>1, <2>2
<1> QED BY <1>0, <1>4, <1>5, <1>6 DEF StateMachine, LdRs2

(***************************************************************************)
(* The invariant                                                           *)
(***************************************************************************)
\* a stopped core fetches nothing and launches nothing
LEMMA StopsQuietly ==
  ASSUME cpu_state = "trap", NEW in, Trap(in), trap' = (cpu_state = "trap"), MemStep(in)
  PROVE  MemInv'
<1>1. cpu_state' = "trap" /\ trap'
  BY DEF Trap
<1>2. BufferInv'
  BY BufferNext
<1> QED BY <1>1, <1>2
    DEF MemInv, BusInv, IdleInv, ReadInv, WaitInv, DroppedInv, HeldInv, EmptyInv, Following, Held,
        Dropped

LEMMA ControlNext ==
  ASSUME MisalignmentExcluded, PcInv, NEW in \in Inputs, ClaimStands(in), NEW w \in Writes,
         StateMachine(in, w), trap' = (cpu_state = "trap"), Decode(in), AluRegisters
  PROVE  ControlInv'
<1>1. CASE Fetch(in)
  BY <1>1, FetchControls, NoMisalignedJump DEF PcInv
<1>2. CASE LdRs1(in, w) \/ LdRs2(in)
  BY <1>2, OperandControls DEF PcInv
<1>3. CASE Exec(in)
  BY <1>3, ExecControls DEF PcInv
<1>4. CASE Shift(in)
  BY <1>4, ShiftControls DEF PcInv
<1>5. CASE StMem(in) \/ LdMem(in)
  BY <1>5, DataControls DEF PcInv
<1>6. CASE Trap(in)
  BY <1>6, TrapControls DEF PcInv
<1> QED BY <1>1, <1>2, <1>3, <1>4, <1>5, <1>6 DEF StateMachine

\* only a wfi makes the core wait for an interrupt
LEMMA WaitsInWfi ==
  ASSUME PcInv, NEW in, NEW w, StateMachine(in, w), Decode(in), do_waitirq'
  PROVE  MACHINE_ISA /\ decoded'.kind = "wfi"
<1>1. CASE Fetch(in)
  <2>1. FetchWfi(in)
    BY <1>1 DEF Fetch, FetchMisalignedJump, FetchWait, FetchInterrupt, FetchJal, FetchLaunch
  <2>2. MACHINE_ISA /\ decoded.kind = "wfi" /\ (decoder_trigger \/ do_waitirq)
    BY <2>1 DEF FetchWfi, WaitsForInterrupt
  <2>3. mem_do = {}
    BY <1>1, <2>2 DEF Fetch, PcInv, ControlInv, FetchControl
  <2>4. decoded' = decoded
    BY <2>3 DEF Decode, Wants
  <2> QED BY <2>2, <2>4
<1>2. CASE ~Fetch(in)
  BY <1>2 DEF StateMachine, LdRs1, LdRs2, Exec, Shift, StMem, LdMem, Trap, DataTransfer, NoStrobes
<1> QED BY <1>1, <1>2

LEMMA StateClasses ==
  ASSUME MisalignmentExcluded, VectorInWord, PcInv, MemInv,
         cpu_state # "trap", NEW in \in Inputs, ClaimStands(in), NEW w \in Writes,
         StateMachine(in, w), Decode(in)
  PROVE  ~trap /\ Classified(in) /\ IsAligned(reg_next_pc')
<1>0. ~trap
  BY DEF PcInv, ControlInv, TrapControl
<1>1. CASE Fetch(in)
  BY <1>0, <1>1, FetchClasses
<1>2. CASE LdRs1(in, w) \/ LdRs2(in)
  BY <1>0, <1>2, OperandClasses
<1>3. CASE Exec(in)
  BY <1>0, <1>3, ExecClasses
<1>4. CASE Shift(in)
  BY <1>0, <1>4, ShiftClasses
<1>5. CASE StMem(in) \/ LdMem(in)
  BY <1>0, <1>5, DataClasses
<1> QED BY <1>1, <1>2, <1>3, <1>4, <1>5 DEF StateMachine, Trap

FetchInv == PcInv /\ MemInv /\ ShiftOK /\ KnownInv /\ OfferInv

LEMMA FetchInvInit ==
  ASSUME MisalignmentExcluded, Init
  PROVE  FetchInv
<1>1. TypeOK /\ ShiftOK /\ RequestInv /\ ControlInv /\ JumpsAligned
  BY InitTypes, RequestInit, ControlInit, JumpsAlignedInit
<1>2. IsAligned(reg_next_pc) /\ ~do_waitirq
  BY ConstantsAligned DEF Init
<1>3. MemInv
  BY DEF Init, MemInit, MemInv, BufferInv, BusInv, IdleInv, ReadInv, WaitInv, DroppedInv,
         HeldInv, EmptyInv, Following, Fetching, Wants, Held, Dropped
<1>4. OfferInv
  BY DEF Init, OfferInv, OfferStarts, OfferStands, OfferEnds, Offered
<1> QED BY <1>1, <1>2, <1>3, <1>4, KnownInit DEF FetchInv, PcInv

LEMMA FetchInvTick ==
  ASSUME PcpiTimely, MisalignmentExcluded, VectorInWord, FetchInv, Tick
  PROVE  FetchInv'
<1>0. \A in \in Inputs : ClaimStands(in)
  BY OffersStand DEF FetchInv
<1>1. PICK in \in Inputs, w \in Writes :
        /\ StateMachine(in, w) /\ trap' = (cpu_state = "trap")
        /\ MemStep(in) /\ Decode(in) /\ AluRegisters /\ PcpiTimeout(in)
  BY DEF Tick
<1>2. TypeOK' /\ ShiftOK' /\ RequestInv' /\ KnownInv' /\ OfferInv'
  BY <1>0, <1>1, TickTypes, RequestNext, KnownTick, OfferTick DEF FetchInv, PcInv, Next
<1>3. ControlInv' /\ JumpsAligned' /\ (do_waitirq' => MACHINE_ISA /\ decoded'.kind = "wfi")
  BY <1>0, <1>1, ControlNext, JumpsStayAligned, WaitsInWfi DEF FetchInv, PcInv
<1>4. CASE cpu_state = "trap"
  <2>1. Trap(in)
    BY <1>1, <1>4
    DEF StateMachine, Fetch, LdRs1, LdRs2, Exec, Shift, StMem, LdMem
  <2>2. IsAligned(reg_next_pc')
    BY <2>1 DEF Trap, KeepPc, FetchInv, PcInv
  <2>3. MemInv'
    BY <1>1, <1>4, <2>1, StopsQuietly
  <2> QED BY <1>2, <1>3, <2>2, <2>3 DEF FetchInv, PcInv, IsAligned, Align
<1>5. CASE cpu_state # "trap"
  <2>1. ~trap /\ Classified(in) /\ IsAligned(reg_next_pc')
    BY <1>0, <1>1, <1>5, StateClasses DEF FetchInv
  <2>2. PcInv'
    BY <1>2, <1>3, <2>1 DEF PcInv, IsAligned, Align
  <2>3. MemInv'
    <3>1. CASE mem_do = {} /\ Begins
      BY <1>1, <2>1, <3>1, Beginning DEF FetchInv
    <3>2. CASE Following /\ ~mem_done(in) /\ GoesOn
      BY <1>1, <2>2, <3>2, FetchGoesOn DEF FetchInv
    <3>3. CASE ~mem_done(in) /\ DropGoesOn
      BY <1>1, <2>1, <3>3, DroppedGoesOn DEF FetchInv
    <3>4. CASE mem_done(in) /\ Redirected
      BY <1>1, <2>1, <3>4, FetchIsRedirected DEF FetchInv
    <3>5. CASE Following /\ Wants("rinst") /\ mem_done(in) /\ Delivered
      BY <1>1, <3>5, FetchIsDelivered DEF FetchInv
    <3>6. CASE HoldsOn(in)
      BY <1>1, <2>1, <3>6, HoldingOn DEF FetchInv
    <3> QED BY <2>1, <3>1, <3>2, <3>3, <3>4, <3>5, <3>6 DEF Classified
  <2> QED BY <1>2, <2>2, <2>3 DEF FetchInv
<1> QED BY <1>4, <1>5

LEMMA FetchInvReset ==
  ASSUME FetchInv, Reset
  PROVE  FetchInv'
<1>1. TypeOK' /\ ShiftOK' /\ RequestInv' /\ ControlInv' /\ JumpsAligned'
  BY ResetTypes, ResetRequests, ResetControls, ResetAligned DEF FetchInv, PcInv
<1>2. IsAligned(reg_next_pc')
  BY ConstantsAligned DEF Reset
<1>3. /\ cpu_state' = "fetch" /\ mem_do' = {} /\ ~decoder_trigger' /\ ~do_waitirq'
      /\ ~latched_branch'
  BY DEF Reset, NoStrobes
<1>4. /\ mem_state' = "IDLE" /\ ~mem_valid' /\ ~mem_la_secondword'
      /\ ~last_mem_valid' /\ ~prefetched_high_word'
  BY DEF Reset, MemReset
<1>5. MemInv'
  BY <1>3, <1>4
  DEF MemInv, BufferInv, BusInv, IdleInv, ReadInv, WaitInv, DroppedInv, HeldInv, EmptyInv,
      Following, Fetching, Wants, Held, Dropped
<1>6. KnownInv' /\ OfferInv'
  BY <1>3 DEF Reset, PcpiIdle, KnownInv, OfferInv, OfferStarts, OfferStands, OfferEnds, Offered
<1> QED BY <1>1, <1>2, <1>3, <1>5, <1>6 DEF FetchInv, PcInv, IsAligned, Align

LEMMA FetchInvStutter ==
  ASSUME FetchInv, UNCHANGED vars
  PROVE  FetchInv'
<1> USE DEF vars, requestVars, busVars, wordVars, decoderVars, csrVars, mainVars, aluVars
<1>1. TypeOK' /\ ShiftOK'
  BY StutterTypes DEF FetchInv, PcInv
<1>2. RequestInv'
  BY DEF FetchInv, PcInv, RequestInv, DataRequests, Wants, instr_trap, GivingUp
<1>3. ControlInv'
  BY DEF FetchInv, PcInv, ControlInv, FetchControl, LatchControl, OperandControl, ExecControl,
         CompareControl, TrapControl, TargetControl, GivingUp, instr_trap
<1>4. JumpsAligned' /\ IsAligned(reg_next_pc)'
  BY DEF FetchInv, PcInv, JumpsAligned, IsAligned, Align
<1>5. Wanted' = Wanted /\ mem_la_firstword' = mem_la_firstword /\ (Held' <=> Held)
  BY DEF Wanted, current_pc, JumpedTo, mem_la_firstword, Fetching, Wants, next_pc, Held
<1>6. (Following' <=> Following) /\ (Dropped' <=> Dropped) /\ (Fetching' <=> Fetching)
      /\ After' = After /\ \A a : BufferHolds(a)' <=> BufferHolds(a)
  BY <1>5 DEF Following, Dropped, Fetching, Wants, After, BufferHolds
<1>7. MemInv'
  BY <1>5, <1>6
  DEF FetchInv, MemInv, BufferInv, BusInv, IdleInv, ReadInv, WaitInv, DroppedInv, HeldInv,
      EmptyInv, Wants
<1>8. KnownInv' /\ OfferInv'
  BY DEF FetchInv, KnownInv, OfferInv, OfferStarts, OfferStands, OfferEnds, Offered, instr_trap,
         Wants, pcpiVars
<1> QED BY <1>1, <1>2, <1>3, <1>4, <1>7, <1>8 DEF FetchInv, PcInv

LEMMA FetchInvNext ==
  ASSUME PcpiTimely, MisalignmentExcluded, VectorInWord
  PROVE  FetchInv /\ [Next]_vars => FetchInv'
  BY FetchInvTick, FetchInvReset, FetchInvStutter DEF Next

(***************************************************************************)
(* The theorems                                                            *)
(***************************************************************************)
\* For every program, memory latency and configuration with the assumptions
\* named at the top of this module, the registers of the memory interface always
\* fit the request, the decoder and the program counter.
THEOREM FetchInvariant ==
  ASSUME PcpiTimely, MisalignmentExcluded, VectorInWord
  PROVE  Spec => []FetchInv
<1>1. Init => FetchInv
  BY FetchInvInit
<1>2. FetchInv /\ [Next]_vars => FetchInv'
  BY FetchInvNext
<1> QED BY <1>1, <1>2, PTL DEF Spec

\* An instruction that is launched was read from the program counter, and its
\* second half from the address after the first: what a jump, a taken branch, a
\* trap or an interrupt made useless in the bus interface or in the halfword
\* buffer is never executed (rtl/nanorv32_core.v, the prefetch and
\* prefetched_high_word).
THEOREM FetchesCorrectly ==
  ASSUME PcpiTimely, MisalignmentExcluded, VectorInWord
  PROVE  Spec => []FetchCorrect
<1>1. FetchInv => FetchCorrect
  <2> SUFFICES ASSUME FetchInv, LaunchesNow
               PROVE  /\ decoded.at = current_pc
                      /\ decoded.wide /\ COMPRESSED_ISA => decoded.upper = Plus(decoded.at, 2)
    BY DEF FetchCorrect
  <2>1. Held /\ Wanted = current_pc
    BY DEF LaunchesNow, Held, Wanted
  <2> QED BY <2>1 DEF FetchInv, MemInv, HeldInv
<1> QED BY <1>1, FetchInvariant, PTL

\* The requests are raised one after the other (the assertions of
\* rtl/nanorv32_core.v, lines 636-647) also in a core that gives up on an
\* unknown instruction with its prefetch running: the prefetch is over, or is
\* the answer the core waits for, before the handler is entered.
THEOREM RequestsExclusiveInTime ==
  ASSUME PcpiTimely, MisalignmentExcluded, VectorInWord
  PROVE  Spec => []RequestsExclusive
<1>1. FetchInv => RequestsExclusive
  BY DEF FetchInv, PcInv, RequestInv, RequestsExclusive, DataRequests, Wants, Fetching, GivingUp
<1> QED BY <1>1, FetchInvariant, PTL

LEMMA BusMatches == FetchInv => BusMatchesRequest
<1> SUFFICES ASSUME FetchInv, ~trap PROVE BusMatchesRequest
  BY DEF BusMatchesRequest
<1>1. PcInv /\ MemInv /\ BusInv /\ BufferInv
  BY DEF FetchInv, MemInv
<1>2. /\ mem_state \in {"IDLE", "READ", "WRITE", "WAIT_FETCH"}
      /\ mem_valid \in BOOLEAN /\ mem_instr \in BOOLEAN
  BY <1>1 DEF PcInv, TypeOK, MemTypeOK, BusTypeOK
<1>3. mem_valid /\ mem_instr => ~mem_write
  BY <1>1, <1>2 DEF BusInv
<1>4. ASSUME mem_state = "READ"
      PROVE  mem_valid <=> ~mem_la_use_prefetched_high_word
  <2>1. CASE ~Fetching
    BY <1>1, <1>4, <2>1 DEF BusInv, mem_la_use_prefetched_high_word, mem_la_firstword
  <2>2. CASE Dropped
    BY <1>1, <1>4, <2>2, Buffered DEF MemInv, DroppedInv, Dropped
  <2>3. CASE Following
    <3>1. mem_valid => ~mem_la_use_prefetched_high_word
      BY <1>1, BufferOrBus
    <3>2. ASSUME ~mem_valid PROVE mem_la_use_prefetched_high_word
      <4>1. Upper(Wanted) /\ BufferHolds(Wanted) /\ ~mem_la_secondword
        BY <1>1, <1>4, <2>3, <3>2 DEF MemInv, ReadInv, BusInv
      <4>2. mem_la_firstword
        BY <1>1, <2>3, <4>1, Firstword DEF Following
      <4> QED BY <1>1, <4>1, <4>2, Buffered DEF BufferHolds
    <3> QED BY <3>1, <3>2
  <2> QED BY <2>1, <2>2, <2>3 DEF Following
<1>5. ASSUME mem_state = "READ"
      PROVE  /\ ~mem_write /\ mem_do \cap {"prefetch", "rinst", "rdata"} # {}
             /\ mem_valid = ~mem_la_use_prefetched_high_word
             /\ mem_instr = Fetching
  <2>1. mem_valid = ~mem_la_use_prefetched_high_word
    BY <1>2, <1>4, <1>5
  <2>2. mem_instr <=> Fetching
    BY <1>1, <1>5 DEF BusInv
  <2>3. mem_instr = Fetching
    BY <1>2, <2>2 DEF Fetching
  <2> QED BY <1>1, <1>5, <2>1, <2>3 DEF BusInv, Fetching, Wants
<1>6. mem_state = "WRITE" => mem_write /\ Wants("wdata")
  BY <1>1 DEF BusInv, Wants
<1>7. mem_state = "WAIT_FETCH" => ~mem_write /\ Wants("prefetch")
  BY <1>1 DEF BusInv
<1> QED BY <1>3, <1>5, <1>6, <1>7 DEF BusMatchesRequest

\* What the bus does agrees with the request that made it do so, as the
\* assertions in the states of the bus state machine say (rtl/nanorv32_core.v,
\* lines 649-650 and 703-742): no request is withdrawn or replaced by another
\* while its transfer is running.
THEOREM BusAlwaysMatchesRequest ==
  ASSUME PcpiTimely, MisalignmentExcluded, VectorInWord
  PROVE  Spec => []BusMatchesRequest
  BY FetchInvariant, BusMatches, PTL

\* A transfer the memory has not answered stays on the bus unchanged, whatever
\* happens to the instruction that asked for it (mem_valid, mem_addr and
\* mem_wstrb of rtl/nanorv32_core.v); only reset withdraws it.
THEOREM BusIsStable ==
  ASSUME PcpiTimely, MisalignmentExcluded, VectorInWord
  PROVE  Spec => BusStable
<1>1. FetchInv /\ [Next]_vars =>
        [mem_valid /\ stall' = stall + 1 =>
           mem_valid' /\ UNCHANGED <<mem_addr, mem_write, mem_instr>>]_vars
  <2> SUFFICES ASSUME FetchInv, Next, mem_valid, stall' = stall + 1
               PROVE  mem_valid' /\ UNCHANGED <<mem_addr, mem_write, mem_instr>>
    OBVIOUS
  <2>1. PcInv /\ MemInv /\ BusInv
    BY DEF FetchInv, MemInv
  <2>2. stall \in Nat /\ mem_write \in BOOLEAN
        /\ mem_state \in {"IDLE", "READ", "WRITE", "WAIT_FETCH"}
    BY <2>1 DEF PcInv, TypeOK, MemTypeOK, BusTypeOK
  <2>3. stall' # 0
    BY <2>2
  <2>4. PICK in \in Inputs : MemStep(in)
    BY <2>3 DEF Next, Tick, Reset, MemReset
  <2>5. ~in.ready
    BY <2>3, <2>4 DEF MemStep, EveryEdge
  <2>6. CASE trap
    BY <2>4, <2>5, <2>6 DEF MemStep, Trapped
  <2>7. CASE ~trap
    <3>1. mem_state \in {"READ", "WRITE"}
      BY <2>1, <2>2, <2>7 DEF BusInv
    <3>2. ~mem_xfer(in)
      BY <2>1, <2>5, <2>7, BufferOrBus DEF mem_xfer
    <3>3. BusWait(in) /\ BusAddress(in)
      BY <2>4, <2>7, <3>1, <3>2, BusActions DEF NeedsSecondWord
    <3>4. ~mem_la_read(in) /\ ~mem_la_write /\ ~StartsRead
      BY <3>1, <3>2 DEF mem_la_read, mem_la_write, StartsRead, NeedsSecondWord
    <3>5. mem_addr' = mem_addr /\ (mem_write' <=> mem_write)
      BY <3>3, <3>4 DEF BusAddress
    <3>6. mem_write' = mem_write
      BY <2>2, <3>3, <3>4, <3>5 DEF BusAddress
    <3> QED BY <3>3, <3>5, <3>6 DEF BusWait
  <2> QED BY <2>6, <2>7
<1> QED BY <1>1, FetchInvariant, PTL DEF Spec, BusStable

\* stage 2 is triggered for a fetch that has just ended and is not dropped
LEMMA TriggerEndsFetch ==
  ASSUME PcInv, NEW in, NEW w, StateMachine(in, w), decoder_trigger', ~decoder_pseudo_trigger'
  PROVE  Wants("rinst") /\ mem_done(in)
<1>1. CASE Fetch(in)
  BY <1>1 DEF Fetch, FetchMisalignedJump, FetchWait, FetchInterrupt, FetchWfi, FetchJal,
              FetchLaunch, DefaultTrigger
<1>2. CASE LdRs1(in, w)
  BY <1>2 DEF LdRs1, LdRs1Trap, LdRs1Counter, LdRs1Csr, LdRs1Mret, LdRs1Operands, Operands,
              PcpiReady, PcpiWait, DefaultTrigger
<1>3. CASE LdRs2(in)
  BY <1>3 DEF LdRs2, PcpiReady, PcpiWait, DefaultTrigger
<1>4. CASE Exec(in) \/ Shift(in) \/ Trap(in)
  BY <1>4 DEF Exec, ExecWait, ExecBranch, ExecResult, Shift, Trap, DefaultTrigger
<1>5. CASE StMem(in) \/ LdMem(in)
  BY <1>5 DEF StMem, LdMem, DataTransfer, DataWait, DataStart, DataOngoing, DataEnd,
              DefaultTrigger
<1> QED BY <1>1, <1>2, <1>3, <1>4, <1>5 DEF StateMachine

\* the second word is read, and nothing else, while its register says so
SecondInv == mem_la_secondword => mem_state = "READ"

\* what the decoder is given is what the register keeps for stage 2, also while
\* the core stops
LEMMA LatchedIsKept ==
  ASSUME SecondInv, NEW in, MemStep(in), mem_done(in)
  PROVE  mem_rdata_q' = mem_rdata_latched(in)
<1>1. CASE mem_xfer(in)
  BY <1>1 DEF MemStep, EveryEdge
<1>2. CASE ~mem_xfer(in)
  <2>1. mem_state = "WAIT_FETCH" /\ ~mem_la_firstword
    BY <1>2 DEF mem_done
  <2>2. mem_rdata_latched(in) = mem_rdata_q
    BY <1>2, <2>1, LatchedWord DEF SecondInv, mem_rdata_latched_noshuffle
  <2> QED BY <1>2, <2>2 DEF MemStep, EveryEdge
<1> QED BY <1>1, <1>2

LEMMA SecondNext ==
  ASSUME SecondInv, NEW in, MemStep(in)
  PROVE  SecondInv'
  BY DEF SecondInv, MemStep, Trapped, Idle, ReadSecondWord, ReadComplete, WriteComplete, BusWait,
         WaitFetch

\* Stage 2 decodes the word that stage 1 decoded: no transfer replaces
\* mem_rdata_q on the edge between the two (rtl/nanorv32_core.v, mem_rdata_q and
\* decoder_trigger).
THEOREM StagesAlwaysAgree ==
  ASSUME PcpiTimely, MisalignmentExcluded, VectorInWord
  PROVE  Spec => []StagesAgree
<1>1. Init => StagesAgree /\ SecondInv
  BY DEF Init, MemInit, StagesAgree, SecondInv
<1>3. SecondInv /\ [Next]_vars => SecondInv'
  <2> SUFFICES ASSUME SecondInv, [Next]_vars PROVE SecondInv'
    OBVIOUS
  <2>1. CASE Tick
    BY <2>1, SecondNext DEF Tick
  <2>2. CASE Reset
    BY <2>2 DEF Reset, MemReset, SecondInv
  <2>3. CASE UNCHANGED vars
    BY <2>3 DEF vars, wordVars, busVars, SecondInv
  <2> QED BY <2>1, <2>2, <2>3 DEF Next
<1>2. FetchInv /\ SecondInv /\ StagesAgree /\ [Next]_vars => StagesAgree'
  <2> SUFFICES ASSUME FetchInv, SecondInv, StagesAgree, [Next]_vars,
                      decoder_trigger', ~decoder_pseudo_trigger'
               PROVE  /\ mem_rdata_q'.lo.at = decoded'.at
                      /\ mem_rdata_q'.lo.wide = decoded'.wide
    BY DEF StagesAgree
  <2>1. CASE Tick
    <3>1. PICK in \in Inputs, w \in Writes :
            StateMachine(in, w) /\ MemStep(in) /\ Decode(in)
      BY <2>1 DEF Tick
    <3>2. Wants("rinst") /\ mem_done(in)
      BY <3>1, TriggerEndsFetch DEF FetchInv
    <3>4. mem_rdata_q' = mem_rdata_latched(in)
      BY <3>1, <3>2, LatchedIsKept
    <3>5. decoded' \in Decodings(mem_rdata_latched(in))
      BY <3>1, <3>2 DEF Decode
    <3>6. /\ decoded'.at = mem_rdata_latched(in).lo.at
          /\ decoded'.wide = mem_rdata_latched(in).lo.wide
      BY <3>5 DEF Decodings
    <3> QED BY <3>4, <3>6
  <2>2. CASE Reset
    BY <2>2 DEF Reset
  <2>3. CASE UNCHANGED vars
    BY <2>3 DEF vars, wordVars, decoderVars, StagesAgree
  <2> QED BY <2>1, <2>2, <2>3 DEF Next
<1> QED BY <1>1, <1>2, <1>3, FetchInvariant, PTL DEF Spec

\* Who owns latched_rd: the instruction at reg_pc, from its launch until its
\* result is written.
OwnerInv ==
  /\ cpu_state # "fetch" => latched_rd \in {reg_pc, None}
  /\ cpu_state \in Operating => (latched_compr <=> ~insn.wide)
  /\ cpuregs_write =>
       /\ latched_rd = reg_pc
       /\ latched_branch => (latched_compr <=> ~insn.wide)

LEMMA OwnerInFetch ==
  ASSUME FetchInv, NEW in, Fetch(in), Decode(in)
  PROVE  OwnerInv'
<1>0. cpu_state = "fetch" /\ ~MisalignedJump /\ FetchDefaults
  BY NoMisalignedJump
  DEF Fetch, FetchInv, PcInv, FetchMisalignedJump, FetchWait, FetchInterrupt, FetchWfi, FetchJal,
      FetchLaunch
<1>1. CASE FetchWait(in) \/ FetchInterrupt(in) \/ FetchWfi(in)
  <2>1. cpu_state' = "fetch" /\ ~latched_store' /\ ~latched_branch'
    BY <1>0, <1>1 DEF FetchWait, FetchInterrupt, FetchWfi, NoBranch
  <2> QED BY <2>1 DEF OwnerInv, Operating, cpuregs_write
<1>2. CASE FetchJal(in) \/ FetchLaunch(in)
  <2>1. decoder_trigger /\ ~TakesInterrupt /\ latched_rd' = decoded.at
    BY <1>2 DEF FetchJal, FetchLaunch, Launches, NoBranch
  <2>2. reg_pc' = current_pc /\ latched_compr' = ~decoded.wide
    BY <1>0, <2>1 DEF FetchDefaults
  <2>3. decoded.at = current_pc
    <3>1. Held /\ Wanted = current_pc
      BY <1>0, <2>1 DEF Held, Wanted
    <3> QED BY <3>1 DEF FetchInv, MemInv, HeldInv
  <2>4. insn' = decoded
    BY <2>1 DEF Decode, FetchInv, PcInv, RequestInv
  <2> QED BY <2>1, <2>2, <2>3, <2>4 DEF OwnerInv
<1> QED BY <1>0, <1>1, <1>2 DEF Fetch, FetchMisalignedJump

LEMMA OwnerInOperation ==
  ASSUME FetchInv, OwnerInv, NEW in, NEW w, Decode(in),
         LdRs1(in, w) \/ LdRs2(in) \/ Exec(in) \/ Shift(in)
  PROVE  OwnerInv'
<1>0. cpu_state \in Operating
  BY DEF LdRs1, LdRs2, Exec, Shift, Operating
<1>1. reg_pc' = reg_pc /\ insn' = insn
  BY <1>0 DEF LdRs1, LdRs2, Exec, Shift, KeepPc, Decode, FetchInv, PcInv, ControlInv,
              OperandControl
<1>2. latched_rd' \in {latched_rd, None} /\ latched_compr' = latched_compr
  <2>1. CASE LdRs1(in, w)
    BY <2>1 DEF LdRs1, LdRs1Trap, PcpiReady, PcpiWait, LdRs1Counter, LdRs1Csr, LdRs1Mret, LdRs1Operands, Operands,
                ReadsOut, DoInstrTrap, DoTrap
  <2>2. CASE LdRs2(in)
    BY <2>2 DEF LdRs2, KeepLatches, PcpiReady, PcpiWait, DoInstrTrap, DoTrap
  <2>3. CASE Exec(in) \/ Shift(in)
    BY <2>3 DEF Exec, ExecWait, ExecBranch, ExecResult, Shift, KeepLatches
  <2> QED BY <2>1, <2>2, <2>3
<1>3. latched_rd \in {reg_pc, None} /\ (latched_compr <=> ~insn.wide)
  BY <1>0 DEF OwnerInv, Operating
<1>4. latched_rd' \in {reg_pc', None} /\ (latched_compr' <=> ~insn'.wide)
  BY <1>1, <1>2, <1>3
<1>5. cpuregs_write' => latched_rd' # None
  BY DEF cpuregs_write
<1> QED BY <1>4, <1>5 DEF OwnerInv

LEMMA OwnerElsewhere ==
  ASSUME MisalignmentExcluded, FetchInv, OwnerInv, NEW in, StMem(in) \/ LdMem(in) \/ Trap(in)
  PROVE  OwnerInv'
<1>1. cpu_state \in {"stmem", "ldmem", "trap"} /\ ~latched_branch
  BY DEF StMem, LdMem, Trap, FetchInv, PcInv, ControlInv, LatchControl
<1>2. UNCHANGED <<latched_branch, latched_rd, reg_pc>>
      /\ cpu_state' \in {"stmem", "ldmem", "trap", "fetch"}
  <2>1. CASE Trap(in)
    BY <1>1, <2>1 DEF Trap, KeepPc, KeepLatches
  <2>2. CASE StMem(in) \/ LdMem(in)
    BY <1>1, <2>2, DataSteps DEF FetchInv, PcInv
  <2> QED BY <2>1, <2>2
<1>3. latched_rd \in {reg_pc, None}
  BY <1>1 DEF OwnerInv
<1> QED BY <1>1, <1>2, <1>3 DEF OwnerInv, Operating, cpuregs_write

LEMMA OwnerNext ==
  ASSUME MisalignmentExcluded
  PROVE  FetchInv /\ OwnerInv /\ [Next]_vars => OwnerInv'
<1> SUFFICES ASSUME FetchInv, OwnerInv, [Next]_vars PROVE OwnerInv'
  OBVIOUS
<1>1. CASE Tick
  <2>1. PICK in \in Inputs, w \in Writes : StateMachine(in, w) /\ Decode(in)
    BY <1>1 DEF Tick
  <2>2. CASE Fetch(in)
    BY <2>1, <2>2, OwnerInFetch
  <2>3. CASE LdRs1(in, w) \/ LdRs2(in) \/ Exec(in) \/ Shift(in)
    BY <2>1, <2>3, OwnerInOperation
  <2>4. CASE StMem(in) \/ LdMem(in) \/ Trap(in)
    BY <2>4, OwnerElsewhere
  <2> QED BY <2>1, <2>2, <2>3, <2>4 DEF StateMachine
<1>2. CASE Reset
  BY <1>2 DEF Reset, OwnerInv, Operating, cpuregs_write
<1>3. CASE UNCHANGED vars
  BY <1>3 DEF vars, requestVars, decoderVars, mainVars, OwnerInv, cpuregs_write
<1> QED BY <1>1, <1>2, <1>3 DEF Next

\* A result is written to the destination register of the instruction that
\* computed it, while reg_pc is still its address; a link register gets the
\* address after it (cpuregs_write, latched_rd and latched_compr of
\* rtl/nanorv32_core.v).
THEOREM WritesBackOwn ==
  ASSUME PcpiTimely, MisalignmentExcluded, VectorInWord
  PROVE  Spec => []WriteBackOwner
<1>1. Init => OwnerInv
  BY DEF Init, MemInit, OwnerInv, Operating, cpuregs_write
<1>2. FetchInv /\ OwnerInv /\ [Next]_vars => OwnerInv'
  BY OwnerNext
<1>3. FetchInv /\ OwnerInv => WriteBackOwner
  <2> SUFFICES ASSUME FetchInv, OwnerInv, cpuregs_write, latched_branch
               PROVE  latched_compr = ~insn.wide
    BY DEF WriteBackOwner, OwnerInv
  <2>1. latched_compr \in BOOLEAN /\ insn.wide \in BOOLEAN
    BY DEF FetchInv, PcInv, TypeOK, MainTypeOK, DecoderTypeOK, Instruction
  <2> QED BY <2>1 DEF OwnerInv
<1> QED BY <1>1, <1>2, <1>3, FetchInvariant, PTL DEF Spec

\* how an instruction that no part of the core knows is in execution
LEMMA IllegalSteps ==
  ASSUME FetchInv, insn.kind = "illegal", NEW in \in Inputs, NEW w,
         LdRs1(in, w) \/ LdRs2(in), Decode(in)
  PROVE  StaysIllegal \/ EntersHandler \/ PcpiAnswered
<1>1. insn' = insn /\ cpu_state \in {"ld_rs1", "ld_rs2"} /\ ~latched_branch
  <2>1. cpu_state \in {"ld_rs1", "ld_rs2"} /\ ~latched_branch /\ ClaimStands(in)
    BY OffersStand DEF LdRs1, LdRs2, FetchInv, PcInv, ControlInv, LatchControl
  <2>2. insn' = insn
    BY <2>1, GivingUpSteps, OperandSteps DEF FetchInv, PcInv
  <2> QED BY <2>1, <2>2
<1>2. instr_trap /\ (cpu_state = "ld_rs2" => WITH_PCPI)
  BY <1>1 DEF instr_trap, StageOne, FetchInv, PcInv, RequestInv, ControlInv, OperandControl,
              Operating
<1>3. ASSUME PcpiReady(in) PROVE PcpiAnswered
  <2>1. pcpi_valid
    BY <1>3 DEF PcpiReady, Inputs, PcpiInputs
  <2> QED BY <1>1, <1>3, <2>1 DEF PcpiReady, PcpiAnswered
<1>4. PcpiWait(in) => StaysIllegal
  BY <1>1 DEF PcpiWait, StaysIllegal
<1>5. DoInstrTrap(in) => StaysIllegal \/ EntersHandler
  BY <1>1 DEF DoInstrTrap, DoTrap, StaysIllegal, EntersHandler
<1>6. CASE LdRs1(in, w)
  <2>1. LdRs1Trap(in)
    BY <1>2, <1>6 DEF LdRs1, LdRs1Counter, LdRs1Csr, ExecutesCsr, LdRs1Operands, instr_trap
  <2>2. cpu_state' = "ld_rs2" => StaysIllegal
    BY <1>1 DEF StaysIllegal
  <2> QED BY <1>3, <1>4, <1>5, <2>1, <2>2 DEF LdRs1Trap
<1>7. CASE LdRs2(in)
  BY <1>2, <1>3, <1>4, <1>5, <1>7 DEF LdRs2
<1> QED BY <1>6, <1>7

\* An illegal instruction is answered by a coprocessor, starts the trap handler
\* or stops the core, and is never replaced by the instruction prefetched
\* behind it (rtl/nanorv32_core.v, the two states that read operands, and
\* do_trap).
THEOREM IllegalAlwaysTraps ==
  ASSUME PcpiTimely, MisalignmentExcluded, VectorInWord
  PROVE  Spec => IllegalTraps
<1>1. FetchInv /\ [Next]_vars =>
        [IllegalInExecution => StaysIllegal \/ EntersHandler \/ PcpiAnswered \/ Reset]_vars
  <2> SUFFICES ASSUME FetchInv, Next, IllegalInExecution, ~Reset
               PROVE  StaysIllegal \/ EntersHandler \/ PcpiAnswered
    OBVIOUS
  <2>1. PICK in \in Inputs, w \in Writes : StateMachine(in, w) /\ Decode(in)
    BY DEF Next, Tick
  <2>2. LdRs1(in, w) \/ LdRs2(in)
    BY <2>1 DEF IllegalInExecution, StateMachine, Fetch, FetchMisalignedJump, FetchWait, FetchInterrupt,
                FetchWfi, FetchJal, FetchLaunch, FetchDefaults, Exec, Shift, StMem, LdMem, Trap
  <2> QED BY <2>1, <2>2, IllegalSteps DEF IllegalInExecution
<1> QED BY <1>1, FetchInvariant, PTL DEF Spec, IllegalTraps
=============================================================================
