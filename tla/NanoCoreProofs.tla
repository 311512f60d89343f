--------------------------- MODULE NanoCoreProofs ---------------------------
(***************************************************************************)
(* Proofs about NanoCore, for every program, every address space, every    *)
(* memory latency and every choice of the core's parameters: the requests  *)
(* to the memory interface, the types of all registers, and the interrupt  *)
(* registers.                                                              *)
(***************************************************************************)
EXTENDS NanoCoreProps, TLAPS

(***************************************************************************)
(* The requests to the memory interface exclude each other                 *)
(***************************************************************************)
\* a prefetch alone never ends a request: mem_done needs one of the others
LEMMA DoneNeedsRequest ==
  ASSUME NEW in, mem_done(in)
  PROVE  mem_do \cap {"rinst", "rdata", "wdata"} # {}
  BY DEF mem_done, Wants

LEMMA AluParameters == TWO_CYCLE_ALU \in BOOLEAN /\ TWO_CYCLE_COMPARE \in BOOLEAN
  BY CoreAssumption

LEMMA RequestInit == Init => RequestInv
  BY DEF Init, MemInit, RequestInv, DataRequests, NoInstruction

LEMMA FetchRequests ==
  ASSUME RequestInv, NEW in, Fetch(in), Decode(in)
  PROVE  RequestInv'
<1> USE DEF RequestInv, DataRequests, Wants, RemainingRequests, WithRinst
<1>0. /\ cpu_state = "fetch" /\ decoder_pseudo_trigger' = FALSE
      /\ mem_do \subseteq {"prefetch", "rinst"}
      /\ decoder_trigger => "rinst" \notin mem_do
      /\ decoder_pseudo_trigger => insn = decoded
  BY DEF Fetch, FetchWait, FetchMisalignedJump, FetchInterrupt, FetchWfi, FetchJal,
         FetchLaunch, FetchDefaults
<1>1. ASSUME FetchRequest(in), DefaultTrigger(in) \/ decoder_trigger' = FALSE,
             cpu_state' \in {"fetch", "trap"}
      PROVE  RequestInv'
  BY <1>0, <1>1 DEF FetchRequest, DefaultTrigger
<1>2. CASE FetchWait(in) \/ FetchMisalignedJump(in) \/ FetchInterrupt(in)
  <2>1. cpu_state' \in {"fetch", "trap"}
    BY <1>0, <1>2 DEF FetchWait, FetchMisalignedJump, FetchInterrupt, DoTrap
  <2> QED BY <1>1, <1>2, <2>1 DEF FetchWait, FetchMisalignedJump, FetchInterrupt
<1>3. CASE FetchWfi(in)
  BY <1>0, <1>1, <1>3 DEF FetchWfi, DefaultTrigger
<1>4. CASE FetchJal(in)
  BY <1>0, <1>4 DEF FetchJal, DefaultTrigger, Launches
<1>5. CASE FetchLaunch(in)
  <2>1. decoder_trigger /\ decoder_trigger' = FALSE
    BY <1>0, <1>5 DEF FetchLaunch, DefaultTrigger, Launches
  <2>2. insn' = decoded
    BY <1>0, <2>1 DEF Decode
  <2>3. mem_do' = IF decoded.kind \in {"jalr", "mret"} THEN {} ELSE {"prefetch"}
    BY <1>0, <1>5 DEF FetchLaunch
  <2>4. decoded.kind \in {"jalr", "mret"} => decoded.kind \in Traps
    BY DEF Traps, StageOne
  <2> QED BY <1>0, <1>5, <2>1, <2>2, <2>3, <2>4 DEF FetchLaunch
<1> QED BY <1>2, <1>3, <1>4, <1>5 DEF Fetch

\* Once the prefetch is claimed for an instruction that traps, its wait for a
\* coprocessor is over.
ClaimStands(in) == GivingUp => ~in.pcpi_ready /\ PcpiGivesUp

\* an instruction that nobody claims
LEMMA AbandonedRequests ==
  ASSUME RequestInv, NEW in, cpu_state = "ld_rs1", WITH_PCPI, ENABLE_REGS_DUALPORT, instr_trap,
         ClaimPrefetch(in), decoder_trigger' = FALSE, decoder_pseudo_trigger' = FALSE,
         DoInstrTrap(in), Decode(in)
  PROVE  RequestInv'
<1>1. mem_do \in {{}, {"prefetch"}, {"prefetch", "rinst"}} /\ ~decoder_trigger
  BY DEF RequestInv, DataRequests, GivingUp
<1>2. insn' = insn
  BY <1>1 DEF Decode
<1>3. CASE mem_done(in)
  <2>1. mem_do' = {}
    BY <1>3 DEF ClaimPrefetch, RemainingRequests, WithRinst
  <2>2. mem_do = {"prefetch", "rinst"}
    BY <1>1, <1>3, DoneNeedsRequest
  <2>3. cpu_state' \in {"fetch", "trap"}
    BY <1>3 DEF DoInstrTrap, DoTrap, TrapEntered
  <2> QED BY <2>1, <2>3 DEF RequestInv, DataRequests
<1>4. CASE ~mem_done(in) /\ mem_do = {}
  <2>1. mem_do' = {}
    BY <1>4 DEF ClaimPrefetch, RemainingRequests, WithRinst, Wants
  <2>2. cpu_state' \in {"fetch", "trap"}
    BY <1>4 DEF DoInstrTrap, DoTrap, TrapEntered, Wants
  <2> QED BY <2>1, <2>2 DEF RequestInv, DataRequests
<1>5. CASE ~mem_done(in) /\ mem_do # {}
  <2>1. mem_do' = {"prefetch", "rinst"}
    BY <1>1, <1>5 DEF ClaimPrefetch, RemainingRequests, WithRinst, Wants
  <2>2. decoded' = decoded /\ instr_trap'
    BY <1>2, <1>5 DEF Decode, instr_trap
  <2>3. cpu_state' \in {"ld_rs1", "trap"}
    BY <1>1, <1>5 DEF DoInstrTrap, DoTrap, TrapEntered, Wants
  <2>4. insn.kind \in Traps
    BY DEF instr_trap, Traps
  <2> QED BY <1>2, <2>1, <2>2, <2>3, <2>4 DEF RequestInv, DataRequests, GivingUp
<1> QED BY <1>3, <1>4, <1>5

LEMMA OperandRequests ==
  ASSUME RequestInv, NEW in, ClaimStands(in), NEW w, LdRs1(in, w) \/ LdRs2(in), Decode(in)
  PROVE  RequestInv'
<1>15. CASE GivingUp
  <2>1. LdRs1(in, w) /\ LdRs1Trap(in)
    BY <1>15 DEF GivingUp, LdRs1, LdRs2, LdRs1Counter, LdRs1Csr, ExecutesCsr, LdRs1Operands
  <2>2. /\ ClaimPrefetch(in) /\ decoder_trigger' = FALSE /\ DoInstrTrap(in)
    BY <1>15, <2>1 DEF LdRs1Trap, ClaimStands, GivingUp, PcpiReady, PcpiWait
  <2> QED BY <1>15, <2>1, <2>2, AbandonedRequests DEF GivingUp, LdRs1, NoStrobes
<1> SUFFICES ASSUME ~GivingUp PROVE RequestInv'
  BY <1>15
<1> USE DEF RequestInv, DataRequests, Wants, RemainingRequests, WithRinst
<1>0. /\ cpu_state \in {"ld_rs1", "ld_rs2"}
      /\ mem_do \subseteq {"prefetch"} /\ decoder_trigger = FALSE
      /\ decoder_pseudo_trigger' = FALSE
      /\ insn' = insn /\ decoded' = decoded
  <2>1. cpu_state \in {"ld_rs1", "ld_rs2"} /\ decoder_pseudo_trigger' = FALSE
    BY DEF LdRs1, LdRs2, NoStrobes
  <2> QED BY <2>1 DEF Decode, RequestInv
<1>1. ~mem_done(in)
  BY <1>0, DoneNeedsRequest
<1>2. ASSUME mem_do' = mem_do, decoder_trigger' = FALSE,
             \/ cpu_state' \in {cpu_state, "fetch", "trap", "exec", "shift"}
             \/ cpu_state' = "ld_rs2" /\ (~instr_trap \/ WITH_PCPI)
      PROVE  RequestInv'
  <2>1. instr_trap' = instr_trap
    BY <1>0 DEF instr_trap
  <2> QED BY <1>0, <1>2, <2>1
<1>3. ASSUME ClaimPrefetch(in), decoder_trigger' = FALSE, cpu_state' = "exec"
      PROVE  RequestInv'
  BY <1>0, <1>3 DEF ClaimPrefetch
<1>4. ASSUME insn.kind \notin Traps, decoder_trigger' = FALSE, NEW state,
             state \in {"stmem", "ldmem"}, ToMemory(in, state)
      PROVE  RequestInv'
  BY <1>0, <1>1, <1>4 DEF ToMemory
<1>5. ASSUME NEW wait \in BOOLEAN, NEW wait2, ToExec(in, wait, wait2), decoder_trigger' = FALSE
      PROVE  RequestInv'
  BY <1>1, <1>2, <1>3, <1>5 DEF ToExec
<1>6. ASSUME ToShift(in), decoder_trigger' = FALSE
      PROVE  RequestInv'
  BY <1>1, <1>2, <1>6 DEF ToShift
<1>7. DefaultTrigger(in) => decoder_trigger' = FALSE
  BY <1>1 DEF DefaultTrigger
<1>8. decoded.kind \in {"load", "store"} /\ ~instr_trap => insn.kind \notin Traps
  BY DEF instr_trap, Traps, StageOne
<1>9. ASSUME ~instr_trap, Dispatch(in), decoder_trigger' = FALSE
      PROVE  RequestInv'
  <2>1. CASE decoded.kind = "store"
    BY <1>4, <1>8, <1>9, <2>1 DEF Dispatch
  <2>2. CASE decoded.kind # "store" /\ insn.kind = "shift" /\ ~BARREL_SHIFTER
    BY <1>6, <1>9, <2>2 DEF Dispatch
  <2>3. CASE decoded.kind # "store" /\ ~(insn.kind = "shift" /\ ~BARREL_SHIFTER)
    BY <1>5, <1>9, <2>3, AluParameters DEF Dispatch, NeedsAluWait
  <2> QED BY <2>1, <2>2, <2>3
<1>10. CASE cpu_state = "ld_rs1" /\ LdRs1Trap(in)
  <2>1. CASE WITH_PCPI /\ ~ENABLE_REGS_DUALPORT
    <3>1. cpu_state' = "ld_rs2" /\ mem_do' = mem_do /\ decoder_trigger' = FALSE
      BY <1>1, <1>7, <1>10, <2>1 DEF LdRs1Trap
    <3> QED BY <1>2, <2>1, <3>1
  <2>3. CASE WITH_PCPI /\ ENABLE_REGS_DUALPORT
    <3>0. cpu_state = "ld_rs1" /\ instr_trap
      BY <1>10 DEF LdRs1Trap
    <3>1. CASE PcpiReady(in)
      BY <1>0, <1>7, <3>1 DEF PcpiReady
    <3>2. CASE PcpiWait(in)
      BY <1>1, <1>2, <1>7, <3>2 DEF PcpiWait
    <3>3. CASE ClaimPrefetch(in) /\ decoder_trigger' = FALSE /\ DoInstrTrap(in)
      BY <1>0, <2>3, <3>0, <3>3, AbandonedRequests
    <3> QED BY <1>10, <2>3, <3>1, <3>2, <3>3 DEF LdRs1Trap
  <2>2. CASE ~WITH_PCPI
    <3>1. DoInstrTrap(in) /\ mem_do' = mem_do /\ decoder_trigger' = FALSE
      BY <1>1, <1>7, <1>10, <2>2 DEF LdRs1Trap
    <3>2. cpu_state' \in {cpu_state, "fetch", "trap"}
      BY <3>1 DEF DoInstrTrap, DoTrap
    <3> QED BY <1>2, <3>1, <3>2
  <2> QED BY <2>1, <2>2, <2>3
<1>11. CASE LdRs1Counter(in) \/ LdRs1Csr(in, w)
  BY <1>1, <1>2, <1>7, <1>11 DEF LdRs1Counter, LdRs1Csr, ReadsOut
<1>12. CASE LdRs1Mret(in)
  BY <1>1, <1>2, <1>7, <1>12 DEF LdRs1Mret
<1>13. CASE LdRs1Operands(in)
  <2>0. ~instr_trap /\ decoder_trigger' = FALSE
    BY <1>7, <1>13 DEF LdRs1Operands, Operands
  <2>1. CASE insn.kind \in {"lui", "jal"}
    BY <1>5, <1>13, <2>0, <2>1, AluParameters DEF LdRs1Operands
  <2>2. CASE insn.kind \notin {"lui", "jal"} /\ decoded.kind = "load"
    BY <1>4, <1>8, <1>13, <2>0, <2>2 DEF LdRs1Operands
  <2>3. CASE insn.kind \notin {"lui", "jal"} /\ decoded.kind # "load" /\ insn.kind \in OneOperand
    <3>1. ToExec(in, TWO_CYCLE_ALU, FALSE)
      BY <1>13, <2>3 DEF LdRs1Operands, OneOperand
    <3> DEFINE wait == TWO_CYCLE_ALU
    <3>2. wait \in BOOLEAN /\ ToExec(in, wait, FALSE)
      BY <3>1, AluParameters
    <3> HIDE DEF wait
    <3> QED BY <1>5, <2>0, <3>2
  <2>4. CASE /\ insn.kind \notin {"lui", "jal"} /\ decoded.kind # "load"
             /\ insn.kind \notin OneOperand
             /\ insn.kind = "shifti" /\ ~BARREL_SHIFTER
    BY <1>6, <1>13, <2>0, <2>4 DEF LdRs1Operands
  <2>5. CASE /\ insn.kind \notin {"lui", "jal"} /\ decoded.kind # "load"
             /\ insn.kind \notin OneOperand
             /\ ~(insn.kind = "shifti" /\ ~BARREL_SHIFTER)
    <3>1. \/ Dispatch(in)
          \/ cpu_state' = "ld_rs2" /\ mem_do' = RemainingRequests(in)
      BY <1>13, <2>5 DEF LdRs1Operands
    <3> QED BY <1>1, <1>2, <1>9, <2>0, <3>1
  <2> QED BY <2>1, <2>2, <2>3, <2>4, <2>5
<1>14. CASE LdRs2(in)
  <2>1. decoder_trigger' = FALSE
    BY <1>7, <1>14 DEF LdRs2, PcpiReady, PcpiWait
  <2>2. CASE ~(WITH_PCPI /\ instr_trap)
    BY <1>9, <1>14, <2>1, <2>2 DEF LdRs2
  <2>3. CASE WITH_PCPI /\ instr_trap
    <3>1. CASE PcpiReady(in)
      BY <1>0, <2>1, <3>1 DEF PcpiReady
    <3>2. CASE PcpiWait(in)
      BY <1>1, <1>2, <2>1, <3>2 DEF PcpiWait
    <3>3. CASE DoInstrTrap(in) /\ mem_do' = RemainingRequests(in)
      <4>1. cpu_state' \in {cpu_state, "fetch", "trap"}
        BY <3>3 DEF DoInstrTrap, DoTrap
      <4> QED BY <1>1, <1>2, <2>1, <3>3, <4>1
    <3> QED BY <1>14, <2>3, <3>1, <3>2, <3>3 DEF LdRs2
  <2> QED BY <2>2, <2>3
<1> QED BY <1>10, <1>11, <1>12, <1>13, <1>14 DEF LdRs1

LEMMA ExecutionRequests ==
  ASSUME RequestInv, NEW in, Exec(in) \/ Shift(in) \/ Trap(in), Decode(in)
  PROVE  RequestInv'
<1> USE DEF RequestInv, DataRequests, Wants, RemainingRequests, WithRinst
<1>0. /\ cpu_state \in {"exec", "shift", "trap"}
      /\ mem_do \subseteq {"prefetch", "rinst"}
      /\ decoder_pseudo_trigger' = FALSE
  BY DEF Exec, Shift, Trap, NoStrobes
<1>1. ASSUME cpu_state' \in {"exec", "shift", "trap", "fetch"},
             mem_do' \subseteq {"prefetch", "rinst"},
             decoder_trigger' => "rinst" \notin mem_do'
      PROVE  RequestInv'
  BY <1>0, <1>1
<1>2. CASE Exec(in)
  <2>1. CASE ExecWait(in)
    BY <1>0, <1>1, <1>2, <2>1 DEF ExecWait, DefaultTrigger
  <2>2. CASE ExecBranch(in)
    BY <1>0, <1>1, <2>2 DEF ExecBranch, DefaultTrigger
  <2>3. CASE ExecResult(in)
    BY <1>0, <1>1, <2>3 DEF ExecResult, DefaultTrigger
  <2> QED BY <1>2, <2>1, <2>2, <2>3 DEF Exec
<1>3. CASE Shift(in)
  <2>1. CASE ShiftDone(in)
    BY <1>0, <1>1, <1>3, <2>1 DEF Shift, ShiftDone, ClaimPrefetch, DefaultTrigger
  <2>2. CASE ShiftStep(in)
    BY <1>0, <1>1, <1>3, <2>2 DEF Shift, ShiftStep, DefaultTrigger
  <2> QED BY <1>3, <2>1, <2>2 DEF Shift
<1>4. CASE Trap(in)
  BY <1>0, <1>1, <1>4 DEF Trap, DefaultTrigger
<1> QED BY <1>2, <1>3, <1>4

\* the request for data is raised when nothing else is asked for, and stage 2 of
\* the decoder catches up before it is withdrawn
LEMMA DataTransferRequests ==
  ASSUME RequestInv, NEW in, NEW request, NEW store,
         \/ cpu_state = "stmem" /\ request = "wdata"
         \/ cpu_state = "ldmem" /\ request = "rdata",
         DataTransfer(in, request, store), Decode(in)
  PROVE  RequestInv'
<1> USE DEF RequestInv, DataRequests, Wants, RemainingRequests
<1>0. mem_do \in {{"prefetch", "rinst"}, {}, {request}} /\ DataRequests = {request}
  OBVIOUS
<1>1. CASE DataWait(in, store)
  <2>1. mem_do = {"prefetch", "rinst"} /\ ~mem_done(in)
    BY <1>0, <1>1 DEF DataWait, FetchOver
  <2>2. mem_do' = mem_do /\ decoder_trigger' = FALSE /\ cpu_state' = cpu_state
        /\ decoder_pseudo_trigger' = FALSE
    BY <1>1, <2>1 DEF DataWait, DefaultTrigger
  <2> QED BY <1>0, <2>1, <2>2
<1>2. ASSUME FetchOver(in), ~TransferOver(in), DefaultTrigger(in),
             decoder_pseudo_trigger' = FALSE,
             \/ mem_do' = RemainingRequests(in) \cup {request} /\ cpu_state' = cpu_state
             \/ mem_do' = RemainingRequests(in) /\ ~Wants(request)
                  /\ cpu_state' \in {cpu_state, "fetch", "trap"}
             \/ mem_do' = RemainingRequests(in) /\ cpu_state' = cpu_state
      PROVE  RequestInv'
  <2>1. CASE mem_do = {"prefetch", "rinst"}
    <3>1. mem_done(in) /\ decoder_trigger' = TRUE
      BY <1>2, <2>1 DEF FetchOver, DefaultTrigger
    <3>2. mem_do' \in {{}, {request}} /\ "rinst" \notin mem_do'
      BY <1>0, <1>2, <3>1
    <3> QED BY <1>0, <1>2, <3>1, <3>2
  <2>2. CASE mem_do \in {{}, {request}}
    <3>1. decoder_trigger' = FALSE /\ decoded' = decoded
      BY <1>0, <1>2, <2>2 DEF DefaultTrigger, Decode
    <3>2. insn' = decoded'
      BY <1>0, <2>2, <3>1 DEF Decode
    <3>3. mem_do' \in {{}, {request}} /\ "rinst" \notin mem_do'
      BY <1>0, <1>2, <2>2
    <3>4. cpu_state' # cpu_state => mem_do' = {}
      BY <1>0, <1>2, <2>2
    <3> QED BY <1>0, <1>2, <3>1, <3>2, <3>3, <3>4
  <2> QED BY <1>0, <2>1, <2>2
<1>3. CASE DataStart(in, request, store)
  <2>1. cpu_state' \in {cpu_state, "fetch", "trap"}
    BY <1>3 DEF DataStart, DoTrap
  <2>2. \/ mem_do' = RemainingRequests(in) \cup {request} /\ cpu_state' = cpu_state
        \/ mem_do' = RemainingRequests(in)
    BY <1>3 DEF DataStart
  <2> QED BY <1>2, <1>3, <2>1, <2>2 DEF DataStart
<1>4. CASE DataOngoing(in, request, store)
  BY <1>2, <1>4 DEF DataOngoing
<1>5. CASE DataEnd(in, request, store)
  <2>1. mem_do = {request} /\ "rinst" \notin mem_do
    BY <1>0, <1>5 DEF DataEnd
  <2>2. insn' = decoded /\ decoded' = decoded
    BY <1>0, <2>1 DEF Decode
  <2> QED BY <1>5, <2>2 DEF DataEnd
<1> QED BY <1>1, <1>3, <1>4, <1>5 DEF DataTransfer

LEMMA ResetRequests == Reset => RequestInv'
  BY DEF Reset, RequestInv, DataRequests, NoStrobes

LEMMA RequestNext ==
  ASSUME RequestInv, \A in \in Inputs : ClaimStands(in), [Next]_vars
  PROVE  RequestInv'
<1>1. ASSUME NEW in \in Inputs, NEW w \in Writes, StateMachine(in, w), Decode(in)
      PROVE  RequestInv'
  <2>1. CASE Fetch(in)
    BY <1>1, <2>1, FetchRequests
  <2>2. CASE LdRs1(in, w) \/ LdRs2(in)
    BY <1>1, <2>2, OperandRequests
  <2>3. CASE Exec(in) \/ Shift(in) \/ Trap(in)
    BY <1>1, <2>3, ExecutionRequests
  <2>4. CASE StMem(in)
    BY <1>1, <2>4, DataTransferRequests DEF StMem
  <2>5. CASE LdMem(in)
    BY <1>1, <2>5, DataTransferRequests DEF LdMem
  <2> QED BY <1>1, <2>1, <2>2, <2>3, <2>4, <2>5 DEF StateMachine
<1>2. CASE Tick
  BY <1>1, <1>2 DEF Tick
<1>3. CASE Reset
  BY <1>3, ResetRequests
<1>4. CASE UNCHANGED vars
  BY <1>4 DEF vars, requestVars, decoderVars, mainVars, RequestInv, DataRequests,
              Wants, instr_trap, GivingUp
<1> QED BY <1>2, <1>3, <1>4 DEF Next

(***************************************************************************)
(* With two register ports a coprocessor is asked in ld_rs1, and an        *)
(* instruction nobody claims has its prefetch claimed there.  The core     *)
(* stops waiting for the coprocessor while it does, if the instruction is  *)
(* an ecall or an ebreak; of others only pcpi_timeout says so, for a few   *)
(* cycles.                                                                 *)
(***************************************************************************)
\* what is in execution is an instruction of the program
KnownInv ==
  /\ decoder_trigger \/ cpu_state \notin {"fetch", "trap"} => decoded.kind \in Kinds
  /\ cpu_state \in {"ld_rs1", "ld_rs2"} => insn = decoded

LEMMA KnownInit == Init => KnownInv
  BY DEF Init, KnownInv

LEMMA DecodedKnown ==
  ASSUME NEW in, Decode(in)
  PROVE  IF Wants("rinst") /\ mem_done(in) THEN decoded'.kind \in Kinds ELSE decoded' = decoded
<1>1. CASE Wants("rinst") /\ mem_done(in)
  <2>1. decoded' \in Decodings(mem_rdata_latched(in))
    BY <1>1 DEF Decode
  <2>2. decoded'.kind \in KindsOf(mem_rdata_latched(in))
    BY <2>1 DEF Decodings
  <2> QED BY <1>1, <2>2 DEF KindsOf
<1> QED BY <1>1 DEF Decode

LEMMA KnownTick ==
  ASSUME RequestInv, KnownInv, NEW in, ClaimStands(in), NEW w, StateMachine(in, w), Decode(in)
  PROVE  KnownInv'
<1>1. decoded.kind \in Kinds => decoded'.kind \in Kinds
  BY DecodedKnown
<1>2. DefaultTrigger(in) /\ decoder_trigger' => decoded'.kind \in Kinds
  BY DecodedKnown DEF DefaultTrigger
<1>3. CASE Fetch(in)
  <2>1. CASE FetchLaunch(in)
    <3>1. decoder_trigger /\ "rinst" \notin mem_do
      BY <2>1 DEF FetchLaunch, Launches, RequestInv
    <3>2. decoded' = decoded /\ insn' = decoded
      BY <3>1 DEF Decode, Wants, RequestInv
    <3> QED BY <3>1, <3>2 DEF KnownInv
  <2>2. CASE ~FetchLaunch(in)
    <3>1. cpu_state' \in {"fetch", "trap"}
      BY <1>3, <2>2 DEF Fetch, FetchMisalignedJump, FetchWait, FetchInterrupt, FetchWfi, FetchJal,
                        DoTrap
    <3>2. DefaultTrigger(in) \/ ~decoder_trigger'
      BY <1>3, <2>2 DEF Fetch, FetchMisalignedJump, FetchWait, FetchInterrupt, FetchWfi, FetchJal
    <3> QED BY <1>2, <3>1, <3>2 DEF KnownInv
  <2> QED BY <2>1, <2>2
<1>4. CASE LdRs1(in, w) \/ LdRs2(in)
  <2>1. cpu_state \in {"ld_rs1", "ld_rs2"} /\ decoded.kind \in Kinds /\ insn = decoded
        /\ ~decoder_trigger
    BY <1>4 DEF LdRs1, LdRs2, KnownInv, RequestInv
  <2>2. CASE ~mem_done(in)
    BY <1>1, <2>1, <2>2 DEF Decode, KnownInv
  <2>3. CASE mem_done(in)
    <3>1. GivingUp
      BY <2>1, <2>3, DoneNeedsRequest DEF RequestInv, DataRequests
    <3>2. DoInstrTrap(in)
      BY <1>4, <3>1 DEF GivingUp, ClaimStands, LdRs1, LdRs2, LdRs1Trap, LdRs1Counter, LdRs1Csr, ExecutesCsr,
                        LdRs1Operands, PcpiReady, PcpiWait
    <3>3. cpu_state' \in {"fetch", "trap"}
      BY <2>3, <3>2 DEF DoInstrTrap, DoTrap, TrapEntered
    <3> QED BY <1>1, <2>1, <3>3 DEF KnownInv
  <2> QED BY <2>2, <2>3
<1>5. CASE Exec(in) \/ Shift(in)
  <2>1. cpu_state \in {"exec", "shift"} /\ cpu_state' \in {"exec", "shift", "fetch"}
    BY <1>5 DEF Exec, ExecWait, ExecBranch, ExecResult, Shift, ShiftDone, ShiftStep
  <2> QED BY <1>1, <2>1 DEF KnownInv
<1>6. CASE StMem(in) \/ LdMem(in)
  <2>1. cpu_state \in {"stmem", "ldmem"} /\ cpu_state' \in {"stmem", "ldmem", "fetch", "trap"}
    BY <1>6 DEF StMem, LdMem, DataTransfer, DataWait, DataStart, DataOngoing, DataEnd, DoTrap
  <2> QED BY <1>1, <2>1 DEF KnownInv
<1>7. CASE Trap(in)
  BY <1>2, <1>7 DEF Trap, KnownInv
<1> QED BY <1>3, <1>4, <1>5, <1>6, <1>7 DEF StateMachine

LEMMA KnownNext ==
  ASSUME RequestInv, KnownInv, \A in \in Inputs : ClaimStands(in), [Next]_vars
  PROVE  KnownInv'
<1>1. CASE Tick
  BY <1>1, KnownTick DEF Tick
<1>2. CASE Reset
  BY <1>2 DEF Reset, KnownInv
<1>3. CASE UNCHANGED vars
  BY <1>3 DEF vars, decoderVars, mainVars, KnownInv
<1> QED BY <1>1, <1>2, <1>3 DEF Next

\* With two register ports no program has an instruction that is unknown and
\* so would be offered to the coprocessor while its prefetch runs.
NoneUnknown == WITH_PCPI /\ ENABLE_REGS_DUALPORT => "illegal" \notin Kinds

LEMMA CallsGiveUp ==
  ASSUME NoneUnknown, KnownInv, NEW in \in Inputs
  PROVE  ClaimStands(in)
<1> SUFFICES ASSUME GivingUp PROVE ~in.pcpi_ready /\ PcpiGivesUp
  BY DEF ClaimStands
<1>1. insn = decoded /\ decoded.kind \in Kinds /\ instr_trap /\ "illegal" \notin Kinds
  BY DEF GivingUp, KnownInv, NoneUnknown
<1>2. insn.kind \in {"ecall", "ebreak"}
  BY <1>1 DEF instr_trap
<1>3. ~in.pcpi_ready
  BY <1>2 DEF Inputs, PcpiInputs
<1> QED BY <1>2, <1>3 DEF PcpiGivesUp

\* The requests to the memory interface are raised one after the other, for
\* every program and however long the memory takes (the assertions of
\* rtl/nanorv32_core.v, lines 636-647).  With an unknown instruction offered in
\* ld_rs1 that needs a memory faster than the timeout (RequestsExclusiveInTime).
THEOREM RequestsAreExclusive ==
  ASSUME NoneUnknown
  PROVE  Spec => [](RequestInv /\ RequestsExclusive)
<1>1. RequestInv => RequestsExclusive
  BY DEF RequestInv, RequestsExclusive, DataRequests, Wants, Fetching, GivingUp
<1>2. RequestInv /\ KnownInv /\ [Next]_vars => RequestInv' /\ KnownInv'
  BY CallsGiveUp, RequestNext, KnownNext
<1>3. Init => RequestInv /\ KnownInv
  BY RequestInit, KnownInit
<1> QED BY <1>1, <1>2, <1>3, PTL DEF Spec

(***************************************************************************)
(* Addresses                                                               *)
(***************************************************************************)
LEMMA AddressSpace == AddrSpace \in Nat /\ AddrSpace > 0
  BY MemAssumption

LEMMA PlusType == \A a \in AddrOrNone, n \in Nat : Plus(a, n) \in Addr
  BY AddressSpace DEF Plus, Addr, AddrOrNone

LEMMA WordOfType == \A a \in AddrOrNone : WordOf(a) \in AddrOrNone
<1> SUFFICES ASSUME NEW a \in AddrOrNone PROVE WordOf(a) \in AddrOrNone
  OBVIOUS
<1>1. a \in Nat /\ a <= AddrSpace
  BY AddressSpace DEF AddrOrNone
<1>2. (a % 4) \in Nat /\ (a % 4) <= a
  BY <1>1
<1> QED BY <1>1, <1>2, AddressSpace DEF WordOf, AddrOrNone

LEMMA AlignType == \A a \in AddrOrNone : Align(a) \in AddrOrNone
<1> SUFFICES ASSUME NEW a \in AddrOrNone PROVE Align(a) \in AddrOrNone
  OBVIOUS
<1>1. a \in Nat /\ a <= AddrSpace
  BY AddressSpace DEF AddrOrNone
<1>2. /\ (a % 2) \in Nat /\ (a % 2) <= a
      /\ (a % 4) \in Nat /\ (a % 4) <= a
  BY <1>1
<1> QED BY <1>1, <1>2, AddressSpace DEF Align, AddrOrNone

LEMMA Addresses ==
  /\ None \in AddrOrNone /\ Addr \subseteq AddrOrNone
  /\ PROGADDR_RESET \in AddrOrNone /\ PROGADDR_IRQ \in AddrOrNone
  /\ Targets \subseteq AddrOrNone /\ Targets # {} /\ DataAddrs \subseteq AddrOrNone
  BY AddressSpace, CoreAssumption DEF None, Addr, AddrOrNone

LEMMA InputTypes ==
  ASSUME NEW in \in Inputs
  PROVE  /\ in.ready \in BOOLEAN /\ in.lo \in BOOLEAN /\ in.hi \in BOOLEAN
         /\ in.irq \subseteq IrqLines /\ in.mtip \in BOOLEAN
         /\ in.pcpi_wait \in BOOLEAN /\ in.pcpi_ready \in BOOLEAN /\ in.pcpi_wr \in BOOLEAN
         /\ in.mtip => "timer" \in IrqEnabled
         /\ in.ready => mem_valid
         /\ mem_valid /\ stall = MaxStall => in.ready
<1>1. PICK m \in MemInputs, i \in SUBSET IrqLines, t \in TimerInputs, c \in PcpiInputs :
        in = [ready |-> m.ready, lo |-> m.lo, hi |-> m.hi, irq |-> i, mtip |-> t,
              pcpi_wait |-> c.wait, pcpi_ready |-> c.ready, pcpi_wr |-> c.wr]
  BY DEF Inputs
<1>2. /\ m.ready \in BOOLEAN /\ m.lo \in BOOLEAN /\ m.hi \in BOOLEAN
      /\ m.ready => mem_valid
      /\ mem_valid /\ stall = MaxStall => m.ready
  BY DEF MemInputs
<1>3. t \in BOOLEAN /\ (t => "timer" \in IrqEnabled)
  BY DEF TimerInputs
<1>4. c.wait \in BOOLEAN /\ c.ready \in BOOLEAN /\ c.wr \in BOOLEAN
  <2>1. CASE pcpi_valid /\ insn.kind = "illegal"
    BY <2>1 DEF PcpiInputs
  <2>2. CASE ~(pcpi_valid /\ insn.kind = "illegal")
    <3>1. c = [wait |-> FALSE, ready |-> FALSE, wr |-> FALSE]
      BY <2>2 DEF PcpiInputs
    <3> QED BY <3>1
  <2> QED BY <2>1, <2>2
<1> QED BY <1>1, <1>2, <1>3, <1>4

(***************************************************************************)
(* The memory interface                                                    *)
(***************************************************************************)
LEMMA HalfTypes == NoHalf \in Half /\ NoWord \in Word
  BY Addresses DEF NoHalf, NoWord, Half, Word

LEMMA WireTypes ==
  ASSUME MemTypeOK, NEW in \in Inputs
  PROVE  /\ next_pc \in AddrOrNone
         /\ mem_rdata(in) \in Word
         /\ mem_rdata_latched(in) \in Word
         /\ mem_la_addr(in) \in AddrOrNone
<1> USE DEF MemTypeOK, RequestTypeOK, BusTypeOK, WordTypeOK
<1>1. next_pc \in AddrOrNone
  BY DEF next_pc
<1>2. mem_rdata(in) \in Word
  <2>1. Plus(mem_addr, 2) \in AddrOrNone
    BY PlusType, Addresses
  <2> QED BY <2>1, InputTypes, Addresses DEF mem_rdata, Half, Word
<1>3. mem_rdata_latched_noshuffle(in) \in Word
  BY <1>2 DEF mem_rdata_latched_noshuffle
<1>4. mem_rdata_latched(in) \in Word
  BY <1>3, HalfTypes DEF mem_rdata_latched, Word
<1>5. mem_la_addr(in) \in AddrOrNone
  <2>1. /\ WordOf(next_pc) \in AddrOrNone /\ WordOf(reg_op1) \in AddrOrNone
        /\ Plus(WordOf(next_pc), 4) \in AddrOrNone
    BY <1>1, WordOfType, PlusType, Addresses
  <2> QED BY <2>1 DEF mem_la_addr
<1> QED BY <1>1, <1>2, <1>4, <1>5

LEMMA StallType ==
  ASSUME BusTypeOK, NEW in \in Inputs, EveryEdge(in)
  PROVE  stall' \in 0 .. MaxStall
  BY InputTypes, MemAssumption DEF BusTypeOK, EveryEdge

LEMMA MemStepTypes ==
  ASSUME MemTypeOK, NEW in \in Inputs, MemStep(in)
  PROVE  BusTypeOK' /\ WordTypeOK'
<1> USE DEF MemTypeOK, RequestTypeOK, BusTypeOK, WordTypeOK
<1>1. stall' \in 0 .. MaxStall
  BY StallType DEF MemStep
<1>2. mem_rdata_q' \in Word
  BY WireTypes DEF MemStep, EveryEdge
<1>3. mem_addr' \in AddrOrNone /\ mem_write' \in BOOLEAN
  BY WireTypes DEF MemStep, BusAddress
<1>4. /\ last_mem_valid' \in BOOLEAN /\ mem_la_firstword_reg' \in BOOLEAN
      /\ clear_prefetched_high_word_q' \in BOOLEAN
  BY InputTypes DEF MemStep, FirstwordOfTransfer, mem_la_firstword, clear_prefetched_high_word
<1>5. mem_rdata(in).hi \in Half
  BY WireTypes DEF Word
<1>6. /\ mem_state' \in {"IDLE", "READ", "WRITE", "WAIT_FETCH"}
      /\ mem_valid' \in BOOLEAN /\ mem_instr' \in BOOLEAN
      /\ mem_la_secondword' \in BOOLEAN
      /\ mem_16bit_buffer' \in Half
  <2>1. CASE Trapped(in)
    BY <2>1, InputTypes DEF Trapped
  <2>2. CASE Idle
    BY <2>2 DEF Idle, Fetching, Wants
  <2>3. CASE ReadSecondWord(in)
    BY <1>5, <2>3 DEF ReadSecondWord
  <2>4. CASE ReadComplete(in)
    BY <1>5, <2>4 DEF ReadComplete
  <2>5. CASE WriteComplete(in) \/ BusWait(in) \/ WaitFetch
    BY <2>5 DEF WriteComplete, BusWait, WaitFetch
  <2> QED BY <2>1, <2>2, <2>3, <2>4, <2>5 DEF MemStep
<1>7. prefetched_high_word' \in BOOLEAN
  <2>1. CASE Trapped(in)
    BY <2>1 DEF Trapped
  <2>2. CASE Idle \/ ReadSecondWord(in) \/ WriteComplete(in) \/ BusWait(in) \/ WaitFetch
    BY <2>2 DEF Idle, ReadSecondWord, WriteComplete, BusWait, WaitFetch
  <2>3. CASE ReadComplete(in)
    BY <2>3 DEF ReadComplete
  <2> QED BY <2>1, <2>2, <2>3 DEF MemStep
<1> QED BY <1>1, <1>2, <1>3, <1>4, <1>6, <1>7

LEMMA MemResetTypes ==
  ASSUME MemTypeOK, NEW in \in Inputs, MemReset(in)
  PROVE  BusTypeOK' /\ WordTypeOK'
<1> USE DEF MemTypeOK, RequestTypeOK, BusTypeOK, WordTypeOK
<1>1. mem_rdata_q' \in Word
  BY WireTypes DEF MemReset
<1>2. stall' \in 0 .. MaxStall
  BY MemAssumption DEF MemReset
<1>3. clear_prefetched_high_word_q' \in BOOLEAN
  BY MemAssumption DEF MemReset
<1> QED BY <1>1, <1>2, <1>3 DEF MemReset

(***************************************************************************)
(* The decoder                                                             *)
(***************************************************************************)
LEMMA DecodingTypes ==
  ASSUME NEW word \in Word, NEW d \in Decodings(word)
  PROVE  d \in Instruction
<1>1. PICK k \in KindsOf(word) :
        d \in [kind : {k}, at : {word.lo.at}, upper : {word.hi.at},
              wide : {word.lo.wide}, target : TargetsOf(k), cond : CondOf(k)]
  BY DEF Decodings
<1>2. k \in AllKinds
  BY CoreAssumption DEF KindsOf
<1>3. TargetsOf(k) \subseteq AddrOrNone
  BY Addresses DEF TargetsOf
<1>4. CondOf(k) \subseteq {"taken", "not"}
  BY DEF CondOf
<1>5. word.lo.at \in AddrOrNone /\ word.hi.at \in AddrOrNone /\ word.lo.wide \in BOOLEAN
  BY DEF Word, Half
<1> QED BY <1>1, <1>2, <1>3, <1>4, <1>5 DEF Instruction

LEMMA DecodeTypes ==
  ASSUME MemTypeOK, DecoderTypeOK, NEW in \in Inputs, Decode(in)
  PROVE  decoded' \in Instruction /\ insn' \in Instruction
<1>1. mem_rdata_latched(in) \in Word
  BY WireTypes
<1>2. decoded' \in Instruction
  BY <1>1, DecodingTypes DEF Decode, DecoderTypeOK
<1>3. insn' \in Instruction
  BY DEF Decode, DecoderTypeOK
<1> QED BY <1>2, <1>3

(***************************************************************************)
(* The main state machine: the registers each of its states assigns        *)
(***************************************************************************)
LatchTypeOK ==
  /\ latched_store \in BOOLEAN /\ latched_branch \in BOOLEAN
  /\ latched_stalu \in BOOLEAN /\ latched_compr \in BOOLEAN
  /\ latched_rd \in AddrOrNone

ControlTypeOK ==
  /\ mem_do \in SUBSET Requests
  /\ reg_next_pc \in AddrOrNone /\ reg_out \in AddrOrNone /\ reg_op1 \in AddrOrNone
  /\ mem_wordsize \in 0 .. 2
  /\ LatchTypeOK
  /\ decoder_trigger \in BOOLEAN /\ decoder_pseudo_trigger \in BOOLEAN
  /\ cpu_state \in CpuStates /\ reg_pc \in AddrOrNone /\ do_waitirq \in BOOLEAN
  /\ reg_sh \in (0 .. MaxShift) \cup {None}
  /\ alu_wait \in BOOLEAN /\ alu_wait_2 \in BOOLEAN
  /\ pcpi_valid \in BOOLEAN
  /\ CsrTypeOK

StateTypeOK == ControlTypeOK /\ decoded \in Instruction /\ insn \in Instruction
                 /\ alu_out_q \in AddrOrNone

\* mem_done is a boolean wire, and so is what is computed from it
LEMMA DoneType == ASSUME NEW in PROVE mem_done(in) \in BOOLEAN
  BY DEF mem_done

LEMMA RequestTypes ==
  ASSUME mem_do \in SUBSET Requests, NEW in
  PROVE  /\ RemainingRequests(in) \in SUBSET Requests
         /\ \A on : WithRinst(RemainingRequests(in), on) \in SUBSET Requests
  BY DEF RemainingRequests, WithRinst, Requests

LEMMA TriggerType ==
  ASSUME NEW in, DefaultTrigger(in)
  PROVE  decoder_trigger' \in BOOLEAN
<1>1. (Wants("rinst") /\ mem_done(in)) \in BOOLEAN
  OBVIOUS
<1> QED BY <1>1 DEF DefaultTrigger

LEMMA CustomTrapType == \A b : CustomTrap(b) \in BOOLEAN
  BY DEF CustomTrap

\* do_trap, given the values its caller assigns
LEMMA TrapTypes ==
  ASSUME StateTypeOK, NEW in, NEW set_mtrap,
         NEW store \in BOOLEAN, NEW branch \in BOOLEAN, NEW rd \in AddrOrNone,
         DoTrap(in, set_mtrap, store, branch, rd)
  PROVE  /\ CsrTypeOK' /\ cpu_state' \in CpuStates
         /\ latched_store' \in BOOLEAN /\ latched_branch' \in BOOLEAN
         /\ latched_rd' \in AddrOrNone /\ reg_out' \in AddrOrNone
<1> USE DEF StateTypeOK, ControlTypeOK, CsrTypeOK
<1>1. CASE TrapEntered(in, set_mtrap)
  BY <1>1, Addresses, CustomTrapType DEF DoTrap, CpuStates
<1>2. CASE ~TrapEntered(in, set_mtrap)
  BY <1>2, Addresses DEF DoTrap, CpuStates, csrVars
<1> QED BY <1>1, <1>2

LEMMA CurrentPcType ==
  ASSUME StateTypeOK
  PROVE  JumpedTo \in AddrOrNone /\ current_pc \in AddrOrNone
<1>1. JumpedTo \in AddrOrNone
  BY DEF JumpedTo, StateTypeOK, ControlTypeOK
<1> QED BY <1>1, AlignType DEF current_pc

LEMMA NextPcType ==
  ASSUME StateTypeOK
  PROVE  Plus(current_pc, Length(decoded)) \in AddrOrNone
<1>1. Length(decoded) \in Nat
  BY DEF Length
<1> QED BY <1>1, PlusType, CurrentPcType, Addresses

LEMMA FetchTypes ==
  ASSUME StateTypeOK, NEW in, Fetch(in)
  PROVE  ControlTypeOK'
<1> USE DEF StateTypeOK, ControlTypeOK, LatchTypeOK
<1>1. /\ latched_stalu' \in BOOLEAN /\ reg_pc' \in AddrOrNone
      /\ decoder_pseudo_trigger' \in BOOLEAN
      /\ alu_wait' \in BOOLEAN /\ alu_wait_2' \in BOOLEAN
      /\ reg_sh' \in (0 .. MaxShift) \cup {None}
      /\ pcpi_valid' \in BOOLEAN /\ reg_op1' \in AddrOrNone
      /\ latched_compr' \in BOOLEAN /\ mem_wordsize' \in 0 .. 2
  <2>1. FetchDefaults
    BY DEF Fetch, FetchWait, FetchMisalignedJump, FetchInterrupt, FetchWfi, FetchJal, FetchLaunch
  <2>2. decoded.wide \in BOOLEAN
    BY DEF Instruction
  <2>3. mem_wordsize' \in 0 .. 2
    BY <2>1 DEF FetchDefaults
  <2> QED BY <2>1, <2>2, <2>3, CurrentPcType, Addresses DEF FetchDefaults, NoAluWait
<1>2. mem_do' \in SUBSET Requests
  <2>1. CASE FetchRequest(in)
    BY <2>1, RequestTypes DEF FetchRequest
  <2>2. CASE FetchWfi(in) \/ FetchJal(in)
    BY <2>1, <2>2, RequestTypes DEF FetchWfi, FetchJal
  <2>3. CASE FetchLaunch(in)
    BY <2>3, RequestTypes DEF FetchLaunch, Requests
  <2> QED BY <2>1, <2>2, <2>3 DEF Fetch, FetchWait, FetchMisalignedJump, FetchInterrupt
<1>3. decoder_trigger' \in BOOLEAN
  BY TriggerType DEF Fetch, FetchWait, FetchMisalignedJump, FetchInterrupt, FetchWfi,
                     FetchJal, FetchLaunch
<1>4. reg_next_pc' \in AddrOrNone
  BY CurrentPcType, NextPcType, AlignType, Addresses
  DEF Fetch, FetchWait, FetchMisalignedJump, FetchInterrupt, FetchWfi, FetchJal,
      FetchLaunch, Instruction
<1>5. do_waitirq' \in BOOLEAN
  BY DEF Fetch, FetchWait, FetchMisalignedJump, FetchInterrupt, FetchWfi, FetchJal, FetchLaunch
<1>6. decoded.at \in AddrOrNone
  BY DEF Instruction
<1>7. CASE FetchMisalignedJump(in)
  BY <1>1, <1>2, <1>3, <1>4, <1>5, <1>6, <1>7, TrapTypes DEF FetchMisalignedJump
<1>8. CASE ~FetchMisalignedJump(in)
  <2>1. /\ latched_store' \in BOOLEAN /\ latched_branch' \in BOOLEAN
        /\ latched_rd' \in AddrOrNone /\ reg_out' \in AddrOrNone
    BY <1>6, <1>8, Addresses
    DEF Fetch, FetchWait, FetchInterrupt, FetchWfi, FetchJal, FetchLaunch, NoBranch
  <2>2. cpu_state' \in CpuStates
    BY <1>8 DEF Fetch, FetchWait, FetchInterrupt, FetchWfi, FetchJal, FetchLaunch, CpuStates
  <2>3. CsrTypeOK'
    <3>1. CASE UNCHANGED csrVars
      BY <3>1 DEF csrVars, CsrTypeOK
    <3>2. CASE FetchInterrupt(in)
      BY <3>2, CurrentPcType, CustomTrapType DEF FetchInterrupt, CsrTypeOK
    <3> QED BY <1>8, <3>1, <3>2 DEF Fetch, FetchWait, FetchWfi, FetchJal, FetchLaunch
  <2> QED BY <1>1, <1>2, <1>3, <1>4, <1>5, <2>1, <2>2, <2>3
<1> QED BY <1>7, <1>8

LEMMA CsrWriteTypes ==
  ASSUME NEW w \in Writes
  PROVE  /\ w.csr = "mstatus" => w.mie \in BOOLEAN /\ w.mpie \in BOOLEAN
         /\ w.csr = "mie" => w.sources \subseteq IrqEnabled
         /\ w.csr = "mip" => w.sources \subseteq IrqEnabled
         /\ w.csr = "mepc" => w.addr \in AddrOrNone
         /\ w.csr \in {"irq_mask", "irq_pend"} => w.lines \subseteq IrqLines
<1>1. CASE w = NoWrite
  BY <1>1 DEF NoWrite
<1>2. CASE w \in CsrWrites
  BY <1>2, Addresses DEF CsrWrites
<1> QED BY <1>1, <1>2 DEF Writes

\* the three ways on from the states that read operands
LEMMA DispatchTypes ==
  ASSUME mem_do \in SUBSET Requests, NEW in,
         \/ \E wait \in BOOLEAN, wait2 \in BOOLEAN : ToExec(in, wait, wait2)
         \/ ToShift(in)
         \/ \E state \in {"stmem", "ldmem"} : ToMemory(in, state)
  PROVE  /\ cpu_state' \in CpuStates /\ mem_do' \in SUBSET Requests
         /\ alu_wait' \in BOOLEAN /\ alu_wait_2' \in BOOLEAN
         /\ reg_sh' \in (0 .. MaxShift) \cup {None}
  BY RequestTypes DEF ToExec, ToShift, ToMemory, ClaimPrefetch, CpuStates, NoAluWait

LEMMA OperandTypes ==
  ASSUME StateTypeOK, NEW in, Operands(in), NoStrobes, KeepPc,
         /\ cpu_state' \in CpuStates /\ mem_do' \in SUBSET Requests
         /\ alu_wait' \in BOOLEAN /\ alu_wait_2' \in BOOLEAN
         /\ reg_sh' \in (0 .. MaxShift) \cup {None}
  PROVE  ControlTypeOK'
  BY TriggerType, Addresses
  DEF StateTypeOK, ControlTypeOK, LatchTypeOK, CsrTypeOK, csrVars, Operands, NoStrobes, KeepPc

LEMMA DispatchGoesOn ==
  ASSUME NEW in, Dispatch(in)
  PROVE  \/ \E wait \in BOOLEAN, wait2 \in BOOLEAN : ToExec(in, wait, wait2)
         \/ ToShift(in)
         \/ \E state \in {"stmem", "ldmem"} : ToMemory(in, state)
<1>1. NeedsAluWait \in BOOLEAN
  BY AluParameters DEF NeedsAluWait
<1>2. (TWO_CYCLE_ALU /\ TWO_CYCLE_COMPARE /\ decoded.kind = "branch") \in BOOLEAN
  OBVIOUS
<1>3. CASE decoded.kind = "store"
  BY <1>3 DEF Dispatch
<1>4. CASE decoded.kind # "store" /\ insn.kind = "shift" /\ ~BARREL_SHIFTER
  BY <1>4 DEF Dispatch
<1>5. CASE decoded.kind # "store" /\ ~(insn.kind = "shift" /\ ~BARREL_SHIFTER)
  <2>1. ToExec(in, NeedsAluWait, TWO_CYCLE_ALU /\ TWO_CYCLE_COMPARE /\ decoded.kind = "branch")
    BY <1>5 DEF Dispatch
  <2> QED BY <1>1, <1>2, <2>1
<1> QED BY <1>3, <1>4, <1>5

LEMMA LdRs1Types ==
  ASSUME StateTypeOK, NEW in \in Inputs, NEW w \in Writes, LdRs1(in, w)
  PROVE  ControlTypeOK'
<1> USE DEF StateTypeOK, ControlTypeOK, LatchTypeOK
<1>0. NoStrobes /\ KeepPc
  BY DEF LdRs1
<1>1. CASE LdRs1Trap(in)
  <2>1. decoder_trigger' \in BOOLEAN
    BY <1>1, TriggerType DEF LdRs1Trap, PcpiReady, PcpiWait
  <2>2. mem_do' \in SUBSET Requests
    BY <1>1, RequestTypes DEF LdRs1Trap, PcpiReady, PcpiWait, ClaimPrefetch
  <2>3. /\ latched_store' \in BOOLEAN /\ latched_branch' \in BOOLEAN
        /\ latched_rd' \in AddrOrNone /\ reg_out' \in AddrOrNone
        /\ cpu_state' \in CpuStates /\ CsrTypeOK'
    <3>1. CASE DoInstrTrap(in)
      BY <3>1, TrapTypes DEF DoInstrTrap
    <3>2. CASE ~DoInstrTrap(in)
      BY <1>1, <3>2, InputTypes, Addresses
      DEF LdRs1Trap, PcpiReady, PcpiWait, CpuStates, CsrTypeOK, csrVars
    <3> QED BY <3>1, <3>2
  <2>4. pcpi_valid' \in BOOLEAN
    BY <1>1 DEF LdRs1Trap, PcpiReady, PcpiWait
  <2> QED BY <1>0, <1>1, <2>1, <2>2, <2>3, <2>4, Addresses
          DEF LdRs1Trap, NoStrobes, KeepPc, NoAluWait
<1>2. CASE LdRs1Counter(in)
  BY <1>0, <1>2, TriggerType, RequestTypes, Addresses
  DEF LdRs1Counter, ReadsOut, NoStrobes, KeepPc, NoAluWait, CpuStates, CsrTypeOK, csrVars
<1>3. CASE LdRs1Csr(in, w)
  <2>1. CsrTypeOK'
    BY <1>3, CsrWriteTypes, CustomTrapType DEF LdRs1Csr, CsrTypeOK
  <2> QED BY <1>0, <1>3, <2>1, TriggerType, RequestTypes, Addresses
          DEF LdRs1Csr, ReadsOut, NoStrobes, KeepPc, NoAluWait, CpuStates
<1>4. CASE LdRs1Mret(in)
  <2>1. CsrTypeOK'
    BY <1>4, CustomTrapType DEF LdRs1Mret, CsrTypeOK
  <2> QED BY <1>0, <1>4, <2>1, TriggerType, RequestTypes, Addresses
          DEF LdRs1Mret, NoStrobes, KeepPc, NoAluWait, CpuStates, CsrTypeOK
<1>5. CASE LdRs1Operands(in)
  <2>0. Operands(in) /\ TWO_CYCLE_ALU \in BOOLEAN
    BY <1>5, AluParameters DEF LdRs1Operands
  <2>1. \/ \E wait \in BOOLEAN, wait2 \in BOOLEAN : ToExec(in, wait, wait2)
        \/ ToShift(in)
        \/ \E state \in {"stmem", "ldmem"} : ToMemory(in, state)
        \/ cpu_state' = "ld_rs2" /\ mem_do' = RemainingRequests(in) /\ NoAluWait /\ reg_sh' = None
    <3>1. CASE insn.kind \in {"lui", "jal"}
      BY <1>5, <2>0, <3>1 DEF LdRs1Operands, OneOperand
    <3>2. CASE insn.kind \notin {"lui", "jal"} /\ decoded.kind = "load"
      BY <1>5, <3>2 DEF LdRs1Operands, OneOperand
    <3>3. CASE insn.kind \notin {"lui", "jal"} /\ decoded.kind # "load" /\ insn.kind \in OneOperand
      BY <1>5, <2>0, <3>3 DEF LdRs1Operands, OneOperand
    <3>4. CASE /\ insn.kind \notin {"lui", "jal"} \cup OneOperand /\ decoded.kind # "load"
               /\ insn.kind = "shifti" /\ ~BARREL_SHIFTER
      BY <1>5, <3>4 DEF LdRs1Operands
    <3>5. CASE /\ insn.kind \notin {"lui", "jal"} \cup OneOperand /\ decoded.kind # "load"
               /\ ~(insn.kind = "shifti" /\ ~BARREL_SHIFTER)
      <4>1. Dispatch(in) \/ (cpu_state' = "ld_rs2" /\ mem_do' = RemainingRequests(in)
                              /\ NoAluWait /\ reg_sh' = None)
        BY <1>5, <3>5 DEF LdRs1Operands
      <4> QED BY <4>1, DispatchGoesOn
    <3> QED BY <3>1, <3>2, <3>3, <3>4, <3>5
  <2>2. /\ cpu_state' \in CpuStates /\ mem_do' \in SUBSET Requests
        /\ alu_wait' \in BOOLEAN /\ alu_wait_2' \in BOOLEAN
        /\ reg_sh' \in (0 .. MaxShift) \cup {None}
    <3>1. CASE /\ cpu_state' = "ld_rs2" /\ mem_do' = RemainingRequests(in)
               /\ NoAluWait /\ reg_sh' = None
      BY <3>1, RequestTypes DEF CpuStates, NoAluWait
    <3> QED BY <2>1, <3>1, DispatchTypes
  <2> QED BY <1>0, <2>0, <2>2, OperandTypes
<1> QED BY <1>1, <1>2, <1>3, <1>4, <1>5 DEF LdRs1

LEMMA LdRs2Types ==
  ASSUME StateTypeOK, NEW in \in Inputs, LdRs2(in)
  PROVE  ControlTypeOK'
<1> USE DEF StateTypeOK, ControlTypeOK, LatchTypeOK
<1>0. NoStrobes /\ KeepPc
  BY DEF LdRs2
<1>1. CASE WITH_PCPI /\ instr_trap
  <2>1. decoder_trigger' \in BOOLEAN
    BY <1>1, TriggerType DEF LdRs2, PcpiReady, PcpiWait
  <2>2. mem_do' \in SUBSET Requests
    BY <1>1, RequestTypes DEF LdRs2, PcpiReady, PcpiWait
  <2>3. /\ latched_store' \in BOOLEAN /\ latched_branch' \in BOOLEAN
        /\ latched_rd' \in AddrOrNone /\ reg_out' \in AddrOrNone
        /\ cpu_state' \in CpuStates /\ CsrTypeOK'
    <3>1. CASE DoInstrTrap(in)
      BY <3>1, TrapTypes DEF DoInstrTrap
    <3>2. CASE ~DoInstrTrap(in)
      BY <1>1, <3>2, InputTypes, Addresses
      DEF LdRs2, PcpiReady, PcpiWait, CpuStates, CsrTypeOK, csrVars
    <3> QED BY <3>1, <3>2
  <2>4. pcpi_valid' \in BOOLEAN
    BY <1>1 DEF LdRs2, PcpiReady, PcpiWait
  <2> QED BY <1>0, <1>1, <2>1, <2>2, <2>3, <2>4, Addresses
          DEF LdRs2, NoStrobes, KeepPc, NoAluWait
<1>2. CASE ~(WITH_PCPI /\ instr_trap)
  <2>1. Dispatch(in)
    BY <1>2 DEF LdRs2
  <2>2. /\ cpu_state' \in CpuStates /\ mem_do' \in SUBSET Requests
        /\ alu_wait' \in BOOLEAN /\ alu_wait_2' \in BOOLEAN
        /\ reg_sh' \in (0 .. MaxShift) \cup {None}
    BY <2>1, DispatchGoesOn, DispatchTypes
  <2> QED BY <1>0, <1>2, <2>2, TriggerType, Addresses
          DEF LdRs2, NoStrobes, KeepPc, KeepLatches, CsrTypeOK, csrVars
<1> QED BY <1>1, <1>2

LEMMA ExecTypes ==
  ASSUME StateTypeOK, NEW in \in Inputs, Exec(in)
  PROVE  ControlTypeOK'
<1> USE DEF StateTypeOK, ControlTypeOK, LatchTypeOK
<1>1. reg_out' \in AddrOrNone
  BY Addresses DEF Exec, ExecTarget, Instruction
<1>2. mem_do' \in SUBSET Requests
  <2>1. CASE ExecWait(in)
    BY <2>1, RequestTypes DEF ExecWait
  <2>2. CASE ExecBranch(in) \/ ExecResult(in)
    BY <2>2, RequestTypes DEF ExecBranch, ExecResult, WithRinst, Requests
  <2> QED BY <2>1, <2>2 DEF Exec
<1>3. decoder_trigger' \in BOOLEAN
  BY TriggerType DEF Exec, ExecWait, ExecBranch, ExecResult
<1>4. BranchTaken \in BOOLEAN
  BY DEF BranchTaken
<1>5. alu_wait' \in BOOLEAN /\ alu_wait_2' \in BOOLEAN
  BY DEF Exec, ExecWait, ExecBranch, ExecResult, NoAluWait
<1>6. LatchTypeOK'
  BY <1>4, Addresses DEF Exec, ExecWait, ExecBranch, ExecResult, KeepLatches
<1>7. cpu_state' \in CpuStates
  BY DEF Exec, ExecWait, ExecBranch, ExecResult, CpuStates
<1> QED BY <1>1, <1>2, <1>3, <1>5, <1>6, <1>7
        DEF Exec, KeepPc, NoStrobes, CsrTypeOK, csrVars, None

\* while an instruction shifts, reg_sh counts the positions left; TypeOK alone is
\* not inductive, since reg_sh is undriven in the other states
ShiftOK == cpu_state = "shift" => reg_sh \in 0 .. MaxShift

LEMMA ShiftCounts ==
  ASSUME ShiftOK, NEW in, NEW w, StateMachine(in, w)
  PROVE  ShiftOK'
<1> USE DEF ShiftOK
<1>1. CASE Shift(in)
  BY <1>1, CoreAssumption DEF Shift, ShiftDone, ShiftStep
<1>2. CASE LdRs1(in, w)
  <2>1. CASE cpu_state' # "shift"
    BY <2>1
  <2>2. CASE ToShift(in)
    BY <2>2 DEF ToShift
  <2>3. CASE cpu_state' = "shift" /\ ~ToShift(in)
    <3>1. ~LdRs1Trap(in) /\ ~LdRs1Counter(in) /\ ~LdRs1Csr(in, w) /\ ~LdRs1Mret(in)
      BY <1>2, <2>3 DEF LdRs1, LdRs1Trap, LdRs1Counter, LdRs1Csr, LdRs1Mret, ReadsOut,
                        PcpiReady, PcpiWait, DoInstrTrap, DoTrap
    <3>2. ~Dispatch(in)
      BY <2>3 DEF Dispatch, ToExec, ToMemory
    <3> QED BY <1>2, <2>3, <3>1, <3>2 DEF LdRs1, LdRs1Operands, ToExec, ToMemory
  <2> QED BY <2>1, <2>2, <2>3
<1>3. CASE LdRs2(in)
  <2>1. CASE Dispatch(in)
    BY <2>1 DEF Dispatch, ToExec, ToMemory, ToShift
  <2>2. CASE ~Dispatch(in)
    BY <1>3, <2>2 DEF LdRs2, PcpiReady, PcpiWait, DoInstrTrap, DoTrap
  <2> QED BY <2>1, <2>2
<1>4. CASE Fetch(in)
  BY <1>4 DEF Fetch, FetchWait, FetchMisalignedJump, FetchInterrupt, FetchWfi, FetchJal,
              FetchLaunch, DoTrap
<1>5. CASE Exec(in)
  BY <1>5 DEF Exec, ExecWait, ExecBranch, ExecResult
<1>6. CASE StMem(in) \/ LdMem(in)
  BY <1>6 DEF StMem, LdMem, DataTransfer, DataWait, DataStart, DataOngoing, DataEnd, DoTrap
<1>7. CASE Trap(in)
  BY <1>7 DEF Trap
<1> QED BY <1>1, <1>2, <1>3, <1>4, <1>5, <1>6, <1>7 DEF StateMachine

LEMMA ShiftTypes ==
  ASSUME StateTypeOK, ShiftOK, NEW in \in Inputs, Shift(in)
  PROVE  ControlTypeOK'
<1> USE DEF StateTypeOK, ControlTypeOK, LatchTypeOK
<1>1. mem_do' \in SUBSET Requests
  BY RequestTypes DEF Shift, ShiftDone, ShiftStep, ClaimPrefetch
<1>2. reg_sh' \in (0 .. MaxShift) \cup {None}
  <2>1. CASE ShiftDone(in)
    BY <2>1 DEF ShiftDone
  <2>2. CASE ShiftStep(in)
    BY <2>2, CoreAssumption DEF Shift, ShiftOK, ShiftStep
  <2> QED BY <2>1, <2>2 DEF Shift
<1>3. decoder_trigger' \in BOOLEAN
  BY TriggerType DEF Shift
<1>4. cpu_state' \in CpuStates
  BY DEF Shift, ShiftDone, ShiftStep, CpuStates
<1> QED BY <1>1, <1>2, <1>3, <1>4, Addresses
        DEF Shift, KeepPc, NoStrobes, NoAluWait, CsrTypeOK, csrVars

LEMMA DataTransferTypes ==
  ASSUME StateTypeOK, NEW in \in Inputs, NEW request \in Requests,
         NEW store \in BOOLEAN, DataTransfer(in, request, store)
  PROVE  ControlTypeOK'
<1> USE DEF StateTypeOK, ControlTypeOK, LatchTypeOK
<1>1. mem_do' \in SUBSET Requests
  BY RequestTypes DEF DataTransfer, DataWait, DataStart, DataOngoing, DataEnd
<1>2. decoder_trigger' \in BOOLEAN /\ decoder_pseudo_trigger' \in BOOLEAN
  BY TriggerType DEF DataTransfer, DataWait, DataStart, DataOngoing, DataEnd
<1>3. /\ latched_store' \in BOOLEAN /\ latched_branch' \in BOOLEAN
      /\ latched_rd' \in AddrOrNone /\ reg_out' \in AddrOrNone
      /\ cpu_state' \in CpuStates /\ CsrTypeOK' /\ reg_op1' \in AddrOrNone
      /\ mem_wordsize' \in 0 .. 2
  <2>1. CASE DataStart(in, request, store)
    <3>1. PICK addr \in DataAddrs, access \in Accesses(request) :
            /\ reg_op1' = addr /\ mem_wordsize' = WordSize(access)
            /\ IF MisalignedData(addr, access)
                 THEN DoTrap(in, TRUE, store, latched_branch, latched_rd)
                 ELSE /\ reg_out' = None /\ latched_store' = store
                      /\ UNCHANGED <<cpu_state, latched_branch, latched_rd, csrVars>>
      BY <2>1 DEF DataStart
    <3>0. mem_wordsize' \in 0 .. 2
      <4>1. access \in {"lw", "lh", "lhu", "lb", "sw", "sh", "sb"}
        BY DEF Accesses
      <4> QED BY <3>1, <4>1 DEF WordSize
    <3>2. CASE MisalignedData(addr, access)
      <4>1. DoTrap(in, TRUE, store, latched_branch, latched_rd)
        BY <3>1, <3>2
      <4>2. reg_op1' \in AddrOrNone
        BY <3>1, Addresses
      <4> HIDE DEF StateTypeOK, ControlTypeOK
      <4>3. latched_branch \in BOOLEAN /\ latched_rd \in AddrOrNone
        BY DEF StateTypeOK, ControlTypeOK
      <4> QED BY <3>0, <4>1, <4>2, <4>3, TrapTypes
    <3>3. CASE ~MisalignedData(addr, access)
      BY <3>0, <3>1, <3>3, Addresses DEF CsrTypeOK, csrVars
    <3> QED BY <3>2, <3>3
  <2>2. CASE DataWait(in, store) \/ DataOngoing(in, request, store) \/ DataEnd(in, request, store)
    BY <2>2, Addresses
    DEF DataWait, DataOngoing, DataEnd, CpuStates, CsrTypeOK, csrVars
  <2> QED BY <2>1, <2>2 DEF DataTransfer
<1> QED BY <1>1, <1>2, <1>3 DEF DataTransfer, NoAluWait

LEMMA StoppedTypes ==
  ASSUME StateTypeOK, NEW in \in Inputs, Trap(in)
  PROVE  ControlTypeOK'
  BY TriggerType, RequestTypes, Addresses
  DEF StateTypeOK, ControlTypeOK, LatchTypeOK, Trap, KeepPc, KeepLatches, NoStrobes,
      NoAluWait, CsrTypeOK, csrVars

LEMMA StateMachineTypes ==
  ASSUME StateTypeOK, ShiftOK, NEW in \in Inputs, NEW w \in Writes, StateMachine(in, w)
  PROVE  ControlTypeOK'
<1>1. CASE StMem(in)
  BY <1>1, DataTransferTypes DEF StMem, Requests, StateTypeOK, ControlTypeOK, LatchTypeOK
<1>2. CASE LdMem(in)
  BY <1>2, DataTransferTypes DEF LdMem, Requests
<1> QED BY <1>1, <1>2, FetchTypes, LdRs1Types, LdRs2Types, ExecTypes, ShiftTypes,
           StoppedTypes DEF StateMachine

(***************************************************************************)
(* What every edge does besides                                            *)
(***************************************************************************)
LEMMA AluTypes ==
  ASSUME StateTypeOK, AluTypeOK, AluRegisters
  PROVE  alu_q' \in BOOLEAN /\ alu_out_0_q' \in {"taken", "not", "x"} /\ alu_out_q' \in AddrOrNone
  BY Addresses DEF StateTypeOK, Instruction, AluTypeOK, AluRegisters, alu_out_0

LEMMA PcpiTypes ==
  ASSUME PcpiTypeOK, NEW in \in Inputs, PcpiTimeout(in)
  PROVE  pcpi_timeout_counter' \in 0 .. PCPI_TIMEOUT /\ pcpi_timeout' \in BOOLEAN
<1>1. pcpi_timeout_counter' \in 0 .. PCPI_TIMEOUT
  <2>1. PCPI_TIMEOUT \in Nat
    BY CoreAssumption
  <2> QED BY <2>1 DEF PcpiTypeOK, PcpiTimeout
<1>2. pcpi_timeout' \in BOOLEAN
  <2>1. (pcpi_timeout_counter = 0) \in BOOLEAN
    OBVIOUS
  <2> QED BY <2>1 DEF PcpiTypeOK, PcpiTimeout
<1> QED BY <1>1, <1>2

LEMMA IrqTypes ==
  ASSUME IrqTypeOK, NEW in \in Inputs, NEW w \in Writes, IrqStep(in, w)
  PROVE  IrqTypeOK'
<1>1. mip' \subseteq IrqEnabled
  BY InputTypes, CsrWriteTypes DEF IrqTypeOK, IrqStep, InterruptPending
<1>2. irq_mask' \subseteq IrqLines /\ irq_pending' \subseteq IrqLines /\ eoi' \subseteq IrqLines
  BY InputTypes, CsrWriteTypes DEF IrqTypeOK, IrqStep
<1> QED BY <1>1, <1>2 DEF IrqTypeOK

(***************************************************************************)
(* Type correctness                                                        *)
(***************************************************************************)
LEMMA InitTypes == Init => TypeOK /\ ShiftOK
<1> SUFFICES ASSUME Init PROVE TypeOK /\ ShiftOK
  OBVIOUS
<1>1. MemTypeOK
  <2>1. RequestTypeOK
    BY Addresses DEF Init, MemInit, RequestTypeOK
  <2>2. stall \in 0 .. MaxStall
    BY MemAssumption DEF Init, MemInit
  <2>3. BusTypeOK
    BY <2>2, Addresses DEF Init, MemInit, BusTypeOK
  <2>4. clear_prefetched_high_word_q \in BOOLEAN
    BY MemAssumption DEF Init, MemInit
  <2>5. WordTypeOK
    BY <2>4, HalfTypes DEF Init, MemInit, WordTypeOK
  <2> QED BY <2>1, <2>3, <2>5 DEF MemTypeOK
<1>2. NoInstruction \in Instruction
  BY Addresses DEF NoInstruction, Instruction, AllKinds
<1>3. DecoderTypeOK /\ MainTypeOK /\ AluTypeOK /\ ShiftOK
  BY <1>2, Addresses DEF Init, DecoderTypeOK, MainTypeOK, AluTypeOK, ShiftOK, CpuStates
<1>4. pcpi_timeout_counter \in 0 .. PCPI_TIMEOUT
  <2>1. PCPI_TIMEOUT \in Nat
    BY CoreAssumption
  <2> QED BY <2>1 DEF Init
<1>5. PcpiTypeOK
  BY <1>4 DEF Init, PcpiTypeOK
<1>6. CsrTypeOK /\ IrqTypeOK
  BY Addresses DEF Init, CsrTypeOK, IrqTypeOK
<1> QED BY <1>1, <1>3, <1>5, <1>6 DEF TypeOK

\* the parts of TypeOK from those the lemmas above speak of
LEMMA TypesFromParts ==
  /\ TypeOK => StateTypeOK
  /\ ControlTypeOK /\ trap \in BOOLEAN => RequestTypeOK
  /\ ControlTypeOK => CsrTypeOK
  /\ ControlTypeOK => MainTypeOK
  BY DEF TypeOK, MemTypeOK, RequestTypeOK, DecoderTypeOK, MainTypeOK, AluTypeOK, PcpiTypeOK,
         StateTypeOK, ControlTypeOK, LatchTypeOK

LEMMA TickTypes == TypeOK /\ ShiftOK /\ Tick => TypeOK' /\ ShiftOK'
<1> SUFFICES ASSUME TypeOK, ShiftOK, NEW in \in Inputs, NEW w \in Writes,
                    StateMachine(in, w), trap' = (cpu_state = "trap"),
                    MemStep(in), Decode(in), AluRegisters, PcpiTimeout(in), IrqStep(in, w)
             PROVE  TypeOK' /\ ShiftOK'
  BY DEF Tick
<1>1. StateTypeOK /\ MemTypeOK /\ DecoderTypeOK /\ AluTypeOK /\ PcpiTypeOK /\ IrqTypeOK
  BY TypesFromParts DEF TypeOK
<1>2. ControlTypeOK'
  BY <1>1, StateMachineTypes
<1>3. trap' \in BOOLEAN
  OBVIOUS
<1>4. MemTypeOK'
  BY <1>1, <1>2, <1>3, MemStepTypes, TypesFromParts DEF MemTypeOK, RequestTypeOK, ControlTypeOK, LatchTypeOK
<1>5. DecoderTypeOK'
  BY <1>1, <1>2, DecodeTypes DEF DecoderTypeOK, ControlTypeOK
<1>6. MainTypeOK' /\ CsrTypeOK'
  BY <1>2 DEF MainTypeOK, ControlTypeOK, LatchTypeOK
<1>7. AluTypeOK'
  BY <1>1, <1>2, AluTypes DEF AluTypeOK, ControlTypeOK
<1>8. PcpiTypeOK'
  BY <1>1, <1>2, PcpiTypes DEF PcpiTypeOK, ControlTypeOK
<1>9. IrqTypeOK'
  BY <1>1, IrqTypes
<1> QED BY <1>4, <1>5, <1>6, <1>7, <1>8, <1>9, ShiftCounts DEF TypeOK

LEMMA ResetTypes == TypeOK /\ Reset => TypeOK' /\ ShiftOK'
<1> SUFFICES ASSUME TypeOK, Reset PROVE TypeOK' /\ ShiftOK'
  OBVIOUS
<1> USE DEF TypeOK
<1>1. PICK in \in Inputs : /\ MemReset(in) /\ PcpiIdle
                           /\ InterruptPending(in, {})
                           /\ irq_pending' = in.irq \ MASKED_IRQ
  BY DEF Reset
<1>2. MemTypeOK'
  <2>1. BusTypeOK' /\ WordTypeOK'
    BY <1>1, MemResetTypes
  <2> QED BY <2>1, Addresses DEF MemTypeOK, RequestTypeOK, Reset
<1>3. DecoderTypeOK'
  BY DEF Reset, DecoderTypeOK, NoStrobes
<1>4. MainTypeOK'
  BY Addresses DEF Reset, MainTypeOK, CpuStates, NoStrobes
<1>5. AluTypeOK'
  BY AluTypes, TypesFromParts DEF Reset, AluTypeOK, NoAluWait
<1>6. PcpiTypeOK'
  <2>1. PCPI_TIMEOUT \in Nat
    BY CoreAssumption
  <2>2. pcpi_timeout_counter' \in 0 .. PCPI_TIMEOUT
    BY <1>1, <2>1 DEF PcpiTypeOK, PcpiIdle
  <2> QED BY <1>1, <2>2 DEF PcpiTypeOK, PcpiIdle
<1>7. CsrTypeOK'
  BY DEF Reset, CsrTypeOK
<1>8. IrqTypeOK'
  BY <1>1, InputTypes DEF Reset, IrqTypeOK, InterruptPending
<1>9. ShiftOK'
  BY DEF Reset, ShiftOK
<1> QED BY <1>2, <1>3, <1>4, <1>5, <1>6, <1>7, <1>8, <1>9

LEMMA StutterTypes == TypeOK /\ ShiftOK /\ UNCHANGED vars => TypeOK' /\ ShiftOK'
<1> SUFFICES ASSUME TypeOK, ShiftOK, UNCHANGED vars PROVE TypeOK' /\ ShiftOK'
  OBVIOUS
<1> USE DEF vars, TypeOK
<1>1. MemTypeOK'
  BY DEF MemTypeOK, RequestTypeOK, BusTypeOK, WordTypeOK, requestVars, busVars, wordVars
<1>2. DecoderTypeOK' /\ MainTypeOK'
  BY DEF DecoderTypeOK, MainTypeOK, decoderVars, mainVars
<1>3. AluTypeOK' /\ PcpiTypeOK' /\ CsrTypeOK' /\ IrqTypeOK'
  BY DEF AluTypeOK, PcpiTypeOK, CsrTypeOK, IrqTypeOK, aluVars, pcpiVars, csrVars, irqVars
<1>4. ShiftOK'
  BY DEF ShiftOK, mainVars
<1> QED BY <1>1, <1>2, <1>3, <1>4

\* Every register holds a value it can hold, whatever the program, the memory,
\* the coprocessor and the interrupt lines do and whenever reset is applied.  In
\* particular pcpi_timeout_counter never goes below 0 and mip and mie never have
\* a bit for a source that was configured away.
THEOREM TypeCorrect == Spec => []TypeOK
<1>1. Init => TypeOK /\ ShiftOK
  BY InitTypes
<1>2. TypeOK /\ ShiftOK /\ [Next]_vars => TypeOK' /\ ShiftOK'
  BY TickTypes, ResetTypes, StutterTypes DEF Next
<1> QED BY <1>1, <1>2, PTL DEF Spec

(***************************************************************************)
(* External interrupts                                                     *)
(***************************************************************************)
\* every external line that is not masked is a latched one, as by default
LinesLatched == IrqLines \ MASKED_IRQ \subseteq LATCHED_IRQ

\* mip follows the registers one edge late; only a csr instruction can make
\* them differ, and the core needs an edge in the fetch state before it has the
\* next instruction
PendingInv ==
  /\ irq_pending \subseteq IrqLines \ MASKED_IRQ
  /\ "external" \in mip /\ irq_pending \cap irq_mask = {} =>
       cpu_state = "fetch" /\ ~decoder_trigger

\* Whatever the coprocessor does: a fetch that stands has not been triggered, and
\* in ld_rs1 only an instruction that traps has one.
TriggerInv ==
  /\ decoder_trigger => "rinst" \notin mem_do
  /\ cpu_state = "ld_rs1" /\ "rinst" \in mem_do => instr_trap
  /\ cpu_state = "ld_rs1" /\ decoder_trigger => mem_do = {}

\* how an instruction leaves the states that read its operands
Dispatched(in) ==
  \/ \E wait, wait2 : ToExec(in, wait, wait2)
  \/ ToShift(in)
  \/ \E state \in {"ldmem", "stmem"} : ToMemory(in, state)

LEMMA DispatchedTriggers ==
  ASSUME NEW in, DefaultTrigger(in), Dispatched(in)
  PROVE  cpu_state' # "ld_rs1" /\ (decoder_trigger' => "rinst" \notin mem_do')
  BY DEF DefaultTrigger, Dispatched, ToExec, ToShift, ToMemory, ClaimPrefetch, RemainingRequests,
         WithRinst

LEMMA TriggerTick ==
  ASSUME TriggerInv, NEW in, NEW w, StateMachine(in, w), Decode(in)
  PROVE  TriggerInv'
<1> USE DEF RemainingRequests, WithRinst, Wants
<1>1. DefaultTrigger(in) /\ decoder_trigger' => RemainingRequests(in) = {} /\ mem_done(in)
  BY DEF DefaultTrigger
<1>2. CASE Fetch(in)
  <2>1. decoder_trigger' => "rinst" \notin mem_do'
    BY <1>1, <1>2 DEF Fetch, FetchWait, FetchMisalignedJump, FetchInterrupt, FetchWfi, FetchJal,
                      FetchLaunch, FetchRequest
  <2>2. CASE FetchLaunch(in)
    <3>1. ~decoder_trigger' /\ "rinst" \notin mem_do'
      BY <2>2 DEF FetchLaunch, Launches, DefaultTrigger, TriggerInv
    <3> QED BY <3>1 DEF TriggerInv
  <2>3. CASE ~FetchLaunch(in)
    <3>1. cpu_state' # "ld_rs1"
      BY <1>2, <2>3 DEF Fetch, FetchWait, FetchMisalignedJump, FetchInterrupt, FetchWfi, FetchJal,
                        DoTrap
    <3> QED BY <2>1, <3>1 DEF TriggerInv
  <2> QED BY <2>2, <2>3
<1>3. CASE LdRs1(in, w) /\ LdRs1Trap(in)
  <2>0. cpu_state = "ld_rs1" /\ instr_trap
    BY <1>3 DEF LdRs1, LdRs1Trap
  <2>1. decoder_trigger' => "rinst" \notin mem_do'
    BY <1>1, <1>3 DEF LdRs1Trap, PcpiReady, PcpiWait
  <2>2. ASSUME cpu_state' = "ld_rs1", decoder_trigger' PROVE mem_do' = {}
    BY <1>1, <1>3, <2>2 DEF LdRs1Trap, PcpiReady, PcpiWait
  <2>3. ASSUME cpu_state' = "ld_rs1", "rinst" \in mem_do' PROVE instr_trap'
    <3>1. ~mem_done(in) /\ mem_do # {}
      BY <1>3, <2>3 DEF LdRs1Trap, PcpiReady, PcpiWait, ClaimPrefetch
    <3>2. ~decoder_trigger
      BY <2>0, <3>1 DEF TriggerInv
    <3>3. decoded' = decoded /\ insn' = insn
      BY <3>1, <3>2 DEF Decode
    <3> QED BY <2>0, <3>3 DEF instr_trap
  <2> QED BY <2>1, <2>2, <2>3 DEF TriggerInv
<1>4. CASE LdRs1(in, w) /\ ~LdRs1Trap(in)
  <2>1. cpu_state' # "ld_rs1" /\ (decoder_trigger' => "rinst" \notin mem_do')
    <3>1. CASE LdRs1Counter(in) \/ LdRs1Csr(in, w) \/ LdRs1Mret(in)
      BY <1>1, <3>1 DEF LdRs1Counter, LdRs1Csr, LdRs1Mret, ReadsOut
    <3>2. CASE LdRs1Operands(in)
      <4>1. DefaultTrigger(in)
        BY <3>2 DEF LdRs1Operands, Operands
      <4>2. (cpu_state' = "ld_rs2" /\ mem_do' = RemainingRequests(in)) \/ Dispatched(in)
        BY <3>2 DEF LdRs1Operands, Dispatch, Dispatched
      <4> QED BY <1>1, <4>1, <4>2, DispatchedTriggers
    <3> QED BY <1>4, <3>1, <3>2 DEF LdRs1
  <2> QED BY <2>1 DEF TriggerInv
<1>5. CASE LdRs2(in)
  <2>1. cpu_state' # "ld_rs1" /\ (decoder_trigger' => "rinst" \notin mem_do')
    <3>1. CASE WITH_PCPI /\ instr_trap
      BY <1>1, <1>5, <3>1 DEF LdRs2, PcpiReady, PcpiWait, DoInstrTrap, DoTrap
    <3>2. CASE ~(WITH_PCPI /\ instr_trap)
      <4>1. DefaultTrigger(in) /\ Dispatched(in)
        BY <1>5, <3>2 DEF LdRs2, Dispatch, Dispatched
      <4> QED BY <1>1, <4>1, DispatchedTriggers
    <3> QED BY <3>1, <3>2
  <2> QED BY <2>1 DEF TriggerInv
<1>6. CASE Exec(in)
  BY <1>1, <1>6 DEF Exec, ExecWait, ExecBranch, ExecResult, TriggerInv
<1>7. CASE Shift(in)
  BY <1>1, <1>7 DEF Shift, ShiftDone, ShiftStep, ClaimPrefetch, TriggerInv
<1>8. CASE StMem(in) \/ LdMem(in)
  <2>1. cpu_state \in {"stmem", "ldmem"}
    BY <1>8 DEF StMem, LdMem
  <2>2. ASSUME NEW request \in {"rdata", "wdata"}, NEW store, DataTransfer(in, request, store)
        PROVE  TriggerInv'
    <3>1. CASE DataWait(in, store) \/ DataOngoing(in, request, store) \/ DataEnd(in, request, store)
      BY <1>1, <2>1, <3>1 DEF DataWait, DataOngoing, DataEnd, TriggerInv
    <3>2. CASE DataStart(in, request, store)
      <4>1. cpu_state' \in {cpu_state, "fetch", "trap"} /\ DefaultTrigger(in)
            /\ mem_do' \subseteq RemainingRequests(in) \cup {request}
        BY <3>2 DEF DataStart, DoTrap
      <4> QED BY <1>1, <2>1, <2>2, <4>1 DEF TriggerInv
    <3> QED BY <2>2, <3>1, <3>2 DEF DataTransfer
  <2>3. CASE StMem(in)
    BY <2>2, <2>3 DEF StMem
  <2>4. CASE LdMem(in)
    BY <2>2, <2>4 DEF LdMem
  <2> QED BY <1>8, <2>3, <2>4
<1>9. CASE Trap(in)
  BY <1>1, <1>9 DEF Trap, TriggerInv
<1> QED BY <1>2, <1>3, <1>4, <1>5, <1>6, <1>7, <1>8, <1>9 DEF StateMachine

LEMMA PendingTick ==
  ASSUME LinesLatched, TriggerInv, PendingInv, NEW in \in Inputs, NEW w \in Writes,
         StateMachine(in, w), IrqStep(in, w)
  PROVE  PendingInv'
<1>1. in.irq \subseteq IrqLines
  BY InputTypes
<1>2. /\ w.csr = "irq_pend" => w.lines \subseteq IrqLines
      /\ w.csr # "none" => ExecutesCsr
  BY CsrWriteTypes DEF Writes, NoWrite
<1>3. irq_pending' \subseteq IrqLines \ MASKED_IRQ
  BY <1>1, <1>2 DEF PendingInv, IrqStep
<1>4. "external" \in mip' => irq_pending \cap irq_mask # {}
  <2>1. "external" \notin (IF in.mtip THEN {"timer"} ELSE {})
    OBVIOUS
  <2>2. "external" \notin (IF w.csr = "mip" THEN w.sources ELSE mip \cap {"software"})
    <3>1. w.csr = "mip" => w.sources \subseteq IrqEnabled \cap {"software"}
      <4>1. w \in CsrWrites \/ w.csr = "none"
        BY DEF Writes, NoWrite
      <4> QED BY <4>1 DEF CsrWrites
    <3> QED BY <3>1
  <2> QED BY <2>1, <2>2 DEF IrqStep, InterruptPending
<1>5. CASE w.csr \in {"irq_mask", "irq_pend"}
  <2>1. ExecutesCsr
    BY <1>2, <1>5
  <2>2. LdRs1Csr(in, w)
    BY <2>1
    DEF ExecutesCsr, StateMachine, Fetch, LdRs1, LdRs2, Exec, Shift, StMem, LdMem, Trap,
        LdRs1Trap, LdRs1Counter, LdRs1Mret, LdRs1Operands
  <2>3. "rinst" \notin mem_do
    BY <2>1 DEF ExecutesCsr, TriggerInv
  <2>4. cpu_state' = "fetch" /\ ~decoder_trigger'
    BY <2>2, <2>3 DEF LdRs1Csr, ReadsOut, DefaultTrigger, Wants
  <2> QED BY <1>3, <2>4 DEF PendingInv
<1>6. CASE w.csr \notin {"irq_mask", "irq_pend"}
  <2>1. irq_mask' = irq_mask /\ irq_pending \subseteq irq_pending'
    BY <1>6 DEF IrqStep, PendingInv, LinesLatched
  <2> QED BY <1>3, <1>4, <2>1 DEF PendingInv
<1> QED BY <1>5, <1>6

\* An external interrupt that is taken is still pending and unmasked, when its
\* line is latched: the handler that has just cleared the line, or masked it, is
\* not interrupted by it again although mip follows the registers one edge
\* late (irq_pending, irq_mask and mip of rtl/nanorv32_core.v).
THEOREM ExternalNeverStale ==
  ASSUME LinesLatched
  PROVE  Spec => []NoStaleExternal
<1>1. Init => TriggerInv /\ PendingInv
  BY DEF Init, TriggerInv, PendingInv
<1>2. TriggerInv /\ PendingInv /\ [Next]_vars => TriggerInv' /\ PendingInv'
  <2> SUFFICES ASSUME TriggerInv, PendingInv, [Next]_vars PROVE TriggerInv' /\ PendingInv'
    OBVIOUS
  <2>1. CASE Tick
    BY <2>1, TriggerTick, PendingTick DEF Tick
  <2>2. CASE Reset
    <3>1. PICK in \in Inputs : irq_pending' = in.irq \ MASKED_IRQ
      BY <2>2 DEF Reset
    <3>2. in.irq \subseteq IrqLines
      BY <3>1, InputTypes
    <3> QED BY <2>2, <3>1, <3>2 DEF Reset, PendingInv, TriggerInv
  <2>3. CASE UNCHANGED vars
    BY <2>3 DEF vars, irqVars, mainVars, decoderVars, requestVars, PendingInv, TriggerInv, instr_trap
  <2> QED BY <2>1, <2>2, <2>3 DEF Next
<1>3. PendingInv => NoStaleExternal
  <2>1. mie \cap mip = {"external"} => "external" \in mip
    OBVIOUS
  <2> QED BY <2>1 DEF PendingInv, NoStaleExternal, TakesInterrupt, IrqReady
<1> QED BY <1>1, <1>2, <1>3, PTL DEF Spec
=============================================================================
