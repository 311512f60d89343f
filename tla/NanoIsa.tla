------------------------------ MODULE NanoIsa ------------------------------
(***************************************************************************)
(* What the core promises the software: instructions execute one after the *)
(* other, each exactly once, at the program counter; interrupts and        *)
(* exceptions happen between instructions and save what mret restores.     *)
(* NanoCore, with its pipeline, prefetch and multi-cycle states, is to     *)
(* implement this specification.  The registers are those the README of    *)
(* the repository documents (sections MACHINE_ISA, ENABLE_CSR_CUSTOM_TRAP, *)
(* Interrupts).                                                            *)
(***************************************************************************)
EXTENDS Integers

CONSTANTS Addresses,      \* the values pc and mepc can take
          ResetPc, IrqPc, \* PROGADDR_RESET, PROGADDR_IRQ
          Sources,        \* interrupt sources
          WithMachineIsa, \* MACHINE_ISA
          WithCustomTrap, \* ENABLE_CSR_CUSTOM_TRAP
          CatchMisalign,  \* CATCH_MISALIGN
          After(_, _),    \* the address so many bytes further on
          Aligned(_)      \* the address with the bits pc does not have cleared

VARIABLES pc,                  \* the instruction that executes next, or now
          running,             \* that instruction, once it has started
          misjump,             \* the last jump was to a misaligned address
          halted,              \* the core has stopped with trap high
          mie_global, mpie,    \* mstatus.mie, mstatus.mpie
          enabled, pending,    \* mie, mip
          epc,                 \* mepc
          in_trap, was_in_trap \* mtrap, mtrap_prev

csrs == <<mie_global, mpie, enabled, epc, in_trap, was_in_trap>>
isaVars == <<pc, running, misjump, halted, csrs>>

\* what the program counter depends on: `data' is a load or a store, `unknown'
\* an instruction the core does not implement, `plain' everything else
Nothing == [kind |-> "nothing"]
Class == {"plain", "data", "unknown", "environment", "branch", "jalr", "csr", "mret"}

Between == running = Nothing /\ ~misjump /\ ~halted
Running(class) == running # Nothing /\ running.kind \in class

(***************************************************************************)
(* Instructions                                                            *)
(***************************************************************************)
Start ==
  /\ Between
  /\ running' # Nothing /\ running'.kind \in Class
  /\ UNCHANGED <<pc, misjump, halted, csrs>>

\* jal and wfi, which take effect as they start
JalOrWfi ==
  /\ Between
  /\ \/ \E a \in Addresses : pc' = Aligned(a)
     \/ WithMachineIsa /\ pc' = After(pc, 4)
  /\ UNCHANGED <<running, misjump, halted, csrs>>

Taken == Running({"jalr"}) \/ (Running({"branch"}) /\ running.cond = "taken")

\* the end of an instruction that is not a jump
GoesOn ==
  /\ pc' = After(pc, running.length)
  /\ running' = Nothing
  /\ UNCHANGED <<misjump, halted>>

Complete ==
  /\ Running({"plain", "data", "unknown", "branch"}) /\ ~Taken
  /\ GoesOn
  /\ UNCHANGED csrs

\* a jump goes to the aligned address, or is refused
JumpsTo(a) ==
  /\ misjump' = (CatchMisalign /\ a # Aligned(a))
  /\ pc' = IF misjump' THEN pc ELSE Aligned(a)
  /\ running' = Nothing
  /\ UNCHANGED halted

Jump == Taken /\ JumpsTo(running.target) /\ UNCHANGED csrs

Mret ==
  /\ Running({"mret"}) /\ WithMachineIsa
  /\ JumpsTo(epc)
  /\ mie_global' = mpie /\ mpie' = TRUE
  /\ in_trap' = was_in_trap
  /\ UNCHANGED <<enabled, epc, was_in_trap>>

\* a csr instruction writes at most one register
WriteCsr ==
  /\ Running({"csr"}) /\ WithMachineIsa
  /\ GoesOn
  /\ \/ mie_global' \in BOOLEAN /\ mpie' \in BOOLEAN
        /\ UNCHANGED <<enabled, epc, in_trap, was_in_trap>>
     \/ enabled' \in SUBSET Sources
        /\ UNCHANGED <<mie_global, mpie, epc, in_trap, was_in_trap>>
     \/ epc' \in Addresses
        /\ UNCHANGED <<mie_global, mpie, enabled, in_trap, was_in_trap>>
     \/ WithCustomTrap /\ in_trap' \in BOOLEAN /\ was_in_trap' \in BOOLEAN
        /\ UNCHANGED <<mie_global, mpie, enabled, epc>>

(***************************************************************************)
(* Exceptions and interrupts                                               *)
(***************************************************************************)
\* an instruction the core does not implement, ecall, a misaligned transfer, a
\* misaligned jump
Faults == Running({"unknown", "environment", "data"}) \/ misjump

\* the trap handler starts; ecall does not touch in_trap
Exception ==
  LET sets == ~Running({"environment"})
  IN /\ Faults /\ WithMachineIsa
     /\ sets /\ WithCustomTrap => ~in_trap
     /\ pc' = IrqPc /\ epc' = pc
     /\ running' = Nothing /\ misjump' = FALSE
     /\ mie_global' = FALSE /\ mpie' = mie_global
     /\ in_trap' = (WithCustomTrap /\ (in_trap \/ sets))
     /\ was_in_trap' = (WithCustomTrap /\ in_trap)
     /\ UNCHANGED <<halted, enabled>>

\* a second exception inside a handler, or any without MACHINE_ISA; the program
\* counter is of no further use
Halt ==
  /\ Faults
  /\ WithMachineIsa => WithCustomTrap /\ in_trap
  /\ halted' = TRUE
  /\ running' = Nothing /\ misjump' = FALSE
  /\ pc' \in Addresses
  /\ UNCHANGED csrs

Interrupt ==
  /\ Between /\ WithMachineIsa /\ mie_global /\ enabled \cap pending # {}
  /\ pc' = IrqPc /\ epc' = pc
  /\ mie_global' = FALSE /\ mpie' = mie_global
  /\ was_in_trap' = (WithCustomTrap /\ in_trap)
  /\ UNCHANGED <<running, misjump, halted, enabled, in_trap>>

(***************************************************************************)
(* Specification                                                           *)
(***************************************************************************)
IsaInit ==
  /\ pc = ResetPc /\ running = Nothing /\ misjump = FALSE /\ halted = FALSE
  /\ mie_global = FALSE /\ mpie = TRUE
  /\ enabled = {} /\ pending = {}
  /\ WithMachineIsa => epc \in Addresses
  /\ in_trap = FALSE /\ was_in_trap = FALSE

PowerUp ==
  /\ pc' = ResetPc /\ running' = Nothing /\ misjump' = FALSE /\ halted' = FALSE
  /\ mie_global' = FALSE /\ mpie' = TRUE /\ enabled' = {}
  /\ in_trap' = FALSE /\ was_in_trap' = FALSE
  /\ UNCHANGED epc

\* interrupt lines move whatever the core does
Lines == pending' \in SUBSET Sources

IsaNext ==
  /\ Lines
  /\ \/ Start \/ JalOrWfi \/ Complete \/ Jump \/ Mret \/ WriteCsr
     \/ Exception \/ Halt \/ Interrupt
     \/ PowerUp
     \/ UNCHANGED isaVars

IsaSpec == IsaInit /\ [][IsaNext]_<<isaVars, pending>>
=============================================================================
