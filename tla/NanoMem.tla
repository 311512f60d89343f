------------------------------ MODULE NanoMem ------------------------------
(***************************************************************************)
(* The memory interface of the NanoRV32 core (rtl/nanorv32_core.v, the     *)
(* block MEMORY INTERFACE): the request flags mem_do_*, the four-state     *)
(* bus state machine, the look-ahead signals, and the assembly of 16- and  *)
(* 32-bit instructions out of 32-bit bus words.                            *)
(*                                                                         *)
(* One step is one rising edge of clk.  A wire is an operator over the     *)
(* registers and the inputs `in' of the cycle; a register is a variable    *)
(* whose next value MemStep or MemReset gives.                             *)
(*                                                                         *)
(* Data abstraction: the bus returns the memory content at an address, so  *)
(* a halfword is represented by the address it was read from and by its    *)
(* two low bits being 11 ("wide": it starts a 32-bit instruction).  The    *)
(* address None stands for bits nobody drove ('bx).                        *)
(***************************************************************************)
EXTENDS Integers

CONSTANTS
  COMPRESSED_ISA,   \* the core's parameter of that name
  AddrSpace,        \* bytes in the address space (2^32 in the hardware)
  MaxStall          \* bound: cycles a memory keeps mem_valid waiting

ASSUME MemAssumption ==
  /\ COMPRESSED_ISA \in BOOLEAN
  /\ AddrSpace \in Nat /\ AddrSpace > 0 /\ AddrSpace % 4 = 0
  /\ MaxStall \in Nat

VARIABLES
  \* written by the main state machine, read by the memory interface
  trap, mem_do, reg_next_pc, reg_out, latched_store, latched_branch, reg_op1,
  mem_wordsize,     \* of a data transfer: 0 a word, 1 a halfword, 2 a byte
  \* the memory interface's own registers
  mem_state, mem_valid, mem_instr, mem_addr, mem_write,
  mem_la_secondword, mem_la_firstword_reg, last_mem_valid,
  prefetched_high_word, clear_prefetched_high_word_q,
  mem_16bit_buffer, mem_rdata_q,
  \* the memory on the other side of the bus: cycles it has stalled
  stall

busVars == <<mem_state, mem_valid, mem_instr, mem_addr, mem_write>>
wordVars == <<mem_la_secondword, mem_la_firstword_reg, last_mem_valid,
              prefetched_high_word, clear_prefetched_high_word_q,
              mem_16bit_buffer, mem_rdata_q>>
requestVars == <<trap, mem_do, reg_next_pc, reg_out, latched_store,
                 latched_branch, reg_op1, mem_wordsize>>

(***************************************************************************)
(* Addresses and halfwords                                                 *)
(***************************************************************************)
Addr == 0 .. AddrSpace - 1
None == AddrSpace
AddrOrNone == 0 .. AddrSpace

Plus(a, n) == (a + n) % AddrSpace
WordOf(a) == a - (a % 4)          \* {a[31:2], 2'b00}
UpperHalf(a) == a % 4 >= 2        \* a[1]

Half == [at : AddrOrNone, wide : BOOLEAN]
Word == [lo : Half, hi : Half]
NoHalf == [at |-> None, wide |-> FALSE]
NoWord == [lo |-> NoHalf, hi |-> NoHalf]

Requests == {"prefetch", "rinst", "rdata", "wdata"}
Wants(r) == r \in mem_do
Fetching == Wants("prefetch") \/ Wants("rinst")

(***************************************************************************)
(* Wires that need no input                                                *)
(***************************************************************************)
next_pc == IF latched_store /\ latched_branch THEN reg_out ELSE reg_next_pc

mem_la_firstword ==
  COMPRESSED_ISA /\ Fetching /\ UpperHalf(next_pc) /\ ~mem_la_secondword

\* the register remembers the value the wire had when the transfer started
FirstwordOfTransfer ==
  IF last_mem_valid THEN mem_la_firstword_reg ELSE mem_la_firstword

clear_prefetched_high_word ==
  \/ latched_branch /\ COMPRESSED_ISA
  \/ clear_prefetched_high_word_q /\ prefetched_high_word

mem_la_use_prefetched_high_word ==
  mem_la_firstword /\ prefetched_high_word /\ ~clear_prefetched_high_word

(***************************************************************************)
(* Wires that depend on the inputs of the cycle: in.ready is mem_ready,    *)
(* in.lo and in.hi the low bits of the two halfwords on mem_rdata.         *)
(***************************************************************************)
mem_xfer(in) ==
  \/ mem_valid /\ in.ready
  \/ mem_la_use_prefetched_high_word /\ Wants("rinst")

mem_rdata(in) ==
  IF mem_valid /\ in.ready
    THEN [lo |-> [at |-> mem_addr, wide |-> in.lo],
          hi |-> [at |-> Plus(mem_addr, 2), wide |-> in.hi]]
    ELSE [lo |-> [at |-> None, wide |-> in.lo],
          hi |-> [at |-> None, wide |-> in.hi]]

mem_rdata_latched_noshuffle(in) ==
  IF mem_xfer(in) THEN mem_rdata(in) ELSE mem_rdata_q

mem_rdata_latched(in) ==
  CASE mem_la_use_prefetched_high_word ->
         [lo |-> mem_16bit_buffer, hi |-> NoHalf]
    [] ~mem_la_use_prefetched_high_word /\ COMPRESSED_ISA /\ mem_la_secondword ->
         [lo |-> mem_16bit_buffer, hi |-> mem_rdata_latched_noshuffle(in).lo]
    [] ~mem_la_use_prefetched_high_word /\ mem_la_firstword ->
         [lo |-> mem_rdata_latched_noshuffle(in).hi, hi |-> NoHalf]
    [] OTHER -> mem_rdata_latched_noshuffle(in)

mem_done(in) ==
  /\ \/ mem_xfer(in) /\ mem_state # "IDLE" /\ mem_do \cap {"rinst", "rdata", "wdata"} # {}
     \/ mem_state = "WAIT_FETCH" /\ Wants("rinst")
  /\ ~mem_la_firstword \/ (~mem_rdata_latched(in).lo.wide /\ mem_xfer(in))

\* a 32-bit instruction that straddles two words needs the second one
NeedsSecondWord(in) ==
  /\ COMPRESSED_ISA /\ mem_xfer(in) /\ FirstwordOfTransfer
  /\ ~mem_la_secondword /\ mem_rdata_latched(in).lo.wide

mem_la_read(in) ==
  /\ ~trap
  /\ \/ /\ mem_state = "IDLE" /\ ~mem_la_use_prefetched_high_word
        /\ mem_do \cap {"prefetch", "rinst", "rdata"} # {}
     \/ mem_state = "READ" /\ NeedsSecondWord(in)

\* the request that leaves IDLE, whether or not a bus transfer starts with it
StartsRead == mem_state = "IDLE" /\ mem_do \cap {"prefetch", "rinst", "rdata"} # {}

mem_la_write == ~trap /\ mem_state = "IDLE" /\ Wants("wdata")

mem_la_addr(in) ==
  IF Fetching
    THEN IF COMPRESSED_ISA /\ mem_xfer(in) /\ FirstwordOfTransfer
           THEN Plus(WordOf(next_pc), 4)
           ELSE WordOf(next_pc)
    ELSE WordOf(reg_op1)

(***************************************************************************)
(* Reset state: every register the reset assigns has its reset value, the  *)
(* others hold undriven bits.                                              *)
(***************************************************************************)
MemInit ==
  /\ trap = FALSE
  /\ mem_do = {}
  /\ latched_store = FALSE /\ latched_branch = FALSE
  /\ reg_out = None /\ reg_op1 = None /\ mem_wordsize \in 0 .. 2
  /\ mem_state = "IDLE" /\ mem_valid = FALSE
  /\ mem_instr = FALSE /\ mem_addr = None /\ mem_write = FALSE
  /\ mem_la_secondword = FALSE /\ mem_la_firstword_reg = FALSE
  /\ last_mem_valid = FALSE
  /\ prefetched_high_word = FALSE
  /\ clear_prefetched_high_word_q = COMPRESSED_ISA
  /\ mem_16bit_buffer = NoHalf /\ mem_rdata_q = NoWord
  /\ stall = 0

(***************************************************************************)
(* One clock edge with resetn high                                         *)
(***************************************************************************)
\* faulty: mem_addr follows the look-ahead address in every cycle
BusAddressFollows(in) ==
  /\ mem_addr' = IF mem_do # {} THEN mem_la_addr(in) ELSE mem_addr
  /\ mem_write' = (mem_la_write \/ (mem_write /\ ~mem_la_read(in) /\ ~StartsRead))

\* mem_addr and mem_wstrb (here only "is it a write") follow the look-ahead
\* interface; a read that starts clears mem_wstrb in any case
BusAddress(in) ==
  /\ mem_addr' = IF mem_la_read(in) \/ mem_la_write THEN mem_la_addr(in) ELSE mem_addr
  /\ mem_write' = (mem_la_write \/ (mem_write /\ ~mem_la_read(in) /\ ~StartsRead))

Idle ==
  /\ mem_state = "IDLE"
  /\ \/ /\ Wants("wdata")
        /\ mem_valid' = TRUE /\ mem_instr' = FALSE /\ mem_state' = "WRITE"
     \/ /\ ~Wants("wdata") /\ mem_do # {}
        /\ mem_valid' = ~mem_la_use_prefetched_high_word
        /\ mem_instr' = Fetching /\ mem_state' = "READ"
     \/ mem_do = {} /\ UNCHANGED <<mem_valid, mem_instr, mem_state>>
  /\ UNCHANGED <<mem_la_secondword, mem_16bit_buffer>>
  /\ prefetched_high_word' = (prefetched_high_word /\ ~clear_prefetched_high_word)

ReadSecondWord(in) ==
  /\ mem_state = "READ" /\ NeedsSecondWord(in)
  /\ mem_valid' = TRUE /\ mem_la_secondword' = TRUE
  /\ mem_16bit_buffer' = IF mem_la_use_prefetched_high_word
                           THEN mem_16bit_buffer ELSE mem_rdata(in).hi
  /\ prefetched_high_word' = (prefetched_high_word /\ ~clear_prefetched_high_word)
  /\ UNCHANGED <<mem_state, mem_instr>>

\* the upper half of the last word read may be the next instruction
ReadComplete(in) ==
  LET keepHigh == COMPRESSED_ISA /\ ~Wants("rdata")
                    /\ (~mem_rdata(in).lo.wide \/ mem_la_secondword)
      high == IF COMPRESSED_ISA /\ ~Wants("rdata") THEN keepHigh ELSE prefetched_high_word
  IN /\ mem_state = "READ" /\ mem_xfer(in) /\ ~NeedsSecondWord(in)
     /\ mem_valid' = FALSE /\ mem_la_secondword' = FALSE
     /\ mem_16bit_buffer' = IF keepHigh THEN mem_rdata(in).hi ELSE mem_16bit_buffer
     /\ prefetched_high_word' = (high /\ ~clear_prefetched_high_word)
     /\ mem_state' = IF Wants("rinst") \/ Wants("rdata") THEN "IDLE" ELSE "WAIT_FETCH"
     /\ UNCHANGED mem_instr

WriteComplete(in) ==
  /\ mem_state = "WRITE" /\ mem_xfer(in)
  /\ mem_valid' = FALSE /\ mem_state' = "IDLE"
  /\ prefetched_high_word' = (prefetched_high_word /\ ~clear_prefetched_high_word)
  /\ UNCHANGED <<mem_instr, mem_la_secondword, mem_16bit_buffer>>

BusWait(in) ==
  /\ mem_state \in {"READ", "WRITE"} /\ ~mem_xfer(in)
  /\ prefetched_high_word' = (prefetched_high_word /\ ~clear_prefetched_high_word)
  /\ UNCHANGED <<mem_state, mem_valid, mem_instr, mem_la_secondword, mem_16bit_buffer>>

WaitFetch ==
  /\ mem_state = "WAIT_FETCH"
  /\ mem_state' = IF Wants("rinst") THEN "IDLE" ELSE "WAIT_FETCH"
  /\ prefetched_high_word' = (prefetched_high_word /\ ~clear_prefetched_high_word)
  /\ UNCHANGED <<mem_valid, mem_instr, mem_la_secondword, mem_16bit_buffer>>

\* with trap high the interface only lets the transfer in flight end
Trapped(in) ==
  /\ mem_valid' = (mem_valid /\ ~in.ready)
  /\ mem_la_secondword' = FALSE /\ prefetched_high_word' = FALSE
  /\ UNCHANGED <<mem_state, mem_instr, mem_16bit_buffer>>

\* registers that are clocked whatever the state and whatever resetn
EveryEdge(in) ==
  /\ mem_rdata_q' = IF mem_xfer(in) THEN mem_rdata_latched(in) ELSE mem_rdata_q
  /\ stall' = IF mem_valid /\ ~in.ready THEN stall + 1 ELSE 0

MemStep(in) ==
  /\ IF trap THEN Trapped(in) /\ UNCHANGED <<mem_addr, mem_write>>
     ELSE /\ BusAddress(in)
          /\ \/ Idle \/ ReadSecondWord(in) \/ ReadComplete(in)
             \/ WriteComplete(in) \/ BusWait(in) \/ WaitFetch
  /\ mem_la_firstword_reg' = FirstwordOfTransfer
  /\ last_mem_valid' = (mem_valid /\ ~in.ready)
  /\ clear_prefetched_high_word_q' = clear_prefetched_high_word
  /\ EveryEdge(in)

(***************************************************************************)
(* One clock edge with resetn low                                          *)
(***************************************************************************)
\* faulty: reset leaves the halfword buffer valid
ResetKeepsHighWord(in) ==
  /\ mem_state' = "IDLE" /\ mem_valid' = FALSE
  /\ mem_la_secondword' = FALSE /\ mem_la_firstword_reg' = FALSE
  /\ last_mem_valid' = FALSE
  /\ clear_prefetched_high_word_q' = FALSE
  /\ UNCHANGED <<prefetched_high_word, mem_instr, mem_addr, mem_write, mem_16bit_buffer>>
  /\ mem_rdata_q' = IF mem_xfer(in) THEN mem_rdata_latched(in) ELSE mem_rdata_q
  /\ stall' = 0

MemReset(in) ==
  /\ mem_state' = "IDLE" /\ mem_valid' = FALSE
  /\ mem_la_secondword' = FALSE /\ prefetched_high_word' = FALSE
  /\ mem_la_firstword_reg' = FALSE /\ last_mem_valid' = FALSE
  /\ clear_prefetched_high_word_q' = COMPRESSED_ISA
  /\ UNCHANGED <<mem_instr, mem_addr, mem_write, mem_16bit_buffer>>
  /\ mem_rdata_q' = IF mem_xfer(in) THEN mem_rdata_latched(in) ELSE mem_rdata_q
  /\ stall' = 0

(***************************************************************************)
(* The inputs a memory may give: an answer only while mem_valid is high,   *)
(* and after at most MaxStall cycles.  A 32-bit core never looks at the    *)
(* low bits.                                                               *)
(***************************************************************************)
MemInputs ==
  {in \in [ready : BOOLEAN, lo : BOOLEAN, hi : BOOLEAN] :
     /\ in.ready => mem_valid
     /\ mem_valid /\ stall = MaxStall => in.ready
     /\ ~COMPRESSED_ISA => in.lo /\ in.hi
     /\ ~mem_xfer(in) => in.lo /\ in.hi}

RequestTypeOK ==
  /\ trap \in BOOLEAN /\ mem_do \in SUBSET Requests
  /\ reg_next_pc \in AddrOrNone /\ reg_out \in AddrOrNone /\ reg_op1 \in AddrOrNone
  /\ latched_store \in BOOLEAN /\ latched_branch \in BOOLEAN
  /\ mem_wordsize \in 0 .. 2

BusTypeOK ==
  /\ mem_state \in {"IDLE", "READ", "WRITE", "WAIT_FETCH"}
  /\ mem_valid \in BOOLEAN /\ mem_instr \in BOOLEAN
  /\ mem_addr \in AddrOrNone /\ mem_write \in BOOLEAN
  /\ stall \in 0 .. MaxStall

WordTypeOK ==
  /\ mem_la_secondword \in BOOLEAN /\ mem_la_firstword_reg \in BOOLEAN
  /\ last_mem_valid \in BOOLEAN /\ prefetched_high_word \in BOOLEAN
  /\ clear_prefetched_high_word_q \in BOOLEAN
  /\ mem_16bit_buffer \in Half /\ mem_rdata_q \in Word

MemTypeOK == RequestTypeOK /\ BusTypeOK /\ WordTypeOK
=============================================================================
