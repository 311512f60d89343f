# TLA+ models of NanoRV32

NanoRV32 is a RISC-V core (RV32I, optionally C and M) descended from PicoRV32,
with the machine-mode registers of the privileged ISA, a memory-mapped timer and
wrappers for a native bus, Wishbone and AXI4-Lite. Its repository also holds the software
that runs on it: test firmware, a FreeRTOS demonstration, and the PicoSoC demo and
Dhrystone of the project it was forked from. This directory holds TLA+
models of all of these, the TLC configurations that check them on small instances and
theorems checked by TLAPS. Paths below are relative to the repository; line numbers of
`rtl/nanorv32_core.v` are given as `core:N`.

Contents: [inventory](#inventory), [modules](#modules), [runs](#runs),
[bounds and fairness](#bounds-and-fairness), [findings](#findings),
[proofs](#proofs), [not modelled](#not-modelled), [what is left](#what-is-left).

## Inventory

| part | state | operations | talks to |
|---|---|---|---|
| memory interface of the core (core:405-751) | request flags `mem_do_*`, `mem_state`, the bus registers, the halfword buffer and its two "stale" bits, `mem_rdata_q` | start a transfer (bus or buffer), ask for a second word, complete, wait for the claim of a prefetch, reset | main state machine through `mem_do_*` and `mem_done`; the bus |
| instruction decoder (core:859-1328) | stage 1 (`instr_lui`, `is_*`, `decoded_*`), stage 2 (`instr_*`), two triggers | stage 1 on the edge that ends a fetch, stage 2 one edge after the trigger | reads `mem_rdata_latched` and `mem_rdata_q`; read by the main state machine |
| main state machine (core:1392-2290) | `cpu_state` and what each state latches for the next | fetch (launch, jal, wfi, interrupt, misaligned jump), ld_rs1, ld_rs2, exec, shift, stmem, ldmem, trap | all the others |
| traps, CSRs, interrupts | `mstatus`, `mie`, `mip`, `mepc`, `mtrap`, `mtrap_prev`, `irq_mask`, `irq_pending`, `eoi` | the tasks `do_trap` and `do_instr_trap`, mret, csr writes, the update of `mip` | interrupt lines and `mtip` |
| coprocessor interface (PCPI) | `pcpi_valid`, `pcpi_timeout_counter`, `pcpi_timeout` | offer an instruction, take the answer, give up | `pcpi_mul`, `pcpi_div`, external coprocessors |
| timer (`rtl/nanorv32_timer.v`) | two halves of `mtime`, a carry computed ahead, `mtimecmp`, registered comparisons | count, compare, write a half, reset | `mtip`, the address decoder |
| native wrapper (`rtl/nanorv32.v`) | none of its own | choose the look-ahead or the registered interface, decode the address | core, timer, bus |
| Wishbone bridge (`rtl/nanorv32_wb.v`) | three states, the registers of the bus, `mem_ready`, `mem_rdata` | one bus cycle per request | core, Wishbone slave |
| AXI4-Lite adapter (`rtl/picorv32_axi_adapter.v`) | three acknowledge flags, `xfer_done` | one handshake per channel and request | core, AXI slave |
| multiplier, divider (`rtl/picorv32_pcpi_*.v`) | shift registers, counters | one step of the algorithm per cycle | PCPI |
| test firmware (`fw/test`) | registers, CSRs | `setup_timer`, the trap handler, `irq()`, `trap()` | core, timer |
| FreeRTOS demonstration (`fw/freertos_demo`) | one queue, one port register | two tasks | the kernel, which is a git submodule |
| PicoSoC demo (`legacy/picosoc`) | the configuration of the flash controller, the registers of the flash chip, the UART's buffers | a menu of commands, each a sequence of accesses | flash controller and chip, from which it is also executed; UART, person |
| Dhrystone and its library (`legacy/dhrystone`) | global variables, two records on a heap, the cycle counter | a hundred runs through twelve procedures; `strcpy`, `strcmp`, `memcpy`, `printf`, `malloc`, `time` | output port |

What makes the core hard is that everything happens at once. On every clock edge
the main state machine, two decoder stages and the bus machine step together, each
on values the others registered one edge earlier, while the memory answers
whenever it likes. While an instruction executes the next one is *prefetched*: a
request nobody waits for until the main state machine *claims* it by raising
`mem_do_rinst` beside `mem_do_prefetch`. A jump, a trap or an interrupt makes the
prefetch useless, but a transfer on the bus cannot be withdrawn. The compressed core adds
instructions that straddle two bus words and a buffered halfword that any
jump makes stale. Each of `TWO_CYCLE_ALU`, `TWO_CYCLE_COMPARE`,
`ENABLE_REGS_DUALPORT`, `WITH_PCPI`, `MACHINE_ISA`, `CATCH_MISALIGN` moves events
to other edges, and the tests of the repository use only a few of the combinations.

What makes each part correct:

- memory interface: one request at a time, a transfer never changes once it is on
  the bus, what is handed to the decoder was read from the address asked for;
- decoder: both stages decode the same instruction;
- main state machine: the instruction that executes is the one at the program
  counter, each takes effect exactly once, every result is read on the edge on which it exists;
- traps and interrupts: taken between instructions, save what mret restores, are not lost, and a
  source that has been cleared does not interrupt again;
- coprocessor interface: every instruction offered is answered or trapped, and only
  for a timeout of its own;
- timer: two 32-bit halves behave as one 64-bit counter and one comparison;
- `setup_timer`: software on a 32-bit bus sees one 64-bit register;
- wrapper and bridges: whatever the bus, its delays and resets, the core sees one memory, and every
  request is carried out exactly once and answered with its own answer;
- FreeRTOS demonstration: two unlocked tasks lose no update of the port they share, the queue is
  never full, the period does not drift;
- PicoSoC demo: the flash is readable in every intermediate setting, since the code that changes the
  setting is read from it; the chip understands each access to a register; the echo loses
  nothing of what comes no faster than it can be sent back;
- Dhrystone: the values main's comments and its report promise, in each run; its library functions do
  what their names say for every alignment.

The hazards, each with its line, are listed in `PROJECT.json`.

## Modules

One step of every hardware model is one rising edge of `clk`. A register is a
variable; a wire is an operator of the registers and of the inputs of the cycle.
Names are those of the source. Definitions marked `faulty` are plausible mistakes in the
code next to them: they are used nowhere in the specification, and each of them, put in
the place of the definition it sits beside, makes a property fail.

**NanoMem** - the memory interface. `MemStep` has one disjunct per branch of the bus
state machine: `Idle`, `ReadSecondWord`, `ReadComplete`, `WriteComplete`, `BusWait`,
`WaitFetch`, and `Trapped` for the cycles after the core has stopped; `MemReset` is an
edge with `resetn` low. The request flags are one set, `mem_do`.
*Data abstraction:* what the bus returns is the content of an address, so a halfword
is represented by the address it was read from and by whether its two low bits are 11
("wide": it starts a 32-bit instruction). That is exactly what tells apart "the right
word" from a stale one, and all the control that depends on it is kept.

**NanoCore** EXTENDS NanoMem - decoder, main state machine, CSRs, PCPI. `Tick` is one
edge: `StateMachine` (one operator per `cpu_state`, with one disjunct per path through
it) together with `MemStep`, `Decode`, the ALU registers, the PCPI counter and the
interrupt registers. An instruction is a record: its kind (how the main state machine
treats it), the addresses its halves came from, its length, and for jumps the target and
whether it is taken. The program is arbitrary: any word may decode to any kind in
`Kinds`, differently each time it is fetched, so self-modifying code and every
program over those kinds are covered. `latched_rd` holds the address of the
instruction whose destination it is; so "this result goes to that instruction's
register" can be stated without register contents. `do_trap` is `DoTrap`, with its
wait for a running prefetch, called with the values its caller has given the latches before it.
The value *undriven* (`'bx`, or a register assigned only in some states) is `None`, or "x" for
the comparison.

**NanoIsa** - the abstract specification: a sequential machine with a program
counter, at most one instruction running, and the CSRs. It has no clock, pipeline or
bus. `Exception`, `Interrupt`, `Mret`, `WriteCsr`, `Halt` say what software may rely
on. `jal` and `wfi` take effect in the cycle in which the core would start them, so
NanoIsa lets the program counter take any aligned address between two instructions
for a `jal`; all other instructions go exactly where they should.

**NanoCoreProps** - the properties of NanoCore, and the refinement mapping (`ArchPc`,
`Executing`, `Sequential == INSTANCE NanoIsa WITH ...`): `ImplementsIsa`.

**NanoTimer** - `rtl/nanorv32_timer.v`. Byte strobes are abstracted to writes of a
whole half: a write of some bytes leaves some other value in it, and any value is
allowed. **MachineTimer** is its abstract specification: one wide counter and one
comparison; `ImplementsTimer` is the refinement.

**TimerFirmware** EXTENDS NanoTimer - `setup_timer` of `fw/test/start.S` (290-312),
one action per access of the routine, composed with the running timer. `MinGap` to
`MaxGap` cycles pass between two accesses.

**MainMemory** - the abstract specification of the memory port: one transfer at a time, a write takes effect
exactly once and before its answer, a read gets what its address holds, a reset cuts a transfer off before or
after its effect. The word of the timer may or may not be cleared by a reset: see `NanoBus`.

**WbBridge** - the bridge of `rtl/nanorv32_wb.v`: `Idle`, `WbStart`, `WbEnd` are the branches of its state
machine, `WbReset` the edge with `wb_rst_i`, which leaves `mem_ready` and `mem_rdata` alone.
**AxiAdapter** - `rtl/picorv32_axi_adapter.v`: the wires of the channels and the four registers, of which
`AxiReset` clears one.

**NanoBus** EXTENDS WbBridge, AxiAdapter - the way of a transfer: the core's port, the selection of the look-ahead
interface and the address decoder (`Target`, `Valid`, `Answered`, `Data` are the wires of `rtl/nanorv32.v:248-317`), one
of the three buses, and the memory the test bench of that bus connects. `Edge` is one edge: the core may present a
request (`req`), the memory does what it is able to (`go`). `Reset` is an edge with `resetn` low. The core's port is NanoMem
reduced to what a bus sees: it asks nothing in the first cycle after reset; in the cycle of an answer it may ask for the second word of an
instruction; a fetch out of the halfword buffer clears `mem_wstrb` without a request; a reset
leaves address and data where they were. The last two matter because the decoder does not look at
`core_mem_valid`: `mtimecmp` is written in each cycle in which the port's registers still show a write to it, and a
write cut off or finished before a reset lands right after it, over the value the reset has given. Nothing documented says otherwise; the refinement
mapping takes the register's value to be the one that is about to be written. The memory of the native bench has no reset input;
that of the Wishbone bench has, and the AXI one is taken to have one: without it a response outstanding at a reset
would answer the first fetch after it. `mem_rdata`, which the native memory drives to `'x` while it is idle, is `None` then.

**Blink**, **FreeRtosDemo** - two lights that take turns, and `fw/freertos_demo/main.c`: one action per access to the port,
to the queue, to the tick count and per character printed, for `main` and both tasks. Of the kernel, which is not in the repository, it has what `main.c`
and `FreeRTOSConfig.h` use: preemption by priority (`Runs`), the queue of one item, `vTaskDelayUntil`, the tick interrupt between
any two steps, and a heap that may be too small for what `main` creates (the failed-allocation hook stops the program).

**PicoFirmware** - `legacy/picosoc/firmware.c` for both boards. A C function is the sequence of its accesses to the
hardware (`set_flash_latency`, `cmd_benchmark_all`, ... are such sequences under their own names), and one step executes one: an
assignment to `reg_spictrl` (`AssignMode`, `SetCrm`, `XorCrm`), a stretch of code executed from the flash (`Compute`), a call of
the worker in RAM, its transfer, its return. `Readable` says when the controller, as it is set, reads from the
chip, as it is set; code fetched otherwise is garbage (`ExecuteGarbage`: the program is lost). `EchoGet`, `EchoPut`, `Receive` and `Tick` are `cmd_echo`
against the UART, in time: the program accesses the UART whenever it likes within `ProgramTime` of its last access or of the moment the next one can succeed,
the transmitter is busy for `SendTime` after each character, and characters come in whenever they like but `Gap` apart. The three are constants, and no two of them are
taken to be equal. `MemtestWrite` and `MemtestCheck` are a pass of `cmd_memtest` over a RAM with at most one broken byte.

**CLibrary** - `legacy/dhrystone/stdlib.c` with the two number printers of the PicoSoC firmware. A behaviour is one call, a step one iteration
of a loop. Strings lie in a small memory at every alignment; a word is four bytes in the base `Base == 2 * TopBit`, and the constants `01010101` and
`80808080` are scaled with it. `HasZeroByte` is the arithmetic of the code, where a mask by `80808080` is a look at the top bit of each byte.
**Dhrystone** EXTENDS CLibrary - `dhry_1.c` and `dhry_2.c`: a step per loop iteration and per stretch between loops, the procedures as operators on the
global variables. Strings are named by the word in which they differ. A behaviour is an execution of the program or a call
of the library, so one configuration checks both.

Theorems and proofs: **NanoCoreProofs** (requests, types, the external line), **NanoFetchProofs** EXTENDS it (memory interface and
program counter), **NanoIsaProofs** EXTENDS that (the refinement of NanoIsa), **TimerFirmwareProofs** (timer and `setup_timer`), **NanoBusProofs**,
**FreeRtosProofs**, **PicoFirmwareProofs**, **DhrystoneProofs** (string functions and program).

## Runs

| run | what it instantiates | what it shows |
|---|---|---|
| `core_base` | compressed core, one register port, slow ALU and comparison, PCPI, no machine mode; every kind of base instruction, `resetn` low at any time, reset vector in the middle of a word | `FetchCorrect`: what is launched was read from the program counter, both halves of it. `StagesAgree`, `BusMatchesRequest` (the assertions core:649-742), `RequestsExclusive` (the assertions core:636-647), `BusStable`; `WriteBackOwner`, `ImplementsIsa`: results are read on the edge on which they exist and go to their own instruction |
| `core_half` | compressed core in machine mode: a timer interrupt, the CSRs of interrupts, mret, wfi, jumps | interrupts, returns and CSR writes in any order implement the sequential machine, also with half of the next instruction already buffered when the interrupt is taken |
| `core_irq` | 32-bit core with `CATCH_MISALIGN`, a latched external line that is masked, cleared and raised at any time, and a coprocessor that answers, claims or ignores an illegal instruction | `NoStaleExternal`: `mip.external`, one edge late, never starts the handler for a line software has cleared or masked. `InterruptTaken`: an interrupt that stays pending and enabled is taken, also out of `wfi`. `IllegalTraps`: each illegal instruction is answered or trapped. `TypeOK`, `ImplementsIsa`, and `KeepsLaunching`: the core always comes back to launch an instruction |
| `timer_firmware` | `setup_timer` called again and again against the running timer | `ImplementsTimer`: the halves are one counter and one comparison. The read is atomic; the three stores never make `mtimecmp` smaller than both old and new deadline; no interrupt before the new deadline; one after it |
| `bus` | each of the three buses, the native one with and without look-ahead; slow memories, a reset at any edge | `ImplementsMemory`: all of them are MainMemory. `ResponsesOwned`: what the AXI memory holds belongs to the transfer in progress. `OffersStand`: an offer on the bus stands until it is accepted. `TransfersEnd` |
| `picosoc` | both boards, every order of commands, an echo at the highest rate it keeps up with, one broken byte at each of several places | `CodeReadable`: no setting the program passes through makes it unreadable, but the one below. `RegistersUnderstood`: each write of a chip register, and on the HX8K board each read, reaches a chip that listens to commands. `NoOverrun`: no character comes in over one that has not been read, if they come no faster than `Gap`. `EchoReturns`, and `MemtestVerdict`: what the memory test says is true of the bytes it visits and of no others |
| `freertos` | ticks at any moment, a tick counter that wraps, a receiver that takes up to five ticks too long | `AssertHolds`: the queue is never full. `AlwaysExpected`, `WakesOnTime`, `ImplementsBlink`: no update of the port is lost. `KeepsBlinking` |
| `dhrystone` | a hundred runs with a clock that wraps or changes its sign; every call of a library function with strings up to five bytes at every alignment, formats of three parts, 8-bit integers | `MainCommentsHold`: the values the comments of `main` state, in each run. `ReportIsRight`: each value printed is what the program says it should be, and the time is the time the runs took. `CopiesExactly`, `OrdersStrings`, `NeverPastTerminator`, `PrintsRight`, `Terminates` |
| `bug_*` | see [findings](#findings) | violations of what the documentation or the source itself says |

The assertions of the core sit in the source as `` `assert``, which is compiled for formal verification only.

`InterruptTaken` excepts behaviours in which a coprocessor holds an instruction for ever: the core does wait for it.

## Bounds and fairness

| bound | value | why it is enough |
|---|---|---|
| `AddrSpace` | 12 bytes (16 in `bug_*`) | addresses wrap, so a loop through memory exists; three words give the alignments of an instruction, of the one after it, of a jump target and of the vector in every combination |
| `MaxStall` of the core | 1 | a transfer takes one or two cycles, differently each time: every event of the core can fall before, on or after the end of a transfer. With the PCPI timeout at 5 the memory is always faster than the timeout, as it is with 15 cycles and the memories of the test bench; a slower memory loses illegal instructions (finding 3) |
| `PCPI_TIMEOUT` | 5 in passing runs, 15 in `bug_illegal_straddling` | the counter only has to outlast a transfer |
| `MaxShift` | 5 | one step of 4 and one of 1 |
| `Targets`, `DataAddrs`, `Kinds`, `CsrNames` | per run | each run has the kinds that exercise its question; kinds the state machine does not tell apart are one kind |
| `Half` | 16 | the carry happens at any place of the routine; the counter does not wrap before `LastCycle` |
| `LastCall`, `LastCycle` | 45, 110 | time ends before the counter wraps, and late enough that the last deadline is reached (`CHECK_DEADLOCK FALSE`, since time ends) |
| `Words`, `Values`, `MaxStall` of `bus` | two words, two values, 2 edges | a fetch has at most two words, which must not be confused; the AXI memory can take address and data in either order, on the same edge or with an edge between |
| `TickRange`, `MaxLate` | 16, 5 | the wrap falls on every phase of the period of 3 ticks; a receiver that misses a whole period and more |
| `SendTime`, `ProgramTime`, `Gap` | 3, 2, 7 | the smallest `Gap` for these two: with 6 `NoOverrun` fails. A program slower than the transmitter (3, 2 exchanged) needs 9, and fails with 8; `EchoesAll` has all other values. See below for the real ones |
| `FaultyCells` | 2, 100, 600, 2051 | a byte of the words and bytes tested on both boards, on one of them, and on neither |
| `TopBit`, `Letters`, `MaxLength`, `IntBits`, `Nibbles` | 4 (bytes of 3 bits), {1, 7}, 5, 8 bits, {0, 12} | a letter below and one with the high bit, whose difference is what the arithmetic on words could get wrong; strings longer than a word; all values of `printf_d`; digits of `print_hex` are zero or not |
| `SignBit`, `Cycles`, `Starts` | 2^19 (a counter of 20 bits); 1100 or 2500 cycles a run; before the change of sign, before the wrap, and 0 | the measurement crosses each of the two, or neither |

`Inputs` are what the outside may do in a cycle: the memory answers only while `mem_valid` is
high; an interrupt line or `mtip` may have any value in any cycle; the coprocessor speaks only while
`pcpi_valid` is high and claims an instruction before the counter has reached 0.
(`PcpiClaimsLate` lifts the last restriction, and `IllegalTraps` then fails: the timeout is registered
one edge after the decision.)

*Fairness* is weak fairness of the clock, nothing else, in all hardware models (`Tick`, `Cycle`, `Edge`): that a memory answers is the
guard of its inputs after `MaxStall` cycles, that a shift ends is its counter. `MaxGap` bounds the time between two
accesses of `setup_timer`, as a core on a memory that answers does. In PicoFirmware the program runs on and time passes;
the person need not type. In FreeRtosDemo the processor executes and ticks come, which with `MaxLate` gives each task its turn. In
Dhrystone the program runs on.

Deadlock is checked in the runs of the core and of the buses, and serves as a check of the models: two
places in the core rely on a combination never happening (a misaligned jump together with a
trigger; the end of a data transfer that was not the one requested), and have no step for it. Where it is not checked the system stops: time ends in
TimerFirmware, a program that is lost stops in PicoFirmware, a heap too small stops FreeRtosDemo, and calls return in Dhrystone.

## Findings

Each is a run that TLC ends with a counterexample.

1. `bug_misaligned_load`: a misaligned load or store enters the trap but leaves the trigger of the
   prefetched instruction set: it executes in the place of the first instruction of the handler.
2. `bug_misaligned_lhu`: `lhu` from an odd address raises no exception (core:2179 tests `lw` and `lh`).
3. `bug_illegal_straddling`: giving up on PCPI clears `pcpi_valid`, which reloads the counter and
   withdraws `pcpi_timeout` two cycles later. If the prefetch it waits for takes longer, because the next
   instruction straddles two words, the trap is never entered and the next instruction executes in its place.
4. `bug_trap_hangs`: without PCPI the trap of `ecall`, `ebreak` or an illegal instruction waits for a
   prefetch nobody claims; the comment above the task (core:1572) says what the caller should have done.

Related behaviour the same configurations show when varied, which has no run of its own:

- after finding 3 with a load as the next instruction `mem_do_rinst` and `mem_do_rdata` stand together,
  against the assertion core:640-641 (`Kinds = {"addi", "illegal", "load"}`, `RequestsExclusive`). This is why
  the theorems about the core assume `PcpiTimely`;
- the same wait as in finding 4 hangs the core with PCPI and a single register port on `ecall` and `ebreak` (core:2057);
- a taken *branch* to a misaligned address has the fetch of that address under way when the trap is
  entered, and launches what arrives at `PROGADDR_IRQ` (`Kinds = {"addi", "branch"}`, `Targets = {0, 6}`);
- a `jal` to a misaligned address jumps to the aligned one: the low bits of `reg_next_pc` are cleared on the edge it is
  written (core:2266-2274);
- with `PROGADDR_IRQ` 2 modulo 4 a halfword buffered before an interrupt is executed as the first of the handler: an
  interrupt does not set `latched_branch`, which alone makes the buffer stale (core:1468 has the missing condition commented out).

The passing runs of the core stay outside these situations: `DataAddrs` is aligned, `core_irq` reaches a misaligned address by
`mret` only (`mepc` has any value at power-up), machine mode is not combined with one register port, `PROGADDR_IRQ` is a multiple of 4.

What the software models show beside their properties:

- PicoSoC: entry 7 of the menu in plain SPI mode sets CRM alone, which is no valid setting of the controller; the code cannot be read any more and
  the program is lost. `CodeReadable` names this one exception. In a mode with CRM set, entry 1 (and entry 2 on the iCEBreaker board) sends its command to a chip that
  expects an address: it prints garbage, and nothing worse happens: `RegistersUnderstood` covers every write, and of the reads those of the HX8K's entry 2 and of `main`'s start only.
- The echo does lose characters when they come at the full rate of the line. A newline is echoed as two characters, so two newlines without a pause are too many for any program. And the
  firmware is built without optimization (`legacy/picosoc/Makefile:3`, `:43`, `:89`) and executed from the serial flash, at 64 clock cycles or more for each word that is read in
  order in plain SPI mode: one round of `cmd_echo` takes some thousands of cycles, and a character comes in about 1050. The transmitter alone is too slow by a little: it keeps each bit for
  `cfg_divider` + 2 = 106 cycles (`simpleuart.v:128-133`, `firmware.c:669`), while the line delivers one in 104.17. `NoOverrun` is about a person, or a terminal
  that leaves `Gap` between characters; which `Gap` that is, `EchoKeepsUp` says.
- `MEM_TOTAL` of the HX8K board is `0x200` with the comment "2 KB" (`legacy/picosoc/firmware.c:26`): that is 512 bytes. The firmware prints "0 KiB", and its memory test visits one
  word and 128 bytes.
- `print_dec` leaves out a zero among the tens (`firmware.c:198`: 105 would be printed as "15"); none of the numbers it is called with has one.
- `printf_d` negates the smallest integer, and a lone `%` at the end of a format sends `printf` past it (`stdlib.c:70`, `:89`); Dhrystone does neither.
- Two comments at the heads of Dhrystone's procedures are false: `Func_1` is first called with 'R' and 'Y', not 'H' and 'R' (`dhry_2.c:112`), and `Proc_2` makes its
  argument 5, not 4 (`dhry_1.c:359`; `main` says 5). `MainCommentsHold` is about the comments of `main`, which are true.

## Proofs

A theorem holds for every value of the constants that satisfies the assumptions its modules name (`MemAssumption`,
`CoreAssumption`, `TimerAssumption`, `FreeRtosAssumption`, ...), which say only what the parameters are, and the assumptions
its statement lists. Those exclude situations in which the property is false, and each of them is explained here.

### The core

| assumption | meaning | why |
|---|---|---|
| `PcpiTimely` | with PCPI, two register ports and unknown instructions in the program: `~PcpiClaimsLate`, a timeout of at least one cycle (it is 15), `MaxStall <= PCPI_TIMEOUT + 3`, and `MaxStall = 0` in a compressed core | with two register ports an unknown instruction is offered in `ld_rs1` while the prefetch behind it runs. When the core gives up it claims the prefetch and reloads the counter, which takes the timeout back (finding 3); three cycles after the counter has reached 0 the prefetch must be over. A compressed core may have the second word of a straddling instruction to read, in the one cycle left. With a claim in the last cycle, or one more stall in either case, TLC finds `ImplementsIsa` violated |
| `MisalignmentExcluded` | with `CATCH_MISALIGN`, `Targets` are aligned and `DataAddrs` are words | finding 1, and the notes on branches and `jal` below it |
| `VectorInWord` | a compressed core with interrupts has `PROGADDR_IRQ` at a multiple of 4 | the note on `PROGADDR_IRQ`: a stale halfword is executed |
| `LinesLatched` | every line in use is in `LATCHED_IRQ`, as is the default | a level-sensitive line may drop between the edge on which it is pending and the one on which the handler starts |

An exception starts its handler in the cores in which the instruction is given up in `ld_rs1` (PCPI and two register
ports, machine mode): `ecall`, `ebreak` and unknown instructions are covered by the theorems there, in both lengths and with the
second trap in a handler. In the others the same instructions wait for the end of a prefetch nobody claims (finding 4), or, without machine mode, stop
the core, and the theorems say just that. Exceptions of misaligned accesses and jumps are excluded. Interrupts,
mret, wfi and csr writes are covered everywhere.

**`RequestsAreExclusive`** (NanoCoreProofs): `Spec => [](RequestInv /\ RequestsExclusive)`. Its assumption is `NoneUnknown`: a program that
has unknown instructions does not run on a core with PCPI and two register ports. (**`RequestsExclusiveInTime`**, below, is for those; there the
property needs a memory faster than the timeout.)
`RequestsExclusive` is not inductive: that a load raises `mem_do_rdata` only when no fetch is running depends on what
earlier states of the machine left behind. `RequestInv` adds it: which requests may stand in which `cpu_state`; that a trigger
means the request it answers is over; that in `ld_rs1` and `ld_rs2` the prefetch is running unless the
instruction is a jump or traps (so a data state always has an end of the prefetch to wait for), and is claimed there only for an instruction
nobody takes (`GivingUp`); and that, while
a data transfer runs, stage 2 has taken the prefetched instruction or will on the next edge. The proof has one lemma
per group of states (`FetchRequests`, `OperandRequests`, `ExecutionRequests`, `DataTransferRequests`,
`ResetRequests`). What the proofs need of the coprocessor is one fact, `ClaimStands`: once the prefetch is claimed, the core goes on giving
up. `ecall` and `ebreak` never wait for an answer, so `KnownInv` (what is decoded is of a kind in `Kinds`) gives it under
`NoneUnknown`; in general it follows from `OfferInv`.

**`TypeCorrect`** (NanoCoreProofs): `Spec => []TypeOK`, without further assumption. Needs the conjunct `ShiftOK` (in the shift state `reg_sh` is
driven), since `reg_sh` is undriven elsewhere and counts down there. One lemma per state and register group. It includes
that the PCPI counter never passes below 0, and that no address leaves the address space.

**`ExternalNeverStale`** (NanoCoreProofs; `LinesLatched`): `mip.external` is one edge late, and only a
csr instruction can make it differ from the registers it copies. `PendingInv` says that it may differ only where no interrupt can be taken before the next
edge brings it up to date. For that `TriggerInv` suffices, which needs nothing of the coprocessor: a fetch that still stands has triggered nothing, and
in `ld_rs1` only an instruction that traps has one.

**`FetchesCorrectly`, `BusAlwaysMatchesRequest`, `BusIsStable`, `StagesAlwaysAgree`** (NanoFetchProofs; the first three assumptions): what is
launched was read from the program counter; the assertions in the bus states hold; a transfer is never withdrawn; stage 2
decodes the word stage 1 did. All four, and `RequestsExclusiveInTime`, follow from one inductive invariant,
`FetchInv == PcInv /\ MemInv /\ ShiftOK /\ KnownInv /\ OfferInv`, because none holds alone: the word handed over is right because the transfer was started for the right address, which needs
the request to have stood since, which needs to know what each state of the main machine does to it.

- `PcInv` is what the main state machine guarantees: `TypeOK`, `RequestInv`, alignment, and per state which requests stand
  (`FetchControl`, `OperandControl`, `ExecControl`, `CompareControl`, ...). `CompareControl` is there because a branch that
  were decided on the previous comparison would redirect the fetch wrongly.
- `MemInv` is what the memory interface guarantees, relative to `Wanted`, the address the next instruction to launch comes from: what
  is on the bus (`ReadInv`: first word, second word or the buffer alone), in the buffer (`IdleInv`, `EmptyInv`), in
  `mem_rdata_q` while a prefetch waits for its claim (`WaitInv`), and in the decoder (`HeldInv`). `DroppedInv` covers the edges on which a taken branch
  waits for the end of the fetch it makes useless; what is read then is nobody's.
- `OfferInv` counts cycles on both sides: while an unknown instruction is offered, the counter has gone down no further than the memory has stalled (`OfferStands`).
  Once the core has given up, the fetch is over, or so far stalled that it is over before the timeout ends, or in its second word with a cycle left (`OfferEnds`).

Every step of the main state machine is one of six kinds as the memory interface sees it (`Classified`): nothing is asked for and a request may begin
(`Begins`), the fetch goes on (`GoesOn`), a useless one goes on (`DropGoesOn`) or ends and the branch target is asked for
(`Redirected`), a fetch ends with the instruction held in the decoder (`Delivered`), or a data transfer keeps it there (`HoldsOn`). One half of the proof
classifies the steps of each state, the other shows for each kind and each branch of the bus machine that `MemInv` is kept; so the product of the two machines is
never written out.

**`WritesBackOwn`** (NanoFetchProofs): from `FetchInv` and `OwnerInv`: from launch until write-back `latched_rd` belongs to
the instruction at `reg_pc`, and `latched_compr` to its length.

**`IllegalAlwaysTraps`** (NanoFetchProofs; the first three assumptions): what finding 3 shows to fail with a slow memory holds with one that is fast
enough: `Spec => IllegalTraps`. The record `insn` stays while the instruction is in `ld_rs1` or `ld_rs2`, since no fetch ends there but the one
claimed to give it up, and that one triggers nothing; `FetchInv` says so.

**`ImplementsSequential`** (NanoIsaProofs; the first three assumptions): `Spec => ImplementsIsa`. Beside `FetchInv` the step simulation needs `IsaInv`: the decoder's records are
well formed (`WellDecoded`), the program counter and what it may be loaded from are addresses (`PcInSpace`),
`reg_next_pc` follows the instruction in execution (`NextFollows`), and which kinds get as far as which state, with the ALU's result in the register it is
read from (`KindsByState`). The steps of the core are grouped by their outcome: it `Stays` in its
instruction, `StartsTransfer` or `KeepsTransfer`, `Finishes`, has `Jumped`, `Returned` (mret), `Wrote` a csr, `Handles` an exception, or `Halts`; for each outcome one lemma shows the
step of NanoIsa or the stutter. The steps in the fetch state are the launches, interrupts and wake-ups of NanoIsa.

### The timer and its firmware

**`TimerTypeCorrect`, `CarryCorrect`, `TimerImplements`** (TimerFirmwareProofs): for every width `Half >= 2` and any writes, the
halves stay in range, the carry computed one cycle ahead is the carry of its cycle, and NanoTimer implements MachineTimer.
The inductive invariant joins the types and `CarryAhead`; the refinement rests on arithmetic lemmas
about joined halves: `JoinedOrder` (comparing halves is comparing wholes), `JoinedIncrement` (a carry is an
increment modulo the square) and `JoinedHalves`. For the hardware, `Half = 2^32`.

**`ReadsAtomically`, `UpdatesNeverEarly`, `InterruptsNeverEarly`** (TimerFirmwareProofs): for every width, every spacing of the accesses and
every delay, the three loads of `setup_timer` read a value the counter had during the loop; the three stores never leave a
deadline smaller than both the old and the new one; no interrupt comes before the new one. The assumptions are `ENABLE_MTIMECMP` (the routine needs the register) and
`DeadlinesFit`: no deadline lies beyond the wrap of the counter, where "before" would mean nothing. `FwInv` adds to the timer's invariant what each
register of the routine holds at each of its places (`ReadInv`, `CompareInv`): the low half was loaded
under a high half that lies between the two loaded ones, so it is theirs if they agree. It also says that the comparison in flight, registered in the timer and again in `mip`, belongs to the new
deadline when the interrupt is enabled (`PendingInv`).

### The buses

**`NoForeignResponse`, `NothingWithdrawn`, `EveryBusIsMemory`** (NanoBusProofs), without further assumption: on each of the three buses, for any
addresses, values, delays of the slaves and resets, a response that is out belongs to the request the core makes, an offer stands until it is
accepted, and NanoBus implements MainMemory. The invariant has a part per component: `PortInv` (what the core's port shows between requests),
`NativeInv`, `BridgeInv`, `AxiInv`. `AxiInv` is the long one: for reads and for writes it lists the stages of a transfer (not yet offered, address or data
accepted, response out, response taken) with the acknowledge flags and the state of the slave in each; that no flag survives a
transfer is what makes a response belong to its request.

### The FreeRTOS demonstration and the PicoSoC firmware

**`Types`, `NeverFull`, `NeverUnexpected`, `NeverDrifts`, `TakesTurns`** (FreeRtosProofs): for every period, range of the tick counter, lateness
and length of the message the assertion after the send holds, the receiver compares the value sent, the period does
not drift, and FreeRtosDemo implements Blink. None of these is inductive. `HandOver` is what they rest on: the sending task moves only
while the receiving task waits on an empty queue, because of the priorities; with it the queue is empty at the send, and nobody
writes the port between the read and the write of a toggle (`LightsFollow`). `WakesOnTime` relates the tick count to the wake time
modulo the range; its proof uses the lemmas `WrappedSum`, `CarryOne`, `Meets` and `Comparison` about counters that wrap. The one
assumption is `FreeRtosAssumption`: the period and the lateness together are shorter than the range of the counter.

**`VerdictIsTrue`** (PicoFirmwareProofs): wherever the RAM is broken, the memory test says "passed" only if every byte it visits is sound, and "failed" only if one is
not. `MemtestInv`: a pass over the words after the first is reached only if the words are sound.

**`EchoesAll`** (PicoFirmwareProofs; `EchoKeepsUp`): the echo reads each character before the next one comes in, whatever is typed and however fast the program and the
transmitter are, if `Gap` is at least 3 `ProgramTime`, 2 `ProgramTime` + `SendTime` and 2 `SendTime`. Those are the two characters of a newline, each at the pace of the slower of
program and transmitter, and before them the time until the program has read the newline and begins with it, or until the transmitter has finished what it was
sending. `EchoInv` relates the three clocks: a character in the buffer is no older than what the program has used of its time (`BufferInv`), and what is still to be sent is
handed over before `Gap` is over, or on its last tick (`SendInv`). TLC checked `EchoInv`, with the least `Gap`, for programs faster and slower than the transmitter.

**`AlwaysReadable`, `AlwaysUnderstood`** (PicoFirmwareProofs): the flash the program runs from is readable in every setting it passes
through, but the one `CodeReadable` names, and the chip understands each write of a register and, on the HX8K board, each read. Neither is inductive: after the controller's latency
is set and before the chip's is, only the program's position says that nothing is fetched in a mode with dummy cycles. `Sound` says what
each operation of a list owes to its neighbours (a new latency of the controller is followed by a call that writes the same one to
the chip, a transfer stands between a call and a return, a mode of the iCEBreaker board comes with the latency of its command); every
menu entry is a concatenation of sound lists, and concatenation keeps soundness (`SoundConcat`, `CommandsSound`). `FlashInv` says that some number `k`
of operations of a sound list are done and what the controller and the chip hold then (`Pending`, `Latencies`, `ChipKeeps`, `PlainKeeps`); the list of
`set_flash_qspi_flag`, which runs at boot with the chip's own latency, is treated apart (`Booting`).

### The C library and Dhrystone

**`NothingReadBehind`, `CopiesAreExact`, `StringsAreOrdered`** (DhrystoneProofs): for bytes of any width, strings of any length over any letters and
pointers of any alignment, `strcpy` and `memcpy` change exactly the bytes they should, `strcmp` gives the order of the strings, and neither
reads a word that lies wholly behind a terminator. The assumption `BytesAssumption` says only that letters are bytes other than zero.
The hard part is `ZeroByteFound`: the arithmetic on a word tells that it has a zero byte, and never says so of one that has none, although
the subtraction borrows from one byte to the next. Up to its first zero byte nothing is borrowed, so that byte shows a top bit in the difference
that it does not have; without a zero byte nothing is borrowed at all, and a byte keeps or loses its top bit. `StringInv` says that both pointers are at the same
index of their strings (`Progress`), that what lies before it is copied (`Copied`) or agrees (`AgreeUpTo`), and that the source strings lie
where they were put. Whether a step takes one byte or four, it moves that index over a stretch without a terminator (`CopyGrows`, `AgreesAlong`),
and the word that ends a comparison holds the first difference (`FirstDifference`, `NoDifference`).

**`HexIsRight`** (DhrystoneProofs): `print_hex` writes any number from its first digit that is not zero, or with as many digits as the firmware asks
for: `PrintsHex`, the part of `PrintsRight` that needs no induction over data. `HexProgress`: nothing is written before the first digit that must be, and from
then on the variable `digits` follows the position, so that no zero is left out.

**`MainCommentsAreTrue`, `ReportsAreRight`** (DhrystoneProofs): for any number of runs, what the comments between the statements of `main` claim holds in each
of them, what is printed is what the program says it should be, and the time reported is the time the runs took. `RunsAssumption` states when the last can be meant:
a measurement takes fewer cycles than an `int` counts. `ProgramInv` gives the values the variables have at each statement, since a comment about one statement
follows from assignments before it: `Linked` (heap and first string), `Assigned` (from the head of a run on), `Updated` (from `Proc_8` and `Proc_1`
on), `RunDone` (carried over to the next run). `Counted` and `Measured` are what grows from run to run: the element of the array
that counts them, and the cycle counter, which is right modulo its range wherever it started. The last subtraction is then right as well, as its result fits
(`Elapsed`). TLC checked `MainInv` on the run `dhrystone` before it was proved.

### Only model-checked

- Handlers entered after a misaligned jump (`mret` to a misaligned address): `core_irq`.
- The rest of `PrintsRight`: that a numeral printed is the numeral of its number is an induction over its digits, and the output of `printf` is a fold
  over the parts of its format.
- `Terminates` and the other liveness properties (`KeepsLaunching`, `InterruptTaken`, `TrapsEventually`, `InterruptComes`, `TransfersEnd`,
  `EchoReturns`, `KeepsBlinking`): out of the provers' reach, like everything that needs ENABLED or induction over data.

## Not modelled

- `CATCH_ILLINSN = 0`, `STACKADDR` other than all ones (it writes one register at reset), `ENABLE_TRACE`, `` `RISCV_FORMAL``,
  `LATCHED_MEM_RDATA = 1`.
- The contents of registers and data words; hence the ALU's arithmetic, byte strobes of stores, sign extension, and the values of
  `mcause`, `mtval`, `mscratch` and the counters: no step of the machine depends on them.
- Which bit patterns select which instruction. The model checks *when* and *from what* each stage decodes.
- Registers the reset leaves alone keep their value: reset clears only some of the decoder's flags (core:1303); the model keeps
  `decoded`, and `core_base` checks that nothing of it is used. A register without a value at power-up is `None`, or any value.
- The coprocessors for multiplication and division: sequential arithmetic behind the PCPI handshake, which NanoCore has as an input that may do
  anything the handshake allows. The external register file is a memory of values nothing here depends on.
- The trap handler of the test firmware and the test programs: C and assembler that saves registers, prints and counts. Their effect on the CSRs is among
  the orders of csr writes, traps and mret that `core_half` and `core_irq` check.
- In NanoBus: byte strobes (a write is of a whole word), the first half of the timer (`mtime` is read-only to the bus and in NanoTimer), the output
  addresses of the test memories, and the early acceptance of an AXI address on the falling edge, which is the same as
  acceptance on the edge before.
- In PicoFirmware: texts, the pattern of the memory test, results of the benchmark. The chip is external: its dummy cycles per
  command are those the firmware's settings are made for (the repository's `spiflash.v` has none of the register commands), and a mode byte of `FF` is taken to end
  continuous reading.
- In Dhrystone: the rates computed after the run, and `insn()`, which is `time()` with another counter. `printf` is declared to
  return an `int` and returns nothing; no caller looks. The heap is an array of characters, so the alignment of its records is up to
  the linker. `dhry_1_orig.c` is not compiled.
- In FreeRtosDemo: the kernel beyond what is named above, the registers its port saves at a switch, and the hooks that do nothing.
- `utils`, and of `legacy` what is neither the demo nor Dhrystone: board files, scripts and the hardware around the core.

## What is left

1. Proofs: misaligned jumps of `mret` and `jalr` with `CATCH_MISALIGN`; those of branches and misaligned accesses are findings.
2. The two coprocessors, on words of a few bits against multiplication and division.
