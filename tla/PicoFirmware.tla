---------------------------- MODULE PicoFirmware ----------------------------
(***************************************************************************)
(* The PicoSoC demo firmware (legacy/picosoc/firmware.c) with what it      *)
(* drives: the flash controller it is executed through (spimemio.v), the   *)
(* flash chip behind it, the transmitter and the receive buffer of the     *)
(* UART (simpleuart.v), and a person at the terminal.  Time passes in      *)
(* cmd_echo only; its three lengths are constants (SendTime, ProgramTime,  *)
(* Gap), and the clocks count down to, or up to, them.                     *)
(*                                                                         *)
(* A C function is a sequence of operations, the accesses to the hardware  *)
(* it makes in order; one step executes one of them.  Between two          *)
(* operations the core fetches instructions from the flash in whatever way *)
(* the controller is set, so every setting the program passes through must *)
(* be one the chip understands.  Texts are left out: printing changes      *)
(* nothing but the time, except in cmd_echo, where it is modelled.         *)
(***************************************************************************)
EXTENDS Naturals, Sequences, FiniteSets

CONSTANTS
  MenuRepeats,   \* how often main asks before it shows the menu again (10 in the code)
  Typed,         \* the characters the person types while in cmd_echo
  FaultyCells,   \* addresses at which the RAM may be broken
  SendTime,      \* how long the transmitter takes for a character
  ProgramTime,   \* the longest the program takes from an access of the UART to the next
  Gap            \* the shortest time from one received character to the next

VARIABLES
  board,         \* the macro the program was compiled with, HX8KDEMO or ICEBREAKER
  pc,            \* where the program is
  todo,          \* the operations left of the command that is running
  where,         \* the memory the core is fetching from
  ctrl,          \* the configuration register of the flash controller
  chip,          \* the volatile registers of the flash chip
  rep,           \* rep of main
  rx,            \* recv_buf_data, or Empty when recv_buf_valid is 0
  tx,            \* the characters putchar still has to hand to the transmitter
  sending,       \* the time until send_bitcnt is 0 again
  slack,         \* the time the program may still take until it accesses the UART
  quiet,         \* the time since a character was received, up to Gap
  stuck,         \* the addresses of the RAM that read back something else than was written
  memtest        \* the pass cmd_memtest is in, and what it has printed

machine == <<board, where, ctrl, chip>>
clocks == <<sending, slack, quiet>>
uart == <<rx, tx, clocks>>
vars == <<machine, pc, todo, rep, uart, stuck, memtest>>

Empty == "empty"
Boards == {"HX8KDEMO", "ICEBREAKER"}
Keys == {"return", "1", "2", "3", "4", "5", "6", "7", "9", "0", "M", "S", "e", "x"}

ASSUME MenuRepeatsAssumption == MenuRepeats \in Nat \ {0}
ASSUME TimesAssumption == SendTime \in Nat \ {0} /\ ProgramTime \in Nat /\ Gap \in Nat \ {0}

(***************************************************************************)
(* The flash controller and the chip                                       *)
(***************************************************************************)
\* The controller sends a mode byte and dummy cycles in the DDR and QSPI modes
\* only; with CRM set it leaves the command byte out of every read after the
\* first, which the chip expects only after the mode byte A5.
Dummies == ctrl.bits \cap {"ddr", "qspi"} # {}
Continuous == "crm" \in ctrl.bits /\ Dummies

\* The dummy cycles the chip inserts: a register of the chip on the HX8K board,
\* fixed by the read command on the iCEBreaker.
ChipLatency ==
  IF board = "HX8KDEMO" THEN chip.latency
  ELSE CASE ctrl.bits \ {"crm"} = {"ddr"} -> 0
         [] ctrl.bits \ {"crm"} = {"qspi"} -> 4
         [] OTHER -> 7

Readable ==
  /\ ctrl.enabled
  /\ "crm" \in ctrl.bits => Dummies
  /\ "qspi" \in ctrl.bits => chip.quad
  /\ Dummies => ctrl.latency = ChipLatency

(***************************************************************************)
(* Operations: an assignment to reg_spictrl, a call of flashio, or one     *)
(* that changes nothing here (printing, computing)                         *)
(***************************************************************************)
Keep == 16
Mode(bits, latency) == <<[op |-> "mode", bits |-> bits, latency |-> latency]>>
enable_flash_crm == <<[op |-> "crm"]>>
ToggleCrm == <<[op |-> "toggle"]>>
\* flashio copies its worker to the stack and calls it there.
flashio(reg, val, wrencmd) ==
  << [op |-> "call"], [op |-> "transfer", reg |-> reg, val |-> val, wren |-> wrencmd # 0],
     [op |-> "return"] >>
Read(reg) == flashio(reg, 0, 0)
cmd_benchmark == <<[op |-> "run"]>>
cmd_print_spi_state == <<[op |-> "run"]>>

set_flash_mode_spi  == Mode({}, IF board = "HX8KDEMO" THEN Keep ELSE 0)
set_flash_mode_dual == Mode({"ddr"}, IF board = "HX8KDEMO" THEN Keep ELSE 0)
set_flash_mode_quad == Mode({"qspi"}, IF board = "HX8KDEMO" THEN Keep ELSE 4)
set_flash_mode_qddr == Mode({"ddr", "qspi"}, IF board = "HX8KDEMO" THEN Keep ELSE 7)

\* faulty: the chip is written before the controller is back in plain SPI
LatencyChipFirst(value) == flashio("latency", value, 6) \o Mode({}, value % 16)

\* HX8KDEMO only: the controller first, back to plain SPI, then the chip.
set_flash_latency(value) == Mode({}, value % 16) \o flashio("latency", value, 6)

\* Read the configuration register, then write it back with the flag set.
set_flash_qspi_flag ==
  Read("quad") \o flashio("quad", TRUE, IF board = "HX8KDEMO" THEN 6 ELSE 80)

cmd_read_flash_id == Read("id")
\* faulty: the latency is not set before the register is read
RegsPrintAsIs(reg) == Read(reg)

cmd_read_flash_regs_print(reg) == set_flash_latency(8) \o Read(reg)
cmd_read_flash_regs ==
  LET reg == IF board = "HX8KDEMO" THEN cmd_read_flash_regs_print("status") ELSE Read("status")
      three == reg \o reg \o reg
  IN  IF board = "HX8KDEMO" THEN three \o three ELSE three

\* HX8KDEMO only: a setting with each latency from 8 down to 1.
BenchmarkLatencies(bits) ==
  LET with(i) == set_flash_latency(i) \o Mode(bits, Keep) \o cmd_benchmark
  IN  with(8) \o with(7) \o with(6) \o with(5) \o with(4) \o with(3) \o with(2) \o with(1)
cmd_benchmark_all ==
  IF board = "HX8KDEMO"
  THEN Mode({}, Keep) \o cmd_benchmark
         \o BenchmarkLatencies({"ddr"}) \o BenchmarkLatencies({"ddr", "crm"})
         \o BenchmarkLatencies({"qspi"}) \o BenchmarkLatencies({"qspi", "crm"})
         \o BenchmarkLatencies({"ddr", "qspi"}) \o BenchmarkLatencies({"ddr", "qspi", "crm"})
  ELSE set_flash_mode_spi \o cmd_benchmark \o set_flash_mode_dual \o cmd_benchmark
         \o set_flash_mode_quad \o cmd_benchmark \o enable_flash_crm \o cmd_benchmark
         \o set_flash_mode_qddr \o cmd_benchmark \o enable_flash_crm \o cmd_benchmark

\* The switch of main.
Command(key) ==
  CASE key = "1" -> cmd_read_flash_id
    [] key = "2" -> cmd_read_flash_regs
    [] key = "3" -> set_flash_mode_spi
    [] key = "4" -> set_flash_mode_dual
    [] key = "5" -> set_flash_mode_quad
    [] key = "6" -> set_flash_mode_qddr
    [] key = "7" -> ToggleCrm
    [] key = "9" -> cmd_benchmark
    [] key = "0" -> cmd_benchmark_all
    [] OTHER -> cmd_print_spi_state

(***************************************************************************)
(* Executing an operation                                                  *)
(***************************************************************************)
Next1 == Head(todo)
Doing(op) == todo # <<>> /\ Next1.op = op
Advance == todo' = Tail(todo) /\ UNCHANGED <<board, pc, rep, uart, stuck, memtest>>

AssignMode ==
  /\ Doing("mode") /\ Readable /\ Advance
  /\ ctrl' = [ctrl EXCEPT !.bits = Next1.bits,
                          !.latency = IF Next1.latency = Keep THEN @ ELSE Next1.latency]
  /\ UNCHANGED <<where, chip>>

SetCrm ==
  /\ Doing("crm") /\ Readable /\ Advance
  /\ ctrl' = [ctrl EXCEPT !.bits = @ \cup {"crm"}]
  /\ UNCHANGED <<where, chip>>

XorCrm ==
  /\ Doing("toggle") /\ Readable /\ Advance
  /\ ctrl' = [ctrl EXCEPT !.bits = IF "crm" \in @ THEN @ \ {"crm"} ELSE @ \cup {"crm"}]
  /\ UNCHANGED <<where, chip>>

Compute == Doing("run") /\ Readable /\ Advance /\ UNCHANGED <<where, ctrl, chip>>

\* The worker runs from the stack, takes the controller's pins and gives them
\* back; a chip that is waiting for an address does not see its command.
CallWorker ==
  /\ Doing("call") /\ Readable /\ Advance
  /\ where' = "sram" /\ ctrl' = [ctrl EXCEPT !.enabled = FALSE]
  /\ UNCHANGED chip

Transfer ==
  /\ Doing("transfer") /\ Advance
  /\ chip' = IF Next1.wren /\ ~Continuous THEN [chip EXCEPT ![Next1.reg] = Next1.val] ELSE chip
  /\ UNCHANGED <<where, ctrl>>

ReturnFromWorker ==
  /\ Doing("return") /\ Advance
  /\ where' = "flash" /\ ctrl' = [ctrl EXCEPT !.enabled = TRUE]
  /\ UNCHANGED chip

\* What is read from the flash is not what was programmed: the core executes
\* anything.
ExecuteGarbage ==
  /\ where = "flash" /\ ~Readable /\ pc # "lost"
  /\ pc' = "lost" /\ todo' = <<>>
  /\ UNCHANGED <<machine, rep, uart, stuck, memtest>>

Operation == AssignMode \/ SetCrm \/ XorCrm \/ Compute \/ CallWorker \/ Transfer \/ ReturnFromWorker

(***************************************************************************)
(* main                                                                    *)
(***************************************************************************)
At(label) == pc = label /\ todo = <<>> /\ Readable

\* getchar_prompt polls until a character is there; asking again after a second
\* changes nothing.
GetChar == rx # Empty /\ rx' = Empty

PressEnter ==
  /\ At("enter") /\ GetChar
  /\ pc' = IF rx = "return" THEN "menu" ELSE "enter"
  /\ UNCHANGED <<machine, todo, rep, tx, clocks, stuck, memtest>>

ShowMenu ==
  /\ At("menu") /\ pc' = "command" /\ rep' = MenuRepeats
  /\ UNCHANGED <<machine, todo, uart, stuck, memtest>>

\* cmd_echo begins with the last character of its message on the line.
Idle == [pass |-> 0, phase |-> "write", said |-> "nothing"]
Dispatch ==
  /\ At("command") /\ GetChar
  /\ IF rx \in {"return", "x"}
     THEN /\ rep' = rep - 1 /\ pc' = IF rep = 1 THEN "menu" ELSE "command"
          /\ UNCHANGED <<todo, memtest, sending, slack>>
     ELSE /\ pc' = CASE rx = "M" -> "memtest" [] rx = "e" -> "echo" [] OTHER -> "menu"
          /\ todo' = IF rx \in {"M", "e"} THEN <<>> ELSE Command(rx)
          /\ memtest' = IF rx = "M" THEN [Idle EXCEPT !.pass = 1] ELSE memtest
          /\ sending' = IF rx = "e" THEN SendTime ELSE sending
          /\ slack' = IF rx = "e" THEN ProgramTime ELSE slack
          /\ UNCHANGED rep
  /\ UNCHANGED <<machine, tx, quiet, stuck>>

(***************************************************************************)
(* cmd_memtest: five passes that write and check one word in every 256,    *)
(* then one over the first 128 bytes                                       *)
(***************************************************************************)
Cycles == 5
Stride == 1024                      \* 256 words, in bytes
MemTotal == IF board = "HX8KDEMO" THEN 512 ELSE 131072
StackTop == IF board = "HX8KDEMO" THEN 1024 ELSE 131072
WordsTested == {a \in {Stride * k : k \in 0 .. 127} : a < MemTotal}
BytesTested == 0 .. 127

\* faulty: only the lowest byte of a word is compared
FailuresLowBytes == {a \in (IF memtest.pass <= Cycles THEN WordsTested ELSE BytesTested) : a \in stuck}

\* xorshift32 goes through its words in the same order in both loops of a pass,
\* so a word that was kept compares equal and one that was not does not.
Failures == IF memtest.pass <= Cycles THEN {a \in WordsTested : (a .. a + 3) \cap stuck # {}}
                                      ELSE BytesTested \cap stuck
MemtestWrite ==
  /\ At("memtest") /\ memtest.phase = "write"
  /\ memtest' = [memtest EXCEPT !.phase = "check"]
  /\ UNCHANGED <<machine, pc, todo, rep, uart, stuck>>

MemtestCheck ==
  /\ At("memtest") /\ memtest.phase = "check"
  /\ IF Failures # {} \/ memtest.pass > Cycles
     THEN /\ pc' = "menu"
          /\ memtest' = [memtest EXCEPT !.said = IF Failures # {} THEN "failed" ELSE "passed"]
     ELSE /\ pc' = pc
          /\ memtest' = [memtest EXCEPT !.pass = @ + 1, !.phase = "write"]
  /\ UNCHANGED <<machine, todo, rep, uart, stuck>>

(***************************************************************************)
(* cmd_echo and the UART.  The program accesses the UART when it likes,    *)
(* but within ProgramTime of its last access, or of the moment its access  *)
(* can succeed; characters come when they like, but Gap apart.             *)
(***************************************************************************)
\* faulty: the carriage return is sent on both sides of the newline
PutcharTwice(c) == IF c = "newline" THEN <<"return", "newline", "return">> ELSE <<c>>

putchar(c) == IF c = "newline" THEN <<"return", "newline">> ELSE <<c>>

\* The time is not counted outside cmd_echo.
StopClocks == sending' = 0 /\ slack' = 0 /\ quiet' = Gap

\* faulty: the end of the echo is looked for only while nothing is sent
EchoGetWhenIdle ==
  /\ At("echo") /\ tx = <<>> /\ GetChar
  /\ IF rx = "!" /\ sending = 0
     THEN pc' = "menu" /\ StopClocks /\ UNCHANGED tx
     ELSE tx' = putchar(rx) /\ slack' = ProgramTime /\ UNCHANGED <<pc, sending, quiet>>
  /\ UNCHANGED <<machine, todo, rep, stuck, memtest>>

EchoGet ==
  /\ At("echo") /\ tx = <<>> /\ GetChar
  /\ IF rx = "!"
     THEN pc' = "menu" /\ StopClocks /\ UNCHANGED tx
     ELSE tx' = putchar(rx) /\ slack' = ProgramTime /\ UNCHANGED <<pc, sending, quiet>>
  /\ UNCHANGED <<machine, todo, rep, stuck, memtest>>

\* A write to reg_uart_data waits while a character is being sent.
EchoPut ==
  /\ At("echo") /\ tx # <<>> /\ sending = 0
  /\ sending' = SendTime /\ tx' = Tail(tx) /\ slack' = ProgramTime
  /\ UNCHANGED <<machine, pc, todo, rep, rx, quiet, stuck, memtest>>

\* The stop bit of a character is in: it goes into the buffer, over the one
\* that is still there.  The program may have looked just before.
Receive(c) ==
  /\ At("echo") /\ quiet = Gap
  /\ rx' = c /\ quiet' = 0
  /\ slack' = IF tx = <<>> /\ rx = Empty THEN ProgramTime ELSE slack
  /\ UNCHANGED <<machine, pc, todo, rep, tx, sending, stuck, memtest>>

\* The program's time is up, and nothing keeps its access waiting.
Due == slack = 0 /\ IF tx = <<>> THEN rx # Empty ELSE sending = 0

Tick ==
  /\ At("echo") /\ ~Due
  /\ sending' = IF sending = 0 THEN 0 ELSE sending - 1
  /\ slack' = IF slack = 0 THEN 0 ELSE slack - 1
  /\ quiet' = IF quiet = Gap THEN Gap ELSE quiet + 1
  /\ UNCHANGED <<machine, pc, todo, rep, rx, tx, stuck, memtest>>

\* Outside cmd_echo the person answers a prompt.
AnswerPrompt ==
  /\ (At("enter") \/ At("command")) /\ rx = Empty
  /\ \E key \in Keys : rx' = key
  /\ UNCHANGED <<machine, pc, todo, rep, tx, clocks, stuck, memtest>>

(***************************************************************************)
(* The specification                                                       *)
(***************************************************************************)
\* The reset values of the controller (spimemio.v) and of the chip, and a RAM with
\* at most one fault.
Init ==
  /\ board \in Boards
  /\ where = "flash"
  /\ ctrl = [enabled |-> TRUE, bits |-> {}, latency |-> 8]
  /\ chip = [quad |-> FALSE, latency |-> 8]
  /\ pc = "enter" /\ todo = set_flash_qspi_flag
  /\ rep = MenuRepeats
  /\ rx = Empty /\ tx = <<>> /\ sending = 0 /\ slack = 0 /\ quiet = Gap
  /\ stuck \in {{}} \cup {{a} : a \in {f \in FaultyCells : f < StackTop}}
  /\ memtest = Idle

Main == PressEnter \/ ShowMenu \/ Dispatch \/ MemtestWrite \/ MemtestCheck \/ EchoGet \/ EchoPut
Program == Operation \/ Main
Next == Program \/ ExecuteGarbage \/ AnswerPrompt \/ Tick \/ \E c \in Typed : Receive(c)

PicoSpec == Init /\ [][Next]_vars /\ WF_vars(Program) /\ WF_vars(Tick)

(***************************************************************************)
(* Properties                                                              *)
(***************************************************************************)

\* The program reconfigures the controller and the chip it is being executed
\* from, in several steps (set_flash_latency, set_flash_mode_*, flashio).  In
\* every setting it passes through the core can go on fetching: the controller
\* is on while code is fetched through it, the quad flag is set before the
\* modes that need it are used, the latencies of the two agree whenever dummy
\* cycles are sent.  The one exception is entry 7 of the menu chosen in the
\* plain SPI mode: CRM alone is no valid setting (README.md of picosoc).
CodeReadable ==
  where = "flash" => Readable \/ (ctrl.enabled /\ ctrl.bits = {"crm"})

\* The chip understands what cmd_read_flash_regs and set_flash_qspi_flag rely on:
\* every write of a register, every read of the configuration register that is
\* written back, and on the HX8K board every read of a register.  Each is sent
\* only while the chip listens to commands, which set_flash_latency reaches by
\* assigning reg_spictrl first; RDAR sends one dummy byte, so the HX8K's chip
\* answers it right only with a latency of 8 cycles, which
\* cmd_read_flash_regs_print sets for this.  Nothing of the kind holds of entry 1
\* of the menu, nor of entry 2 on the iCEBreaker: chosen in continuous read mode
\* they send their command to a chip that expects an address, and print what
\* comes back.
RegistersUnderstood ==
  [][Doing("transfer") /\ todo' # todo =>
       /\ Next1.wren \/ Next1.reg = "quad" \/ (board = "HX8KDEMO" /\ Next1.reg = "status")
            => ~Continuous
       /\ board = "HX8KDEMO" /\ Next1.reg # "id" /\ ~Next1.wren => chip.latency = 8]_vars

\* cmd_echo sends two characters for a newline, and the UART buffers one.  No
\* character comes in over one that has not been read, if the characters come no
\* faster than one in Gap: the time for both characters of a newline at the pace
\* of the slower of the program and the transmitter, and what they were behind.
NoOverrun ==
  [][\A c \in Typed : Receive(c) => rx = Empty]_vars

\* "Return to menu by sending '!'" (cmd_echo): also while the transmitter is busy
\* with what came before, and whatever is typed after it.
EchoReturns == pc = "echo" /\ rx = "!" ~> pc = "menu"

\* What cmd_memtest says is true of the bytes it visits, and only of those: on the
\* HX8K board one word and the first 128 bytes.
MemtestVerdict ==
  LET tested == (UNION {a .. a + 3 : a \in WordsTested}) \cup BytesTested
  IN memtest.said # "nothing" => (memtest.said = "passed") = (stuck \cap tested = {})
=============================================================================
