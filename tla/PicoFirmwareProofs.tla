------------------------- MODULE PicoFirmwareProofs -------------------------
(***************************************************************************)
(* Proofs about the memory test, the echo and the settings of the flash of *)
(* the PicoSoC firmware, for every broken byte, every pace of the program, *)
(* the transmitter and the person that EchoKeepsUp allows, and every order *)
(* of menu entries.                                                        *)
(***************************************************************************)
EXTENDS PicoFirmware, TLAPS

\* The steps that do not touch the memory test; a menu entry may begin one.
Elsewhere == UNCHANGED <<board, stuck, memtest>>

LEMMA OperationsElsewhere ==
  ASSUME Operation \/ ExecuteGarbage
  PROVE  Elsewhere /\ UNCHANGED uart /\ (pc' = pc \/ pc' = "lost")
<1>1. CASE Operation
  BY <1>1 DEF Operation, AssignMode, SetCrm, XorCrm, Compute, CallWorker, Transfer,
              ReturnFromWorker, Advance, Elsewhere
<1>2. CASE ExecuteGarbage
  BY <1>2 DEF ExecuteGarbage, Elsewhere, machine
<1> QED BY <1>1, <1>2

(***************************************************************************)
(* cmd_memtest                                                             *)
(***************************************************************************)
\* a pass over the words finds a fault
Found == {a \in WordsTested : (a .. a + 3) \cap stuck # {}} # {}

\* Each pass over the words finds the same, and a pass that comes after another
\* is reached only if that one found nothing.
MemtestInv ==
  /\ memtest \in [pass : 0 .. Cycles + 1, phase : {"write", "check"},
                  said : {"nothing", "passed", "failed"}]
  /\ memtest.pass > 1 => ~Found
  /\ memtest.said = "passed" => ~Found /\ BytesTested \cap stuck = {}
  /\ memtest.said = "failed" => Found \/ BytesTested \cap stuck # {}

LEMMA CheckKeeps == MemtestInv /\ MemtestCheck => MemtestInv'
<1> SUFFICES ASSUME MemtestInv, MemtestCheck PROVE MemtestInv'
  OBVIOUS
<1> DEFINE p == memtest.pass
<1>1. /\ p \in 0 .. Cycles + 1 /\ (p > 1 => ~Found)
      /\ memtest.phase = "check" /\ UNCHANGED <<board, stuck>> /\ Cycles = 5
  BY DEF MemtestInv, MemtestCheck, machine, Cycles
<1>2. Found' = Found /\ BytesTested' = BytesTested
  BY <1>1 DEF Found, WordsTested, MemTotal, BytesTested
<1>3. /\ p <= Cycles => (Failures # {} <=> Found)
      /\ p > Cycles => Failures = BytesTested \cap stuck
  <2>1. CASE p <= Cycles
    BY <1>1, <2>1 DEF Failures, Found
  <2>2. CASE p > Cycles
    <3>1. ~(memtest.pass <= Cycles)
      BY <1>1, <2>2
    <3> QED BY <3>1, <2>2 DEF Failures
  <2> QED BY <1>1, <2>1, <2>2
<1>4. CASE Failures # {} \/ p > Cycles
  <2>1. memtest' = [memtest EXCEPT !.said = IF Failures # {} THEN "failed" ELSE "passed"]
    BY <1>4 DEF MemtestCheck
  <2>2. /\ memtest' \in [pass : 0 .. Cycles + 1, phase : {"write", "check"},
                         said : {"nothing", "passed", "failed"}]
        /\ memtest'.pass = p
        /\ memtest'.said = IF Failures # {} THEN "failed" ELSE "passed"
    BY <2>1 DEF MemtestInv
  <2> QED BY <1>1, <1>2, <1>3, <1>4, <2>2 DEF MemtestInv
<1>5. CASE ~(Failures # {} \/ p > Cycles)
  <2>1. memtest' = [memtest EXCEPT !.pass = @ + 1, !.phase = "write"]
    BY <1>5 DEF MemtestCheck
  <2>2. /\ memtest' \in [pass : 0 .. Cycles + 1, phase : {"write", "check"},
                         said : {"nothing", "passed", "failed"}]
        /\ memtest'.said = memtest.said
    <3>1. p + 1 \in 0 .. Cycles + 1
      BY <1>1, <1>5
    <3> QED BY <2>1, <3>1 DEF MemtestInv
  <2>3. ~Found
    BY <1>1, <1>3, <1>5
  <2> QED BY <1>1, <1>2, <2>2, <2>3 DEF MemtestInv
<1> QED BY <1>4, <1>5

LEMMA MemtestKept == MemtestInv /\ [Next]_vars => MemtestInv'
<1> SUFFICES ASSUME MemtestInv, [Next]_vars PROVE MemtestInv'
  OBVIOUS
<1>1. ASSUME Elsewhere PROVE MemtestInv'
  BY <1>1 DEF Elsewhere, MemtestInv, Found, WordsTested, MemTotal, BytesTested, Cycles
<1>2. CASE Operation \/ ExecuteGarbage
  BY <1>1, <1>2, OperationsElsewhere
<1>3. CASE \/ PressEnter \/ ShowMenu \/ EchoGet \/ EchoPut \/ AnswerPrompt \/ Tick
           \/ \E c \in Typed : Receive(c)
  BY <1>1, <1>3
  DEF PressEnter, ShowMenu, EchoGet, EchoPut, AnswerPrompt, Tick, Receive, Elsewhere, machine
<1>4. CASE Dispatch
  <2>1. UNCHANGED <<board, stuck>> /\ memtest' \in {memtest, [Idle EXCEPT !.pass = 1]}
    BY <1>4 DEF Dispatch, machine
  <2>2. CASE memtest' = memtest
    BY <1>1, <2>1, <2>2 DEF Elsewhere
  <2>3. CASE memtest' = [Idle EXCEPT !.pass = 1]
    <3>1. memtest' = [pass |-> 1, phase |-> "write", said |-> "nothing"]
      BY <2>3 DEF Idle
    <3> QED BY <3>1 DEF MemtestInv, Cycles
  <2> QED BY <2>1, <2>2, <2>3
<1>5. CASE MemtestWrite
  <2>1. UNCHANGED <<board, stuck>> /\ memtest' = [memtest EXCEPT !.phase = "check"]
    BY <1>5 DEF MemtestWrite, machine
  <2>2. Found' = Found /\ BytesTested' = BytesTested
    BY <2>1 DEF Found, WordsTested, MemTotal, BytesTested
  <2> QED BY <2>1, <2>2 DEF MemtestInv
<1>6. CASE MemtestCheck
  BY <1>6, CheckKeeps
<1>7. CASE UNCHANGED vars
  BY <1>1, <1>7 DEF vars, machine, Elsewhere
<1> QED BY <1>2, <1>3, <1>4, <1>5, <1>6, <1>7 DEF Next, Program, Main

\* What the memory test of the PicoSoC firmware prints is true of the bytes it
\* visits and of no others, wherever the RAM is broken (cmd_memtest of
\* legacy/picosoc/firmware.c).
THEOREM VerdictIsTrue == PicoSpec => []MemtestVerdict
<1>1. Init => MemtestInv
  <2> SUFFICES ASSUME Init PROVE MemtestInv
    OBVIOUS
  <2>1. memtest = [pass |-> 0, phase |-> "write", said |-> "nothing"]
    BY DEF Init, Idle
  <2> QED BY <2>1 DEF MemtestInv, Cycles
<1>2. MemtestInv => MemtestVerdict
  <2> SUFFICES ASSUME MemtestInv, memtest.said # "nothing"
               PROVE  (memtest.said = "passed") =
                        (stuck \cap ((UNION {a .. a + 3 : a \in WordsTested}) \cup BytesTested) = {})
    BY DEF MemtestVerdict
  <2>1. (stuck \cap ((UNION {a .. a + 3 : a \in WordsTested}) \cup BytesTested) = {}) <=>
          ~Found /\ BytesTested \cap stuck = {}
    BY DEF Found
  <2> QED BY <2>1 DEF MemtestInv
<1> QED BY <1>1, <1>2, MemtestKept, PTL DEF PicoSpec

(***************************************************************************)
(* cmd_echo                                                                *)
(***************************************************************************)
\* Between two characters there is time for both characters of a newline, each
\* at the pace of the slower of the program and the transmitter, and before them
\* for the program to read the newline and begin with it, or for the transmitter
\* to finish what it was sending.
EchoKeepsUp ==
  /\ Gap >= 3 * ProgramTime
  /\ Gap >= 2 * ProgramTime + SendTime
  /\ Gap >= 2 * SendTime

\* What putchar still has to send: nothing, a character, or what a newline is
\* sent as.  A character in the buffer has been there no longer than the program
\* may take, and the transmitter has been at work as long; what is still to be
\* sent is handed over by the time the next character may come, so that one
\* finds the buffer empty.
OneCharacter == tx # <<>> /\ Tail(tx) = <<>>
TwoCharacters == <<"return", "newline">>
ClocksInv ==
  sending \in 0 .. SendTime /\ slack \in 0 .. ProgramTime /\ quiet \in 0 .. Gap
BufferInv ==
  rx # Empty =>
    /\ tx = <<>> => /\ quiet + slack <= ProgramTime
                    /\ sending = 0 \/ quiet + sending <= SendTime
    /\ tx # <<>> => OneCharacter /\ quiet = 0 /\ slack = 0 /\ sending = 0
SendInv ==
  rx = Empty =>
    /\ OneCharacter => quiet + slack <= Gap /\ quiet + sending <= Gap
    /\ tx = TwoCharacters =>
         /\ quiet + slack + ProgramTime <= Gap /\ quiet + slack + SendTime <= Gap
         /\ quiet + sending + ProgramTime <= Gap /\ quiet + sending + SendTime <= Gap
EchoInv ==
  /\ ClocksInv
  /\ pc \notin {"echo", "lost"} => tx = <<>>
  /\ pc = "echo" =>
       (tx = <<>> \/ OneCharacter \/ tx = TwoCharacters) /\ BufferInv /\ SendInv

LEMMA Characters ==
  /\ TwoCharacters # <<>> /\ Tail(TwoCharacters) = <<"newline">> /\ Tail(TwoCharacters) # <<>>
  /\ \A c : <<c>> # <<>> /\ Tail(<<c>>) = <<>> /\ <<c>> # TwoCharacters
  BY DEF TwoCharacters

LEMMA EchoGetKeeps ==
  ASSUME EchoKeepsUp, EchoInv, EchoGet
  PROVE  EchoInv'
<1>1. pc = "echo" /\ tx = <<>> /\ rx # Empty /\ rx' = Empty
  BY DEF EchoGet, At, GetChar
<1>2. quiet + slack <= ProgramTime /\ (sending = 0 \/ quiet + sending <= SendTime)
  BY <1>1 DEF EchoInv, BufferInv
<1>3. CASE rx = "!"
  <2>1. pc' = "menu" /\ tx' = <<>> /\ StopClocks
    BY <1>1, <1>3 DEF EchoGet
  <2>2. ClocksInv'
    BY <2>1, TimesAssumption DEF StopClocks, ClocksInv
  <2> QED BY <2>1, <2>2 DEF EchoInv
<1>4. CASE rx # "!"
  <2>1. tx' = putchar(rx) /\ slack' = ProgramTime /\ UNCHANGED <<pc, sending, quiet>>
    BY <1>4 DEF EchoGet
  <2>2. \/ tx' = TwoCharacters /\ ~OneCharacter'
        \/ tx' # TwoCharacters /\ OneCharacter'
    BY <2>1, Characters DEF putchar, OneCharacter, TwoCharacters
  <2>3. ClocksInv'
    BY <2>1, TimesAssumption DEF ClocksInv, EchoInv
  <2>4. SendInv'
    BY <1>2, <2>1, TimesAssumption DEF SendInv, EchoKeepsUp, EchoInv, ClocksInv
  <2> QED BY <1>1, <2>1, <2>2, <2>3, <2>4 DEF EchoInv, BufferInv
<1> QED BY <1>3, <1>4

LEMMA EchoPutKeeps ==
  ASSUME EchoInv, EchoPut
  PROVE  EchoInv'
<1>1. /\ pc = "echo" /\ tx # <<>> /\ sending = 0
      /\ sending' = SendTime /\ tx' = Tail(tx) /\ slack' = ProgramTime
      /\ UNCHANGED <<pc, rx, quiet>>
  BY DEF EchoPut, At
<1>2. ClocksInv'
  BY <1>1, TimesAssumption DEF ClocksInv, EchoInv
<1>3. CASE OneCharacter
  <2>1. tx' = <<>> /\ ~OneCharacter' /\ tx' # TwoCharacters
    BY <1>1, <1>3, Characters DEF OneCharacter
  <2>2. rx # Empty => quiet = 0
    BY <1>1 DEF EchoInv, BufferInv
  <2>3. BufferInv' /\ SendInv'
    BY <1>1, <2>1, <2>2, TimesAssumption DEF BufferInv, SendInv
  <2> QED BY <1>1, <1>2, <2>1, <2>3 DEF EchoInv
<1>4. CASE tx = TwoCharacters /\ ~OneCharacter
  <2>1. tx' = <<"newline">> /\ OneCharacter' /\ tx' # TwoCharacters
    BY <1>1, <1>4, Characters DEF OneCharacter
  <2>2. rx = Empty
    BY <1>1, <1>4 DEF EchoInv, BufferInv
  <2>3. SendInv'
    BY <1>1, <1>4, <2>1, <2>2, TimesAssumption DEF SendInv, EchoInv, ClocksInv
  <2> QED BY <1>1, <1>2, <2>1, <2>2, <2>3 DEF EchoInv, BufferInv
<1> QED BY <1>1, <1>3, <1>4 DEF EchoInv

LEMMA ReceiveKeeps ==
  ASSUME EchoKeepsUp, EchoInv, NEW c, Receive(c)
  PROVE  EchoInv' /\ rx = Empty
<1>1. /\ pc = "echo" /\ quiet = Gap /\ rx' = c /\ quiet' = 0
      /\ slack' = IF tx = <<>> /\ rx = Empty THEN ProgramTime ELSE slack
      /\ UNCHANGED <<pc, tx, sending>>
  BY DEF Receive, At, machine
<1>2. ClocksInv /\ ClocksInv'
  BY <1>1, TimesAssumption DEF ClocksInv, EchoInv
<1>3. rx = Empty
  BY <1>1, <1>2, TimesAssumption DEF EchoInv, BufferInv, EchoKeepsUp, ClocksInv
<1>4. tx # <<>> => OneCharacter /\ slack = 0 /\ sending = 0
  BY <1>1, <1>2, <1>3, TimesAssumption DEF EchoInv, SendInv, ClocksInv
<1>5. (tx = <<>> \/ OneCharacter')  /\ (OneCharacter <=> OneCharacter')
  BY <1>1, <1>4 DEF OneCharacter
<1>6. tx # TwoCharacters
  BY <1>4, Characters DEF OneCharacter
<1>7. BufferInv'
  BY <1>1, <1>2, <1>3, <1>4, <1>5, TimesAssumption DEF BufferInv, ClocksInv
<1>8. SendInv'
  BY <1>1, <1>2, <1>4, <1>5, <1>6, TimesAssumption DEF SendInv, ClocksInv, OneCharacter
<1> QED BY <1>1, <1>2, <1>3, <1>5, <1>7, <1>8 DEF EchoInv

LEMMA TickKeeps ==
  ASSUME EchoInv, Tick
  PROVE  EchoInv'
<1>1. /\ pc = "echo" /\ ~Due /\ UNCHANGED <<pc, rx, tx>>
      /\ sending' = IF sending = 0 THEN 0 ELSE sending - 1
      /\ slack' = IF slack = 0 THEN 0 ELSE slack - 1
      /\ quiet' = IF quiet = Gap THEN Gap ELSE quiet + 1
  BY DEF Tick, At
<1>2. /\ ClocksInv /\ ClocksInv' /\ quiet' <= quiet + 1
      /\ ProgramTime \in Nat /\ SendTime \in Nat /\ Gap \in Nat
  BY <1>1, TimesAssumption DEF ClocksInv, EchoInv
<1>3. OneCharacter' <=> OneCharacter
  BY <1>1 DEF OneCharacter
<1>4. BufferInv'
  <2>1. CASE rx # Empty /\ tx = <<>>
    <3>1. /\ slack # 0 /\ quiet + slack <= ProgramTime
          /\ sending = 0 \/ quiet + sending <= SendTime
      BY <1>1, <2>1 DEF Due, EchoInv, BufferInv
    <3>2. quiet' + slack' <= ProgramTime
      BY <1>1, <1>2, <3>1 DEF ClocksInv
    <3>3. sending' = 0 \/ quiet' + sending' <= SendTime
      BY <1>1, <1>2, <3>1 DEF ClocksInv
    <3> QED BY <1>1, <2>1, <3>2, <3>3 DEF BufferInv
  <2>2. CASE rx # Empty /\ tx # <<>>
    BY <1>1, <2>2 DEF Due, EchoInv, BufferInv
  <2> QED BY <1>1, <2>1, <2>2 DEF BufferInv
<1>5. SendInv'
  <2>1. tx # <<>> => slack # 0 \/ sending # 0
    BY <1>1 DEF Due
  <2> QED BY <1>1, <1>2, <1>3, <2>1, Characters DEF EchoInv, SendInv, ClocksInv, OneCharacter
<1> QED BY <1>1, <1>2, <1>3, <1>4, <1>5 DEF EchoInv

LEMMA EchoKept ==
  ASSUME EchoKeepsUp
  PROVE  EchoInv /\ [Next]_vars => EchoInv'
<1> SUFFICES ASSUME EchoInv, [Next]_vars PROVE EchoInv'
  OBVIOUS
<1>1. ASSUME UNCHANGED uart, pc' = pc \/ pc' = "lost" PROVE EchoInv'
  BY <1>1 DEF uart, clocks, EchoInv, ClocksInv, BufferInv, SendInv, OneCharacter
<1>2. CASE Operation \/ ExecuteGarbage
  BY <1>1, <1>2, OperationsElsewhere
<1>3. CASE PressEnter \/ ShowMenu \/ MemtestWrite \/ MemtestCheck \/ AnswerPrompt
  <2>1. UNCHANGED <<tx, clocks>> /\ pc \notin {"echo", "lost"} /\ pc' \notin {"echo", "lost"}
    BY <1>3 DEF PressEnter, ShowMenu, MemtestWrite, MemtestCheck, AnswerPrompt, At, uart
  <2> QED BY <2>1 DEF EchoInv, ClocksInv, clocks
<1>4. CASE Dispatch
  <2>1. /\ UNCHANGED <<tx, quiet>> /\ rx' = Empty
        /\ sending' \in {sending, SendTime} /\ slack' \in {slack, ProgramTime}
        /\ pc = "command" /\ pc' \in {"menu", "command", "memtest", "echo"}
    BY <1>4 DEF Dispatch, At, GetChar
  <2>2. ClocksInv' /\ tx' = <<>>
    BY <2>1, TimesAssumption DEF EchoInv, ClocksInv
  <2>3. ~OneCharacter' /\ tx' # TwoCharacters
    BY <2>2, Characters DEF OneCharacter
  <2> QED BY <2>1, <2>2, <2>3 DEF EchoInv, BufferInv, SendInv
<1>5. CASE EchoGet \/ EchoPut
  BY <1>5, EchoGetKeeps, EchoPutKeeps
<1>6. CASE Tick \/ \E c \in Typed : Receive(c)
  BY <1>6, TickKeeps, ReceiveKeeps
<1>7. CASE UNCHANGED vars
  BY <1>1, <1>7 DEF vars
<1> QED BY <1>2, <1>3, <1>4, <1>5, <1>6, <1>7 DEF Next, Program, Main

\* cmd_echo sends two characters for a newline, and the UART buffers one: still
\* no character comes in over one that has not been read, whatever is typed, if
\* the time between two characters covers two sends and what the program or the
\* transmitter was behind (legacy/picosoc/firmware.c, recv_buf_data of
\* simpleuart.v).  How fast the program and the transmitter are is left open.
THEOREM EchoesAll ==
  ASSUME EchoKeepsUp
  PROVE  PicoSpec => NoOverrun
<1>1. Init => EchoInv
  <2> SUFFICES ASSUME Init PROVE EchoInv
    OBVIOUS
  <2>1. sending = 0 /\ slack = 0 /\ quiet = Gap /\ tx = <<>> /\ pc = "enter"
    BY DEF Init
  <2> QED BY <2>1, TimesAssumption DEF EchoInv, ClocksInv
<1>2. EchoInv /\ [Next]_vars => EchoInv'
  BY EchoKept
<1>3. EchoInv /\ [Next]_vars => [\A c \in Typed : Receive(c) => rx = Empty]_vars
  BY ReceiveKeeps
<1> QED BY <1>1, <1>2, <1>3, PTL DEF PicoSpec, NoOverrun

(***************************************************************************)
(* The settings of the flash                                               *)
(***************************************************************************)
Bits == {"ddr", "qspi", "crm"}
Ops == [op : {"mode"}, bits : SUBSET Bits, latency : 0 .. Keep]
         \cup [op : {"crm", "toggle", "run", "call", "return"}]
         \cup [op : {"transfer"}, reg : {"id", "status", "latency"}, val : 0 .. 15, wren : BOOLEAN]

\* the operations that change the number of dummy cycles of the controller and
\* of the chip
SetsController(o) == o.op = "mode" /\ o.latency # Keep
WritesChip(o) == o.op = "transfer" /\ o.wren = TRUE

\* What the i-th operation of a list owes to its neighbours.  On the HX8K board
\* the controller and then the chip get the same new latency, in the plain mode;
\* on the iCEBreaker a mode comes with the latency of its read command.
SettingFits(s, i) ==
  LET o == s[i]
  IN  SetsController(o) /\ board = "HX8KDEMO" =>
        /\ o.bits = {} /\ i + 2 <= Len(s)
        /\ s[i + 1].op = "call"
        /\ WritesChip(s[i + 2]) /\ s[i + 2].val = o.latency

ReadLatency(bits) == IF "qspi" \notin bits THEN 0 ELSE IF "ddr" \in bits THEN 7 ELSE 4
ModeFits(o) == o.op = "mode" /\ board = "ICEBREAKER" => o.latency = ReadLatency(o.bits)

CallFits(s, i) ==
  /\ s[i].op = "transfer" => i > 1 /\ s[i - 1].op = "call"
  /\ s[i].op = "return" => i > 1 /\ s[i - 1].op = "transfer"

WriteFits(s, i) ==
  WritesChip(s[i]) =>
    /\ board = "HX8KDEMO" /\ s[i].reg = "latency"
    /\ i > 2 /\ SetsController(s[i - 2]) /\ s[i - 2].latency = s[i].val

\* A register is read after the latency became 8.
ReadFits(s, i) ==
  s[i].op = "transfer" /\ ~WritesChip(s[i]) /\ s[i].reg # "id" /\ board = "HX8KDEMO" =>
    /\ i > 3 /\ s[i - 2].op = "return"
    /\ WritesChip(s[i - 3]) /\ s[i - 3].val = 8

Fits(s, i) ==
  SettingFits(s, i) /\ ModeFits(s[i]) /\ CallFits(s, i) /\ WriteFits(s, i) /\ ReadFits(s, i)

Sound(s) == s \in Seq(Ops) /\ \A i \in 1 .. Len(s) : Fits(s, i)

LEMMA SoundConcat ==
  ASSUME NEW s, NEW t, Sound(s), Sound(t)
  PROVE  Sound(s \o t)
<1> DEFINE u == s \o t
<1>1. /\ s \in Seq(Ops) /\ t \in Seq(Ops) /\ u \in Seq(Ops)
      /\ Len(s) \in Nat /\ Len(t) \in Nat /\ Len(u) = Len(s) + Len(t)
  BY DEF Sound
<1>2. \A i \in 1 .. Len(s) : u[i] = s[i]
  BY <1>1
<1>3. \A i \in 1 .. Len(t) : u[Len(s) + i] = t[i]
  BY <1>1
<1> HIDE DEF u
<1> DEFINE m == Len(s)
           n == Len(t)
<1>4. m \in Nat /\ n \in Nat /\ Len(u) = m + n
  BY <1>1
<1>5. (\A i \in 1 .. m : u[i] = s[i]) /\ (\A i \in 1 .. n : u[m + i] = t[i])
  BY <1>2, <1>3
<1> SUFFICES \A i \in 1 .. Len(u) : Fits(u, i)
  BY <1>1 DEF Sound, u
<1>6. (\A i \in 1 .. Len(s) : Fits(s, i)) /\ (\A i \in 1 .. Len(t) : Fits(t, i))
  BY DEF Sound
<1>7. ASSUME NEW i \in 1 .. m PROVE Fits(u, i)
  <2>1. Fits(s, i)
    BY <1>6
  <2>2. /\ i \in Nat /\ u[i] = s[i]
        /\ i + 2 <= m => u[i + 1] = s[i + 1] /\ u[i + 2] = s[i + 2] /\ i + 2 <= Len(u)
        /\ i > 1 => u[i - 1] = s[i - 1]
        /\ i > 2 => u[i - 2] = s[i - 2]
        /\ i > 3 => u[i - 3] = s[i - 3]
    <3> HIDE DEF m, n
    <3> QED BY <1>4, <1>5
  <2>3. SettingFits(u, i)
    BY <2>1, <2>2 DEF Fits, SettingFits
  <2>4. CallFits(u, i) /\ ModeFits(u[i])
    BY <2>1, <2>2 DEF Fits, CallFits
  <2>5. WriteFits(u, i)
    BY <2>1, <2>2 DEF Fits, WriteFits
  <2>6. ReadFits(u, i)
    BY <2>1, <2>2 DEF Fits, ReadFits
  <2> QED BY <2>3, <2>4, <2>5, <2>6 DEF Fits
<1>8. ASSUME NEW i \in m + 1 .. m + n PROVE Fits(u, i)
  <2> DEFINE j == i - m
  <2>1. j \in 1 .. n
    <3> HIDE DEF m, n
    <3> QED BY <1>4
  <2>2. Fits(t, j)
    BY <1>6, <2>1
  <2>3. /\ i \in Nat /\ j \in Nat /\ i >= j /\ u[i] = t[j]
        /\ j + 2 <= n => u[i + 1] = t[j + 1] /\ u[i + 2] = t[j + 2] /\ i + 2 <= Len(u)
        /\ j > 1 => u[i - 1] = t[j - 1]
        /\ j > 2 => u[i - 2] = t[j - 2]
        /\ j > 3 => u[i - 3] = t[j - 3]
    <3> HIDE DEF m, n
    <3>1. ASSUME NEW k \in 1 .. n PROVE u[m + k] = t[k]
      BY <1>5
    <3>2. i = m + j /\ i + 1 = m + (j + 1) /\ i + 2 = m + (j + 2) /\ i - 1 = m + (j - 1)
          /\ i - 2 = m + (j - 2) /\ i - 3 = m + (j - 3) /\ i \in Nat /\ j \in Nat /\ i >= j
      BY <1>4, <2>1
    <3>3. j + 2 <= n => j + 1 \in 1 .. n /\ j + 2 \in 1 .. n /\ i + 2 <= Len(u)
      BY <1>4, <2>1
    <3>4. /\ j > 1 => j - 1 \in 1 .. n
          /\ j > 2 => j - 2 \in 1 .. n
          /\ j > 3 => j - 3 \in 1 .. n
      BY <1>4, <2>1
    <3> HIDE DEF j
    <3> QED BY <2>1, <3>1, <3>2, <3>3, <3>4
  <2> HIDE DEF j
  <2>4. SettingFits(u, i)
    BY <2>2, <2>3 DEF Fits, SettingFits
  <2>5. CallFits(u, i) /\ ModeFits(u[i])
    BY <2>2, <2>3 DEF Fits, CallFits
  <2>6. WriteFits(u, i)
    BY <2>2, <2>3 DEF Fits, WriteFits
  <2>7. ReadFits(u, i)
    BY <2>2, <2>3 DEF Fits, ReadFits
  <2> QED BY <2>4, <2>5, <2>6, <2>7 DEF Fits
<1>9. \A i \in 1 .. Len(u) : i \in 1 .. m \/ i \in m + 1 .. m + n
  <2> HIDE DEF m, n
  <2> QED BY <1>4
<1> QED BY <1>7, <1>8, <1>9

\* one operation that needs no neighbour
LEMMA SoundAlone ==
  ASSUME NEW o \in Ops,
         \/ o.op \in {"crm", "toggle", "run"}
         \/ /\ o.op = "mode"
            /\ board = "HX8KDEMO" => o.latency = Keep
            /\ ModeFits(o)
  PROVE  Sound(<<o>>)
<1> DEFINE s == <<o>>
<1>1. s \in Seq(Ops) /\ Len(s) = 1 /\ s[1] = o
  OBVIOUS
<1> HIDE DEF s
<1>2. Fits(s, 1)
  BY <1>1 DEF Fits, SettingFits, ModeFits, CallFits, WriteFits, ReadFits, SetsController, WritesChip
<1>3. \A i \in 1 .. Len(s) : i = 1
  BY <1>1
<1> QED BY <1>1, <1>2, <1>3 DEF Sound, s

LEMMA ReadList ==
  ASSUME NEW reg \in {"id", "status"}
  PROVE  LET s == Read(reg)
         IN  /\ Len(s) = 3 /\ s \in Seq(Ops)
             /\ s[1] = [op |-> "call"] /\ s[3] = [op |-> "return"]
             /\ s[2] = [op |-> "transfer", reg |-> reg, val |-> 0, wren |-> FALSE]
<1> DEFINE c == [op |-> "call"]
           w == [op |-> "transfer", reg |-> reg, val |-> 0, wren |-> FALSE]
           r == [op |-> "return"]
<1>1. Read(reg) = <<c, w, r>>
  BY DEF Read, flashio
<1>2. c \in Ops /\ w \in Ops /\ r \in Ops
  BY DEF Ops
<1> HIDE DEF c, w, r
<1>3. LET s == <<c, w, r>> IN Len(s) = 3 /\ s \in Seq(Ops) /\ s[1] = c /\ s[2] = w /\ s[3] = r
  BY <1>2
<1> QED BY <1>1, <1>3 DEF c, w, r

LEMMA SoundRead == ASSUME NEW reg \in {"id", "status"}, board = "ICEBREAKER" \/ reg = "id"
                   PROVE  Sound(Read(reg))
<1> DEFINE s == Read(reg)
<1>1. /\ Len(s) = 3 /\ s \in Seq(Ops)
      /\ s[1] = [op |-> "call"] /\ s[3] = [op |-> "return"]
      /\ s[2] = [op |-> "transfer", reg |-> reg, val |-> 0, wren |-> FALSE]
  BY ReadList
<1> HIDE DEF s
<1>2. Fits(s, 1) /\ Fits(s, 2) /\ Fits(s, 3)
  BY <1>1 DEF Fits, SettingFits, ModeFits, CallFits, WriteFits, ReadFits, SetsController, WritesChip
<1>3. \A i \in 1 .. Len(s) : i \in {1, 2, 3}
  BY <1>1
<1> QED BY <1>1, <1>2, <1>3 DEF Sound, s

LEMMA SetLatencyList ==
  ASSUME NEW v \in 1 .. 8
  PROVE  LET s == set_flash_latency(v)
         IN  /\ Len(s) = 4 /\ s \in Seq(Ops)
             /\ s[1] = [op |-> "mode", bits |-> {}, latency |-> v]
             /\ s[2] = [op |-> "call"] /\ s[4] = [op |-> "return"]
             /\ s[3] = [op |-> "transfer", reg |-> "latency", val |-> v, wren |-> TRUE]
<1> DEFINE m == [op |-> "mode", bits |-> {}, latency |-> v]
           c == [op |-> "call"]
           w == [op |-> "transfer", reg |-> "latency", val |-> v, wren |-> TRUE]
           r == [op |-> "return"]
<1>1. Mode({}, v % 16) = <<m>>
  <2>1. v % 16 = v
    OBVIOUS
  <2> QED BY <2>1 DEF Mode
<1>2. flashio("latency", v, 6) = <<c, w, r>>
  <2>1. (6 # 0) = TRUE
    OBVIOUS
  <2>2. w = [op |-> "transfer", reg |-> "latency", val |-> v, wren |-> 6 # 0]
    BY <2>1
  <2> QED BY <2>2 DEF flashio
<1>3. m \in Ops /\ c \in Ops /\ w \in Ops /\ r \in Ops
  BY DEF Ops, Bits, Keep
<1> HIDE DEF m, c, w, r
<1>4. <<m>> \in Seq(Ops) /\ <<c, w, r>> \in Seq(Ops)
  BY <1>3
<1>5. LET s == <<m>> \o <<c, w, r>>
      IN  Len(s) = 4 /\ s \in Seq(Ops) /\ s[1] = m /\ s[2] = c /\ s[3] = w /\ s[4] = r
  BY <1>4
<1> QED BY <1>1, <1>2, <1>5 DEF m, c, w, r, set_flash_latency

LEMMA SoundSetLatency ==
  ASSUME board = "HX8KDEMO", NEW v \in 1 .. 8
  PROVE  Sound(set_flash_latency(v))
<1> DEFINE s == set_flash_latency(v)
<1>1. /\ Len(s) = 4 /\ s \in Seq(Ops)
      /\ s[1] = [op |-> "mode", bits |-> {}, latency |-> v]
      /\ s[2] = [op |-> "call"] /\ s[4] = [op |-> "return"]
      /\ s[3] = [op |-> "transfer", reg |-> "latency", val |-> v, wren |-> TRUE]
  BY SetLatencyList
<1> HIDE DEF s
<1>2. Fits(s, 1) /\ Fits(s, 2) /\ Fits(s, 3) /\ Fits(s, 4)
  BY <1>1 DEF Fits, SettingFits, ModeFits, CallFits, WriteFits, ReadFits, SetsController, WritesChip, Keep
<1>3. \A i \in 1 .. Len(s) : i \in {1, 2, 3, 4}
  BY <1>1
<1> QED BY <1>1, <1>2, <1>3 DEF Sound, s

\* the read of a register on the HX8K board, after its latency
LEMMA SoundRegsPrint ==
  ASSUME board = "HX8KDEMO"
  PROVE  Sound(cmd_read_flash_regs_print("status"))
<1> DEFINE p == set_flash_latency(8)
           q == Read("status")
           s == p \o q
<1>1. /\ Len(p) = 4 /\ p \in Seq(Ops)
      /\ p[1] = [op |-> "mode", bits |-> {}, latency |-> 8]
      /\ p[2] = [op |-> "call"] /\ p[4] = [op |-> "return"]
      /\ p[3] = [op |-> "transfer", reg |-> "latency", val |-> 8, wren |-> TRUE]
  BY SetLatencyList
<1>2. /\ Len(q) = 3 /\ q \in Seq(Ops)
      /\ q[1] = [op |-> "call"] /\ q[3] = [op |-> "return"]
      /\ q[2] = [op |-> "transfer", reg |-> "status", val |-> 0, wren |-> FALSE]
  BY ReadList
<1> HIDE DEF p, q
<1>3. p \in Seq(Ops) /\ q \in Seq(Ops) /\ Len(p) = 4 /\ Len(q) = 3
  BY <1>1, <1>2
<1>4. ASSUME NEW x \in Seq(Ops), NEW y \in Seq(Ops), Len(x) = 4, Len(y) = 3
      PROVE  /\ Len(x \o y) = 7 /\ x \o y \in Seq(Ops)
             /\ \A i \in 1 .. 4 : (x \o y)[i] = x[i]
             /\ \A i \in 1 .. 3 : (x \o y)[4 + i] = y[i]
  <2>1. x \o y \in Seq(Ops) /\ Len(x \o y) = Len(x) + Len(y)
    OBVIOUS
  <2>2. \A i \in 1 .. Len(x) : (x \o y)[i] = x[i]
    OBVIOUS
  <2>3. \A i \in 1 .. Len(y) : (x \o y)[Len(x) + i] = y[i]
    OBVIOUS
  <2> QED BY <1>4, <2>1, <2>2, <2>3
<1>5. /\ Len(s) = 7 /\ s \in Seq(Ops)
      /\ \A i \in 1 .. 4 : s[i] = p[i]
      /\ \A i \in 1 .. 3 : s[4 + i] = q[i]
  BY <1>3, <1>4
<1> HIDE DEF s
<1>6. /\ Fits(s, 1) /\ Fits(s, 2) /\ Fits(s, 3) /\ Fits(s, 4)
      /\ Fits(s, 5) /\ Fits(s, 6) /\ Fits(s, 7)
  BY <1>1, <1>2, <1>5 DEF Fits, SettingFits, ModeFits, CallFits, WriteFits, ReadFits, SetsController, WritesChip, Keep
<1>7. \A i \in 1 .. Len(s) : i \in {1, 2, 3, 4, 5, 6, 7}
  BY <1>5
<1> QED BY <1>5, <1>6, <1>7 DEF Sound, s, p, q, cmd_read_flash_regs_print

LEMMA SoundMode ==
  ASSUME NEW bits \in SUBSET Bits, NEW latency \in 0 .. Keep,
         board = "HX8KDEMO" => latency = Keep,
         board = "ICEBREAKER" => latency = ReadLatency(bits)
  PROVE  Sound(Mode(bits, latency))
<1> DEFINE o == [op |-> "mode", bits |-> bits, latency |-> latency]
<1>1. o \in Ops
  BY DEF Ops
<1>2. ModeFits(o) /\ o.op = "mode" /\ (board = "HX8KDEMO" => o.latency = Keep)
  BY DEF ModeFits
<1> HIDE DEF o
<1>3. Sound(<<o>>)
  BY <1>1, <1>2, SoundAlone
<1> QED BY <1>3 DEF Mode, o

LEMMA SoundSimple == Sound(<<[op |-> "run"]>>) /\ Sound(<<[op |-> "crm"]>>) /\ Sound(<<[op |-> "toggle"]>>)
<1>1. ASSUME NEW op \in {"run", "crm", "toggle"} PROVE Sound(<<[op |-> op]>>)
  <2> DEFINE o == [op |-> op]
  <2>1. o \in Ops /\ o.op \in {"crm", "toggle", "run"}
    BY DEF Ops
  <2> HIDE DEF o
  <2>2. Sound(<<o>>)
    BY <2>1, SoundAlone
  <2> QED BY <2>2 DEF o
<1> QED BY <1>1

\* the three set_flash_mode_* and the default, of both boards
LEMMA SoundModes ==
  ASSUME board \in Boards
  PROVE  /\ Sound(set_flash_mode_spi) /\ Sound(set_flash_mode_dual)
         /\ Sound(set_flash_mode_quad) /\ Sound(set_flash_mode_qddr)
<1>1. /\ {} \in SUBSET Bits /\ {"ddr"} \in SUBSET Bits /\ {"qspi"} \in SUBSET Bits
      /\ {"ddr", "qspi"} \in SUBSET Bits
      /\ Keep \in 0 .. Keep /\ 0 \in 0 .. Keep /\ 4 \in 0 .. Keep /\ 7 \in 0 .. Keep
  BY DEF Bits, Keep
<1>2. /\ ReadLatency({}) = 0 /\ ReadLatency({"ddr"}) = 0 /\ ReadLatency({"qspi"}) = 4
      /\ ReadLatency({"ddr", "qspi"}) = 7
  BY DEF ReadLatency
<1>3. CASE board = "HX8KDEMO"
  BY <1>1, <1>3, SoundMode DEF set_flash_mode_spi, set_flash_mode_dual, set_flash_mode_quad, set_flash_mode_qddr
<1>4. CASE board = "ICEBREAKER"
  BY <1>1, <1>2, <1>4, SoundMode DEF set_flash_mode_spi, set_flash_mode_dual, set_flash_mode_quad, set_flash_mode_qddr
<1> QED BY <1>3, <1>4 DEF Boards

LEMMA SoundLatencies ==
  ASSUME board = "HX8KDEMO", NEW bits \in SUBSET Bits
  PROVE  Sound(BenchmarkLatencies(bits))
<1> DEFINE with(i) == set_flash_latency(i) \o Mode(bits, Keep) \o cmd_benchmark
<1>1. ASSUME NEW i \in 1 .. 8 PROVE Sound(with(i))
  <2>1. Sound(set_flash_latency(i))
    BY SoundSetLatency
  <2>2. Sound(Mode(bits, Keep))
    <3>1. Keep \in 0 .. Keep
      BY DEF Keep
    <3> QED BY <3>1, SoundMode
  <2>3. Sound(cmd_benchmark)
    BY SoundSimple DEF cmd_benchmark
  <2>4. Sound(set_flash_latency(i) \o Mode(bits, Keep))
    BY <2>1, <2>2, SoundConcat
  <2> QED BY <2>3, <2>4, SoundConcat
<1> HIDE DEF with
<1>2. /\ Sound(with(8)) /\ Sound(with(7)) /\ Sound(with(6)) /\ Sound(with(5))
      /\ Sound(with(4)) /\ Sound(with(3)) /\ Sound(with(2)) /\ Sound(with(1))
  BY <1>1
<1>3. Sound(with(8) \o with(7))
  BY <1>2, SoundConcat
<1>4. Sound(with(8) \o with(7) \o with(6))
  BY <1>2, <1>3, SoundConcat
<1>5. Sound(with(8) \o with(7) \o with(6) \o with(5))
  BY <1>2, <1>4, SoundConcat
<1>6. Sound(with(8) \o with(7) \o with(6) \o with(5) \o with(4))
  BY <1>2, <1>5, SoundConcat
<1>7. Sound(with(8) \o with(7) \o with(6) \o with(5) \o with(4) \o with(3))
  BY <1>2, <1>6, SoundConcat
<1>8. Sound(with(8) \o with(7) \o with(6) \o with(5) \o with(4) \o with(3) \o with(2))
  BY <1>2, <1>7, SoundConcat
<1>9. Sound(with(8) \o with(7) \o with(6) \o with(5) \o with(4) \o with(3) \o with(2) \o with(1))
  BY <1>2, <1>8, SoundConcat
<1> QED BY <1>9 DEF BenchmarkLatencies, with

LEMMA SoundBenchmarks == board \in Boards => Sound(cmd_benchmark_all)
<1> DEFINE run == cmd_benchmark
<1>1. Sound(run)
  BY SoundSimple DEF cmd_benchmark
<1>2. ASSUME board = "HX8KDEMO" PROVE Sound(cmd_benchmark_all)
  <2> DEFINE m == Mode({}, Keep)
             b1 == BenchmarkLatencies({"ddr"})
             b2 == BenchmarkLatencies({"ddr", "crm"})
             b3 == BenchmarkLatencies({"qspi"})
             b4 == BenchmarkLatencies({"qspi", "crm"})
             b5 == BenchmarkLatencies({"ddr", "qspi"})
             b6 == BenchmarkLatencies({"ddr", "qspi", "crm"})
  <2>1. Sound(m)
    <3>1. Keep \in 0 .. Keep /\ {} \in SUBSET Bits
      BY DEF Keep
    <3> QED BY <1>2, <3>1, SoundMode
  <2>2. Sound(b1) /\ Sound(b2) /\ Sound(b3) /\ Sound(b4) /\ Sound(b5) /\ Sound(b6)
    <3>1. /\ {"ddr"} \in SUBSET Bits /\ {"ddr", "crm"} \in SUBSET Bits
          /\ {"qspi"} \in SUBSET Bits /\ {"qspi", "crm"} \in SUBSET Bits
          /\ {"ddr", "qspi"} \in SUBSET Bits /\ {"ddr", "qspi", "crm"} \in SUBSET Bits
      BY DEF Bits
    <3> QED BY <1>2, <3>1, SoundLatencies
  <2>3. cmd_benchmark_all = m \o run \o b1 \o b2 \o b3 \o b4 \o b5 \o b6
    BY <1>2 DEF cmd_benchmark_all
  <2> HIDE DEF m, run, b1, b2, b3, b4, b5, b6
  <2>4. Sound(m \o run)
    BY <1>1, <2>1, SoundConcat
  <2>5. Sound(m \o run \o b1)
    BY <2>2, <2>4, SoundConcat
  <2>6. Sound(m \o run \o b1 \o b2)
    BY <2>2, <2>5, SoundConcat
  <2>7. Sound(m \o run \o b1 \o b2 \o b3)
    BY <2>2, <2>6, SoundConcat
  <2>8. Sound(m \o run \o b1 \o b2 \o b3 \o b4)
    BY <2>2, <2>7, SoundConcat
  <2>9. Sound(m \o run \o b1 \o b2 \o b3 \o b4 \o b5)
    BY <2>2, <2>8, SoundConcat
  <2>10. Sound(m \o run \o b1 \o b2 \o b3 \o b4 \o b5 \o b6)
    BY <2>2, <2>9, SoundConcat
  <2> QED BY <2>3, <2>10
<1>3. ASSUME board = "ICEBREAKER" PROVE Sound(cmd_benchmark_all)
  <2> DEFINE m1 == set_flash_mode_spi
             m2 == set_flash_mode_dual
             m3 == set_flash_mode_quad
             m4 == set_flash_mode_qddr
             crm == enable_flash_crm
  <2>1. Sound(m1) /\ Sound(m2) /\ Sound(m3) /\ Sound(m4)
    BY <1>3, SoundModes DEF Boards
  <2>2. Sound(crm)
    BY SoundSimple DEF enable_flash_crm
  <2>3. cmd_benchmark_all = m1 \o run \o m2 \o run \o m3 \o run \o crm \o run \o m4 \o run \o crm \o run
    BY <1>3 DEF cmd_benchmark_all
  <2> HIDE DEF m1, m2, m3, m4, crm, run
  <2>4. Sound(m1 \o run)
    BY <1>1, <2>1, SoundConcat
  <2>5. Sound(m1 \o run \o m2)
    BY <2>1, <2>4, SoundConcat
  <2>6. Sound(m1 \o run \o m2 \o run)
    BY <1>1, <2>5, SoundConcat
  <2>7. Sound(m1 \o run \o m2 \o run \o m3)
    BY <2>1, <2>6, SoundConcat
  <2>8. Sound(m1 \o run \o m2 \o run \o m3 \o run)
    BY <1>1, <2>7, SoundConcat
  <2>9. Sound(m1 \o run \o m2 \o run \o m3 \o run \o crm)
    BY <2>2, <2>8, SoundConcat
  <2>10. Sound(m1 \o run \o m2 \o run \o m3 \o run \o crm \o run)
    BY <1>1, <2>9, SoundConcat
  <2>11. Sound(m1 \o run \o m2 \o run \o m3 \o run \o crm \o run \o m4)
    BY <2>1, <2>10, SoundConcat
  <2>12. Sound(m1 \o run \o m2 \o run \o m3 \o run \o crm \o run \o m4 \o run)
    BY <1>1, <2>11, SoundConcat
  <2>13. Sound(m1 \o run \o m2 \o run \o m3 \o run \o crm \o run \o m4 \o run \o crm)
    BY <2>2, <2>12, SoundConcat
  <2>14. Sound(m1 \o run \o m2 \o run \o m3 \o run \o crm \o run \o m4 \o run \o crm \o run)
    BY <1>1, <2>13, SoundConcat
  <2> QED BY <2>3, <2>14
<1> QED BY <1>2, <1>3 DEF Boards

LEMMA SoundRegs == board \in Boards => Sound(cmd_read_flash_regs)
<1>1. ASSUME NEW reg, Sound(reg) PROVE Sound(reg \o reg \o reg) /\ Sound(reg \o reg \o reg \o (reg \o reg \o reg))
  <2>1. Sound(reg \o reg)
    BY <1>1, SoundConcat
  <2>2. Sound(reg \o reg \o reg)
    BY <1>1, <2>1, SoundConcat
  <2> QED BY <2>2, SoundConcat
<1>2. CASE board = "HX8KDEMO"
  BY <1>1, <1>2, SoundRegsPrint DEF cmd_read_flash_regs
<1>3. CASE board = "ICEBREAKER"
  BY <1>1, <1>3, SoundRead DEF cmd_read_flash_regs
<1> QED BY <1>2, <1>3 DEF Boards

LEMMA CommandsSound == ASSUME board \in Boards, NEW key PROVE Sound(Command(key))
<1>1. Sound(cmd_read_flash_id)
  BY SoundRead DEF cmd_read_flash_id
<1>2. Sound(ToggleCrm) /\ Sound(cmd_benchmark) /\ Sound(cmd_print_spi_state)
  BY SoundSimple DEF ToggleCrm, cmd_benchmark, cmd_print_spi_state
<1> QED BY <1>1, <1>2, SoundRegs, SoundModes, SoundBenchmarks DEF Command

(***************************************************************************)
(* The inductive invariant: k operations of a sound list s are done        *)
(***************************************************************************)
FlashType ==
  /\ board \in Boards
  /\ ctrl \in [enabled : BOOLEAN, bits : SUBSET Bits, latency : 0 .. Keep]
  /\ chip \in [quad : BOOLEAN, latency : 0 .. Keep]

Rest(s, k) == /\ todo \in Seq(Ops) /\ Len(todo) = Len(s) - k
              /\ \A i \in 1 .. Len(s) - k : todo[i] = s[k + i]

\* the program is in the worker of flashio, or about to be
Away(s, k) == k > 0 /\ s[k].op \in {"call", "transfer"}

\* the controller has its new latency and the chip has not
Pending(s, k) == (k > 0 /\ SetsController(s[k])) \/ (k > 1 /\ SetsController(s[k - 1]))
Latencies(s, k) ==
  board = "HX8KDEMO" =>
    IF Pending(s, k)
    THEN /\ ctrl.bits = {}
         /\ k > 0 /\ SetsController(s[k]) => ctrl.latency = s[k].latency
         /\ k > 1 /\ SetsController(s[k - 1]) => ctrl.latency = s[k - 1].latency
    ELSE ctrl.latency = chip.latency

\* what was written to the chip, until the next transfer
ChipKeeps(s, k) ==
  \A j \in 1 .. k : WritesChip(s[j]) /\ (\A i \in j + 1 .. k : s[i].op # "transfer") =>
                     chip.latency = s[j].val

\* after a write the controller stays in plain SPI, until it is assigned again
PlainKeeps(s, k) ==
  \A j \in 1 .. k : WritesChip(s[j]) /\ (\A i \in j + 1 .. k : s[i].op \in {"call", "return"}) =>
                     ctrl.bits = {}

Done(s, k) ==
  /\ where = (IF Away(s, k) THEN "sram" ELSE "flash") /\ ctrl.enabled = ~Away(s, k)
  /\ Latencies(s, k) /\ ChipKeeps(s, k) /\ PlainKeeps(s, k)
  /\ board = "ICEBREAKER" /\ Dummies => ctrl.latency = ReadLatency(ctrl.bits)

Settled == chip.quad = TRUE /\ \E s \in Seq(Ops) : \E k \in 0 .. Len(s) : Sound(s) /\ Rest(s, k) /\ Done(s, k)

\* set_flash_qspi_flag, the first thing main does
BootList == Read("quad") \o flashio("quad", TRUE, 6)
BootOps == { [op |-> "call"], [op |-> "return"],
             [op |-> "transfer", reg |-> "quad", val |-> 0, wren |-> FALSE],
             [op |-> "transfer", reg |-> "quad", val |-> TRUE, wren |-> TRUE] }
Booting ==
  \E k \in 0 .. 5 :
    /\ todo \in Seq(BootOps) /\ Len(todo) = 6 - k
    /\ \A i \in 1 .. 6 - k : todo[i] = BootList[k + i]
    /\ (k \in {0, 3} => ctrl.enabled = TRUE) /\ (k \notin {0, 3} => ctrl.enabled = FALSE) /\ ctrl.bits = {} /\ ctrl.latency = 8
    /\ (k = 5 => chip.quad = TRUE) /\ (k # 5 => chip.quad = FALSE) /\ chip.latency = 8
    /\ where = IF k \in {0, 3} THEN "flash" ELSE "sram"

FlashInv == FlashType /\ (Booting \/ Settled)

LEMMA IceLatency ==
  ASSUME FlashType, board = "ICEBREAKER", Dummies
  PROVE  ChipLatency = ReadLatency(ctrl.bits)
<1>1. board # "HX8KDEMO" /\ ctrl.bits \in SUBSET {"ddr", "qspi", "crm"}
  BY DEF FlashType, Bits
<1>2. /\ ctrl.bits \ {"crm"} = {"ddr"} <=> "ddr" \in ctrl.bits /\ "qspi" \notin ctrl.bits
      /\ ctrl.bits \ {"crm"} = {"qspi"} <=> "qspi" \in ctrl.bits /\ "ddr" \notin ctrl.bits
  BY <1>1
<1>3. "ddr" \in ctrl.bits \/ "qspi" \in ctrl.bits
  BY DEF Dummies
<1>4. CASE ctrl.bits \ {"crm"} = {"ddr"}
  BY <1>1, <1>2, <1>4 DEF ChipLatency, ReadLatency
<1>5. CASE ctrl.bits \ {"crm"} = {"qspi"}
  <2>1. ctrl.bits \ {"crm"} # {"ddr"}
    BY <1>5
  <2> QED BY <1>1, <1>2, <1>5, <2>1 DEF ChipLatency, ReadLatency
<1>6. CASE ctrl.bits \ {"crm"} \notin {{"ddr"}, {"qspi"}}
  <2>1. ReadLatency(ctrl.bits) = 7
    BY <1>2, <1>3, <1>6 DEF ReadLatency
  <2> QED BY <1>1, <1>6, <2>1 DEF ChipLatency
<1> QED BY <1>4, <1>5, <1>6

\* in between two operations that fetch from the flash, the chip is readable or
\* CRM stands alone
LEMMA SettledReadable ==
  ASSUME FlashType, Settled, where = "flash"
  PROVE  Readable \/ (ctrl.enabled /\ ctrl.bits = {"crm"})
<1>1. PICK s \in Seq(Ops) : \E k \in 0 .. Len(s) : Sound(s) /\ Rest(s, k) /\ Done(s, k)
  BY DEF Settled
<1>2. PICK k \in 0 .. Len(s) : Sound(s) /\ Rest(s, k) /\ Done(s, k)
  BY <1>1
<1>3. ctrl.enabled
  BY <1>2 DEF Done
<1>4. ASSUME Dummies PROVE ctrl.latency = ChipLatency
  <2>1. CASE board = "HX8KDEMO"
    <3>1. ctrl.bits # {}
      BY <1>4 DEF Dummies
    <3> QED BY <1>2, <2>1, <3>1 DEF Done, Latencies, ChipLatency
  <2>2. CASE board = "ICEBREAKER"
    BY <1>2, <1>4, <2>2, IceLatency DEF Done
  <2> QED BY <2>1, <2>2 DEF FlashType, Boards
<1>5. ctrl.bits \in SUBSET {"ddr", "qspi", "crm"}
  BY DEF FlashType, Bits
<1>6. CASE "crm" \in ctrl.bits /\ ~Dummies
  BY <1>3, <1>5, <1>6 DEF Dummies
<1> QED BY <1>3, <1>4, <1>6 DEF Readable, Settled

\* the next operation and the two before it
LEMMA NextFits ==
  ASSUME NEW s \in Seq(Ops), NEW k \in 0 .. Len(s), Sound(s), Rest(s, k), todo # <<>>
  PROVE  /\ k + 1 \in 1 .. Len(s) /\ Next1 = s[k + 1] /\ s[k + 1] \in Ops /\ Fits(s, k + 1)
         /\ k > 0 => Fits(s, k) /\ s[k] \in Ops
         /\ k > 1 => Fits(s, k - 1) /\ s[k - 1] \in Ops
<1>1. Len(s) \in Nat /\ Len(todo) \in Nat /\ Len(todo) # 0
  BY DEF Rest
<1>2. k \in Nat /\ k + 1 \in 1 .. Len(s) /\ todo[1] = s[k + 1]
  BY <1>1 DEF Rest
<1>3. \A i \in 1 .. Len(s) : s[i] \in Ops /\ Fits(s, i)
  BY DEF Sound
<1> QED BY <1>1, <1>2, <1>3 DEF Next1

LEMMA RestAdvances ==
  ASSUME NEW s \in Seq(Ops), NEW k \in 0 .. Len(s), Rest(s, k), todo # <<>>, todo' = Tail(todo)
  PROVE  k + 1 \in 0 .. Len(s) /\ Rest(s, k + 1)'
<1>1. /\ todo \in Seq(Ops) /\ Len(s) \in Nat /\ Len(todo) = Len(s) - k
      /\ \A i \in 1 .. Len(s) - k : todo[i] = s[k + i]
  BY DEF Rest
<1>2. /\ todo' \in Seq(Ops) /\ Len(todo') = Len(todo) - 1 /\ Len(todo) # 0
      /\ \A i \in 1 .. Len(todo) - 1 : todo'[i] = todo[i + 1]
  BY <1>1
<1>3. k + 1 \in 0 .. Len(s) /\ Len(todo') = Len(s) - (k + 1)
  BY <1>1, <1>2
<1>4. ASSUME NEW i \in 1 .. Len(s) - (k + 1) PROVE todo'[i] = s[(k + 1) + i]
  <2>1. i \in 1 .. Len(todo) - 1 /\ i + 1 \in 1 .. Len(s) - k /\ k + (i + 1) = (k + 1) + i
    BY <1>1
  <2>2. todo'[i] = todo[i + 1] /\ todo[i + 1] = s[k + (i + 1)]
    BY <1>1, <1>2, <2>1
  <2> QED BY <2>1, <2>2
<1> QED BY <1>2, <1>3, <1>4 DEF Rest

\* An operation that is not a transfer leaves the chip as it was; the next
\* operation is not in the middle of a new latency if it is no call.
LEMMA KeptChip ==
  ASSUME NEW s \in Seq(Ops), NEW k \in 0 .. Len(s), ChipKeeps(s, k), chip' = chip,
         s[k + 1].op # "transfer"
  PROVE  ChipKeeps(s, k + 1)'
<1> SUFFICES ASSUME NEW j \in 1 .. k + 1, WritesChip(s[j]),
                    \A i \in j + 1 .. k + 1 : s[i].op # "transfer"
             PROVE  chip.latency = s[j].val
  BY DEF ChipKeeps, WritesChip
<1>1. j # k + 1
  BY DEF WritesChip
<1>2. j \in 1 .. k /\ \A i \in j + 1 .. k : i \in j + 1 .. k + 1
  BY <1>1
<1> QED BY <1>2 DEF ChipKeeps

LEMMA KeptPlain ==
  ASSUME NEW s \in Seq(Ops), NEW k \in 0 .. Len(s), PlainKeeps(s, k),
         s[k + 1].op # "transfer",
         s[k + 1].op \in {"call", "return"} => ctrl'.bits = ctrl.bits
  PROVE  PlainKeeps(s, k + 1)'
<1> SUFFICES ASSUME NEW j \in 1 .. k + 1, WritesChip(s[j]),
                    \A i \in j + 1 .. k + 1 : s[i].op \in {"call", "return"}
             PROVE  ctrl'.bits = {}
  BY DEF PlainKeeps, WritesChip
<1>1. j # k + 1
  BY DEF WritesChip
<1>2. j \in 1 .. k /\ k + 1 \in j + 1 .. k + 1 /\ \A i \in j + 1 .. k : i \in j + 1 .. k + 1
  BY <1>1
<1> QED BY <1>2 DEF PlainKeeps

LEMMA NotPending ==
  ASSUME NEW s \in Seq(Ops), NEW k \in 0 .. Len(s), board = "HX8KDEMO",
         k + 1 \in 1 .. Len(s), Fits(s, k + 1), k > 0 => Fits(s, k), k > 1 => Fits(s, k - 1),
         s[k + 1].op \notin {"call", "transfer"}
  PROVE  ~Pending(s, k)
<1>1. ~(k > 0 /\ SetsController(s[k]))
  BY DEF Fits, SettingFits
<1>2. ~(k > 1 /\ SetsController(s[k - 1]))
  <2>1. k > 1 => (k - 1) + 2 = k + 1
    OBVIOUS
  <2> QED BY <2>1 DEF Fits, SettingFits, WritesChip
<1> QED BY <1>1, <1>2 DEF Pending

\* operations on the controller
LEMMA ControlKeeps ==
  ASSUME FlashType, NEW s \in Seq(Ops), NEW k \in 0 .. Len(s), Sound(s), Rest(s, k), Done(s, k),
         AssignMode \/ SetCrm \/ XorCrm \/ Compute
  PROVE  k + 1 \in 0 .. Len(s) /\ Rest(s, k + 1)' /\ Done(s, k + 1)' /\ FlashType'
<1> DEFINE o == s[k + 1]
<1>1. /\ todo # <<>> /\ todo' = Tail(todo) /\ Next1.op \in {"mode", "crm", "toggle", "run"}
      /\ Readable /\ UNCHANGED <<board, where, chip>>
  BY DEF AssignMode, SetCrm, XorCrm, Compute, Doing, Advance
<1>2. /\ k + 1 \in 1 .. Len(s) /\ Next1 = o /\ o \in Ops /\ Fits(s, k + 1)
      /\ k > 0 => Fits(s, k) /\ s[k] \in Ops
      /\ k > 1 => Fits(s, k - 1) /\ s[k - 1] \in Ops
  BY <1>1, NextFits
<1>3. k + 1 \in 0 .. Len(s) /\ Rest(s, k + 1)'
  BY <1>1, RestAdvances
<1>4. ctrl \in [enabled : BOOLEAN, bits : SUBSET Bits, latency : 0 .. Keep]
  BY DEF FlashType
<1>5. \/ /\ o.op = "mode" /\ o.bits \in SUBSET Bits /\ o.latency \in 0 .. Keep
         /\ ctrl' = [ctrl EXCEPT !.bits = o.bits, !.latency = IF o.latency = Keep THEN @ ELSE o.latency]
      \/ /\ o.op # "mode"
         /\ \E b \in SUBSET Bits : ctrl' = [ctrl EXCEPT !.bits = b] /\ b \ {"crm"} = ctrl.bits \ {"crm"}
  <2>1. CASE AssignMode
    BY <1>2, <2>1 DEF AssignMode, Doing, Ops
  <2>2. CASE SetCrm
    <3>1. o.op # "mode" /\ ctrl' = [ctrl EXCEPT !.bits = ctrl.bits \cup {"crm"}]
      BY <1>2, <2>2 DEF SetCrm, Doing
    <3>2. ctrl.bits \cup {"crm"} \in SUBSET Bits
      BY <1>4 DEF Bits
    <3> QED BY <3>1, <3>2
  <2>3. CASE XorCrm
    <3> DEFINE b == IF "crm" \in ctrl.bits THEN ctrl.bits \ {"crm"} ELSE ctrl.bits \cup {"crm"}
    <3>1. o.op # "mode" /\ ctrl' = [ctrl EXCEPT !.bits = b]
      BY <1>2, <2>3 DEF XorCrm, Doing
    <3>2. b \in SUBSET Bits /\ b \ {"crm"} = ctrl.bits \ {"crm"}
      BY <1>4 DEF Bits
    <3> QED BY <3>1, <3>2
  <2>4. CASE Compute
    <3>1. o.op # "mode" /\ ctrl' = ctrl
      BY <1>2, <2>4 DEF Compute, Doing
    <3>2. ctrl = [ctrl EXCEPT !.bits = ctrl.bits] /\ ctrl.bits \in SUBSET Bits
      BY <1>4
    <3> QED BY <3>1, <3>2
  <2> QED BY <2>1, <2>2, <2>3, <2>4
<1>6. /\ ctrl' \in [enabled : BOOLEAN, bits : SUBSET Bits, latency : 0 .. Keep]
      /\ ctrl'.enabled = ctrl.enabled
  BY <1>4, <1>5
<1>7. FlashType'
  BY <1>1, <1>6 DEF FlashType
<1>8. where = "flash" /\ ctrl.enabled
  BY <1>1 DEF Done, Readable
<1>9. ~Away(s, k + 1)
  BY <1>1, <1>2 DEF Away
<1>10. ChipKeeps(s, k + 1)' /\ PlainKeeps(s, k + 1)'
  BY <1>1, <1>2, KeptChip, KeptPlain DEF Done
<1>11. Latencies(s, k + 1)'
  <2> SUFFICES ASSUME board = "HX8KDEMO" PROVE Latencies(s, k + 1)'
    BY <1>1 DEF Latencies
  <2>1. ~Pending(s, k) /\ ctrl.latency = chip.latency
    BY <1>1, <1>2, NotPending DEF Done, Latencies
  <2>2. ~(k + 1 > 1 /\ SetsController(s[(k + 1) - 1]))
    BY <2>1 DEF Pending
  <2>3. CASE SetsController(o)
    <3>1. o.bits = {} /\ o.op = "mode" /\ o.latency # Keep
      BY <1>2, <2>3 DEF Fits, SettingFits, SetsController
    <3>2. ctrl'.bits = {} /\ ctrl'.latency = o.latency
      BY <1>4, <1>5, <3>1
    <3> QED BY <2>2, <2>3, <3>2 DEF Latencies, Pending, SetsController
  <2>4. CASE ~SetsController(o)
    <3>1. ctrl'.latency = ctrl.latency
      BY <1>4, <1>5, <2>4 DEF SetsController
    <3>2. ~Pending(s, k + 1)
      BY <2>2, <2>4 DEF Pending
    <3> QED BY <1>1, <2>1, <3>1, <3>2 DEF Latencies, Pending, SetsController
  <2> QED BY <2>3, <2>4
<1>12. ASSUME board = "ICEBREAKER", Dummies' PROVE ctrl'.latency = ReadLatency(ctrl'.bits)
  <2>1. CASE o.op = "mode"
    <3>1. o.latency = ReadLatency(o.bits) /\ o.latency # Keep
      BY <1>2, <1>12, <2>1 DEF Fits, ModeFits, ReadLatency, Keep
    <3> QED BY <1>4, <1>5, <2>1, <3>1
  <2>2. CASE o.op # "mode"
    <3>1. PICK b \in SUBSET Bits : ctrl' = [ctrl EXCEPT !.bits = b] /\ b \ {"crm"} = ctrl.bits \ {"crm"}
      BY <1>5, <2>2
    <3>2. ctrl'.bits = b /\ ctrl'.latency = ctrl.latency
      BY <1>4, <3>1
    <3>3. Dummies /\ ReadLatency(b) = ReadLatency(ctrl.bits)
      BY <1>12, <3>1, <3>2 DEF Dummies, ReadLatency
    <3> QED BY <1>12, <3>2, <3>3 DEF Done
  <2> QED BY <2>1, <2>2
<1>13. /\ where' = (IF Away(s, k + 1) THEN "sram" ELSE "flash") /\ ctrl'.enabled = ~Away(s, k + 1)
       /\ board' = board
  BY <1>1, <1>6, <1>8, <1>9
<1> HIDE DEF o
<1> QED BY <1>3, <1>7, <1>10, <1>11, <1>12, <1>13 DEF Done, Away

\* the three steps of flashio
LEMMA CallKeeps ==
  ASSUME FlashType, NEW s \in Seq(Ops), NEW k \in 0 .. Len(s), Sound(s), Rest(s, k), Done(s, k),
         CallWorker
  PROVE  k + 1 \in 0 .. Len(s) /\ Rest(s, k + 1)' /\ Done(s, k + 1)' /\ FlashType'
<1>1. /\ todo # <<>> /\ todo' = Tail(todo) /\ Next1.op = "call" /\ UNCHANGED <<board, chip>>
      /\ where' = "sram" /\ ctrl' = [ctrl EXCEPT !.enabled = FALSE]
  BY DEF CallWorker, Doing, Advance
<1>2. /\ k + 1 \in 1 .. Len(s) /\ Next1 = s[k + 1]
      /\ k > 0 => Fits(s, k) /\ s[k] \in Ops
      /\ k > 1 => Fits(s, k - 1) /\ s[k - 1] \in Ops
  BY <1>1, NextFits
<1>3. k + 1 \in 0 .. Len(s) /\ Rest(s, k + 1)'
  BY <1>1, RestAdvances
<1>4. /\ ctrl' \in [enabled : BOOLEAN, bits : SUBSET Bits, latency : 0 .. Keep]
      /\ ctrl'.enabled = FALSE /\ ctrl'.bits = ctrl.bits /\ ctrl'.latency = ctrl.latency
  BY <1>1 DEF FlashType
<1>5. FlashType'
  BY <1>1, <1>4 DEF FlashType
<1>6. ChipKeeps(s, k + 1)' /\ PlainKeeps(s, k + 1)'
  BY <1>1, <1>2, <1>4, KeptChip, KeptPlain DEF Done
<1>7. Latencies(s, k + 1)'
  <2> SUFFICES ASSUME board = "HX8KDEMO" PROVE Latencies(s, k + 1)'
    BY <1>1 DEF Latencies
  <2>1. ~SetsController(s[k + 1])
    BY <1>1, <1>2 DEF SetsController
  <2>2. ~(k > 1 /\ SetsController(s[k - 1]))
    <3>1. k > 1 => (k - 1) + 2 = k + 1
      OBVIOUS
    <3> QED BY <1>1, <1>2, <3>1 DEF Fits, SettingFits, WritesChip
  <2>3. Pending(s, k) <=> k > 0 /\ SetsController(s[k])
    BY <2>2 DEF Pending
  <2>4. Pending(s, k + 1) <=> k > 0 /\ SetsController(s[k])
    <3>1. (k + 1) - 1 = k /\ (k + 1 > 1 <=> k > 0)
      OBVIOUS
    <3> QED BY <2>1, <3>1 DEF Pending
  <2>5. CASE Pending(s, k)
    <3>1. ctrl.bits = {} /\ ctrl.latency = s[k].latency
      BY <2>3, <2>5 DEF Done, Latencies
    <3>2. (k + 1) - 1 = k /\ ~SetsController(s[k + 1])
      BY <2>1
    <3> QED BY <1>1, <1>4, <2>3, <2>4, <2>5, <3>1, <3>2 DEF Latencies, Pending, SetsController
  <2>6. CASE ~Pending(s, k)
    <3>1. ctrl.latency = chip.latency
      BY <2>6 DEF Done, Latencies
    <3> QED BY <1>1, <1>4, <2>3, <2>4, <2>6, <3>1 DEF Latencies, Pending, SetsController
  <2> QED BY <2>5, <2>6
<1>8. Away(s, k + 1)
  BY <1>1, <1>2 DEF Away
<1> QED BY <1>1, <1>3, <1>4, <1>5, <1>6, <1>7, <1>8 DEF Done, Away, Dummies

\* what the chip is told, it understands
LEMMA TransferUnderstood ==
  ASSUME FlashType, NEW s \in Seq(Ops), NEW k \in 0 .. Len(s), Sound(s), Rest(s, k), Done(s, k),
         Doing("transfer")
  PROVE  /\ Next1.wren = TRUE =>
              /\ ctrl.bits = {} /\ board = "HX8KDEMO" /\ Next1.reg = "latency"
              /\ ctrl.latency = Next1.val /\ Pending(s, k)
         /\ board = "HX8KDEMO" /\ Next1.reg # "id" /\ Next1.wren # TRUE =>
              ctrl.bits = {} /\ chip.latency = 8
<1>1. todo # <<>> /\ Next1.op = "transfer"
  BY DEF Doing
<1>2. /\ k + 1 \in 1 .. Len(s) /\ Next1 = s[k + 1] /\ Fits(s, k + 1)
      /\ k > 0 => Fits(s, k) /\ s[k] \in Ops
      /\ k > 1 => Fits(s, k - 1) /\ s[k - 1] \in Ops
  BY <1>1, NextFits
<1>3. /\ (k + 1) - 1 = k /\ (k + 1) - 2 = k - 1 /\ (k + 1) - 3 = k - 2
      /\ k + 1 > 1 <=> k > 0
      /\ k + 1 > 2 <=> k > 1
      /\ k + 1 > 3 <=> k > 2
  OBVIOUS
<1>4. k > 0 /\ s[k].op = "call"
  BY <1>1, <1>2, <1>3 DEF Fits, CallFits
<1>5. ASSUME Next1.wren = TRUE
      PROVE  /\ ctrl.bits = {} /\ board = "HX8KDEMO" /\ Next1.reg = "latency"
             /\ ctrl.latency = Next1.val /\ Pending(s, k)
  <2>1. WritesChip(s[k + 1])
    BY <1>1, <1>2, <1>5 DEF WritesChip
  <2>2. /\ board = "HX8KDEMO" /\ s[k + 1].reg = "latency"
        /\ k > 1 /\ SetsController(s[k - 1]) /\ s[k - 1].latency = s[k + 1].val
    BY <1>2, <1>3, <2>1 DEF Fits, WriteFits
  <2>3. Pending(s, k)
    BY <2>2 DEF Pending
  <2>4. ctrl.bits = {} /\ ctrl.latency = s[k - 1].latency
    BY <2>2, <2>3 DEF Done, Latencies
  <2> QED BY <1>2, <2>2, <2>3, <2>4
<1>6. ASSUME board = "HX8KDEMO", Next1.reg # "id", Next1.wren # TRUE
      PROVE  ctrl.bits = {} /\ chip.latency = 8
  <2>1. /\ k > 2 /\ s[k - 1].op = "return"
        /\ WritesChip(s[k - 2]) /\ s[k - 2].val = 8
    BY <1>1, <1>2, <1>3, <1>6 DEF Fits, ReadFits, WritesChip
  <2>2. k - 2 \in 1 .. k /\ \A i \in (k - 2) + 1 .. k : i = k - 1 \/ i = k
    BY <2>1
  <2>3. \A i \in (k - 2) + 1 .. k : s[i].op \in {"call", "return"} /\ s[i].op # "transfer"
    BY <1>4, <2>1, <2>2
  <2>4. chip.latency = 8
    BY <2>1, <2>2, <2>3 DEF Done, ChipKeeps
  <2> QED BY <2>1, <2>2, <2>3, <2>4 DEF Done, PlainKeeps
<1> QED BY <1>5, <1>6

LEMMA TransferKeeps ==
  ASSUME FlashType, NEW s \in Seq(Ops), NEW k \in 0 .. Len(s), Sound(s), Rest(s, k), Done(s, k),
         Transfer
  PROVE  /\ k + 1 \in 0 .. Len(s) /\ Rest(s, k + 1)' /\ Done(s, k + 1)' /\ FlashType'
         /\ chip'.quad = chip.quad
<1>1. /\ todo # <<>> /\ todo' = Tail(todo) /\ Next1.op = "transfer" /\ UNCHANGED <<board, where, ctrl>>
      /\ chip' = IF Next1.wren /\ ~Continuous THEN [chip EXCEPT ![Next1.reg] = Next1.val] ELSE chip
      /\ Doing("transfer")
  BY DEF Transfer, Doing, Advance
<1>2. /\ k + 1 \in 1 .. Len(s) /\ Next1 = s[k + 1] /\ Fits(s, k + 1) /\ s[k + 1] \in Ops
      /\ k > 0 => Fits(s, k) /\ s[k] \in Ops
      /\ k > 1 => Fits(s, k - 1) /\ s[k - 1] \in Ops
  BY <1>1, NextFits
<1>3. k + 1 \in 0 .. Len(s) /\ Rest(s, k + 1)'
  BY <1>1, RestAdvances
<1>4. /\ (k + 1) - 1 = k
      /\ k > 0 /\ s[k].op = "call"
  BY <1>1, <1>2 DEF Fits, CallFits
<1>5. Next1.wren \in BOOLEAN /\ Next1.val \in 0 .. 15
  BY <1>1, <1>2 DEF Ops
<1>6. ~SetsController(s[k + 1]) /\ ~SetsController(s[k]) /\ ~Pending(s, k + 1)
  BY <1>1, <1>2, <1>4 DEF SetsController, Pending
<1>7. Away(s, k) /\ Away(s, k + 1)
  BY <1>1, <1>2, <1>4 DEF Away
<1>8. chip \in [quad : BOOLEAN, latency : 0 .. Keep]
  BY DEF FlashType
<1>9. CASE Next1.wren = TRUE
  <2>1. ctrl.bits = {} /\ board = "HX8KDEMO" /\ Next1.reg = "latency" /\ ctrl.latency = Next1.val
    BY <1>1, <1>9, TransferUnderstood
  <2>2. chip' = [chip EXCEPT !.latency = Next1.val]
    BY <1>1, <1>9, <2>1 DEF Continuous
  <2>3. /\ chip' \in [quad : BOOLEAN, latency : 0 .. Keep]
        /\ chip'.latency = Next1.val /\ chip'.quad = chip.quad
    <3>1. Next1.val \in 0 .. Keep
      BY <1>5 DEF Keep
    <3> QED BY <1>8, <2>2, <3>1
  <2>4. ChipKeeps(s, k + 1)'
    <3> SUFFICES ASSUME NEW j \in 1 .. k + 1, \A i \in j + 1 .. k + 1 : s[i].op # "transfer"
                 PROVE  chip'.latency = s[j].val
      BY DEF ChipKeeps
    <3>1. j = k + 1
      <4>1. j < k + 1 => k + 1 \in j + 1 .. k + 1
        OBVIOUS
      <4> QED BY <1>1, <1>2, <4>1
    <3> QED BY <1>2, <2>3, <3>1
  <2>5. Latencies(s, k + 1)'
    BY <1>1, <1>6, <2>1, <2>3 DEF Latencies, Pending, SetsController
  <2>6. FlashType'
    BY <1>1, <2>3 DEF FlashType
  <2>7. PlainKeeps(s, k + 1)'
    BY <1>1, <2>1 DEF PlainKeeps
  <2> QED BY <1>1, <1>3, <1>7, <2>1, <2>3, <2>4, <2>5, <2>6, <2>7 DEF Done, Away, Dummies
<1>10. CASE Next1.wren = FALSE
  <2>1. chip' = chip
    BY <1>1, <1>10
  <2>2. ~WritesChip(s[k + 1])
    BY <1>2, <1>10 DEF WritesChip
  <2>3. ChipKeeps(s, k + 1)'
    <3> SUFFICES ASSUME NEW j \in 1 .. k + 1, WritesChip(s[j]),
                        \A i \in j + 1 .. k + 1 : s[i].op # "transfer"
                 PROVE  chip'.latency = s[j].val
      BY DEF ChipKeeps, WritesChip
    <3>1. j = k + 1
      <4>1. j < k + 1 => k + 1 \in j + 1 .. k + 1
        OBVIOUS
      <4> QED BY <1>1, <1>2, <4>1
    <3> QED BY <2>2, <3>1
  <2>4. Latencies(s, k + 1)'
    <3> SUFFICES ASSUME board = "HX8KDEMO" PROVE Latencies(s, k + 1)'
      BY <1>1 DEF Latencies
    <3>1. ~(k > 1 /\ SetsController(s[k - 1]))
      <4>1. k > 1 => (k - 1) + 2 = k + 1
        OBVIOUS
      <4> QED BY <1>2, <2>2, <4>1 DEF Fits, SettingFits
    <3>2. ~Pending(s, k)
      BY <1>6, <3>1 DEF Pending
    <3>3. ctrl.latency = chip.latency
      BY <3>2 DEF Done, Latencies
    <3> QED BY <1>1, <1>6, <2>1, <3>3 DEF Latencies, Pending, SetsController
  <2>5. FlashType'
    BY <1>1, <2>1 DEF FlashType
  <2>6. PlainKeeps(s, k + 1)'
    <3> SUFFICES ASSUME NEW j \in 1 .. k + 1, WritesChip(s[j]),
                        \A i \in j + 1 .. k + 1 : s[i].op \in {"call", "return"}
                 PROVE  FALSE
      BY DEF PlainKeeps, WritesChip
    <3>1. j = k + 1
      <4>1. j < k + 1 => k + 1 \in j + 1 .. k + 1
        OBVIOUS
      <4> QED BY <1>1, <1>2, <4>1
    <3> QED BY <2>2, <3>1
  <2> QED BY <1>1, <1>3, <1>7, <2>1, <2>3, <2>4, <2>5, <2>6 DEF Done, Away, Dummies
<1> QED BY <1>5, <1>9, <1>10

LEMMA ReturnKeeps ==
  ASSUME FlashType, NEW s \in Seq(Ops), NEW k \in 0 .. Len(s), Sound(s), Rest(s, k), Done(s, k),
         ReturnFromWorker
  PROVE  k + 1 \in 0 .. Len(s) /\ Rest(s, k + 1)' /\ Done(s, k + 1)' /\ FlashType'
<1>1. /\ todo # <<>> /\ todo' = Tail(todo) /\ Next1.op = "return" /\ UNCHANGED <<board, chip>>
      /\ where' = "flash" /\ ctrl' = [ctrl EXCEPT !.enabled = TRUE]
  BY DEF ReturnFromWorker, Doing, Advance
<1>2. /\ k + 1 \in 1 .. Len(s) /\ Next1 = s[k + 1] /\ Fits(s, k + 1)
      /\ k > 0 => Fits(s, k) /\ s[k] \in Ops
      /\ k > 1 => Fits(s, k - 1) /\ s[k - 1] \in Ops
  BY <1>1, NextFits
<1>3. k + 1 \in 0 .. Len(s) /\ Rest(s, k + 1)'
  BY <1>1, RestAdvances
<1>4. /\ ctrl' \in [enabled : BOOLEAN, bits : SUBSET Bits, latency : 0 .. Keep]
      /\ ctrl'.enabled = TRUE /\ ctrl'.bits = ctrl.bits /\ ctrl'.latency = ctrl.latency
  BY <1>1 DEF FlashType
<1>5. FlashType'
  BY <1>1, <1>4 DEF FlashType
<1>6. ChipKeeps(s, k + 1)' /\ PlainKeeps(s, k + 1)'
  BY <1>1, <1>2, <1>4, KeptChip, KeptPlain DEF Done
<1>7. Latencies(s, k + 1)'
  <2> SUFFICES ASSUME board = "HX8KDEMO" PROVE Latencies(s, k + 1)'
    BY <1>1 DEF Latencies
  <2>1. ~Pending(s, k) /\ ctrl.latency = chip.latency
    BY <1>1, <1>2, NotPending DEF Done, Latencies
  <2>2. ~Pending(s, k + 1)
    <3>1. (k + 1) - 1 = k
      OBVIOUS
    <3> QED BY <1>1, <1>2, <2>1, <3>1 DEF Pending, SetsController
  <2> QED BY <1>1, <1>4, <2>1, <2>2 DEF Latencies, Pending, SetsController
<1>8. ~Away(s, k + 1)
  BY <1>1, <1>2 DEF Away
<1> QED BY <1>1, <1>3, <1>4, <1>5, <1>6, <1>7, <1>8 DEF Done, Away, Dummies

\* a sound list stays sound
LEMMA SoundKept == ASSUME NEW s, Sound(s), board' = board PROVE Sound(s)'
  BY DEF Sound, Fits, SettingFits, ModeFits, CallFits, WriteFits, ReadFits, SetsController, WritesChip, ReadLatency

\* A list begins when nothing is half done.
LEMMA Begins ==
  ASSUME NEW s \in Seq(Ops), Sound(s), todo' = s, board' = board,
         chip'.quad = TRUE, where' = "flash", ctrl'.enabled = TRUE,
         board = "HX8KDEMO" => ctrl'.latency = chip'.latency,
         board = "ICEBREAKER" /\ Dummies' => ctrl'.latency = ReadLatency(ctrl'.bits)
  PROVE  Settled'
<1>1. Len(s) \in Nat /\ 0 \in 0 .. Len(s)
  OBVIOUS
<1>2. Rest(s, 0)'
  BY <1>1 DEF Rest
<1>3. Done(s, 0)'
  <2>1. ~Away(s, 0)' /\ ~Pending(s, 0)'
    BY DEF Away, Pending
  <2>2. ChipKeeps(s, 0)'
    BY DEF ChipKeeps
  <2>3. Latencies(s, 0)'
    BY <2>1 DEF Latencies
  <2>4. PlainKeeps(s, 0)'
    BY DEF PlainKeeps
  <2> QED BY <2>1, <2>2, <2>3, <2>4 DEF Done
<1>4. Sound(s)'
  BY SoundKept
<1> QED BY <1>1, <1>2, <1>3, <1>4 DEF Settled

LEMMA SoundEmpty == <<>> \in Seq(Ops) /\ Sound(<<>>)
<1>1. <<>> \in Seq(Ops) /\ Len(<<>>) = 0
  OBVIOUS
<1> QED BY <1>1 DEF Sound

LEMMA BootListIs ==
  /\ BootList \in Seq(BootOps) /\ Len(BootList) = 6
  /\ BootList[1] = [op |-> "call"] /\ BootList[3] = [op |-> "return"]
  /\ BootList[4] = [op |-> "call"] /\ BootList[6] = [op |-> "return"]
  /\ BootList[2] = [op |-> "transfer", reg |-> "quad", val |-> 0, wren |-> FALSE]
  /\ BootList[5] = [op |-> "transfer", reg |-> "quad", val |-> TRUE, wren |-> TRUE]
<1> DEFINE c == [op |-> "call"]
           r == [op |-> "return"]
           q == [op |-> "transfer", reg |-> "quad", val |-> 0, wren |-> FALSE]
           w == [op |-> "transfer", reg |-> "quad", val |-> TRUE, wren |-> TRUE]
<1>1. Read("quad") = <<c, q, r>>
  BY DEF Read, flashio
<1>2. flashio("quad", TRUE, 6) = <<c, w, r>>
  <2>1. (6 # 0) = TRUE
    OBVIOUS
  <2>2. w = [op |-> "transfer", reg |-> "quad", val |-> TRUE, wren |-> 6 # 0]
    BY <2>1
  <2> QED BY <2>2 DEF flashio
<1>3. c \in BootOps /\ r \in BootOps /\ q \in BootOps /\ w \in BootOps
  BY DEF BootOps
<1> HIDE DEF c, q, r, w
<1>4. <<c, q, r>> \in Seq(BootOps) /\ <<c, w, r>> \in Seq(BootOps)
  BY <1>3
<1>5. /\ Len(<<c, q, r>>) = 3 /\ Len(<<c, w, r>>) = 3
      /\ <<c, q, r>>[1] = c /\ <<c, q, r>>[2] = q /\ <<c, q, r>>[3] = r
      /\ <<c, w, r>>[1] = c /\ <<c, w, r>>[2] = w /\ <<c, w, r>>[3] = r
  OBVIOUS
<1>6. ASSUME NEW x \in Seq(BootOps), NEW y \in Seq(BootOps), Len(x) = 3, Len(y) = 3
      PROVE  /\ x \o y \in Seq(BootOps) /\ Len(x \o y) = 6
             /\ \A i \in 1 .. 3 : (x \o y)[i] = x[i]
             /\ \A i \in 1 .. 3 : (x \o y)[3 + i] = y[i]
  <2>1. x \o y \in Seq(BootOps) /\ Len(x \o y) = Len(x) + Len(y)
    OBVIOUS
  <2>2. \A i \in 1 .. Len(x) : (x \o y)[i] = x[i]
    OBVIOUS
  <2>3. \A i \in 1 .. Len(y) : (x \o y)[Len(x) + i] = y[i]
    OBVIOUS
  <2> QED BY <1>6, <2>1, <2>2, <2>3
<1>7. BootList = <<c, q, r>> \o <<c, w, r>>
  BY <1>1, <1>2 DEF BootList
<1>8. /\ BootList \in Seq(BootOps) /\ Len(BootList) = 6
      /\ \A i \in 1 .. 3 : BootList[i] = <<c, q, r>>[i]
      /\ \A i \in 1 .. 3 : BootList[3 + i] = <<c, w, r>>[i]
  BY <1>4, <1>5, <1>6, <1>7
<1> QED BY <1>5, <1>8 DEF c, q, r, w

LEMMA BootOperation ==
  ASSUME FlashType, Booting, Operation
  PROVE  FlashInv'
<1>1. PICK k \in 0 .. 5 :
        /\ todo \in Seq(BootOps) /\ Len(todo) = 6 - k
        /\ \A i \in 1 .. 6 - k : todo[i] = BootList[k + i]
        /\ (k \in {0, 3} => ctrl.enabled = TRUE) /\ (k \notin {0, 3} => ctrl.enabled = FALSE) /\ ctrl.bits = {} /\ ctrl.latency = 8
        /\ (k = 5 => chip.quad = TRUE) /\ (k # 5 => chip.quad = FALSE) /\ chip.latency = 8
        /\ where = IF k \in {0, 3} THEN "flash" ELSE "sram"
  BY DEF Booting
<1>2. /\ todo # <<>> /\ todo' = Tail(todo) /\ board' = board
      /\ Next1.op \in {"call", "transfer", "return"} => CallWorker \/ Transfer \/ ReturnFromWorker
  BY DEF Operation, AssignMode, SetCrm, XorCrm, Compute, CallWorker, Transfer, ReturnFromWorker, Doing, Advance
<1>3. Next1 = BootList[k + 1]
  <2>1. Next1 = todo[1]
    BY <1>1, <1>2 DEF Next1
  <2> QED BY <1>1, <2>1
<1>4. k < 5 => /\ todo' \in Seq(BootOps) /\ Len(todo') = 6 - (k + 1)
               /\ \A i \in 1 .. 6 - (k + 1) : todo'[i] = BootList[(k + 1) + i]
  <2> SUFFICES ASSUME k < 5
               PROVE  /\ todo' \in Seq(BootOps) /\ Len(todo') = 6 - (k + 1)
                      /\ \A i \in 1 .. 6 - (k + 1) : todo'[i] = BootList[(k + 1) + i]
    OBVIOUS
  <2>2. /\ todo' \in Seq(BootOps) /\ Len(todo') = Len(todo) - 1
        /\ \A i \in 1 .. Len(todo) - 1 : todo'[i] = todo[i + 1]
    BY <1>1, <1>2
  <2>3. ASSUME NEW i \in 1 .. 6 - (k + 1) PROVE todo'[i] = BootList[(k + 1) + i]
    <3>1. i + 1 \in 1 .. 6 - k /\ k + (i + 1) = (k + 1) + i /\ i \in 1 .. Len(todo) - 1
      BY <1>1
    <3>2. todo[i + 1] = BootList[k + (i + 1)]
      BY <1>1, <3>1
    <3> QED BY <2>2, <3>1, <3>2
  <2>4. Len(todo') = 6 - (k + 1)
    BY <1>1, <2>2
  <2> QED BY <2>2, <2>3, <2>4
<1>5. /\ BootList[1] = [op |-> "call"] /\ BootList[3] = [op |-> "return"]
      /\ BootList[4] = [op |-> "call"] /\ BootList[6] = [op |-> "return"]
      /\ BootList[2] = [op |-> "transfer", reg |-> "quad", val |-> 0, wren |-> FALSE]
      /\ BootList[5] = [op |-> "transfer", reg |-> "quad", val |-> TRUE, wren |-> TRUE]
  BY BootListIs
<1> DEFINE step(e, b) == /\ ctrl' \in [enabled : BOOLEAN, bits : SUBSET Bits, latency : 0 .. Keep]
                         /\ chip' \in [quad : BOOLEAN, latency : 0 .. Keep]
                         /\ ctrl'.enabled = e /\ ctrl'.bits = {} /\ ctrl'.latency = 8
                         /\ chip'.quad = b /\ chip'.latency = 8
                         /\ where' = IF e = TRUE THEN "flash" ELSE "sram"
<1>0. /\ ctrl \in [enabled : BOOLEAN, bits : SUBSET Bits, latency : 0 .. Keep]
      /\ chip \in [quad : BOOLEAN, latency : 0 .. Keep]
  BY DEF FlashType
<1>6. k \in {0, 3} => step(FALSE, FALSE)
  <2> SUFFICES ASSUME k \in {0, 3} PROVE step(FALSE, FALSE)
    OBVIOUS
  <2>1. Next1.op = "call"
    BY <1>3, <1>5
  <2>2. CallWorker
    BY <1>2, <2>1 DEF Transfer, ReturnFromWorker, Doing
  <2>3. /\ ctrl' = [ctrl EXCEPT !.enabled = FALSE] /\ chip' = chip /\ where' = "sram"
        /\ ctrl.bits = {} /\ ctrl.latency = 8 /\ chip.quad = FALSE /\ chip.latency = 8
    BY <1>1, <2>2 DEF CallWorker
  <2> QED BY <1>0, <2>3
<1>7. k = 1 => step(FALSE, FALSE)
  <2> SUFFICES ASSUME k = 1 PROVE step(FALSE, FALSE)
    OBVIOUS
  <2>1. Next1.op = "transfer" /\ Next1.wren = FALSE
    BY <1>3, <1>5
  <2>2. Transfer
    BY <1>2, <2>1 DEF CallWorker, ReturnFromWorker, Doing
  <2>3. /\ ctrl' = ctrl /\ chip' = chip /\ where' = "sram" /\ ctrl.enabled = FALSE
        /\ ctrl.bits = {} /\ ctrl.latency = 8 /\ chip.quad = FALSE /\ chip.latency = 8
    BY <1>1, <2>1, <2>2 DEF Transfer
  <2> QED BY <1>0, <2>3
<1>8. k = 4 => step(FALSE, TRUE)
  <2> SUFFICES ASSUME k = 4 PROVE step(FALSE, TRUE)
    OBVIOUS
  <2>1. Next1.op = "transfer" /\ Next1.wren = TRUE /\ Next1.reg = "quad" /\ Next1.val = TRUE
    BY <1>3, <1>5
  <2>2. Transfer
    BY <1>2, <2>1 DEF CallWorker, ReturnFromWorker, Doing
  <2>3. ~Continuous
    BY <1>1 DEF Continuous
  <2>4. chip' = [chip EXCEPT !["quad"] = TRUE] /\ UNCHANGED <<where, ctrl>>
    BY <2>1, <2>2, <2>3 DEF Transfer
  <2>5. /\ ctrl.enabled = FALSE /\ where' = "sram"
        /\ ctrl.bits = {} /\ ctrl.latency = 8 /\ chip.latency = 8
    BY <1>1, <2>4
  <2> QED BY <1>0, <2>4, <2>5
<1>9. (k = 2 => step(TRUE, FALSE)) /\ (k = 5 => step(TRUE, TRUE))
  <2> SUFFICES ASSUME k \in {2, 5} PROVE (k = 2 => step(TRUE, FALSE)) /\ (k = 5 => step(TRUE, TRUE))
    OBVIOUS
  <2>1. Next1.op = "return"
    BY <1>3, <1>5
  <2>2. ReturnFromWorker
    BY <1>2, <2>1 DEF Transfer, CallWorker, Doing
  <2>3. /\ ctrl' = [ctrl EXCEPT !.enabled = TRUE] /\ chip' = chip /\ where' = "flash"
        /\ ctrl.bits = {} /\ ctrl.latency = 8 /\ chip.latency = 8
        /\ (k = 5 => chip.quad = TRUE) /\ (k # 5 => chip.quad = FALSE)
    BY <1>1, <2>2 DEF ReturnFromWorker
  <2>4. CASE k = 2
    <3>1. chip.quad = FALSE
      BY <1>1, <2>4
    <3>2. step(TRUE, FALSE)
      BY <1>0, <2>3, <3>1
    <3> QED BY <2>4, <3>2
  <2>5. CASE k = 5
    <3>1. step(TRUE, TRUE)
      BY <1>0, <2>3, <2>5
    <3> QED BY <2>5, <3>1
  <2> QED BY <2>4, <2>5
<1>10. FlashType'
  <2>1. \E e \in BOOLEAN, b \in BOOLEAN : step(e, b)
    BY <1>6, <1>7, <1>8, <1>9
  <2> QED BY <1>0, <1>2, <2>1 DEF FlashType
<1>11. CASE k < 5
  <2>1. /\ (k + 1 \in {0, 3} => ctrl'.enabled = TRUE) /\ (k + 1 \notin {0, 3} => ctrl'.enabled = FALSE) /\ ctrl'.bits = {} /\ ctrl'.latency = 8
        /\ (k + 1 = 5 => chip'.quad = TRUE) /\ (k + 1 # 5 => chip'.quad = FALSE) /\ chip'.latency = 8
        /\ where' = IF k + 1 \in {0, 3} THEN "flash" ELSE "sram"
    <3>1. CASE k = 2
      BY <1>0, <1>1, <1>9, <3>1
    <3>2. CASE k = 4
      BY <1>0, <1>1, <1>8, <3>2
    <3>3. CASE k \in {0, 1, 3}
      BY <1>0, <1>1, <1>6, <1>7, <3>3
    <3>4. k = 2 \/ k = 4 \/ k \in {0, 1, 3}
      BY <1>11
    <3> HIDE DEF step
    <3> QED BY <3>1, <3>2, <3>3, <3>4
  <2>2. k + 1 \in 0 .. 5
    BY <1>11
  <2> HIDE DEF step
  <2>3. Booting'
    BY <1>4, <1>11, <2>1, <2>2 DEF Booting
  <2> QED BY <1>10, <2>3 DEF FlashInv
<1>12. CASE k = 5
  <2>1. step(TRUE, TRUE)
    BY <1>9, <1>12
  <2> HIDE DEF step
  <2>2. todo' = <<>>
    <3>1. Len(todo) = 1 /\ todo' = Tail(todo) /\ todo \in Seq(BootOps)
      BY <1>1, <1>2, <1>12
    <3> QED BY <3>1
  <2>3. /\ chip'.quad = TRUE /\ where' = "flash" /\ ctrl'.enabled = TRUE
        /\ ctrl'.latency = chip'.latency /\ ~Dummies'
    BY <1>0, <1>1, <2>1 DEF Dummies, step
  <2>4. Settled'
    BY <1>2, <2>2, <2>3, SoundEmpty, Begins
  <2> QED BY <1>10, <2>4 DEF FlashInv
<1> QED BY <1>11, <1>12

LEMMA SettledOperation ==
  ASSUME FlashType, Settled, Operation
  PROVE  FlashInv'
<1>1. PICK s \in Seq(Ops) : \E k \in 0 .. Len(s) : Sound(s) /\ Rest(s, k) /\ Done(s, k)
  BY DEF Settled
<1>2. PICK k \in 0 .. Len(s) : Sound(s) /\ Rest(s, k) /\ Done(s, k)
  BY <1>1
<1>3. /\ k + 1 \in 0 .. Len(s) /\ Rest(s, k + 1)' /\ Done(s, k + 1)' /\ FlashType'
      /\ chip'.quad = chip.quad
  <2>1. CASE AssignMode \/ SetCrm \/ XorCrm \/ Compute
    <3>1. chip' = chip
      BY <2>1 DEF AssignMode, SetCrm, XorCrm, Compute
    <3> QED BY <1>2, <2>1, <3>1, ControlKeeps
  <2>2. CASE CallWorker
    <3>1. chip' = chip
      BY <2>2 DEF CallWorker
    <3> QED BY <1>2, <2>2, <3>1, CallKeeps
  <2>3. CASE Transfer
    BY <1>2, <2>3, TransferKeeps
  <2>4. CASE ReturnFromWorker
    <3>1. chip' = chip
      BY <2>4 DEF ReturnFromWorker
    <3> QED BY <1>2, <2>4, <3>1, ReturnKeeps
  <2> QED BY <2>1, <2>2, <2>3, <2>4 DEF Operation
<1>4. Sound(s)'
  <2>1. board' = board
    BY DEF Operation, AssignMode, SetCrm, XorCrm, Compute, CallWorker, Transfer, ReturnFromWorker, Advance
  <2> QED BY <1>2, <2>1, SoundKept
<1>5. Settled'
  BY <1>3, <1>4 DEF Settled
<1> QED BY <1>3, <1>5 DEF FlashInv

\* Steps that leave the operations and the settings alone.
LEMMA FlashUnchanged == FlashInv /\ UNCHANGED <<machine, todo>> => FlashInv'
<1> SUFFICES ASSUME FlashInv, UNCHANGED <<machine, todo>> PROVE FlashInv'
  OBVIOUS
<1>1. UNCHANGED <<board, where, ctrl, chip, todo>>
  BY DEF machine
<1>2. FlashType'
  BY <1>1 DEF FlashInv, FlashType
<1>3. Booting => Booting'
  BY <1>1 DEF Booting
<1>4. ASSUME Settled PROVE Settled'
  <2>1. PICK s \in Seq(Ops) : \E k \in 0 .. Len(s) : Sound(s) /\ Rest(s, k) /\ Done(s, k)
    BY <1>4 DEF Settled
  <2>2. PICK k \in 0 .. Len(s) : Sound(s) /\ Rest(s, k) /\ Done(s, k)
    BY <2>1
  <2>3. Sound(s)'
    BY <1>1, <2>2, SoundKept
  <2>4. Rest(s, k)'
    BY <1>1, <2>2 DEF Rest
  <2>5. Done(s, k)'
    <3>1. Latencies(s, k)'
      BY <1>1, <2>2 DEF Done, Latencies, Pending, SetsController
    <3>2. ChipKeeps(s, k)'
      BY <1>1, <2>2 DEF Done, ChipKeeps, WritesChip
    <3>3. PlainKeeps(s, k)'
      BY <1>1, <2>2 DEF Done, PlainKeeps, WritesChip
    <3> QED BY <1>1, <2>2, <3>1, <3>2, <3>3 DEF Done, Away, Dummies, ReadLatency
  <2> QED BY <1>1, <1>4, <2>3, <2>4, <2>5 DEF Settled
<1> QED BY <1>2, <1>3, <1>4 DEF FlashInv

\* at the end of a list nothing is half done
LEMMA AtTheEnd ==
  ASSUME FlashInv, todo = <<>>, where = "flash" \/ Readable
  PROVE  /\ FlashType /\ chip.quad = TRUE /\ where = "flash" /\ ctrl.enabled = TRUE
         /\ board = "HX8KDEMO" => ctrl.latency = chip.latency
         /\ board = "ICEBREAKER" /\ Dummies => ctrl.latency = ReadLatency(ctrl.bits)
<1>1. ~Booting
  BY DEF Booting
<1>2. FlashType /\ Settled
  BY <1>1 DEF FlashInv
<1>3. PICK s \in Seq(Ops) : \E k \in 0 .. Len(s) : Sound(s) /\ Rest(s, k) /\ Done(s, k)
  BY <1>2 DEF Settled
<1>4. PICK k \in 0 .. Len(s) : Sound(s) /\ Rest(s, k) /\ Done(s, k)
  BY <1>3
<1>5. k = Len(s) /\ Len(s) \in Nat
  BY <1>4 DEF Rest
<1>6. /\ k > 0 => Fits(s, k)
      /\ k > 1 => Fits(s, k - 1) /\ (k - 1) + 2 = k + 1
  BY <1>4, <1>5 DEF Sound
<1>7. board = "HX8KDEMO" => ~Pending(s, k)
  BY <1>5, <1>6 DEF Pending, Fits, SettingFits
<1>8. ~Away(s, k) /\ ctrl.enabled \in BOOLEAN
  BY <1>2, <1>4 DEF Done, Readable, FlashType
<1> QED BY <1>2, <1>4, <1>7, <1>8 DEF Done, Latencies, Settled

LEMMA FlashKept == FlashInv /\ [Next]_vars => FlashInv'
<1> SUFFICES ASSUME FlashInv, [Next]_vars PROVE FlashInv'
  OBVIOUS
<1>1. CASE Operation
  BY <1>1, BootOperation, SettledOperation DEF FlashInv
<1>2. CASE \/ PressEnter \/ ShowMenu \/ MemtestWrite \/ MemtestCheck \/ EchoGet \/ EchoPut \/ AnswerPrompt
           \/ Tick \/ \E c \in Typed : Receive(c)
  <2>1. UNCHANGED <<machine, todo>>
    BY <1>2 DEF PressEnter, ShowMenu, MemtestWrite, MemtestCheck, EchoGet, EchoPut, AnswerPrompt, Tick, Receive
  <2> QED BY <2>1, FlashUnchanged
<1>3. CASE Dispatch
  <2>1. /\ todo = <<>> /\ Readable /\ UNCHANGED machine
        /\ todo' = todo \/ todo' = <<>> \/ todo' = Command(rx)
    BY <1>3 DEF Dispatch, At
  <2>2. CASE todo' = <<>>
    BY <2>1, <2>2, FlashUnchanged
  <2>3. CASE todo' = Command(rx)
    <3> DEFINE s == Command(rx)
    <3>1. /\ FlashType /\ chip.quad = TRUE /\ where = "flash" /\ ctrl.enabled = TRUE
          /\ board = "HX8KDEMO" => ctrl.latency = chip.latency
          /\ board = "ICEBREAKER" /\ Dummies => ctrl.latency = ReadLatency(ctrl.bits)
      BY <2>1, AtTheEnd
    <3>2. Sound(s)
      BY <3>1, CommandsSound DEF FlashType
    <3>3. s \in Seq(Ops)
      BY <3>2 DEF Sound
    <3> HIDE DEF s
    <3>4. UNCHANGED <<board, where, ctrl, chip>> /\ Dummies' = Dummies
      BY <2>1 DEF machine, Dummies
    <3>5. Settled'
      BY <2>3, <3>1, <3>2, <3>3, <3>4, Begins DEF s
    <3> QED BY <3>1, <3>4, <3>5 DEF FlashInv, FlashType
  <2> QED BY <2>1, <2>2, <2>3
<1>4. CASE ExecuteGarbage
  <2>1. where = "flash" /\ ~Readable /\ todo' = <<>> /\ UNCHANGED <<board, where, ctrl, chip>>
    BY <1>4 DEF ExecuteGarbage, machine
  <2>2. ~Booting
    <3> SUFFICES ASSUME Booting PROVE Readable
      BY <2>1
    <3>1. ctrl.bits = {} /\ ctrl.enabled
      BY <2>1 DEF Booting
    <3> QED BY <3>1 DEF Readable, Dummies
  <2>3. FlashType /\ Settled
    BY <2>2 DEF FlashInv
  <2>4. PICK s \in Seq(Ops) : \E k \in 0 .. Len(s) : Sound(s) /\ Rest(s, k) /\ Done(s, k)
    BY <2>3 DEF Settled
  <2>5. PICK k \in 0 .. Len(s) : Sound(s) /\ Rest(s, k) /\ Done(s, k)
    BY <2>4
  <2>6. ctrl.enabled /\ ctrl.bits = {"crm"} /\ chip.quad = TRUE
    BY <2>1, <2>3, SettledReadable DEF Settled
  <2>7. /\ board = "HX8KDEMO" => ctrl.latency = chip.latency
        /\ ~Dummies /\ ctrl.enabled = TRUE
    BY <2>5, <2>6 DEF Done, Latencies, Dummies
  <2>8. Settled'
    <3>1. ~Dummies'
      BY <2>1, <2>7 DEF Dummies
    <3> QED BY <2>1, <2>3, <2>6, <2>7, <3>1, SoundEmpty, Begins DEF FlashType
  <2> QED BY <2>1, <2>3, <2>8 DEF FlashInv, FlashType
<1>5. CASE UNCHANGED vars
  BY <1>5, FlashUnchanged DEF vars
<1> QED BY <1>1, <1>2, <1>3, <1>4, <1>5 DEF Next, Program, Main

LEMMA FlashInit == Init => FlashInv
<1> SUFFICES ASSUME Init PROVE FlashInv
  OBVIOUS
<1>1. todo = BootList
  <2>1. flashio("quad", TRUE, 80) = flashio("quad", TRUE, 6)
    <3>1. (80 # 0) = (6 # 0)
      OBVIOUS
    <3> QED BY <3>1 DEF flashio
  <2> QED BY <2>1 DEF Init, set_flash_qspi_flag, BootList
<1>2. /\ board \in Boards /\ where = "flash"
      /\ ctrl = [enabled |-> TRUE, bits |-> {}, latency |-> 8]
      /\ chip = [quad |-> FALSE, latency |-> 8]
  BY DEF Init
<1>3. FlashType
  <2>1. {} \in SUBSET Bits /\ 8 \in 0 .. Keep
    BY DEF Keep
  <2> QED BY <1>2, <2>1 DEF FlashType
<1>4. BootList \in Seq(BootOps) /\ Len(BootList) = 6
  BY BootListIs
<1>5. Booting
  <2>1. 0 \in 0 .. 5 /\ 6 - 0 = 6 /\ 0 \in {0, 3} /\ 0 # 5
    OBVIOUS
  <2>2. \A i \in 1 .. 6 - 0 : todo[i] = BootList[0 + i]
    BY <1>1
  <2>3. /\ (0 \in {0, 3} => ctrl.enabled = TRUE) /\ (0 \notin {0, 3} => ctrl.enabled = FALSE) /\ ctrl.bits = {} /\ ctrl.latency = 8
        /\ (0 = 5 => chip.quad = TRUE) /\ (0 # 5 => chip.quad = FALSE) /\ chip.latency = 8
    BY <1>2
  <2> QED BY <1>1, <1>2, <1>4, <2>1, <2>2, <2>3 DEF Booting
<1> QED BY <1>3, <1>5 DEF FlashInv

LEMMA BootReadable == Booting /\ where = "flash" => Readable
  BY DEF Booting, Readable, Dummies

\* While the firmware reconfigures the flash it is executed from, the flash can
\* be read in every setting it passes through (set_flash_latency,
\* set_flash_mode_*, flashio of legacy/picosoc/firmware.c), whatever menu
\* entries are chosen, in any order and any number.
THEOREM AlwaysReadable == PicoSpec => []CodeReadable
<1>1. FlashInv => CodeReadable
  BY BootReadable, SettledReadable DEF FlashInv, CodeReadable
<1> QED BY <1>1, FlashInit, FlashKept, PTL DEF PicoSpec

\* The chip understands every write of a register and, on the HX8K board, every
\* read of one, which it answers with the right number of dummy cycles
\* (set_flash_latency and cmd_read_flash_regs_print of
\* legacy/picosoc/firmware.c, flashio_worker of start.s), for every order of menu
\* entries.
THEOREM AlwaysUnderstood == PicoSpec => RegistersUnderstood
<1> DEFINE understood ==
      /\ Next1.wren \/ Next1.reg = "quad" \/ (board = "HX8KDEMO" /\ Next1.reg = "status")
           => ~Continuous
      /\ board = "HX8KDEMO" /\ Next1.reg # "id" /\ ~Next1.wren => chip.latency = 8
<1>1. FlashInv /\ Doing("transfer") => understood
  <2> SUFFICES ASSUME FlashInv, Doing("transfer") PROVE understood
    OBVIOUS
  <2>1. CASE Booting
    <3>1. chip.latency = 8 /\ ctrl.bits = {}
      BY <2>1 DEF Booting
    <3> QED BY <3>1 DEF Continuous
  <2>2. CASE FlashType /\ Settled
    <3>1. PICK s \in Seq(Ops) : \E k \in 0 .. Len(s) : Sound(s) /\ Rest(s, k) /\ Done(s, k)
      BY <2>2 DEF Settled
    <3>2. PICK k \in 0 .. Len(s) : Sound(s) /\ Rest(s, k) /\ Done(s, k)
      BY <3>1
    <3>3. todo # <<>> /\ Next1.op = "transfer"
      BY DEF Doing
    <3>4. Next1 \in Ops
      BY <3>2, <3>3, NextFits
    <3>5. Next1.wren \in BOOLEAN /\ Next1.reg # "quad"
      BY <3>3, <3>4 DEF Ops
    <3>6. /\ Next1.wren => ctrl.bits = {}
          /\ board = "HX8KDEMO" /\ Next1.reg # "id" /\ ~Next1.wren =>
               ctrl.bits = {} /\ chip.latency = 8
      BY <2>2, <3>2, <3>5, TransferUnderstood
    <3>7. ctrl.bits = {} => ~Continuous
      BY DEF Continuous
    <3> QED BY <3>5, <3>6, <3>7
  <2> QED BY <2>1, <2>2 DEF FlashInv
<1>2. FlashInv /\ [Next]_vars => [Doing("transfer") /\ todo' # todo => understood]_vars
  BY <1>1
<1> QED BY <1>2, FlashInit, FlashKept, PTL DEF PicoSpec, RegistersUnderstood

=============================================================================
