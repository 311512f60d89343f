------------------------------- MODULE NanoBus --------------------------------
(***************************************************************************)
(* The way of a transfer from the core's memory port to memory: the        *)
(* selection of the look-ahead interface and the address decoder with the  *)
(* timer's compare register (rtl/nanorv32.v), then one of the three        *)
(* buses: the native port, the Wishbone bridge or the AXI4-Lite adapter,   *)
(* each with the memory its test bench connects (tb/test/).                *)
(*                                                                         *)
(* A step is one rising edge of the clock.  The memories may take their    *)
(* time (MaxStall edges at most), and reset may come at any edge.          *)
(***************************************************************************)
EXTENDS WbBridge, AxiAdapter

CONSTANTS
  Words,             \* word addresses of memory
  TimerAddr,         \* the word address of mtimecmp, outside memory
  Values,
  None,
  MaxStall           \* bound: how many edges in a row a memory may let pass

ASSUME WordsAssumption == Words \subseteq Nat /\ TimerAddr \in Nat \ Words
ASSUME ValuesAssumption == 0 \in Values /\ None \notin Values \cup Words
ASSUME StallAssumption == MaxStall \in Nat

VARIABLES
  bus,               \* which of the three tops
  la,                \* USE_LA_MEM_INTERFACE
  awake,             \* an edge with resetn high has passed since reset
  mem_valid,
  port,              \* mem_addr, mem_wstrb # 0, mem_wdata (0 with a read)
  mem_la_secondword,
  mem_rdata_q,       \* what the last read of the core has got
  cmp_val,           \* the compare register
  ready, rdata,      \* mem_ready and mem_rdata of the native memory
  wb_ack, wb_dat,    \* wb_ack_o and wb_dat_o of the Wishbone memory
  raddr, waddr, wdata, rvalid, bvalid, axi_rdata,   \* the AXI memory
  memory, stall,
  performed          \* how often the last request has been carried out

coreVars == <<awake, mem_valid, port, mem_la_secondword, mem_rdata_q, cmp_val>>
nativeVars == <<ready, rdata>>
wbSlaveVars == <<wb_ack, wb_dat>>
axiSlaveVars == <<raddr, waddr, wdata, rvalid, bvalid, axi_rdata>>
vars == <<bus, la, coreVars, nativeVars, wbVars, wbSlaveVars, axiVars, axiSlaveVars,
          memory, stall, performed>>

Addresses == Words \cup {TimerAddr}

Reads == [addr : Addresses, write : {FALSE}, value : {0}]
Requests == Reads \cup [addr : Addresses, write : {TRUE}, value : Values]

ASSUME NoneAssumption == None \notin Requests

Memory == INSTANCE MainMemory WITH
  Register <- TimerAddr,
  \* the compare register follows a write the port's registers still show
  memory <- [a \in Addresses |->
               IF a # TimerAddr THEN memory[a]
               ELSE IF port.addr = a /\ port.write THEN port.value ELSE cmp_val],
  request <- IF mem_valid THEN port ELSE None,
  effects <- performed,
  data <- mem_rdata_q

Init ==
  /\ bus \in {"native", "wishbone", "axi"} /\ la \in BOOLEAN /\ (la => bus = "native")
  /\ awake = FALSE /\ mem_valid = FALSE /\ mem_la_secondword = FALSE
  /\ port = [addr |-> 0, write |-> FALSE, value |-> 0]
  /\ mem_rdata_q = None /\ cmp_val = 0
  /\ ready = FALSE /\ rdata = None
  /\ WbInit({None}) /\ wb_ack = FALSE /\ wb_dat = None
  /\ AxiInit /\ (bus # "axi" => ~ack_arvalid /\ ~ack_wvalid /\ ~xfer_done)
  /\ raddr = None /\ waddr = None /\ wdata = None
  /\ rvalid = FALSE /\ bvalid = FALSE /\ axi_rdata = None
  /\ memory = [a \in Words |-> 0] /\ stall = 0 /\ performed = 0
-------------------------------------------------------------------------------
(* What the buses see in a cycle in which the core's mem_la_read or          *)
(* mem_la_write announces req, and the memory does what is in go.            *)

\* faulty: the look-ahead address is not selected, only its strobe
TargetOfRegisters(req) == port

Target(req) == IF la /\ req # None THEN req ELSE port

\* mem_valid behind the address decoder
Valid(req) == /\ mem_valid \/ (la /\ req # None)
              /\ Target(req).addr # TimerAddr

ArOffered == mem_axi_arvalid(Valid(None), port.write)
AwOffered == mem_axi_awvalid(Valid(None), port.write)
WOffered == mem_axi_wvalid(Valid(None), port.write)

\* The AXI memory takes what is offered, and may answer in the same cycle.
Raddr(go) == IF "ar" \in go THEN port.addr ELSE raddr
Waddr(go) == IF "aw" \in go THEN port.addr ELSE waddr
Wdata(go) == IF "w" \in go THEN port.value ELSE wdata
CanAnswerRead(go) == ~rvalid /\ Raddr(go) # None
CanAnswerWrite(go) == ~bvalid /\ Waddr(go) # None /\ Wdata(go) # None
ReadAnswered(go) == rvalid \/ ("answer" \in go /\ CanAnswerRead(go))
WriteAnswered(go) == bvalid \/ ("answer" \in go /\ CanAnswerWrite(go))

\* What a memory is able to do in this cycle.
Able(req, go) ==
  CASE bus = "native" -> go \subseteq {"answer"} /\ (go # {} => Valid(req) /\ ~ready)
    [] bus = "wishbone" -> go \subseteq {"answer"} /\ (go # {} => wbm.cyc /\ ~wb_ack)
    [] bus = "axi" ->
         /\ "ar" \in go => ArOffered /\ raddr = None
         /\ "aw" \in go => AwOffered /\ waddr = None
         /\ "w" \in go => WOffered /\ wdata = None
         /\ {"answer", "late"} \cap go # {} => CanAnswerRead(go) \/ CanAnswerWrite(go)
         /\ ~({"answer", "late"} \subseteq go)

BusReady(go) ==
  CASE bus = "native" -> ready
    [] bus = "wishbone" -> wb_ready
    [] bus = "axi" -> ReadAnswered(go) \/ WriteAnswered(go)

BusData(go) ==
  CASE bus = "native" -> rdata
    [] bus = "wishbone" -> wb_rdata
    [] bus = "axi" -> IF rvalid \/ ~ReadAnswered(go) THEN axi_rdata ELSE memory[Raddr(go)]

\* mem_xfer, and the data that comes with it
Answered(req, go) == mem_valid /\ (Target(req).addr = TimerAddr \/ BusReady(go))
Data(req, go) == IF Target(req).addr = TimerAddr THEN cmp_val ELSE BusData(go)
-------------------------------------------------------------------------------
(* The core.  It raises no request in the first cycle after reset; it may    *)
(* follow the read of a word, in the cycle of its answer, with the next one. *)

MayRequest(req, go) ==
  \/ req = None
  \/ ~mem_valid /\ awake /\ req \in Requests
  \/ /\ mem_valid /\ ~port.write /\ ~mem_la_secondword /\ port.addr \in Words
     /\ req \in Reads /\ req.addr = port.addr + 1 /\ req.addr \in Words
     /\ Answered(None, go)

\* mem_valid after the edge
NextValid(req, go) == req # None \/ (mem_valid /\ ~Answered(req, go))

CoreEdge(req, go) ==
  /\ MayRequest(req, go)
  /\ awake' = TRUE
  /\ mem_valid' = NextValid(req, go)
  /\ \/ port' = IF req # None THEN req ELSE port
     \* a fetch from the prefetched high word clears mem_wstrb without a request
     \/ ~mem_valid /\ awake /\ req = None /\ port' = [port EXCEPT !.write = FALSE, !.value = 0]
  /\ mem_la_secondword' = IF Answered(req, go) THEN req # None ELSE mem_la_secondword
  /\ mem_rdata_q' = IF Answered(req, go) /\ ~port.write THEN Data(req, go) ELSE mem_rdata_q
  /\ cmp_val' = IF Target(req).addr = TimerAddr /\ Target(req).write
                  THEN Target(req).value ELSE cmp_val

\* An edge with resetn low; the registers of address and data keep their values.
CoreReset ==
  /\ awake' = FALSE /\ mem_valid' = FALSE /\ mem_la_secondword' = FALSE
  /\ cmp_val' = 0
  /\ UNCHANGED <<port, mem_rdata_q>>
-------------------------------------------------------------------------------
(* The memories.                                                             *)

Store(a, v) == memory' = [memory EXCEPT ![a] = v]

\* performed counts the writes of the request in progress.
Count(req, done) ==
  performed' = (IF req # None THEN 0 ELSE performed)
                 + (IF done THEN 1 ELSE 0)
                 + (IF req # None /\ req.write /\ req.addr = TimerAddr THEN 1 ELSE 0)

NativeMemory(req, go) ==
  LET t == Target(req) IN
  IF go # {}
    THEN /\ ready' = TRUE /\ rdata' = memory[t.addr]
         /\ IF t.write THEN Store(t.addr, t.value) ELSE UNCHANGED memory
         /\ Count(req, t.write)
    ELSE ready' = FALSE /\ rdata' = None /\ UNCHANGED memory /\ Count(req, FALSE)

\* The Wishbone memory stores in the cycle of its acknowledge.
WbMemory(req, go) ==
  /\ wb_ack' = (go # {})
  /\ wb_dat' = memory[wbm.adr]
  /\ IF wbm.cyc /\ wbm.we /\ wb_ack
       THEN Store(wbm.adr, wbm.dat) /\ Count(req, TRUE)
       ELSE UNCHANGED memory /\ Count(req, FALSE)

\* The AXI memory answers before the edge ("answer") or at it ("late").
AxiMemory(req, go) ==
  LET now == "answer" \in go
      late == "late" \in go
      reads == (now \/ late) /\ CanAnswerRead(go)
      stores == (now \/ late) /\ CanAnswerWrite(go) IN
  /\ raddr' = IF reads THEN None ELSE Raddr(go)
  /\ waddr' = IF stores THEN None ELSE Waddr(go)
  /\ wdata' = IF stores THEN None ELSE Wdata(go)
  /\ axi_rdata' = IF reads THEN memory[Raddr(go)] ELSE axi_rdata
  /\ rvalid' = ((late /\ reads) \/ (ReadAnswered(go) /\ ~mem_axi_rready(Valid(None), port.write)))
  /\ bvalid' = ((late /\ stores) \/ (WriteAnswered(go) /\ ~mem_axi_bready(Valid(None), port.write)))
  /\ IF stores THEN Store(Waddr(go), Wdata(go)) ELSE UNCHANGED memory
  /\ Count(req, stores)
-------------------------------------------------------------------------------
Native(req, go) ==
  /\ bus = "native" /\ NativeMemory(req, go)
  /\ UNCHANGED <<wbVars, wbSlaveVars, axiVars, axiSlaveVars>>

Wishbone(req, go) ==
  /\ bus = "wishbone" /\ WbMemory(req, go)
  /\ WbEdge(Valid(req), port, wb_ack, wb_dat)
  /\ UNCHANGED <<nativeVars, axiVars, axiSlaveVars>>

Axi(req, go) ==
  /\ bus = "axi" /\ AxiMemory(req, go)
  /\ AxiEdge(Valid(req), BusReady(go), "aw" \in go, "w" \in go, "ar" \in go)
  /\ UNCHANGED <<nativeVars, wbVars, wbSlaveVars>>

Work == SUBSET {"ar", "aw", "w", "answer", "late"}

\* A memory that could go on lets at most MaxStall edges pass.
Patience(req, go) ==
  IF go = {} /\ \E g \in Work \ {{}} : Able(req, g)
    THEN stall < MaxStall /\ stall' = stall + 1
    ELSE stall' = 0

Edge ==
  \E req \in Requests \cup {None}, go \in Work :
    /\ Able(req, go) /\ Patience(req, go)
    /\ CoreEdge(req, go)
    /\ Native(req, go) \/ Wishbone(req, go) \/ Axi(req, go)
    /\ UNCHANGED <<bus, la>>

(* An edge with resetn low.  The core and the buses are reset, and the       *)
(* memories of the two bridges with them; the native memory is not.          *)
Reset ==
  /\ CoreReset
  /\ stall' = 0 /\ UNCHANGED <<bus, la>>
  /\ \/ /\ bus = "native"
        /\ \E go \in {{}, {"answer"}} : Able(None, go) /\ NativeMemory(None, go)
        /\ UNCHANGED <<wbVars, wbSlaveVars, axiVars, axiSlaveVars>>
     \/ /\ bus = "wishbone" /\ WbReset /\ wb_ack' = FALSE
        /\ wb_dat' = memory[wbm.adr]
        /\ IF wbm.cyc /\ wbm.we /\ wb_ack
             THEN Store(wbm.adr, wbm.dat) /\ Count(None, TRUE)
             ELSE UNCHANGED <<memory, performed>>
        /\ UNCHANGED <<nativeVars, axiVars, axiSlaveVars>>
     \/ /\ bus = "axi" /\ AxiReset
        /\ raddr' = None /\ waddr' = None /\ wdata' = None
        /\ rvalid' = FALSE /\ bvalid' = FALSE
        /\ \/ UNCHANGED <<memory, performed>>
           \/ \E go \in Work :
                /\ Able(None, go) /\ "answer" \in go /\ CanAnswerWrite(go)
                /\ Store(Waddr(go), Wdata(go)) /\ Count(None, TRUE)
        /\ UNCHANGED <<axi_rdata, nativeVars, wbVars, wbSlaveVars>>

Next == Edge \/ Reset

Spec == Init /\ [][Next]_vars
\* The clock runs.
FairSpec == Spec /\ WF_vars(Edge)
-------------------------------------------------------------------------------

(* Whatever the bus, with stalls, second words and resets at any edge, the   *)
(* core's port behaves as main memory: a write is carried out exactly once   *)
(* and before it is answered, nothing else changes memory, a read gets what  *)
(* its own address holds.                                                    *)
ImplementsMemory == Memory!Spec

(* The AXI adapter takes any response for its own (mem_ready is bvalid or    *)
(* rvalid): so what the memory has taken, and what it answers, belongs to    *)
(* the transfer in progress, and there is one response at most.              *)
ResponsesOwned ==
  /\ raddr # None \/ rvalid => mem_valid /\ ~port.write
  /\ waddr # None \/ wdata # None \/ bvalid => mem_valid /\ port.write
  /\ raddr \in {None, port.addr} /\ waddr \in {None, port.addr}
  /\ ~(rvalid /\ (bvalid \/ raddr # None))

(* Until it is accepted an offer stands: the Wishbone cycle with its address *)
(* and data until the acknowledge, each AXI channel until its handshake.     *)
OffersStand ==
  [][awake' =>
       /\ wbm.cyc /\ ~wb_ack => wbm' = wbm
       /\ bus = "axi" => /\ AwOffered /\ ~AwOffered' => ack_awvalid'
                         /\ WOffered /\ ~WOffered' => ack_wvalid'
                         /\ ArOffered /\ ~ArOffered' => ack_arvalid']_vars

(* Every transfer ends: each is answered, unless reset cuts it off.          *)
TransfersEnd == mem_valid ~> ~mem_valid
===============================================================================
