--------------------------- MODULE NanoBusProofs ---------------------------
(***************************************************************************)
(* Proofs about the way of a transfer: for any memory, any values, any     *)
(* patience of the memories and resets at any edge, each of the three      *)
(* buses behaves as main memory.                                           *)
(***************************************************************************)
EXTENDS NanoBus, TLAPS

(***************************************************************************)
(* The inductive invariant                                                 *)
(***************************************************************************)
TypeOK ==
  /\ bus \in {"native", "wishbone", "axi"} /\ la \in BOOLEAN /\ (la => bus = "native")
  /\ awake \in BOOLEAN /\ mem_valid \in BOOLEAN /\ mem_la_secondword \in BOOLEAN
  /\ port \in [addr : Nat, write : BOOLEAN, value : Values]
  /\ cmp_val \in Values
  /\ memory \in [Words -> Values]
  /\ performed \in 0 .. 1

\* a transfer that goes to memory, and how often it is to be carried out
ToMemory == mem_valid /\ port.addr \in Words
Once == IF port.write THEN 1 ELSE 0

\* The core's port: no transfer right after reset, a read changes nothing, the
\* compare register is written in the cycle of its request, and with the
\* look-ahead interface it already holds what the port still shows.
PortInv ==
  /\ mem_valid => awake /\ port.addr \in Addresses
  /\ port.write => port.addr \in Addresses
  /\ ~port.write => port.value = 0 /\ (mem_valid => performed = 0)
  /\ mem_valid /\ port.addr = TimerAddr => performed = Once
  /\ la /\ awake /\ port.addr = TimerAddr /\ port.write => cmp_val = port.value

\* the native memory answers one edge after it has carried out the transfer
NativeInv ==
  bus = "native" =>
    /\ awake /\ ready =>
         /\ ToMemory /\ performed = Once
         /\ ~port.write => rdata = memory[port.addr]
    /\ ToMemory /\ ~ready => performed = 0

\* The states of the bridge are the stages of the transfer in progress; after
\* reset mem_ready may be left over, until the first edge with resetn high.
BridgeInv ==
  /\ bus # "wishbone" => wbm = NoCycle
  /\ bus = "wishbone" =>
       /\ wb_state \in {"IDLE", "WBSTART", "WBEND"}
       /\ ~awake => wb_state = "IDLE"
       /\ awake /\ wb_ready => wb_state = "WBEND"
       /\ wb_state = "IDLE" => ~wbm.cyc /\ (ToMemory => performed = 0)
       /\ wb_state = "WBSTART" =>
            /\ ToMemory /\ performed = 0
            /\ wbm = [cyc |-> TRUE, adr |-> port.addr, we |-> port.write, dat |-> port.value]
       /\ wb_state = "WBEND" =>
            /\ ToMemory /\ performed = Once /\ wb_ready /\ ~wbm.cyc
            /\ ~port.write => wb_rdata = memory[port.addr]
       /\ wb_ack => wb_state = "WBSTART" /\ wb_dat = memory[port.addr]

\* What the AXI memory holds is what the adapter remembers to have handed over;
\* xfer_done meets a transfer only in the first cycle of a second word.
ReadStage ==
  /\ waddr = None /\ wdata = None /\ ~bvalid
  /\ rvalid => raddr = None /\ axi_rdata = memory[port.addr]
  /\ ack_arvalid = (rvalid \/ raddr = port.addr \/ xfer_done)
  /\ raddr \in {None, port.addr}
  /\ xfer_done => raddr = None /\ ~rvalid
WriteStage ==
  /\ raddr = None /\ ~rvalid /\ ~xfer_done
  /\ bvalid => waddr = None /\ wdata = None
  /\ waddr \in {None, port.addr} /\ wdata \in {None, port.value}
  /\ ack_awvalid = (bvalid \/ waddr = port.addr)
  /\ ack_wvalid = (bvalid \/ wdata = port.value)
  /\ performed = IF bvalid THEN 1 ELSE 0
NoStage == raddr = None /\ waddr = None /\ wdata = None /\ ~rvalid /\ ~bvalid
AxiInv ==
  /\ {rvalid, bvalid, ack_arvalid, ack_awvalid, ack_wvalid, xfer_done} \subseteq BOOLEAN
  /\ bus # "axi" \/ ~ToMemory => NoStage
  /\ bus = "axi" /\ ToMemory => IF port.write THEN WriteStage ELSE ReadStage

BusInv == TypeOK /\ PortInv /\ NativeInv /\ BridgeInv /\ AxiInv

LEMMA Constants ==
  /\ TimerAddr \in Nat /\ TimerAddr \notin Words /\ Words \subseteq Nat
  /\ 0 \in Values /\ None \notin Values /\ None \notin Words
  /\ None \notin Requests /\ Reads \subseteq Requests
  /\ \A r \in Requests : /\ r \in [addr : Nat, write : BOOLEAN, value : Values]
                         /\ r.addr \in Addresses
                         /\ ~r.write => r.value = 0
  /\ \A r \in Reads : ~r.write /\ r.value = 0
  BY WordsAssumption, ValuesAssumption, NoneAssumption DEF Requests, Reads, Addresses

LEMMA BusInit == Init => BusInv
<1> SUFFICES ASSUME Init PROVE BusInv
  OBVIOUS
<1> USE Constants DEF Init
<1>1. TypeOK
  <2>1. memory \in [Words -> Values]
    OBVIOUS
  <2>2. port \in [addr : Nat, write : BOOLEAN, value : Values] /\ performed \in 0 .. 1
    OBVIOUS
  <2> QED BY <2>1, <2>2 DEF TypeOK
<1>2. PortInv
  BY DEF PortInv
<1>3. NativeInv
  BY DEF NativeInv, ToMemory
<1>4. BridgeInv
  BY DEF BridgeInv, ToMemory, WbInit, NoCycle
<1>5. AxiInv
  BY DEF AxiInv, ToMemory, NoStage, AxiInit
<1> QED BY <1>1, <1>2, <1>3, <1>4, <1>5 DEF BusInv

(***************************************************************************)
(* What the core's port may do at an edge                                  *)
(***************************************************************************)
PortIdle ==
  /\ ~mem_valid /\ ~mem_valid'
  /\ port' = port \/ (awake /\ port' = [port EXCEPT !.write = FALSE, !.value = 0])
  /\ mem_rdata_q' = mem_rdata_q

PortBegins(req) ==
  /\ ~mem_valid /\ awake /\ req \in Requests
  /\ mem_valid' /\ port' = req
  /\ mem_rdata_q' = mem_rdata_q

PortWaits(go) ==
  /\ ToMemory /\ ~BusReady(go)
  /\ mem_valid' /\ port' = port
  /\ mem_rdata_q' = mem_rdata_q

PortEnds(go) ==
  /\ ToMemory /\ BusReady(go)
  /\ ~mem_valid' /\ port' = port
  /\ mem_rdata_q' = IF port.write THEN mem_rdata_q ELSE BusData(go)

PortContinues(req, go) ==
  /\ ToMemory /\ BusReady(go) /\ ~port.write
  /\ req \in Reads /\ req.addr = port.addr + 1 /\ req.addr \in Words
  /\ mem_valid' /\ port' = req
  /\ mem_rdata_q' = BusData(go)

\* the compare register answers in the cycle after the request
PortMeetsTimer ==
  /\ mem_valid /\ port.addr = TimerAddr
  /\ ~mem_valid' /\ port' = port
  /\ mem_rdata_q' = IF port.write THEN mem_rdata_q ELSE cmp_val

PortStep(req, go) ==
  \/ req = None /\ (PortIdle \/ PortWaits(go) \/ PortEnds(go) \/ PortMeetsTimer)
  \/ req # None /\ (PortBegins(req) \/ PortContinues(req, go))

LEMMA PortCases ==
  ASSUME BusInv, NEW req \in Requests \cup {None}, NEW go, CoreEdge(req, go)
  PROVE  PortStep(req, go) /\ awake' = TRUE /\ mem_valid' \in BOOLEAN
<1> USE Constants DEF BusInv, TypeOK, PortInv, CoreEdge, PortStep, Target, ToMemory, Addresses
<1>0. mem_valid' = (req # None \/ (mem_valid /\ ~Answered(req, go))) /\ awake' = TRUE
  BY DEF NextValid
<1>1. CASE req = None
  <2>1. port' = port \/ (~mem_valid /\ awake /\ port' = [port EXCEPT !.write = FALSE, !.value = 0])
    BY <1>1
  <2>2. Answered(req, go) <=> mem_valid /\ (port.addr = TimerAddr \/ BusReady(go))
    BY <1>1 DEF Answered
  <2>3. mem_rdata_q' = IF Answered(req, go) /\ ~port.write
                         THEN (IF port.addr = TimerAddr THEN cmp_val ELSE BusData(go))
                         ELSE mem_rdata_q
    BY <1>1 DEF Data
  <2>4. CASE ~mem_valid
    BY <1>0, <1>1, <2>1, <2>2, <2>3, <2>4 DEF PortIdle
  <2>5. CASE mem_valid /\ port.addr = TimerAddr
    BY <1>0, <1>1, <2>1, <2>2, <2>3, <2>5 DEF PortMeetsTimer
  <2>6. CASE ToMemory /\ BusReady(go)
    BY <1>0, <1>1, <2>1, <2>2, <2>3, <2>6 DEF PortEnds
  <2>7. CASE ToMemory /\ ~BusReady(go)
    BY <1>0, <1>1, <2>1, <2>2, <2>3, <2>7 DEF PortWaits
  <2> QED BY <1>0, <2>4, <2>5, <2>6, <2>7
<1>2. CASE req # None /\ ~mem_valid
  <2>1. awake /\ req \in Requests /\ port' = req
    BY <1>2 DEF MayRequest
  <2>2. mem_rdata_q' = mem_rdata_q
    BY <1>2 DEF Answered
  <2> QED BY <1>0, <1>2, <2>1, <2>2 DEF PortBegins
<1>3. CASE req # None /\ mem_valid
  <2>1. /\ ~port.write /\ port.addr \in Words /\ port' = req
        /\ req \in Reads /\ req.addr = port.addr + 1 /\ req.addr \in Words
        /\ Answered(None, go)
    BY <1>3 DEF MayRequest
  <2>2. BusReady(go) /\ Answered(req, go)
    BY <1>3, <2>1 DEF Answered
  <2>3. mem_rdata_q' = BusData(go)
    BY <1>3, <2>1, <2>2 DEF Data
  <2> QED BY <1>0, <1>3, <2>1, <2>2, <2>3 DEF PortContinues
<1> QED BY <1>1, <1>2, <1>3

\* The register as software sees it: a write the port still shows is about to
\* reach it (the refinement mapping of NanoBus).
Shown == IF port.addr = TimerAddr /\ port.write THEN port.value ELSE cmp_val

LEMMA PortKept ==
  ASSUME BusInv, NEW req \in Requests \cup {None}, NEW go, CoreEdge(req, go), UNCHANGED la
  PROVE  /\ mem_la_secondword' \in BOOLEAN
         /\ port' \in [addr : Nat, write : BOOLEAN, value : Values]
         /\ cmp_val' \in Values
         /\ mem_valid' => awake' /\ port'.addr \in Addresses
         /\ port'.write => port'.addr \in Addresses
         /\ ~port'.write => port'.value = 0
         /\ la' /\ awake' /\ port'.addr = TimerAddr /\ port'.write => cmp_val' = port'.value
         /\ Shown' = IF PortBegins(req) /\ req.addr = TimerAddr /\ req.write
                       THEN req.value ELSE Shown
<1> USE Constants DEF BusInv, TypeOK, PortInv
<1>0. PortStep(req, go) /\ awake' = TRUE
  BY PortCases
<1>1. mem_la_secondword' \in BOOLEAN
  BY DEF CoreEdge
<1>2. /\ cmp_val' = IF Target(req).addr = TimerAddr /\ Target(req).write
                      THEN Target(req).value ELSE cmp_val
      /\ Target(req) = IF la /\ req # None THEN req ELSE port
  BY DEF CoreEdge, Target
<1>3. CASE req = None
  <2>1. Target(req) = port
    BY <1>2, <1>3
  <2>2. port' = port \/ port' = [port EXCEPT !.write = FALSE, !.value = 0]
    BY <1>0, <1>3 DEF PortStep, PortIdle, PortWaits, PortEnds, PortMeetsTimer
  <2>3. mem_valid' => port' = port /\ mem_valid
    BY <1>0, <1>3 DEF PortStep, PortIdle, PortWaits, PortEnds, PortMeetsTimer, ToMemory
  <2>4. cmp_val' = Shown
    BY <1>2, <2>1 DEF Shown
  <2>5. /\ port' \in [addr : Nat, write : BOOLEAN, value : Values]
        /\ port'.addr = port.addr /\ (port'.write => port' = port)
        /\ ~port'.write => port'.value = 0
    BY <2>2
  <2>6. ~PortBegins(req)
    BY <1>3 DEF PortBegins
  <2>7. Shown' = Shown
    BY <2>4, <2>5 DEF Shown
  <2>8. Shown \in Values
    BY DEF Shown
  <2>9. port'.addr = TimerAddr /\ port'.write => cmp_val' = port'.value
    BY <2>4, <2>5 DEF Shown
  <2> QED BY <1>0, <1>1, <2>3, <2>4, <2>5, <2>6, <2>7, <2>8, <2>9
<1>4. CASE req # None
  <2>1. port' = req /\ req \in Requests /\ mem_valid'
    BY <1>0, <1>4 DEF PortStep, PortBegins, PortContinues
  <2>2. awake
    BY <1>0, <1>4 DEF PortStep, PortBegins, PortContinues, ToMemory
  <2>3. req.addr = TimerAddr /\ req.write => PortBegins(req)
    BY <1>0, <1>4 DEF PortStep, PortContinues
  <2>4. CASE la
    <3>1. Target(req) = req
      BY <1>2, <1>4, <2>4
    <3>2. Shown = cmp_val
      BY <2>2, <2>4 DEF Shown
    <3> QED BY <1>0, <1>1, <1>2, <2>1, <2>3, <3>1, <3>2 DEF Shown
  <2>5. CASE ~la
    <3>1. cmp_val' = Shown
      BY <1>2, <2>5 DEF Shown
    <3>2. Shown \in Values
      BY DEF Shown
    <3> QED BY <1>0, <1>1, <2>1, <2>3, <2>5, <3>1, <3>2 DEF Shown
  <2> QED BY <2>4, <2>5
<1> QED BY <1>3, <1>4

(***************************************************************************)
(* What memory does at an edge, whatever the bus                           *)
(***************************************************************************)
CarriesOut(r) ==
  /\ r.write /\ performed' = 1
  /\ memory' = [memory EXCEPT ![r.addr] = r.value]

MemoryStep(req, go) ==
  \/ /\ req = None /\ (PortIdle \/ PortWaits(go) \/ PortMeetsTimer)
     /\ UNCHANGED <<memory, performed>>
  \/ /\ req = None /\ PortWaits(go) /\ performed = 0
     /\ CarriesOut(port)
  \/ /\ req # None /\ PortBegins(req) /\ req.addr \in Words
     /\ CarriesOut(req) \/ (performed' = 0 /\ UNCHANGED memory)
  \/ /\ req # None /\ PortBegins(req) /\ req.addr = TimerAddr
     /\ UNCHANGED memory /\ performed' = IF req.write THEN 1 ELSE 0
  \/ /\ req = None /\ PortEnds(go) /\ port.write
     /\ \/ performed = 0 /\ CarriesOut(port)
        \/ performed = 1 /\ UNCHANGED <<memory, performed>>
  \/ /\ req = None /\ PortEnds(go) /\ ~port.write
     /\ BusData(go) = memory[port.addr] /\ UNCHANGED <<memory, performed>>
  \/ /\ req # None /\ PortContinues(req, go)
     /\ BusData(go) = memory[port.addr] /\ UNCHANGED memory /\ performed' = 0

LEMMA StepKeepsPort ==
  ASSUME BusInv, NEW req \in Requests \cup {None}, NEW go, CoreEdge(req, go),
         UNCHANGED <<bus, la>>, MemoryStep(req, go)
  PROVE  TypeOK' /\ PortInv'
<1> USE Constants DEF BusInv, TypeOK, PortInv
<1>1. memory' \in [Words -> Values]
  BY DEF MemoryStep, CarriesOut, PortWaits, PortEnds, ToMemory
<1>2. performed' \in 0 .. 1
  BY DEF MemoryStep, CarriesOut
<1>3. awake' = TRUE /\ mem_valid' \in BOOLEAN
  BY PortCases
<1>4. TypeOK'
  BY <1>1, <1>2, <1>3, PortKept
<1>5. ~port'.write /\ mem_valid' => performed' = 0
  BY DEF MemoryStep, PortIdle, PortWaits, PortBegins, PortContinues, PortEnds, PortMeetsTimer,
         CarriesOut, ToMemory
<1>6. mem_valid' /\ port'.addr = TimerAddr => performed' = Once'
  BY DEF MemoryStep, PortIdle, PortWaits, PortBegins, PortContinues, PortEnds, PortMeetsTimer,
         CarriesOut, ToMemory, Once
<1> QED BY <1>3, <1>4, <1>5, <1>6, PortKept

(***************************************************************************)
(* The three buses                                                         *)
(***************************************************************************)
LEMMA CountIs ==
  ASSUME BusInv, NEW req \in Requests \cup {None}, NEW done \in BOOLEAN, Count(req, done)
  PROVE  /\ req = None /\ ~done => performed' = performed
         /\ req = None /\ done /\ performed = 0 => performed' = 1
         /\ req # None /\ req.addr \in Words => performed' = IF done THEN 1 ELSE 0
         /\ req # None /\ req.addr = TimerAddr /\ ~done => performed' = IF req.write THEN 1 ELSE 0
  BY Constants DEF Count, BusInv, TypeOK

\* a bus that is not connected keeps its registers
LEMMA OtherBridge ==
  ASSUME BusInv, bus # "wishbone", UNCHANGED <<bus, wbVars>>
  PROVE  BridgeInv'
  BY DEF BusInv, BridgeInv, wbVars

LEMMA OtherAxi ==
  ASSUME BusInv, bus # "axi", UNCHANGED <<bus, axiVars, axiSlaveVars>>
  PROVE  AxiInv'
  BY DEF BusInv, AxiInv, axiVars, axiSlaveVars, NoStage

LEMMA NativeEdge ==
  ASSUME BusInv, NEW req \in Requests \cup {None}, NEW go \in Work,
         bus = "native", UNCHANGED <<bus, la>>,
         Able(req, go), CoreEdge(req, go), NativeMemory(req, go)
  PROVE  MemoryStep(req, go) /\ NativeInv'
<1> USE Constants DEF BusInv, TypeOK, NativeInv
<1> DEFINE t == Target(req)
<1>0. PortStep(req, go) /\ awake' = TRUE /\ mem_valid' \in BOOLEAN
  BY PortCases
<1>1. /\ go \subseteq {"answer"} /\ (go # {} => Valid(req) /\ ~ready)
      /\ BusReady(go) = ready /\ BusData(go) = rdata
  BY DEF Able, BusReady, BusData
<1>2. CASE go = {}
  <2>1. ready' = FALSE /\ memory' = memory /\ Count(req, FALSE)
    BY <1>2 DEF NativeMemory
  <2>2. CASE req = None
    <3>1. performed' = performed
      BY <2>1, <2>2, CountIs
    <3>2. CASE PortIdle
      BY <2>1, <2>2, <3>1, <3>2 DEF MemoryStep, PortIdle, ToMemory
    <3>3. CASE PortWaits(go)
      BY <1>1, <2>1, <2>2, <3>1, <3>3 DEF MemoryStep, PortWaits, ToMemory
    <3>4. CASE PortMeetsTimer
      BY <2>1, <2>2, <3>1, <3>4 DEF MemoryStep, PortMeetsTimer, ToMemory
    <3>5. CASE PortEnds(go)
      BY <1>1, <2>1, <2>2, <3>1, <3>5 DEF MemoryStep, PortEnds, ToMemory, PortInv, Once
    <3> QED BY <1>0, <2>2, <3>2, <3>3, <3>4, <3>5 DEF PortStep
  <2>3. CASE PortBegins(req) /\ req # None
    <3>1. req.addr \in Words \/ req.addr = TimerAddr
      BY <2>3 DEF Addresses
    <3>2. /\ req.addr \in Words => performed' = 0
          /\ req.addr = TimerAddr => performed' = IF req.write THEN 1 ELSE 0
      BY <2>1, <2>3, CountIs
    <3> QED BY <2>1, <2>3, <3>1, <3>2 DEF MemoryStep, PortBegins, ToMemory
  <2>4. CASE PortContinues(req, go) /\ req # None
    <3>1. performed' = 0
      BY <2>1, <2>4, CountIs DEF PortContinues
    <3> QED BY <1>1, <2>1, <2>4, <3>1 DEF MemoryStep, PortContinues, ToMemory, PortInv
  <2> QED BY <1>0, <2>2, <2>3, <2>4 DEF PortStep
<1>3. CASE go # {}
  <2>1. /\ Valid(req) /\ ~ready /\ ready' = TRUE /\ rdata' = memory[t.addr]
        /\ IF t.write THEN memory' = [memory EXCEPT ![t.addr] = t.value] ELSE memory' = memory
        /\ Count(req, t.write)
    BY <1>1, <1>3 DEF NativeMemory, Store
  <2>2. CASE req = None
    <3>1. t = port /\ mem_valid /\ port.addr \in Words
      BY <2>1, <2>2 DEF Target, Valid, PortInv, Addresses
    <3>2. PortWaits(go) /\ performed = 0
      BY <1>0, <1>1, <2>1, <2>2, <3>1
         DEF PortStep, PortIdle, PortEnds, PortMeetsTimer, ToMemory
    <3>3. performed' = Once
      BY <2>1, <2>2, <3>1, <3>2, CountIs DEF Once
    <3> QED BY <2>1, <2>2, <3>1, <3>2, <3>3 DEF MemoryStep, CarriesOut, PortWaits, ToMemory, Once
  <2>3. CASE req # None
    <3>1. PortBegins(req)
      BY <1>0, <1>1, <2>1, <2>3 DEF PortStep, PortContinues
    <3>2. la /\ t = req /\ req.addr \in Words
      BY <2>1, <2>3, <3>1 DEF Target, Valid, PortBegins, Addresses
    <3>3. performed' = IF req.write THEN 1 ELSE 0
      BY <2>1, <2>3, <3>2, CountIs
    <3> QED BY <2>1, <2>3, <3>1, <3>2, <3>3 DEF MemoryStep, CarriesOut, PortBegins, ToMemory, Once
  <2> QED BY <2>2, <2>3
<1> QED BY <1>2, <1>3

LEMMA WishboneEdge ==
  ASSUME BusInv, NEW req \in Requests \cup {None}, NEW go \in Work,
         bus = "wishbone", UNCHANGED <<bus, la>>, Able(req, go), CoreEdge(req, go),
         WbMemory(req, go), WbEdge(Valid(req), port, wb_ack, wb_dat)
  PROVE  MemoryStep(req, go) /\ BridgeInv'
<1> USE Constants DEF BusInv, TypeOK, BridgeInv
<1>0. PortStep(req, go) /\ awake' = TRUE /\ mem_valid' \in BOOLEAN
  BY PortCases
<1>1. /\ go \subseteq {"answer"} /\ (go # {} => wbm.cyc /\ ~wb_ack)
      /\ BusReady(go) = wb_ready /\ BusData(go) = wb_rdata
  BY DEF Able, BusReady, BusData
<1>2. Valid(req) <=> ToMemory
  BY DEF Valid, Target, ToMemory, PortInv, Addresses
<1>3. CASE wb_state = "IDLE"
  <2>1. ~wbm.cyc /\ ~wb_ack /\ go = {}
    BY <1>1, <1>3
  <2>2. memory' = memory /\ wb_ack' = FALSE /\ Count(req, FALSE)
    BY <2>1 DEF WbMemory
  <2>3. Idle(Valid(req), port)
    BY <1>3 DEF WbEdge, WbStart, WbEnd
  <2>4. CASE ToMemory
    <3>1. performed = 0 /\ ~wb_ready
      BY <1>3, <2>4 DEF ToMemory, PortInv
    <3>2. req = None /\ PortWaits(go)
      BY <1>0, <1>1, <2>4, <3>1
         DEF PortStep, PortIdle, PortEnds, PortMeetsTimer, PortBegins, PortContinues, ToMemory
    <3>3. performed' = 0
      BY <2>2, <3>1, <3>2, CountIs
    <3>4. /\ wb_state' = "WBSTART" /\ wb_ready' = wb_ready
          /\ wbm' = [cyc |-> TRUE, adr |-> port.addr, we |-> port.write, dat |-> port.value]
      BY <1>2, <2>3, <2>4 DEF Idle
    <3>5. ToMemory' /\ port' = port /\ bus' = bus
      BY <2>4, <3>2 DEF PortWaits, ToMemory
    <3>6. MemoryStep(req, go)
      BY <2>2, <3>1, <3>2, <3>3 DEF MemoryStep
    <3>7. ~wb_ready' /\ ~wb_ack'
      BY <2>2, <3>1, <3>4
    <3>8. wbm' = [cyc |-> TRUE, adr |-> port'.addr, we |-> port'.write, dat |-> port'.value]
      BY <3>4, <3>5
    <3>9. wb_state' = "WBSTART" /\ bus' = "wishbone"
      BY <3>4, <3>5
    <3> QED BY <1>0, <3>3, <3>5, <3>6, <3>7, <3>8, <3>9
  <2>5. CASE ~ToMemory
    <3>1. wb_state' = "IDLE" /\ wb_ready' = FALSE /\ ~wbm'.cyc
      <4>1. wbm' = [wbm EXCEPT !.cyc = FALSE, !.we = FALSE]
        BY <1>2, <2>3, <2>5 DEF Idle
      <4>2. wbm = NoCycle \/ wbm' = [wbm EXCEPT !.cyc = FALSE, !.we = FALSE]
        BY <4>1
      <4> QED BY <1>2, <1>3, <2>1, <2>3, <2>5, <4>1 DEF Idle
    <3>2. CASE req = None
      <4>1. performed' = performed
        BY <2>2, <3>2, CountIs
      <4>2. PortIdle \/ PortMeetsTimer
        BY <1>0, <2>5, <3>2 DEF PortStep, PortWaits, PortEnds
      <4> QED BY <2>2, <3>1, <3>2, <4>1, <4>2
              DEF MemoryStep, PortIdle, PortMeetsTimer, ToMemory
    <3>3. CASE req # None
      <4>1. PortBegins(req) /\ (req.addr \in Words \/ req.addr = TimerAddr)
        BY <1>0, <2>5, <3>3 DEF PortStep, PortContinues, PortBegins, Addresses
      <4>2. /\ req.addr \in Words => performed' = 0
            /\ req.addr = TimerAddr => performed' = IF req.write THEN 1 ELSE 0
        BY <2>2, <3>3, CountIs
      <4> QED BY <2>2, <3>1, <3>3, <4>1, <4>2 DEF MemoryStep, PortBegins, ToMemory
    <3> QED BY <3>2, <3>3
  <2> QED BY <2>4, <2>5
<1>4. CASE wb_state = "WBSTART"
  <2>1. /\ ToMemory /\ performed = 0 /\ ~wb_ready
        /\ wbm = [cyc |-> TRUE, adr |-> port.addr, we |-> port.write, dat |-> port.value]
    BY <1>4 DEF ToMemory, PortInv
  <2>2. req = None /\ PortWaits(go)
    BY <1>0, <1>1, <2>1
       DEF PortStep, PortIdle, PortEnds, PortMeetsTimer, PortBegins, PortContinues, ToMemory
  <2>3. WbStart(wb_ack, wb_dat) /\ wb_dat' = memory[port.addr] /\ wb_ack' = (go # {})
    BY <1>4, <2>1 DEF WbEdge, Idle, WbEnd, WbMemory
  <2>4. CASE wb_ack
    <3>1. wb_ack' = FALSE
      BY <1>1, <2>3, <2>4
    <3>2. /\ wb_state' = "WBEND" /\ wb_ready' = TRUE /\ wb_rdata' = memory[port.addr]
          /\ ~wbm'.cyc
      BY <2>1, <2>3, <2>4 DEF WbStart
    <3>3. /\ port.write => /\ memory' = [memory EXCEPT ![port.addr] = port.value]
                           /\ performed' = 1
          /\ ~port.write => memory' = memory /\ performed' = performed
      BY <2>1, <2>2, <2>4, CountIs DEF WbMemory, Store
    <3>4. ToMemory' /\ port' = port /\ bus' = bus
      BY <2>1, <2>2 DEF PortWaits, ToMemory
    <3>5. MemoryStep(req, go)
      BY <2>1, <2>2, <3>3 DEF MemoryStep, CarriesOut
    <3>6. performed' = Once'
      BY <2>1, <3>3, <3>4 DEF Once
    <3>7. ~port.write => wb_rdata' = memory'[port.addr]
      BY <3>2, <3>3
    <3> QED BY <1>0, <3>1, <3>2, <3>4, <3>5, <3>6, <3>7
  <2>5. CASE ~wb_ack
    <3>1. wb_state' = wb_state /\ wb_ready' = wb_ready /\ wbm' = wbm
      BY <2>3, <2>5 DEF WbStart, wbVars
    <3>2. memory' = memory /\ performed' = performed
      BY <2>2, <2>5, CountIs DEF WbMemory
    <3>3. ToMemory' /\ port' = port /\ bus' = bus
      BY <2>1, <2>2 DEF PortWaits, ToMemory
    <3>4. MemoryStep(req, go)
      BY <2>2, <3>2 DEF MemoryStep
    <3>5. wb_dat' = memory'[port.addr] /\ performed' = 0 /\ ~wb_ready'
      BY <2>1, <2>3, <3>1, <3>2
    <3> QED BY <1>0, <1>4, <2>1, <3>1, <3>3, <3>4, <3>5
  <2> QED BY <2>4, <2>5
<1>5. CASE wb_state = "WBEND"
  <2>1. /\ ToMemory /\ performed = Once /\ wb_ready /\ ~wbm.cyc /\ ~wb_ack
        /\ ~port.write => wb_rdata = memory[port.addr]
    BY <1>5
  <2>2. memory' = memory /\ wb_ack' = FALSE /\ Count(req, FALSE)
    BY <1>1, <2>1 DEF WbMemory
  <2>3. wb_state' = "IDLE" /\ wb_ready' = FALSE /\ wbm' = wbm
    BY <1>5 DEF WbEdge, Idle, WbStart, WbEnd
  <2>4. CASE req = None
    <3>1. PortEnds(go)
      BY <1>0, <1>1, <2>1, <2>4 DEF PortStep, PortIdle, PortWaits, PortMeetsTimer, ToMemory
    <3>2. performed' = performed
      BY <2>2, <2>4, CountIs
    <3> QED BY <1>1, <2>1, <2>2, <2>3, <2>4, <3>1, <3>2 DEF MemoryStep, PortEnds, ToMemory, Once
  <2>5. CASE req # None
    <3>1. PortContinues(req, go)
      BY <1>0, <2>1, <2>5 DEF PortStep, PortBegins, ToMemory
    <3>2. performed' = 0
      BY <2>2, <2>5, <3>1, CountIs DEF PortContinues
    <3> QED BY <1>1, <2>1, <2>2, <2>3, <2>5, <3>1, <3>2 DEF MemoryStep, PortContinues, ToMemory
  <2> QED BY <2>4, <2>5
<1> QED BY <1>3, <1>4, <1>5

\* the wires of the adapter and the registers after the edge
LEMMA AxiWires ==
  ASSUME BusInv, NEW req \in Requests \cup {None}, NEW go \in Work, bus = "axi",
         Able(req, go), AxiMemory(req, go),
         AxiEdge(Valid(req), BusReady(go), "aw" \in go, "w" \in go, "ar" \in go)
  PROVE  /\ Valid(None) <=> ToMemory
         /\ "ar" \in go => ToMemory /\ ~port.write /\ ~ack_arvalid /\ raddr = None
         /\ "aw" \in go => ToMemory /\ port.write /\ ~ack_awvalid /\ waddr = None
         /\ "w" \in go => ToMemory /\ port.write /\ ~ack_wvalid /\ wdata = None
         /\ BusReady(go) <=> ReadAnswered(go) \/ WriteAnswered(go)
         /\ xfer_done' <=> ToMemory /\ BusReady(go)
         /\ ack_arvalid' <=> ~xfer_done /\ ToMemory /\ (ack_arvalid \/ "ar" \in go)
         /\ ack_awvalid' <=> ~xfer_done /\ ToMemory /\ (ack_awvalid \/ "aw" \in go)
         /\ ack_wvalid' <=> ~xfer_done /\ ToMemory /\ (ack_wvalid \/ "w" \in go)
         /\ {rvalid', bvalid', ack_arvalid', ack_awvalid', ack_wvalid', xfer_done'} \subseteq BOOLEAN
<1> USE Constants DEF BusInv, TypeOK
<1>1. (Valid(req) <=> ToMemory) /\ (Valid(None) <=> ToMemory)
  BY DEF Valid, Target, ToMemory, PortInv, Addresses
<1>2. /\ "ar" \in go => ToMemory /\ ~port.write /\ ~ack_arvalid /\ raddr = None
      /\ "aw" \in go => ToMemory /\ port.write /\ ~ack_awvalid /\ waddr = None
      /\ "w" \in go => ToMemory /\ port.write /\ ~ack_wvalid /\ wdata = None
  BY <1>1 DEF Able, ArOffered, AwOffered, WOffered, mem_axi_arvalid, mem_axi_awvalid, mem_axi_wvalid
<1>3. BusReady(go) <=> ReadAnswered(go) \/ WriteAnswered(go)
  BY DEF BusReady
<1>4. xfer_done' <=> ToMemory /\ BusReady(go)
  BY <1>1 DEF AxiEdge
<1>5. /\ ack_arvalid' <=> ~xfer_done /\ ToMemory /\ (ack_arvalid \/ "ar" \in go)
      /\ ack_awvalid' <=> ~xfer_done /\ ToMemory /\ (ack_awvalid \/ "aw" \in go)
      /\ ack_wvalid' <=> ~xfer_done /\ ToMemory /\ (ack_wvalid \/ "w" \in go)
  BY <1>1 DEF AxiEdge, Acknowledged
<1>6. {rvalid', bvalid', ack_arvalid', ack_awvalid', ack_wvalid', xfer_done'} \subseteq BOOLEAN
  BY DEF AxiEdge, Acknowledged, AxiMemory
<1> QED BY <1>1, <1>2, <1>3, <1>4, <1>5, <1>6

LEMMA AxiIdle ==
  ASSUME BusInv, NEW req \in Requests \cup {None}, NEW go \in Work, ~ToMemory,
         bus = "axi", UNCHANGED <<bus, la>>, Able(req, go), CoreEdge(req, go),
         AxiMemory(req, go),
         AxiEdge(Valid(req), BusReady(go), "aw" \in go, "w" \in go, "ar" \in go)
  PROVE  MemoryStep(req, go) /\ AxiInv'
<1> USE Constants DEF BusInv, TypeOK
<1>0. PortStep(req, go) /\ awake' = TRUE /\ mem_valid' \in BOOLEAN
  BY PortCases
<1>1. NoStage
  BY DEF AxiInv
<1>2. "ar" \notin go /\ "aw" \notin go /\ "w" \notin go
  BY AxiWires
<1>3. /\ Raddr(go) = None /\ Waddr(go) = None /\ Wdata(go) = None
      /\ ~CanAnswerRead(go) /\ ~CanAnswerWrite(go) /\ ~ReadAnswered(go) /\ ~WriteAnswered(go)
  BY <1>1, <1>2 DEF Raddr, Waddr, Wdata, CanAnswerRead, CanAnswerWrite, ReadAnswered,
                    WriteAnswered, NoStage
<1>4. NoStage' /\ memory' = memory /\ Count(req, FALSE)
  BY <1>3 DEF AxiMemory, NoStage
<1>5. ~ack_arvalid' /\ ~ack_awvalid' /\ ~ack_wvalid' /\ ~xfer_done'
  BY AxiWires
<1>6. {rvalid', bvalid', ack_arvalid', ack_awvalid', ack_wvalid', xfer_done'} \subseteq BOOLEAN
  BY AxiWires
<1>7. ToMemory' => port'.addr # None
  BY DEF ToMemory
<1>8. CASE req = None
  <2>1. performed' = performed
    BY <1>4, <1>8, CountIs
  <2>2. PortIdle \/ PortMeetsTimer
    BY <1>0, <1>8 DEF PortStep, PortWaits, PortEnds
  <2>3. ~ToMemory'
    BY <2>2 DEF PortIdle, PortMeetsTimer, ToMemory
  <2>4. MemoryStep(req, go)
    BY <1>4, <1>8, <2>1, <2>2 DEF MemoryStep
  <2> QED BY <1>4, <1>6, <2>3, <2>4 DEF AxiInv
<1>9. CASE req # None
  <2>1. PortBegins(req) /\ (req.addr \in Words \/ req.addr = TimerAddr)
    BY <1>0, <1>9 DEF PortStep, PortContinues, PortBegins, Addresses
  <2>2. /\ req.addr \in Words => performed' = 0
        /\ req.addr = TimerAddr => performed' = IF req.write THEN 1 ELSE 0
    BY <1>4, <1>9, CountIs
  <2>3. MemoryStep(req, go)
    BY <1>4, <1>9, <2>1, <2>2 DEF MemoryStep
  <2>4. port' = req
    BY <2>1 DEF PortBegins
  <2>5. port'.value \in Values
    BY PortKept
  <2>6. ToMemory' => ReadStage'
    BY <1>4, <1>5, <1>6, <1>7 DEF ReadStage, NoStage
  <2>7. ToMemory' /\ port'.write => WriteStage'
    BY <1>4, <1>5, <1>6, <1>7, <2>2, <2>4, <2>5 DEF WriteStage, NoStage, ToMemory
  <2> QED BY <1>4, <1>6, <2>3, <2>6, <2>7 DEF AxiInv
<1> QED BY <1>8, <1>9

LEMMA AxiRead ==
  ASSUME BusInv, NEW req \in Requests \cup {None}, NEW go \in Work, ToMemory, ~port.write,
         bus = "axi", UNCHANGED <<bus, la>>, Able(req, go), CoreEdge(req, go),
         AxiMemory(req, go),
         AxiEdge(Valid(req), BusReady(go), "aw" \in go, "w" \in go, "ar" \in go)
  PROVE  MemoryStep(req, go) /\ AxiInv'
<1> USE Constants
<1> DEFINE answers == "answer" \in go /\ CanAnswerRead(go)
           late == "late" \in go /\ CanAnswerRead(go)
<1>0. PortStep(req, go) /\ awake' = TRUE /\ mem_valid' \in BOOLEAN
  BY PortCases
<1>1. ReadStage
  BY DEF BusInv, AxiInv
<1>2. /\ "aw" \notin go /\ "w" \notin go
      /\ "ar" \in go => ~ack_arvalid /\ raddr = None
      /\ Valid(None)
  BY AxiWires
<1>3. port.addr \in Words /\ port.addr # None /\ performed = 0 /\ mem_valid
  BY DEF BusInv, PortInv, ToMemory
<1>4. /\ Waddr(go) = None /\ Wdata(go) = None
      /\ ~CanAnswerWrite(go) /\ ~WriteAnswered(go) /\ ~bvalid
  BY <1>1, <1>2 DEF Waddr, Wdata, CanAnswerWrite, WriteAnswered, ReadStage
<1>5. /\ Raddr(go) \in {None, port.addr}
      /\ Raddr(go) # None <=> ("ar" \in go \/ raddr = port.addr)
      /\ CanAnswerRead(go) <=> ~rvalid /\ Raddr(go) # None
      /\ ReadAnswered(go) <=> rvalid \/ answers
      /\ BusReady(go) <=> rvalid \/ answers
      /\ ~(answers /\ late)
  BY <1>1, <1>2, <1>3, <1>4, AxiWires DEF Raddr, CanAnswerRead, ReadAnswered, ReadStage, Able
<1>6. ack_arvalid <=> (rvalid \/ raddr = port.addr \/ xfer_done)
  BY <1>1 DEF ReadStage
<1>7. /\ raddr' = IF answers \/ late THEN None ELSE Raddr(go)
      /\ waddr' = None /\ wdata' = None /\ ~bvalid'
      /\ axi_rdata' = IF answers \/ late THEN memory[Raddr(go)] ELSE axi_rdata
      /\ memory' = memory /\ Count(req, FALSE)
  BY <1>4 DEF AxiMemory
<1>8. rvalid' <=> late
  BY <1>2 DEF AxiMemory, mem_axi_rready
<1>9. /\ xfer_done' <=> BusReady(go)
      /\ ack_arvalid' <=> ~xfer_done /\ (ack_arvalid \/ "ar" \in go)
      /\ {rvalid', bvalid', ack_arvalid', ack_awvalid', ack_wvalid', xfer_done'} \subseteq BOOLEAN
  BY AxiWires
<1>10. BusReady(go) => BusData(go) = memory[port.addr]
  BY <1>1, <1>3, <1>5 DEF BusData, ReadStage
\* the word is on its way, or has been asked for again after xfer_done
<1>11. BusReady(go) => /\ ~xfer_done /\ (ack_arvalid \/ "ar" \in go)
                       /\ raddr' = None /\ ~rvalid'
  <2>1. rvalid => raddr = None /\ "ar" \notin go
    BY <1>1, <1>2, <1>6 DEF ReadStage
  <2>2. xfer_done => raddr = None /\ ~rvalid /\ "ar" \notin go
    BY <1>1, <1>2, <1>6 DEF ReadStage
  <2>3. answers => "ar" \in go \/ raddr = port.addr
    BY <1>5
  <2> QED BY <1>3, <1>5, <1>6, <1>7, <1>8, <2>1, <2>2, <2>3
<1> HIDE DEF answers, late
<1>12. CASE ~BusReady(go)
  <2>1. req = None /\ PortWaits(go)
    BY <1>0, <1>12 DEF PortStep, PortIdle, PortEnds, PortMeetsTimer, PortBegins, PortContinues,
                       ToMemory
  <2>2. performed' = performed
    BY <1>7, <2>1, CountIs
  <2>3. MemoryStep(req, go)
    BY <1>7, <2>1, <2>2 DEF MemoryStep
  <2>4. ToMemory' /\ port' = port /\ bus' = bus
    BY <2>1 DEF PortWaits, ToMemory
  <2>5. ~rvalid /\ ~answers /\ ~xfer_done'
    BY <1>5, <1>9, <1>12
  <2>6. late => raddr' = None /\ axi_rdata' = memory'[port.addr] /\ rvalid' /\ ack_arvalid'
    <3>1. late => Raddr(go) = port.addr /\ ~xfer_done /\ (ack_arvalid \/ "ar" \in go)
      <4>1. xfer_done => raddr = None /\ "ar" \notin go
        BY <1>1, <1>2, <1>6 DEF ReadStage
      <4> QED BY <1>3, <1>5, <1>6, <4>1 DEF late
    <3> QED BY <1>7, <1>8, <1>9, <3>1
  <2>7. ~late => /\ raddr' = Raddr(go) /\ ~rvalid'
                 /\ ack_arvalid' <=> raddr' = port.addr
    <3>1. ~late => raddr' = Raddr(go) /\ ~rvalid'
      BY <1>7, <1>8, <2>5
    <3>2. xfer_done => Raddr(go) = None
      BY <1>1, <1>2, <1>5, <1>6, <1>3 DEF ReadStage
    <3>3. Raddr(go) = port.addr <=> "ar" \in go \/ raddr = port.addr
      BY <1>3, <1>5
    <3> QED BY <1>3, <1>6, <1>9, <2>5, <3>1, <3>2, <3>3
  <2>8. ReadStage'
    <3>1. raddr' \in {None, port.addr}
      BY <1>5, <2>6, <2>7
    <3>2. ack_arvalid' = (rvalid' \/ raddr' = port.addr \/ xfer_done')
      BY <1>9, <2>5, <2>6, <2>7
    <3> QED BY <1>7, <1>8, <2>4, <2>5, <2>6, <3>1, <3>2 DEF ReadStage
  <2>9. ~port'.write
    BY <2>4
  <2> QED BY <1>9, <2>3, <2>4, <2>8, <2>9 DEF AxiInv
<1>13. CASE BusReady(go) /\ req = None
  <2>1. PortEnds(go)
    BY <1>0, <1>3, <1>13 DEF PortStep, PortIdle, PortWaits, PortMeetsTimer, ToMemory
  <2>2. performed' = performed
    BY <1>7, <1>13, CountIs
  <2>3. MemoryStep(req, go)
    BY <1>7, <1>10, <1>13, <2>1, <2>2 DEF MemoryStep
  <2>4. ~ToMemory' /\ NoStage'
    BY <1>7, <1>11, <1>13, <2>1 DEF PortEnds, ToMemory, NoStage
  <2> QED BY <1>9, <2>3, <2>4 DEF AxiInv
<1>14. CASE BusReady(go) /\ req # None
  <2>1. PortContinues(req, go)
    BY <1>0, <1>3, <1>14 DEF PortStep, PortBegins
  <2>2. performed' = 0
    BY <1>7, <1>14, <2>1, CountIs DEF PortContinues
  <2>3. MemoryStep(req, go)
    BY <1>7, <1>10, <1>14, <2>1, <2>2 DEF MemoryStep
  <2>4. ToMemory' /\ ~port'.write
    BY <2>1 DEF PortContinues, ToMemory
  <2>5. ReadStage'
    BY <1>7, <1>9, <1>11, <1>14 DEF ReadStage
  <2> QED BY <1>9, <2>3, <2>4, <2>5 DEF AxiInv
<1> QED BY <1>12, <1>13, <1>14

LEMMA AxiWrite ==
  ASSUME BusInv, NEW req \in Requests \cup {None}, NEW go \in Work, ToMemory, port.write,
         bus = "axi", UNCHANGED <<bus, la>>, Able(req, go), CoreEdge(req, go),
         AxiMemory(req, go),
         AxiEdge(Valid(req), BusReady(go), "aw" \in go, "w" \in go, "ar" \in go)
  PROVE  MemoryStep(req, go) /\ AxiInv'
<1> USE Constants
<1> DEFINE answers == "answer" \in go /\ CanAnswerWrite(go)
           late == "late" \in go /\ CanAnswerWrite(go)
<1>0. PortStep(req, go) /\ awake' = TRUE /\ mem_valid' \in BOOLEAN
  BY PortCases
<1>1. WriteStage
  BY DEF BusInv, AxiInv
<1>2. /\ "ar" \notin go
      /\ "aw" \in go => ~ack_awvalid /\ waddr = None
      /\ "w" \in go => ~ack_wvalid /\ wdata = None
      /\ Valid(None)
  BY AxiWires
<1>3. port.addr \in Words /\ port.addr # None /\ port.value # None /\ mem_valid
  BY DEF BusInv, TypeOK, ToMemory
<1>4. Raddr(go) = None /\ ~CanAnswerRead(go) /\ ~ReadAnswered(go) /\ ~rvalid /\ raddr = None
  BY <1>1, <1>2 DEF Raddr, CanAnswerRead, ReadAnswered, WriteStage
<1>5. /\ Waddr(go) \in {None, port.addr} /\ Wdata(go) \in {None, port.value}
      /\ Waddr(go) = port.addr <=> ("aw" \in go \/ waddr = port.addr)
      /\ Wdata(go) = port.value <=> ("w" \in go \/ wdata = port.value)
      /\ CanAnswerWrite(go) <=> ~bvalid /\ Waddr(go) = port.addr /\ Wdata(go) = port.value
      /\ bvalid => Waddr(go) = None /\ Wdata(go) = None
  BY <1>1, <1>2, <1>3 DEF Waddr, Wdata, CanAnswerWrite, WriteStage
<1>6. /\ WriteAnswered(go) <=> bvalid \/ answers
      /\ BusReady(go) <=> bvalid \/ answers
      /\ ~(answers /\ late)
  BY <1>4, AxiWires DEF WriteAnswered, Able
<1>7. /\ waddr' = IF answers \/ late THEN None ELSE Waddr(go)
      /\ wdata' = IF answers \/ late THEN None ELSE Wdata(go)
      /\ raddr' = None /\ ~rvalid'
      /\ answers \/ late =>
           memory' = [memory EXCEPT ![Waddr(go)] = Wdata(go)] /\ Count(req, TRUE)
      /\ ~(answers \/ late) => memory' = memory /\ Count(req, FALSE)
  BY <1>4 DEF AxiMemory, Store
<1>8. bvalid' <=> late
  BY <1>2 DEF AxiMemory, mem_axi_bready
<1>9. /\ xfer_done' <=> BusReady(go)
      /\ ack_awvalid' <=> ~xfer_done /\ (ack_awvalid \/ "aw" \in go)
      /\ ack_wvalid' <=> ~xfer_done /\ (ack_wvalid \/ "w" \in go)
      /\ {rvalid', bvalid', ack_arvalid', ack_awvalid', ack_wvalid', xfer_done'} \subseteq BOOLEAN
  BY AxiWires
<1>10. /\ ~xfer_done /\ performed = IF bvalid THEN 1 ELSE 0
       /\ ack_awvalid <=> (bvalid \/ waddr = port.addr)
       /\ ack_wvalid <=> (bvalid \/ wdata = port.value)
  BY <1>1 DEF WriteStage
<1>11. req = None
  BY <1>0, <1>3 DEF PortStep, PortBegins, PortContinues
<1>12. /\ answers \/ late => performed = 0 /\ CarriesOut(port) /\ ~bvalid
       /\ ~(answers \/ late) => memory' = memory /\ performed' = performed
  <2>1. answers \/ late => ~bvalid /\ Waddr(go) = port.addr /\ Wdata(go) = port.value
    BY <1>5
  <2>2. answers \/ late => performed = 0
    BY <1>10, <2>1
  <2>3. answers \/ late => performed' = 1
    BY <1>7, <1>11, <2>2, CountIs
  <2>4. ~(answers \/ late) => performed' = performed
    BY <1>7, <1>11, CountIs
  <2> QED BY <1>7, <2>1, <2>2, <2>3, <2>4 DEF CarriesOut
<1>13. late => ack_awvalid' /\ ack_wvalid'
  BY <1>5, <1>9, <1>10
<1>14. ~bvalid => /\ ack_awvalid' <=> Waddr(go) = port.addr
                  /\ ack_wvalid' <=> Wdata(go) = port.value
  BY <1>5, <1>9, <1>10
<1> HIDE DEF answers, late
<1>15. CASE BusReady(go)
  <2>1. PortEnds(go)
    BY <1>0, <1>3, <1>11, <1>15 DEF PortStep, PortIdle, PortWaits, PortMeetsTimer, ToMemory
  <2>2. ~answers => bvalid /\ ~late /\ performed = 1
    BY <1>6, <1>10, <1>12, <1>15
  <2>3. MemoryStep(req, go)
    BY <1>11, <1>12, <2>1, <2>2 DEF MemoryStep
  <2>4. ~late /\ ~bvalid'
    BY <1>6, <1>8, <2>2
  <2>5. waddr' = None /\ wdata' = None
    BY <1>5, <1>7, <2>2
  <2>6. ~ToMemory' /\ NoStage'
    BY <1>7, <2>1, <2>4, <2>5 DEF PortEnds, ToMemory, NoStage
  <2> QED BY <1>9, <2>3, <2>6 DEF AxiInv
<1>16. CASE ~BusReady(go)
  <2>1. PortWaits(go) /\ ~bvalid /\ ~answers
    BY <1>0, <1>3, <1>6, <1>11, <1>16
       DEF PortStep, PortIdle, PortEnds, PortMeetsTimer, ToMemory
  <2>2. MemoryStep(req, go)
    BY <1>11, <1>12, <2>1 DEF MemoryStep
  <2>3. ToMemory' /\ port' = port /\ bus' = bus
    BY <2>1 DEF PortWaits, ToMemory
  <2>4. WriteStage'
    <3>1. CASE late
      <4>1. performed' = 1
        BY <1>12, <3>1 DEF CarriesOut
      <4> QED BY <1>3, <1>7, <1>8, <1>9, <1>13, <1>16, <2>3, <3>1, <4>1 DEF WriteStage
    <3>2. CASE ~late
      <4>1. performed' = 0 /\ waddr' = Waddr(go) /\ wdata' = Wdata(go) /\ ~bvalid'
        BY <1>7, <1>8, <1>10, <1>12, <2>1, <3>2
      <4> QED BY <1>5, <1>7, <1>9, <1>14, <1>16, <2>1, <2>3, <4>1 DEF WriteStage
    <3> QED BY <3>1, <3>2
  <2>5. port'.write
    BY <2>3
  <2> QED BY <1>9, <2>2, <2>3, <2>4, <2>5 DEF AxiInv
<1> QED BY <1>15, <1>16

(***************************************************************************)
(* The edges                                                               *)
(***************************************************************************)
LEMMA EdgeCases ==
  ASSUME BusInv, NEW req \in Requests \cup {None}, NEW go \in Work,
         Able(req, go), CoreEdge(req, go), UNCHANGED <<bus, la>>,
         Native(req, go) \/ Wishbone(req, go) \/ Axi(req, go)
  PROVE  MemoryStep(req, go) /\ BusInv'
<1>1. CASE Native(req, go)
  <2>1. MemoryStep(req, go) /\ NativeInv'
    BY <1>1, NativeEdge DEF Native
  <2>2. BridgeInv' /\ AxiInv'
    BY <1>1, OtherBridge, OtherAxi DEF Native
  <2>3. TypeOK' /\ PortInv'
    BY <2>1, StepKeepsPort
  <2> QED BY <2>1, <2>2, <2>3 DEF BusInv
<1>2. CASE Wishbone(req, go)
  <2>1. MemoryStep(req, go) /\ BridgeInv'
    BY <1>2, WishboneEdge DEF Wishbone
  <2>2. NativeInv' /\ AxiInv'
    BY <1>2, OtherAxi DEF Wishbone, NativeInv
  <2>3. TypeOK' /\ PortInv'
    BY <2>1, StepKeepsPort
  <2> QED BY <2>1, <2>2, <2>3 DEF BusInv
<1>3. CASE Axi(req, go)
  <2>1. MemoryStep(req, go) /\ AxiInv'
    BY <1>3, AxiIdle, AxiRead, AxiWrite DEF Axi
  <2>2. NativeInv' /\ BridgeInv'
    BY <1>3, OtherBridge DEF Axi, NativeInv
  <2>3. TypeOK' /\ PortInv'
    BY <2>1, StepKeepsPort
  <2> QED BY <2>1, <2>2, <2>3 DEF BusInv
<1> QED BY <1>1, <1>2, <1>3

\* what the AXI memory carries out is the write in progress
LEMMA AxiStores ==
  ASSUME BusInv, NEW go \in Work, bus = "axi", Able(None, go), CanAnswerWrite(go)
  PROVE  /\ ToMemory /\ port.write /\ performed = 0
         /\ Waddr(go) = port.addr /\ Wdata(go) = port.value
<1> USE Constants DEF BusInv, TypeOK
<1>1. Valid(None) <=> ToMemory
  BY DEF Valid, Target, ToMemory, PortInv, Addresses
<1>2. "aw" \in go => ToMemory /\ port.write
  BY <1>1 DEF Able, AwOffered, mem_axi_awvalid
<1>3. ~bvalid /\ Waddr(go) # None /\ Wdata(go) # None
  BY DEF CanAnswerWrite
<1>4. ToMemory /\ port.write
  BY <1>2, <1>3 DEF AxiInv, NoStage, ReadStage, Waddr
<1>5. WriteStage
  BY <1>4 DEF AxiInv
<1> QED BY <1>3, <1>4, <1>5 DEF WriteStage, Waddr, Wdata

ResetStep ==
  \/ UNCHANGED <<memory, performed>>
  \/ ToMemory /\ performed = 0 /\ CarriesOut(port)

LEMMA ResetCases ==
  ASSUME BusInv, Reset
  PROVE  ResetStep /\ BusInv'
<1> USE Constants
<1>0. CoreReset /\ UNCHANGED <<bus, la>>
  BY DEF Reset
<1>1. ~awake' /\ ~mem_valid' /\ ~ToMemory' /\ port' = port
  BY <1>0 DEF CoreReset, ToMemory
<1>2. ASSUME bus = "native", NEW go \in {{}, {"answer"}}, Able(None, go), NativeMemory(None, go),
             UNCHANGED <<wbVars, wbSlaveVars, axiVars, axiSlaveVars>>
      PROVE  ResetStep /\ BridgeInv' /\ AxiInv'
  <2>1. BridgeInv' /\ AxiInv'
    BY <1>0, <1>2, OtherBridge, OtherAxi
  <2>2. CASE go = {}
    <3>1. memory' = memory /\ Count(None, FALSE)
      BY <1>2, <2>2 DEF NativeMemory
    <3>2. performed' = performed
      BY <3>1, CountIs
    <3> QED BY <2>1, <3>1, <3>2 DEF ResetStep
  <2>3. CASE go # {}
    <3>1. Valid(None) /\ ~ready /\ Target(None) = port
      BY <1>2, <2>3 DEF Able, Target
    <3>2. ToMemory /\ performed = 0
      BY <1>2, <3>1 DEF Valid, ToMemory, BusInv, TypeOK, PortInv, NativeInv, Addresses
    <3>3. /\ Count(None, port.write)
          /\ IF port.write THEN memory' = [memory EXCEPT ![port.addr] = port.value]
                           ELSE memory' = memory
      BY <1>2, <2>3, <3>1 DEF NativeMemory, Store
    <3>4. port.write \in BOOLEAN
      BY DEF BusInv, TypeOK
    <3>5. performed' = IF port.write THEN 1 ELSE 0
      BY <3>2, <3>3, <3>4, CountIs
    <3> QED BY <2>1, <3>2, <3>3, <3>5 DEF ResetStep, CarriesOut
  <2> QED BY <2>2, <2>3
<1>3. ASSUME bus = "wishbone", WbReset, wb_ack' = FALSE,
             IF wbm.cyc /\ wbm.we /\ wb_ack
               THEN Store(wbm.adr, wbm.dat) /\ Count(None, TRUE)
               ELSE UNCHANGED <<memory, performed>>,
             UNCHANGED <<nativeVars, axiVars, axiSlaveVars>>
      PROVE  ResetStep /\ BridgeInv' /\ AxiInv'
  <2>1. AxiInv'
    BY <1>0, <1>3, OtherAxi
  <2>2. BridgeInv'
    BY <1>0, <1>1, <1>3 DEF BridgeInv, WbReset, NoCycle
  <2>3. CASE wbm.cyc /\ wbm.we /\ wb_ack
    <3>1. /\ ToMemory /\ performed = 0
          /\ wbm = [cyc |-> TRUE, adr |-> port.addr, we |-> port.write, dat |-> port.value]
      BY <1>3, <2>3 DEF BusInv, BridgeInv
    <3>2. memory' = [memory EXCEPT ![port.addr] = port.value] /\ port.write
      BY <1>3, <2>3, <3>1 DEF Store
    <3>3. performed' = 1
      BY <1>3, <2>3, <3>1, CountIs
    <3> QED BY <2>1, <2>2, <3>1, <3>2, <3>3 DEF ResetStep, CarriesOut
  <2> QED BY <1>3, <2>1, <2>2, <2>3 DEF ResetStep
<1>4. ASSUME bus = "axi", AxiReset, raddr' = None, waddr' = None, wdata' = None,
             rvalid' = FALSE, bvalid' = FALSE,
             \/ UNCHANGED <<memory, performed>>
             \/ \E go \in Work : /\ Able(None, go) /\ "answer" \in go /\ CanAnswerWrite(go)
                                 /\ Store(Waddr(go), Wdata(go)) /\ Count(None, TRUE),
             UNCHANGED <<axi_rdata, nativeVars, wbVars, wbSlaveVars>>
      PROVE  ResetStep /\ BridgeInv' /\ AxiInv'
  <2>1. BridgeInv'
    BY <1>0, <1>4, OtherBridge
  <2>2. AxiInv'
    BY <1>1, <1>4 DEF BusInv, AxiInv, AxiReset, NoStage
  <2>3. ASSUME NEW go \in Work, Able(None, go), CanAnswerWrite(go),
               Store(Waddr(go), Wdata(go)), Count(None, TRUE)
        PROVE  ResetStep
    <3>1. /\ ToMemory /\ port.write /\ performed = 0
          /\ Waddr(go) = port.addr /\ Wdata(go) = port.value
      BY <1>4, <2>3, AxiStores
    <3>2. performed' = 1
      BY <2>3, <3>1, CountIs
    <3> QED BY <2>3, <3>1, <3>2 DEF ResetStep, CarriesOut, Store
  <2> QED BY <1>4, <2>1, <2>2, <2>3 DEF ResetStep
<1>5. ResetStep /\ BridgeInv' /\ AxiInv'
  BY <1>2, <1>3, <1>4 DEF Reset
<1>6. TypeOK'
  <2>1. memory' \in [Words -> Values] /\ performed' \in 0 .. 1
    BY <1>5 DEF ResetStep, CarriesOut, BusInv, TypeOK, ToMemory
  <2> QED BY <1>0, <2>1 DEF CoreReset, BusInv, TypeOK
<1>7. PortInv'
  BY <1>1 DEF BusInv, PortInv, TypeOK
<1>8. NativeInv'
  BY <1>1 DEF NativeInv
<1> QED BY <1>5, <1>6, <1>7, <1>8 DEF BusInv

LEMMA BusInvHolds == Spec => []BusInv
<1>1. BusInv /\ [Next]_vars => BusInv'
  <2> SUFFICES ASSUME BusInv, [Next]_vars PROVE BusInv'
    OBVIOUS
  <2>1. CASE Edge
    BY <2>1, EdgeCases DEF Edge
  <2>2. CASE Reset
    BY <2>2, ResetCases
  <2>3. CASE UNCHANGED vars
    BY <2>3 DEF vars, coreVars, nativeVars, wbVars, wbSlaveVars, axiVars, axiSlaveVars, BusInv,
                TypeOK, PortInv, NativeInv, BridgeInv, AxiInv, NoStage, ReadStage, WriteStage,
                ToMemory, Once
  <2> QED BY <2>1, <2>2, <2>3 DEF Next
<1> QED BY BusInit, <1>1, PTL DEF Spec

(***************************************************************************)
(* The invariant of the responses and the action property of the offers    *)
(***************************************************************************)

(* What an AXI memory holds and what it answers belongs to the transfer in   *)
(* progress, so the adapter may take any response for its own.               *)
THEOREM NoForeignResponse == Spec => []ResponsesOwned
<1>1. BusInv => ResponsesOwned
  BY DEF BusInv, AxiInv, NoStage, ReadStage, WriteStage, ToMemory, ResponsesOwned
<1> QED BY <1>1, BusInvHolds, PTL

LEMMA OffersKept ==
  ASSUME BusInv, [Next]_vars, awake'
  PROVE  /\ wbm.cyc /\ ~wb_ack => wbm' = wbm
         /\ bus = "axi" => /\ AwOffered /\ ~AwOffered' => ack_awvalid'
                           /\ WOffered /\ ~WOffered' => ack_wvalid'
                           /\ ArOffered /\ ~ArOffered' => ack_arvalid'
<1> USE Constants
<1>1. CASE UNCHANGED vars
  BY <1>1 DEF vars, coreVars, wbVars, axiVars, AwOffered, WOffered, ArOffered, Valid, Target,
              mem_axi_awvalid, mem_axi_wvalid, mem_axi_arvalid
<1>2. CASE Reset
  BY <1>2 DEF Reset, CoreReset
<1>3. ASSUME NEW req \in Requests \cup {None}, NEW go \in Work, UNCHANGED <<bus, la>>,
             Able(req, go), CoreEdge(req, go), Wishbone(req, go)
      PROVE  wbm.cyc /\ ~wb_ack => wbm' = wbm
  BY <1>3 DEF Wishbone, WbEdge, Idle, WbStart, WbEnd, wbVars, BusInv, BridgeInv
<1>4. ASSUME NEW req \in Requests \cup {None}, NEW go \in Work, UNCHANGED <<bus, la>>,
             Able(req, go), CoreEdge(req, go), Axi(req, go)
      PROVE  /\ AwOffered /\ ~AwOffered' => ack_awvalid'
             /\ WOffered /\ ~WOffered' => ack_wvalid'
             /\ ArOffered /\ ~ArOffered' => ack_arvalid'
  <2>0. bus = "axi" /\ AxiMemory(req, go)
        /\ AxiEdge(Valid(req), BusReady(go), "aw" \in go, "w" \in go, "ar" \in go)
    BY <1>4 DEF Axi
  <2>1. PortStep(req, go)
    BY <1>4, PortCases
  <2>2. Valid(None) <=> ToMemory
    BY <1>4, <2>0, AxiWires
  <2>3. Valid(None)' <=> ToMemory'
    <3>1. BusInv'
      BY <1>4, EdgeCases
    <3> QED BY <3>1, <1>4, <2>0 DEF Valid, Target, ToMemory, BusInv, TypeOK, PortInv, Addresses
  <2>4. CASE ToMemory /\ BusReady(go)
    <3>1. CASE port.write
      <4>1. WriteStage
        BY <2>0, <2>4, <3>1 DEF BusInv, AxiInv
      <4>2. ~ReadAnswered(go)
        BY <1>4, <2>0, <3>1, <4>1, AxiWires DEF ReadAnswered, CanAnswerRead, Raddr, WriteStage
      <4>3. bvalid \/ (Waddr(go) # None /\ Wdata(go) # None)
        BY <1>4, <2>0, <2>4, <4>2, AxiWires DEF WriteAnswered, CanAnswerWrite
      <4>4. (ack_awvalid \/ "aw" \in go) /\ (ack_wvalid \/ "w" \in go) /\ ~xfer_done
        BY <4>1, <4>3 DEF Waddr, Wdata, WriteStage
      <4> QED BY <1>4, <2>0, <2>2, <2>4, <3>1, <4>4, AxiWires DEF ArOffered, mem_axi_arvalid
    <3>2. CASE ~port.write
      <4>1. ReadStage
        BY <2>0, <2>4, <3>2 DEF BusInv, AxiInv
      <4>2. ~WriteAnswered(go)
        BY <1>4, <2>0, <3>2, <4>1, AxiWires DEF WriteAnswered, CanAnswerWrite, Waddr, ReadStage
      <4>3. rvalid \/ Raddr(go) # None
        BY <1>4, <2>0, <2>4, <4>2, AxiWires DEF ReadAnswered, CanAnswerRead
      <4>4. (ack_arvalid \/ "ar" \in go) /\ (~ack_arvalid => ~xfer_done)
        BY <4>1, <4>3 DEF Raddr, ReadStage
      <4> QED BY <1>4, <2>0, <2>2, <2>4, <3>2, <4>4, AxiWires
              DEF ArOffered, AwOffered, WOffered, mem_axi_arvalid, mem_axi_awvalid, mem_axi_wvalid
    <3> QED BY <3>1, <3>2
  <2>5. CASE ToMemory /\ ~BusReady(go)
    <3>1. ToMemory' /\ port' = port
      BY <2>1, <2>5 DEF PortStep, PortIdle, PortWaits, PortEnds, PortMeetsTimer, PortBegins,
                        PortContinues, ToMemory, BusInv, TypeOK
    <3> QED BY <2>2, <2>3, <2>5, <3>1 DEF ArOffered, AwOffered, WOffered, mem_axi_arvalid,
                                     mem_axi_awvalid, mem_axi_wvalid
  <2>6. CASE ~ToMemory
    BY <2>2, <2>6 DEF ArOffered, AwOffered, WOffered, mem_axi_arvalid, mem_axi_awvalid,
                      mem_axi_wvalid
  <2> QED BY <2>4, <2>5, <2>6
<1>5. CASE Edge
  <2>1. PICK req \in Requests \cup {None}, go \in Work :
          /\ Able(req, go) /\ CoreEdge(req, go) /\ UNCHANGED <<bus, la>>
          /\ Native(req, go) \/ Wishbone(req, go) \/ Axi(req, go)
    BY <1>5 DEF Edge
  <2>2. CASE Native(req, go) \/ Axi(req, go)
    BY <1>4, <2>1, <2>2 DEF Native, Axi, wbVars
  <2>3. CASE Wishbone(req, go)
    BY <1>3, <2>1, <2>3 DEF Wishbone
  <2> QED BY <2>1, <2>2, <2>3
<1> QED BY <1>1, <1>2, <1>5 DEF Next

(* Until it is accepted an offer stands: the Wishbone cycle until its        *)
(* acknowledge, each channel of AXI until its handshake.                     *)
THEOREM NothingWithdrawn == Spec => OffersStand
<1>1. BusInv /\ [Next]_vars =>
        [awake' => /\ wbm.cyc /\ ~wb_ack => wbm' = wbm
                   /\ bus = "axi" => /\ AwOffered /\ ~AwOffered' => ack_awvalid'
                                     /\ WOffered /\ ~WOffered' => ack_wvalid'
                                     /\ ArOffered /\ ~ArOffered' => ack_arvalid']_vars
  BY OffersKept
<1> QED BY <1>1, BusInvHolds, PTL DEF Spec, OffersStand

(***************************************************************************)
(* Every bus implements main memory                                        *)
(***************************************************************************)
\* main memory as the port shows it (the refinement mapping of NanoBus)
Contents == [a \in Addresses |->
               IF a # TimerAddr THEN memory[a]
               ELSE IF port.addr = a /\ port.write THEN port.value ELSE cmp_val]
Request == IF mem_valid THEN port ELSE None

LEMMA ContentsAre ==
  /\ Contents = [a \in Addresses |-> IF a # TimerAddr THEN memory[a] ELSE Shown]
  /\ Contents' = [a \in Addresses |-> IF a # TimerAddr THEN memory'[a] ELSE Shown']
  BY DEF Contents, Shown

LEMMA ContentsChange ==
  ASSUME BusInv, NEW r, r.addr \in Addresses, r.write,
         \/ r.addr \in Words /\ CarriesOut(r) /\ Shown' = Shown
         \/ r.addr = TimerAddr /\ memory' = memory /\ Shown' = r.value
  PROVE  Contents' = [Contents EXCEPT ![r.addr] = r.value]
<1> USE Constants, ContentsAre DEF BusInv, TypeOK
<1>1. CASE r.addr \in Words /\ CarriesOut(r) /\ Shown' = Shown
  BY <1>1 DEF CarriesOut, Addresses
<1>2. CASE r.addr = TimerAddr /\ memory' = memory /\ Shown' = r.value
  BY <1>2 DEF Addresses
<1> QED BY <1>1, <1>2

LEMMA RequestIs ==
  ASSUME BusInv, mem_valid
  PROVE  Request = port /\ port \in Requests /\ port # None /\ port.addr \in Addresses
<1>1. port.addr \in Addresses /\ port \in [addr : Nat, write : BOOLEAN, value : Values]
      /\ (~port.write => port.value = 0)
  BY DEF BusInv, TypeOK, PortInv
<1>2. port = [addr |-> port.addr, write |-> port.write, value |-> port.value]
  BY <1>1
<1>3. port \in Requests
  BY <1>1, <1>2 DEF Requests, Reads
<1> QED BY <1>1, <1>3, Constants DEF Request

LEMMA MemoryInitially == Init => Memory!Init
<1> SUFFICES ASSUME Init PROVE Memory!Init
  OBVIOUS
<1>1. Contents = [a \in Addresses |-> 0]
  BY Constants, ContentsAre DEF Init, Shown, Addresses
<1> QED BY <1>1 DEF Init, Contents, Memory!Init

LEMMA MemoryActs ==
  ASSUME BusInv, NEW req \in Requests \cup {None}, NEW go \in Work, UNCHANGED <<bus, la>>,
         CoreEdge(req, go), MemoryStep(req, go), BusInv'
  PROVE  [Memory!Next]_<<Contents, Request, performed, mem_rdata_q>>
<1> USE Constants
<1>1. Shown' = IF PortBegins(req) /\ req.addr = TimerAddr /\ req.write THEN req.value ELSE Shown
  BY PortKept
<1>2. memory' = memory /\ Shown' = Shown => Contents' = Contents
  BY ContentsAre
<1>3. req = None => Shown' = Shown
  BY <1>1 DEF PortBegins
<1>4. CASE req = None /\ PortIdle /\ UNCHANGED <<memory, performed>>
  BY <1>2, <1>3, <1>4 DEF PortIdle, Request
<1>5. CASE req = None /\ PortWaits(go) /\ UNCHANGED <<memory, performed>>
  BY <1>2, <1>3, <1>5 DEF PortWaits, Request, ToMemory
<1>6. CASE req = None /\ PortMeetsTimer /\ UNCHANGED <<memory, performed>>
  <2>1. Request = port /\ Request # None /\ Request' = None /\ Contents' = Contents
    BY <1>2, <1>3, <1>6, RequestIs DEF PortMeetsTimer, Request
  <2>2. performed' = performed /\ performed = Once
    BY <1>6 DEF PortMeetsTimer, BusInv, PortInv
  <2>3. CASE port.write
    <3>1. performed = 1 /\ mem_rdata_q' = mem_rdata_q
      BY <1>6, <2>2, <2>3 DEF PortMeetsTimer, Once
    <3>2. Memory!AnswerWrite
      BY <2>1, <2>2, <2>3, <3>1 DEF Contents, Request, Memory!AnswerWrite
    <3> QED BY <3>2 DEF Memory!Next
  <2>4. CASE ~port.write
    <3>1. performed = 0 /\ mem_rdata_q' = cmp_val
      BY <1>6, <2>2, <2>4 DEF PortMeetsTimer, Once
    <3>2. Contents[port.addr] = cmp_val
      BY <1>6, <2>4, ContentsAre DEF PortMeetsTimer, Shown, Addresses
    <3>3. Memory!AnswerRead
      BY <2>1, <2>2, <2>4, <3>1, <3>2 DEF Contents, Request, Memory!AnswerRead
    <3> QED BY <3>3 DEF Memory!Next
  <2> QED BY <2>3, <2>4
<1>7. CASE req = None /\ PortWaits(go) /\ performed = 0 /\ CarriesOut(port)
  <2>1. mem_valid /\ port.addr \in Words /\ port.write /\ performed' = 1
    BY <1>7 DEF PortWaits, ToMemory, CarriesOut
  <2>2. Request = port /\ Request # None /\ Request' = Request /\ mem_rdata_q' = mem_rdata_q
    BY <1>7, <2>1, RequestIs DEF PortWaits, Request
  <2>3. Contents' = [Contents EXCEPT ![Request.addr] = Request.value]
    BY <1>3, <1>7, <2>1, <2>2, ContentsChange DEF Addresses
  <2>4. Memory!Perform
    BY <1>7, <2>1, <2>2, <2>3 DEF Contents, Request, Memory!Perform, Memory!TakesEffect
  <2> QED BY <2>4 DEF Memory!Next
<1>8. CASE req # None /\ PortBegins(req)
  <2>1. Request = None /\ Request' = req /\ mem_rdata_q' = mem_rdata_q /\ req \in Requests
    BY <1>8 DEF PortBegins, Request
  <2>2. CASE req.addr \in Words /\ CarriesOut(req)
    <3>1. req.write /\ performed' = 1 /\ req.addr # TimerAddr
      BY <2>2 DEF CarriesOut
    <3>2. Contents' = [Contents EXCEPT ![req.addr] = req.value]
      BY <1>1, <2>2, <3>1, ContentsChange DEF Addresses
    <3>3. Memory!Begin
      BY <1>8, <2>1, <3>1, <3>2 DEF Contents, Request, Memory!Begin, Memory!TakesEffect
    <3> QED BY <3>3 DEF Memory!Next
  <2>3. CASE memory' = memory /\ performed' = 0 /\ ~(req.addr = TimerAddr /\ req.write)
    <3>1. Contents' = Contents
      BY <1>1, <1>2, <2>3
    <3>2. Memory!Begin
      BY <1>8, <2>1, <2>3, <3>1 DEF Contents, Request, Memory!Begin
    <3> QED BY <3>2 DEF Memory!Next
  <2>4. CASE req.addr = TimerAddr /\ req.write /\ memory' = memory /\ performed' = 1
    <3>1. Contents' = [Contents EXCEPT ![req.addr] = req.value]
      BY <1>1, <1>8, <2>4, ContentsChange DEF Addresses
    <3>2. Memory!Begin
      BY <1>8, <2>1, <2>4, <3>1 DEF Contents, Request, Memory!Begin, Memory!TakesEffect
    <3> QED BY <3>2 DEF Memory!Next
  <2> QED BY <1>8, <2>2, <2>3, <2>4 DEF MemoryStep, PortContinues, PortBegins, ToMemory
<1>9. CASE req = None /\ PortEnds(go) /\ port.write
  <2>1. Request = port /\ Request # None /\ Request' = None /\ mem_rdata_q' = mem_rdata_q
        /\ port.addr \in Words
    BY <1>9, RequestIs DEF PortEnds, ToMemory, Request
  <2>2. CASE performed = 0 /\ CarriesOut(port)
    <3>1. Contents' = [Contents EXCEPT ![Request.addr] = Request.value] /\ performed' = 1
      BY <1>3, <1>9, <2>1, <2>2, ContentsChange DEF Addresses, CarriesOut
    <3>2. Memory!AnswerWrite
      BY <1>9, <2>1, <2>2, <3>1 DEF Contents, Request, Memory!AnswerWrite, Memory!TakesEffect
    <3> QED BY <3>2 DEF Memory!Next
  <2>3. CASE performed = 1 /\ UNCHANGED <<memory, performed>>
    <3>1. Contents' = Contents
      BY <1>2, <1>3, <1>9, <2>3
    <3>2. Memory!AnswerWrite
      BY <1>9, <2>1, <2>3, <3>1 DEF Contents, Request, Memory!AnswerWrite
    <3> QED BY <3>2 DEF Memory!Next
  <2> QED BY <1>9, <2>2, <2>3
          DEF MemoryStep, PortIdle, PortWaits, PortEnds, PortMeetsTimer, ToMemory
<1>10. CASE req = None /\ PortEnds(go) /\ ~port.write
  <2>1. Request = port /\ Request # None /\ Request' = None /\ port.addr \in Words
    BY <1>10, RequestIs DEF PortEnds, ToMemory, Request
  <2>2. BusData(go) = memory[port.addr] /\ memory' = memory /\ performed' = performed
    BY <1>10 DEF MemoryStep, PortIdle, PortWaits, PortEnds, PortMeetsTimer, ToMemory
  <2>3. performed = 0 /\ mem_rdata_q' = memory[port.addr]
    BY <1>10, <2>2 DEF PortEnds, ToMemory, BusInv, PortInv
  <2>4. Contents[port.addr] = memory[port.addr] /\ Contents' = Contents
    BY <1>2, <1>3, <1>10, <2>1, <2>2, ContentsAre DEF Addresses
  <2>5. Memory!AnswerRead
    BY <1>10, <2>1, <2>2, <2>3, <2>4 DEF Contents, Request, Memory!AnswerRead
  <2> QED BY <2>5 DEF Memory!Next
<1>11. CASE req # None /\ PortContinues(req, go)
  <2>1. /\ Request = port /\ Request # None /\ Request' = req /\ port.addr \in Words
        /\ ~port.write
    BY <1>11, RequestIs DEF PortContinues, ToMemory, Request
  <2>2. BusData(go) = memory[port.addr] /\ memory' = memory /\ performed' = 0
    BY <1>11 DEF MemoryStep, PortBegins, PortContinues, ToMemory
  <2>3. mem_rdata_q' = memory[port.addr]
    BY <1>11, <2>2 DEF PortContinues
  <2>4. Contents[port.addr] = memory[port.addr] /\ Contents' = Contents
    <3>1. ~PortBegins(req)
      BY <1>11 DEF PortBegins, PortContinues, ToMemory
    <3> QED BY <1>1, <1>2, <2>1, <2>2, <3>1, ContentsAre DEF Addresses
  <2>5. req \in Memory!TransferAt(port.addr + 1)
    BY <1>11 DEF PortContinues, Reads, Memory!TransferAt
  <2>6. Memory!AnswerRead
    BY <2>1, <2>2, <2>3, <2>4, <2>5 DEF Contents, Request, Memory!AnswerRead
  <2> QED BY <2>6 DEF Memory!Next
<1> QED BY <1>4, <1>5, <1>6, <1>7, <1>8, <1>9, <1>10, <1>11 DEF MemoryStep

LEMMA MemoryResets ==
  ASSUME BusInv, Reset
  PROVE  Memory!Reset
<1> USE Constants DEF BusInv, TypeOK
<1>0. ResetStep
  BY ResetCases
<1>1. /\ ~mem_valid' /\ port' = port /\ mem_rdata_q' = mem_rdata_q
      /\ cmp_val' = 0
  BY DEF Reset, CoreReset
<1> DEFINE done == ToMemory /\ performed = 0 /\ CarriesOut(port)
           cleared == ~(port.addr = TimerAddr /\ port.write)
           kept == IF done THEN [Contents EXCEPT ![Request.addr] = Request.value] ELSE Contents
<1>2. done => Request = port /\ Request # None /\ port.addr \in Words /\ port.write
              /\ performed' = 1
  BY RequestIs DEF ToMemory, CarriesOut
<1>3. Shown' = IF cleared THEN 0 ELSE Shown
  BY <1>1 DEF Shown
<1>4. ~done => memory' = memory /\ performed' = performed
  BY <1>0 DEF ResetStep
<1>5. kept = [a \in Addresses |-> IF a # TimerAddr THEN memory'[a] ELSE Shown]
  <2>1. CASE done
    BY <1>2, <2>1, ContentsAre DEF CarriesOut, Addresses
  <2>2. CASE ~done
    BY <1>4, <2>2, ContentsAre
  <2> QED BY <2>1, <2>2
<1>6. Contents' = IF cleared THEN [kept EXCEPT ![TimerAddr] = 0] ELSE kept
  <2>1. Contents' = [a \in Addresses |-> IF a # TimerAddr THEN memory'[a] ELSE Shown']
    BY ContentsAre
  <2> HIDE DEF kept
  <2> QED BY <1>3, <1>5, <2>1 DEF Addresses
<1>7. Request' = None
  BY <1>1 DEF Request
<1>8. performed' = IF done THEN 1 ELSE performed
  BY <1>2, <1>4
<1>9. done => Request # None /\ Request.write /\ performed = 0
  BY <1>2
<1>10. done \in BOOLEAN /\ cleared \in BOOLEAN
  BY DEF ToMemory, CarriesOut
<1>11. \E d \in BOOLEAN, c \in BOOLEAN :
         /\ d => Request # None /\ Request.write /\ performed = 0
         /\ Contents' = IF c THEN [(IF d THEN [Contents EXCEPT ![Request.addr] = Request.value]
                                    ELSE Contents) EXCEPT ![TimerAddr] = 0]
                        ELSE (IF d THEN [Contents EXCEPT ![Request.addr] = Request.value]
                              ELSE Contents)
         /\ performed' = IF d THEN 1 ELSE performed
  <2> USE <1>10
  <2> HIDE DEF done, cleared
  <2> WITNESS done \in BOOLEAN, cleared \in BOOLEAN
  <2> QED BY <1>6, <1>8, <1>9
<1> QED BY <1>1, <1>7, <1>11 DEF Contents, Request, Memory!Reset

(* Whatever the bus, the memory's patience and the resets: a write is        *)
(* carried out exactly once and before its answer, a read gets what its      *)
(* address holds, and nothing else changes memory.                           *)
THEOREM EveryBusIsMemory == Spec => ImplementsMemory
<1>1. BusInv /\ BusInv' /\ [Next]_vars =>
        [Memory!Next]_<<Contents, Request, performed, mem_rdata_q>>
  <2> SUFFICES ASSUME BusInv, BusInv', [Next]_vars
               PROVE  [Memory!Next]_<<Contents, Request, performed, mem_rdata_q>>
    OBVIOUS
  <2>1. CASE Edge
    BY <2>1, EdgeCases, MemoryActs DEF Edge
  <2>2. CASE Reset
    BY <2>2, MemoryResets DEF Memory!Next
  <2>3. CASE UNCHANGED vars
    BY <2>3 DEF vars, coreVars, Contents, Request
  <2> QED BY <2>1, <2>2, <2>3 DEF Next
<1>2. BusInv /\ BusInv' /\ [Next]_vars =>
        [Memory!Next]_<<[a \in Addresses |->
                           IF a # TimerAddr THEN memory[a]
                           ELSE IF port.addr = a /\ port.write THEN port.value ELSE cmp_val],
                        IF mem_valid THEN port ELSE None, performed, mem_rdata_q>>
  BY <1>1 DEF Contents, Request
<1> QED BY <1>2, MemoryInitially, BusInvHolds, PTL DEF Spec, ImplementsMemory, Memory!Spec
=============================================================================
