------------------------------- MODULE WbBridge -------------------------------
(***************************************************************************)
(* The Wishbone bridge (rtl/nanorv32_wb.v): a transfer of the core's       *)
(* memory port becomes one cycle of a classic Wishbone master.  The        *)
(* operators describe one rising edge of wb_clk_i.                         *)
(***************************************************************************)
EXTENDS Integers

VARIABLES
  wb_state,          \* IDLE, WBSTART, WBEND
  wb_ready, wb_rdata,\* mem_ready, mem_rdata
  wbm                \* wbm_cyc_o (and wbm_stb_o), wbm_adr_o, wbm_we_o, wbm_dat_o

wbVars == <<wb_state, wb_ready, wb_rdata, wbm>>

NoCycle == [cyc |-> FALSE, adr |-> 0, we |-> FALSE, dat |-> 0]

\* mem_ready and mem_rdata have no value at power-on and none from reset
WbInit(data) ==
  /\ wb_state = "IDLE" /\ wbm = NoCycle
  /\ wb_ready \in BOOLEAN /\ wb_rdata \in data

Idle(valid, target) ==
  /\ wb_state = "IDLE"
  /\ IF valid
       THEN /\ wbm' = [cyc |-> TRUE, adr |-> target.addr, we |-> target.write, dat |-> target.value]
            /\ wb_state' = "WBSTART"
            /\ UNCHANGED wb_ready
       ELSE /\ wbm' = [wbm EXCEPT !.cyc = FALSE, !.we = FALSE]
            /\ wb_ready' = FALSE
            /\ UNCHANGED wb_state
  /\ UNCHANGED wb_rdata

\* faulty: the cycle ends without its acknowledge
WbStartBlind(ack, dat) ==
  /\ wb_state = "WBSTART" /\ wb_state' = "WBEND"
  /\ wb_rdata' = dat /\ wb_ready' = TRUE
  /\ wbm' = [wbm EXCEPT !.cyc = FALSE, !.we = FALSE]

WbStart(ack, dat) ==
  /\ wb_state = "WBSTART"
  /\ IF ack
       THEN /\ wb_rdata' = dat /\ wb_ready' = TRUE
            /\ wb_state' = "WBEND"
            /\ wbm' = [wbm EXCEPT !.cyc = FALSE, !.we = FALSE]
       ELSE UNCHANGED wbVars

WbEnd ==
  /\ wb_state = "WBEND" /\ wb_state' = "IDLE"
  /\ wb_ready' = FALSE
  /\ UNCHANGED <<wb_rdata, wbm>>

WbEdge(valid, target, ack, dat) == Idle(valid, target) \/ WbStart(ack, dat) \/ WbEnd

\* An edge with wb_rst_i high: mem_ready and mem_rdata keep their values.
WbReset == wb_state' = "IDLE" /\ wbm' = NoCycle /\ UNCHANGED <<wb_ready, wb_rdata>>
===============================================================================
