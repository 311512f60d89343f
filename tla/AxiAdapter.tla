------------------------------ MODULE AxiAdapter ------------------------------
(***************************************************************************)
(* The AXI4-Lite adapter (rtl/picorv32_axi_adapter.v): the five channels   *)
(* follow the core's memory port directly; four registers remember which   *)
(* handshakes the transfer has had.                                        *)
(***************************************************************************)
EXTENDS Integers

VARIABLES ack_awvalid, ack_arvalid, ack_wvalid, xfer_done

axiVars == <<ack_awvalid, ack_arvalid, ack_wvalid, xfer_done>>

\* nothing initialises the registers, and reset clears only one of them
AxiInit == /\ ack_awvalid = FALSE
           /\ ack_arvalid \in BOOLEAN /\ ack_wvalid \in BOOLEAN /\ xfer_done \in BOOLEAN

mem_axi_awvalid(valid, write) == valid /\ write /\ ~ack_awvalid
mem_axi_wvalid(valid, write) == valid /\ write /\ ~ack_wvalid
mem_axi_arvalid(valid, write) == valid /\ ~write /\ ~ack_arvalid
mem_axi_bready(valid, write) == valid /\ write
mem_axi_rready(valid, write) == valid /\ ~write

\* faulty: the acknowledgements are kept until the port is idle
KeptUntilIdle(ack, handshake, valid) == valid /\ (ack \/ handshake)

\* faulty: a handshake is remembered for one cycle only
ForgottenSoon(ack, handshake, valid) == ~(xfer_done \/ ~valid) /\ handshake

\* One acknowledgement register: set by its handshake, cleared after the transfer.
Acknowledged(ack, handshake, valid) ==
  ~(xfer_done \/ ~valid) /\ (ack \/ handshake)

\* One edge; `ready' is bvalid or rvalid, and aw, w, ar the channels' handshakes.
AxiEdge(valid, ready, aw, w, ar) ==
  /\ xfer_done' = (valid /\ ready)
  /\ ack_awvalid' = Acknowledged(ack_awvalid, aw, valid)
  /\ ack_wvalid' = Acknowledged(ack_wvalid, w, valid)
  /\ ack_arvalid' = Acknowledged(ack_arvalid, ar, valid)

AxiReset == ack_awvalid' = FALSE /\ UNCHANGED <<ack_arvalid, ack_wvalid, xfer_done>>
===============================================================================
