------------------------------ MODULE MainMemory ------------------------------
(***************************************************************************)
(* What the core may expect of its memory port, whatever lies behind it:   *)
(* one transfer at a time; a write takes effect exactly once, before its   *)
(* answer; a read is answered with what its address holds.  A reset may    *)
(* cut a transfer off, before or after its effect.                         *)
(***************************************************************************)
EXTENDS Integers

CONSTANTS
  Addresses, Values, None,
  Register           \* the address whose word a reset may clear

VARIABLES
  memory,
  request,           \* the transfer in progress, or None
  effects,           \* how often the last request has taken effect
  data               \* what the last read has got

TransferAt(a) == [addr : {a}, write : {FALSE}, value : Values]

Init ==
  /\ memory = [a \in Addresses |-> 0]
  /\ request = None /\ effects = 0 /\ data = None

TakesEffect(r) ==
  /\ r.write
  /\ memory' = [memory EXCEPT ![r.addr] = r.value]

Begin ==
  /\ request = None /\ request' # None
  /\ \/ effects' = 0 /\ UNCHANGED memory
     \/ effects' = 1 /\ TakesEffect(request')
  /\ UNCHANGED data

Perform ==
  /\ request # None /\ effects = 0
  /\ TakesEffect(request) /\ effects' = 1
  /\ UNCHANGED <<request, data>>

AnswerWrite ==
  /\ request # None /\ request.write /\ request' = None
  /\ \/ effects = 1 /\ UNCHANGED memory
     \/ effects = 0 /\ TakesEffect(request)
  /\ effects' = 1
  /\ UNCHANGED data

\* A read may be followed at once by the read of the next word.
AnswerRead ==
  /\ request # None /\ ~request.write
  /\ data' = memory[request.addr]
  /\ request' = None \/ request' \in TransferAt(request.addr + 1)
  /\ effects' = 0
  /\ UNCHANGED memory

Reset ==
  /\ request' = None
  /\ \E done \in BOOLEAN, cleared \in BOOLEAN :
       LET kept == IF done THEN [memory EXCEPT ![request.addr] = request.value] ELSE memory IN
       /\ done => request # None /\ request.write /\ effects = 0
       /\ memory' = IF cleared THEN [kept EXCEPT ![Register] = 0] ELSE kept
       /\ effects' = IF done THEN 1 ELSE effects
  /\ UNCHANGED data

Next == Begin \/ Perform \/ AnswerWrite \/ AnswerRead \/ Reset

Spec == Init /\ [][Next]_<<memory, request, effects, data>>
===============================================================================
