----------------------------- MODULE FreeRtosDemo -----------------------------
(***************************************************************************)
(* The FreeRTOS demonstration (fw/freertos_demo/main.c): main creates a    *)
(* queue for one item and two tasks and starts the scheduler; every three  *)
(* ticks the sending task toggles a light and sends an item; the receiving *)
(* task, of higher priority, toggles another light for every item.         *)
(*                                                                         *)
(* The kernel is not part of the repository.  It is modelled by what       *)
(* main.c and FreeRTOSConfig.h use of it: preemption by priority, a queue, *)
(* vTaskDelayUntil and a heap that may be too small.  The tick interrupt   *)
(* may come between any two steps of a task.                               *)
(***************************************************************************)
EXTENDS Integers, Sequences

CONSTANTS
  TickRange,         \* values of the tick counter (2^32 in the kernel)
  SendFrequency,     \* mainQUEUE_SEND_FREQUENCY_MS in ticks (3 in the simulation)
  MaxLate,           \* bound: ticks the tasks may take beyond the moment to send
  MessageLength      \* characters of "Blink\r\n" (7 in the code)

VARIABLES
  main,              \* where main is
  tx, rx,            \* where the tasks are
  led,               \* the bits of LED_PORT that are set
  txLed, rxLed,      \* what each task has read of LED_PORT
  queue,             \* xQueue
  value,             \* ulReceivedValue
  xReturned,         \* the result of the last xQueueSend
  left,              \* characters of the message not printed yet
  tick,              \* the tick counter
  xNextWakeTime,     \* the sending task's variable
  late               \* ticks since the moment in xNextWakeTime, counted without wrapping

tasks == <<tx, rx>>
lights == <<led, txLed, rxLed>>
time == <<tick, xNextWakeTime, late>>
vars == <<main, tasks, lights, queue, value, xReturned, left, time>>

ASSUME FreeRtosAssumption ==
  /\ SendFrequency \in Nat \ {0} /\ MaxLate \in Nat /\ MessageLength \in Nat \ {0}
  /\ TickRange \in Nat /\ TickRange > SendFrequency + MaxLate

(***************************************************************************)
(* The kernel                                                              *)
(***************************************************************************)
\* faulty: both tasks have the same priority
PriorityEqual(task) == 1

Priority(task) == IF task = "Rx" THEN 2 ELSE 1
Ready(task) == IF task = "Rx" THEN rx # "waiting" ELSE tx # "delayed"

\* The ready task of highest priority runs, and preempts the other at once
\* (configUSE_PREEMPTION).
Runs(task) ==
  /\ main = "scheduler"
  /\ Ready(task)
  /\ \A other \in {"Rx", "Tx"} : Ready(other) => Priority(other) <= Priority(task)

\* faulty: the comparison does not know that the counter wraps
DelaysUnwrapped(wake) == wake > tick

\* Whether vTaskDelayUntil delays: the moment to wake lies ahead, the tick counter
\* or the moment having wrapped or not.
Delays(wake) ==
  IF tick < xNextWakeTime THEN wake < xNextWakeTime /\ wake > tick
  ELSE wake < xNextWakeTime \/ wake > tick

\* The tick interrupt wakes the sending task when its moment has come.
Tick ==
  /\ main = "scheduler" /\ late < MaxLate
  /\ tick' = (tick + 1) % TickRange
  /\ late' = late + 1
  /\ tx' = IF tx = "delayed" /\ tick' = xNextWakeTime THEN "read" ELSE tx
  /\ UNCHANGED <<main, rx, lights, queue, value, xReturned, left, xNextWakeTime>>

(***************************************************************************)
(* main                                                                    *)
(***************************************************************************)
prvSetupHardware ==
  /\ main = "setup" /\ main' = "create"
  /\ led' = {1, 2, 3}
  /\ UNCHANGED <<tasks, txLed, rxLed, queue, value, xReturned, left, time>>

\* The heap has room for the queue and the tasks, those of the kernel included, or
\* vApplicationMallocFailedHook stops the program with interrupts disabled.
CreateAndStart ==
  /\ main = "create"
  /\ \/ main' = "scheduler" /\ led' = led \ {1}
     \/ main' = "stopped" /\ UNCHANGED led
     \/ main' = "stopped" /\ led' = led \ {1}
  /\ UNCHANGED <<tasks, txLed, rxLed, queue, value, xReturned, left, time>>

(***************************************************************************)
(* prvQueueSendTask                                                        *)
(***************************************************************************)
xTaskGetTickCount ==
  /\ Runs("Tx") /\ tx = "start" /\ tx' = "delay"
  /\ xNextWakeTime' = tick /\ late' = 0
  /\ UNCHANGED <<main, rx, lights, queue, value, xReturned, left, tick>>

vTaskDelayUntil ==
  /\ Runs("Tx") /\ tx = "delay"
  /\ xNextWakeTime' = (xNextWakeTime + SendFrequency) % TickRange
  /\ late' = late - SendFrequency
  /\ tx' = IF Delays(xNextWakeTime') THEN "delayed" ELSE "read"
  /\ UNCHANGED <<main, rx, lights, queue, value, xReturned, left, tick>>

\* LED_PORT ^= 0x4 is a read and a write.
TxReadLed ==
  /\ Runs("Tx") /\ tx = "read" /\ tx' = "write"
  /\ txLed' = led
  /\ UNCHANGED <<main, rx, led, rxLed, queue, value, xReturned, left, time>>

Xor(bits, bit) == IF bit \in bits THEN bits \ {bit} ELSE bits \cup {bit}

TxWriteLed ==
  /\ Runs("Tx") /\ tx = "write" /\ tx' = "send"
  /\ led' = Xor(txLed, 2)
  /\ UNCHANGED <<main, rx, txLed, rxLed, queue, value, xReturned, left, time>>

\* faulty: the task that waits for the item is not made ready
xQueueSendSilent ==
  /\ Runs("Tx") /\ tx = "send" /\ tx' = "assert"
  /\ xReturned' = (queue = <<>>)
  /\ queue' = IF queue = <<>> THEN <<100>> ELSE queue
  /\ UNCHANGED <<main, rx, lights, value, left, time>>

\* With a block time of 0 the call fails when the queue is full.  Otherwise the
\* receiving task, if it waits, becomes ready.
xQueueSend ==
  /\ Runs("Tx") /\ tx = "send" /\ tx' = "assert"
  /\ xReturned' = (queue = <<>>)
  /\ queue' = IF queue = <<>> THEN <<100>> ELSE queue
  /\ rx' = IF queue = <<>> /\ rx = "waiting" THEN "receive" ELSE rx
  /\ UNCHANGED <<main, lights, value, left, time>>

\* configASSERT disables the interrupts and stops.
TxAssert ==
  /\ Runs("Tx") /\ tx = "assert" /\ tx' = "delay"
  /\ main' = IF xReturned THEN main ELSE "stopped"
  /\ UNCHANGED <<rx, lights, queue, value, xReturned, left, time>>

(***************************************************************************)
(* prvQueueReceiveTask                                                     *)
(***************************************************************************)
\* faulty: the wait for an item ends at some time
xQueueReceiveTimesOut ==
  /\ Runs("Rx") /\ rx = "receive"
  /\ IF queue = <<>> THEN rx' \in {"waiting", "compare"} /\ UNCHANGED <<queue, value>>
     ELSE rx' = "compare" /\ value' = Head(queue) /\ queue' = Tail(queue)
  /\ UNCHANGED <<main, tx, lights, xReturned, left, time>>

\* With portMAX_DELAY and INCLUDE_vTaskSuspend the task waits for ever.
xQueueReceive ==
  /\ Runs("Rx") /\ rx = "receive"
  /\ IF queue = <<>> THEN rx' = "waiting" /\ UNCHANGED <<queue, value>>
     ELSE rx' = "compare" /\ value' = Head(queue) /\ queue' = Tail(queue)
  /\ UNCHANGED <<main, tx, lights, xReturned, left, time>>

Compare ==
  /\ Runs("Rx") /\ rx = "compare"
  /\ rx' = IF value = 100 THEN "read" ELSE "receive"
  /\ UNCHANGED <<main, tx, lights, queue, value, xReturned, left, time>>

RxReadLed ==
  /\ Runs("Rx") /\ rx = "read" /\ rx' = "write"
  /\ rxLed' = led
  /\ UNCHANGED <<main, tx, led, txLed, queue, value, xReturned, left, time>>

RxWriteLed ==
  /\ Runs("Rx") /\ rx = "write" /\ rx' = "print"
  /\ led' = Xor(rxLed, 3)
  /\ left' = MessageLength
  /\ UNCHANGED <<main, tx, txLed, rxLed, queue, value, xReturned, time>>

\* print_str, one character, and ulReceivedValue = 0 after the last.
PrintMessage ==
  /\ Runs("Rx") /\ rx = "print"
  /\ left' = left - 1
  /\ IF left = 1 THEN rx' = "receive" /\ value' = 0 ELSE UNCHANGED <<rx, value>>
  /\ UNCHANGED <<main, tx, lights, queue, xReturned, time>>

(***************************************************************************)
(* The specification                                                       *)
(***************************************************************************)
Init ==
  /\ main = "setup" /\ tx = "start" /\ rx = "receive"
  /\ led = 0 .. 3 /\ txLed = {} /\ rxLed = {}
  /\ queue = <<>> /\ value = 0 /\ xReturned = TRUE /\ left = 0
  /\ tick = 0 /\ xNextWakeTime = 0 /\ late = 0

Main == prvSetupHardware \/ CreateAndStart
Tx == xTaskGetTickCount \/ vTaskDelayUntil \/ TxReadLed \/ TxWriteLed \/ xQueueSend \/ TxAssert
Rx == xQueueReceive \/ Compare \/ RxReadLed \/ RxWriteLed \/ PrintMessage
Next == Main \/ Tx \/ Rx \/ Tick

\* The core goes on executing and the timer goes on counting.
Spec == Init /\ [][Next]_vars /\ WF_vars(Main \/ Tx \/ Rx) /\ WF_vars(Tick)

(***************************************************************************)
(* The inductive invariant of the proofs                                   *)
(***************************************************************************)
Leds == SUBSET (0 .. 3)

\* Before the scheduler starts, the tasks have done nothing.
Boot == main \in {"setup", "create"} => tx = "start" /\ rx = "receive" /\ queue = <<>>

\* The sending task moves only while the receiving task waits for the next item.
HandOver ==
  /\ tx \notin {"start", "assert"} => rx = "waiting"
  /\ rx = "waiting" => queue = <<>>
  /\ queue # <<>> => tx = "assert" /\ rx = "receive"
  /\ rx \in {"compare", "read", "write", "print"} => tx = "assert" /\ queue = <<>>
  /\ rx = "print" => left \in 1 .. MessageLength

\* The lights differ while an item is on its way from one task's toggle to the
\* other's, and what a task has read of the port is still what the port holds.
OnItsWay ==
  tx = "send" \/ (tx = "assert" /\ (queue # <<>> \/ rx \in {"compare", "read", "write"}))
LightsFollow ==
  /\ tx = "write" => txLed = led
  /\ rx = "write" => rxLed = led
  /\ main # "setup" => ((2 \in led) # (3 \in led)) = OnItsWay

(***************************************************************************)
(* Properties                                                              *)
(***************************************************************************)
TypeOK ==
  /\ main \in {"setup", "create", "scheduler", "stopped"}
  /\ tx \in {"start", "delay", "delayed", "read", "write", "send", "assert"}
  /\ rx \in {"receive", "waiting", "compare", "read", "write", "print"}
  /\ led \in Leds /\ txLed \in Leds /\ rxLed \in Leds
  /\ queue \in {<<>>, <<100>>}
  /\ value \in {0, 100} /\ xReturned \in BOOLEAN
  /\ left \in 0 .. MessageLength
  /\ tick \in 0 .. TickRange - 1 /\ xNextWakeTime \in 0 .. TickRange - 1
  /\ late \in -SendFrequency .. MaxLate

\* "Even with a queue length of 1, the sending task will never find the queue
\* full" (main.c): the configASSERT after xQueueSend never fails, however late the
\* receiver is.
AssertHolds == tx = "assert" => xReturned

\* The receiving task never prints "Unexpected value received", and it compares
\* what it was sent and not what an earlier round has left.
AlwaysExpected == rx = "compare" => value = 100

\* The sending task sleeps exactly when the next moment to send lies ahead,
\* whatever wrapped: its period does not drift when the receiver takes long.
WakesOnTime ==
  /\ tx = "delayed" => late < 0
  /\ tx \notin {"start", "delayed"} => late >= 0
  /\ tx # "start" => tick = (xNextWakeTime + late) % TickRange

\* The two tasks change the same port, each with a read and a write ("This is
\* generally unsafe, but ..."): no change is lost, and the lights take turns.
B == INSTANCE Blink WITH on <- main # "setup", led2 <- 2 \in led, led3 <- 3 \in led
ImplementsBlink == B!Spec

\* Once the scheduler runs, light 3 goes on blinking.
KeepsBlinking ==
  \A lit \in BOOLEAN : (main = "scheduler" /\ (3 \in led) = lit) ~> (3 \in led) = ~lit
===============================================================================
