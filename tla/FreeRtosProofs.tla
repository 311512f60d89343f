---------------------------- MODULE FreeRtosProofs ----------------------------
(***************************************************************************)
(* Proofs about the FreeRTOS demo for every range of the tick counter,     *)
(* every frequency, every lateness and every length of the message.        *)
(*                                                                         *)
(* AssertHolds and the refinement of Blink are not inductive: that the     *)
(* queue is empty when the sending task sends, and that nobody writes the  *)
(* port between the read and the write of a toggle, follows from HandOver: *)
(* the sending task moves only while the receiving task waits.             *)
(***************************************************************************)
EXTENDS FreeRtosDemo, TLAPS

IInv == TypeOK /\ Boot /\ HandOver /\ AssertHolds /\ AlwaysExpected /\ LightsFollow /\ WakesOnTime

(***************************************************************************)
(* Arithmetic of a counter that wraps                                      *)
(***************************************************************************)
\* The remainder of a number that is at most one range off.
LEMMA Remainder ==
  ASSUME NEW R \in Nat \ {0}, NEW x \in Int
  PROVE  /\ x % R \in 0 .. R - 1
         /\ x \in 0 .. R - 1 => x % R = x
         /\ x \in R .. 2 * R - 1 => x % R = x - R
         /\ x \in -R .. -1 => x % R = x + R
  BY SMT

\* Taking one range from a number does not change the remainder.
LEMMA Shift ==
  ASSUME NEW R \in Nat \ {0}, NEW x \in 0 .. 2 * R - 1
  PROVE  (x - R) % R = x % R
<1>1. x \in Int /\ x - R \in Int
  OBVIOUS
<1>2. CASE x < R
  <2>1. x \in 0 .. R - 1 /\ x - R \in -R .. -1
    BY <1>2
  <2>2. x % R = x
    BY <1>1, <2>1, Remainder
  <2>3. (x - R) % R = (x - R) + R
    BY <1>1, <2>1, Remainder
  <2> QED BY <1>1, <2>2, <2>3
<1>3. CASE x >= R
  <2>1. x \in R .. 2 * R - 1 /\ x - R \in 0 .. R - 1
    BY <1>3
  <2>2. x % R = x - R
    BY <1>1, <2>1, Remainder
  <2>3. (x - R) % R = x - R
    BY <1>1, <2>1, Remainder
  <2> QED BY <2>2, <2>3
<1> QED BY <1>2, <1>3

\* Adding d to the counter and taking it from the distance keeps their relation.
LEMMA WrappedSum ==
  ASSUME NEW R \in Nat \ {0}, NEW w \in 0 .. R - 1, NEW d \in 0 .. R - 1, NEW l \in Int,
         l \in -R .. R - 1, l - d \in -R .. R - 1
  PROVE  (((w + d) % R) + (l - d)) % R = (w + l) % R
<1>1. w + d \in Int /\ w + l \in Int
  OBVIOUS
<1>2. CASE w + d < R
  <2>1. w + d \in 0 .. R - 1
    BY <1>2
  <2>2. (w + d) % R = w + d
    BY <1>1, <2>1, Remainder
  <2>3. (w + d) + (l - d) = w + l
    OBVIOUS
  <2> QED BY <2>2, <2>3
<1>3. CASE w + d >= R
  <2>1. w + d \in R .. 2 * R - 1 /\ w + l \in 0 .. 2 * R - 1
    BY <1>3
  <2>2. (w + d) % R = (w + d) - R
    BY <1>1, <2>1, Remainder
  <2>3. ((w + d) - R) + (l - d) = (w + l) - R
    OBVIOUS
  <2>4. ((w + l) - R) % R = (w + l) % R
    BY <2>1, Shift
  <2> QED BY <2>2, <2>3, <2>4
<1> QED BY <1>2, <1>3

\* The receiving task has the higher priority: the sending task runs only while
\* the receiving task waits.
LEMMA TxRuns ==
  ASSUME Runs("Tx")
  PROVE  main = "scheduler" /\ rx = "waiting"
  BY SMT DEF Runs, Ready, Priority

(***************************************************************************)
(* The invariant is inductive                                              *)
(***************************************************************************)
LEMMA Initially == Init => IInv
<1> SUFFICES ASSUME Init PROVE IInv
  OBVIOUS
<1>1. (0 + 0) % TickRange = 0
  BY FreeRtosAssumption, Remainder
<1> QED
  BY <1>1, FreeRtosAssumption
     DEF Init, IInv, TypeOK, Boot, HandOver, AssertHolds, AlwaysExpected, LightsFollow, OnItsWay,
         WakesOnTime, Leds

\* Counting one further commutes with taking the remainder.
LEMMA CarryOne ==
  ASSUME NEW R \in Nat \ {0}, NEW x \in -R .. 2 * R - 2
  PROVE  ((x % R) + 1) % R = (x + 1) % R
<1>1. x \in Int /\ x + 1 \in Int
  OBVIOUS
<1>2. CASE x < 0
  <2>1. x \in -R .. -1 /\ (x + R) + 1 \in 0 .. 2 * R - 1
    BY <1>2
  <2>2. x % R = x + R
    BY <1>1, <2>1, Remainder
  <2>3. (((x + R) + 1) - R) % R = ((x + R) + 1) % R
    BY <2>1, Shift
  <2>4. ((x + R) + 1) - R = x + 1
    OBVIOUS
  <2> QED BY <2>2, <2>3, <2>4
<1>3. CASE x \in 0 .. R - 1
  BY <1>1, <1>3, Remainder
<1>4. CASE x >= R
  <2>1. x \in R .. 2 * R - 1 /\ x + 1 \in 0 .. 2 * R - 1
    BY <1>4
  <2>2. x % R = x - R
    BY <1>1, <2>1, Remainder
  <2>3. ((x + 1) - R) % R = (x + 1) % R
    BY <2>1, Shift
  <2>4. (x - R) + 1 = (x + 1) - R
    OBVIOUS
  <2> QED BY <2>2, <2>3, <2>4
<1> QED BY <1>1, <1>2, <1>3, <1>4

\* The counter meets the moment exactly when the distance is 0.
LEMMA Meets ==
  ASSUME NEW R \in Nat \ {0}, NEW w \in 0 .. R - 1, NEW l \in -(R - 1) .. 0
  PROVE  (w + l) % R = w <=> l = 0
<1>1. w + l \in Int
  OBVIOUS
<1>2. CASE w + l >= 0
  <2>1. w + l \in 0 .. R - 1
    BY <1>2
  <2>2. (w + l) % R = w + l
    BY <1>1, <2>1, Remainder
  <2> QED BY <2>2
<1>3. CASE w + l < 0
  <2>1. w + l \in -R .. -1
    BY <1>3
  <2>2. (w + l) % R = (w + l) + R
    BY <1>1, <2>1, Remainder
  <2> QED BY <1>3, <2>2
<1> QED BY <1>1, <1>2, <1>3

\* The comparison of vTaskDelayUntil: with the last moment w, the next one d later and
\* l ticks passed, it delays exactly when fewer than d ticks have passed.
LEMMA Comparison ==
  ASSUME NEW R \in Nat \ {0}, NEW w \in 0 .. R - 1, NEW d \in 1 .. R - 1, NEW l \in 0 .. R - 1,
         NEW t, t = (w + l) % R, NEW v, v = (w + d) % R
  PROVE  (IF t < w THEN v < w /\ v > t ELSE v < w \/ v > t) <=> l < d
<1>1. w + l \in Int /\ w + d \in Int
  OBVIOUS
<1>2. IF w + l < R THEN t = w + l ELSE t = (w + l) - R
  <2>1. CASE w + l < R
    <3>1. w + l \in 0 .. R - 1
      BY <2>1
    <3> QED BY <1>1, <2>1, <3>1, Remainder
  <2>2. CASE w + l >= R
    <3>1. w + l \in R .. 2 * R - 1
      BY <2>2
    <3>2. (w + l) % R = (w + l) - R
      BY <1>1, <3>1, Remainder
    <3> QED BY <1>1, <2>2, <3>2
  <2> QED BY <1>1, <2>1, <2>2
<1>3. IF w + d < R THEN v = w + d ELSE v = (w + d) - R
  <2>1. CASE w + d < R
    <3>1. w + d \in 0 .. R - 1
      BY <2>1
    <3> QED BY <1>1, <2>1, <3>1, Remainder
  <2>2. CASE w + d >= R
    <3>1. w + d \in R .. 2 * R - 1
      BY <2>2
    <3>2. (w + d) % R = (w + d) - R
      BY <1>1, <3>1, Remainder
    <3> QED BY <1>1, <2>2, <3>2
  <2> QED BY <1>1, <2>1, <2>2
<1> QED BY <1>2, <1>3

(***************************************************************************)
(* Every step keeps the invariant                                          *)
(***************************************************************************)
\* What the assumption on the constants says of ranges.
LEMMA Ranges ==
  /\ TickRange \in Nat \ {0} /\ SendFrequency \in 1 .. TickRange - 1
  /\ MessageLength \in 1 .. MessageLength /\ MaxLate \in Nat
  /\ SendFrequency + MaxLate < TickRange
  BY FreeRtosAssumption

\* Setting and toggling lights keeps the type of the port.
LEMMA LedTypes ==
  ASSUME NEW bits \in Leds
  PROVE  {1, 2, 3} \in Leds /\ bits \ {1} \in Leds
  BY DEF Leds

\* Toggling one of the two lights changes that light only.
LEMMA XorType ==
  ASSUME NEW bits \in Leds, NEW bit \in {2, 3}
  PROVE  /\ Xor(bits, bit) \in Leds
         /\ bit \in Xor(bits, bit) <=> bit \notin bits
         /\ \A other : other # bit => (other \in Xor(bits, bit) <=> other \in bits)
  BY DEF Xor, Leds

\* Taking the item from a queue of one.
LEMMA OneItem == Head(<<100>>) = 100 /\ Tail(<<100>>) = <<>> /\ <<100>> # <<>>
  OBVIOUS

\* The tasks take turns.
LEMMA KeepsHandOver == IInv /\ [Next]_vars => (Boot /\ HandOver /\ AssertHolds /\ AlwaysExpected)'
<1> SUFFICES ASSUME IInv, [Next]_vars PROVE (Boot /\ HandOver /\ AssertHolds /\ AlwaysExpected)'
  OBVIOUS
<1> USE FreeRtosAssumption DEF IInv, TypeOK, Boot, HandOver, AssertHolds, AlwaysExpected, tasks, lights, time
<1>1. CASE prvSetupHardware
  BY <1>1
     DEF prvSetupHardware, TypeOK, Boot, HandOver, AssertHolds, AlwaysExpected
<1>2. CASE CreateAndStart
  BY <1>2
     DEF CreateAndStart, TypeOK, Boot, HandOver, AssertHolds, AlwaysExpected
<1>3. CASE xTaskGetTickCount
  BY <1>3, TxRuns
     DEF xTaskGetTickCount, TypeOK, Boot, HandOver, AssertHolds, AlwaysExpected
<1>4. CASE vTaskDelayUntil
  BY <1>4, TxRuns
     DEF vTaskDelayUntil, TypeOK, Boot, HandOver, AssertHolds, AlwaysExpected
<1>5. CASE TxReadLed
  BY <1>5, TxRuns
     DEF TxReadLed, TypeOK, Boot, HandOver, AssertHolds, AlwaysExpected
<1>6. CASE TxWriteLed
  BY <1>6, TxRuns
     DEF TxWriteLed, TypeOK, Boot, HandOver, AssertHolds, AlwaysExpected
<1>7. CASE xQueueSend
  BY <1>7, TxRuns
     DEF xQueueSend, TypeOK, Boot, HandOver, AssertHolds, AlwaysExpected
<1>8. CASE TxAssert
  BY <1>8, TxRuns
     DEF TxAssert, TypeOK, Boot, HandOver, AssertHolds, AlwaysExpected
<1>9. CASE xQueueReceive
  BY <1>9, OneItem
     DEF xQueueReceive, Runs, TypeOK, Boot, HandOver, AssertHolds, AlwaysExpected
<1>10. CASE Compare
  BY <1>10
     DEF Compare, Runs, TypeOK, Boot, HandOver, AssertHolds, AlwaysExpected
<1>11. CASE RxReadLed
  BY <1>11
     DEF RxReadLed, Runs, TypeOK, Boot, HandOver, AssertHolds, AlwaysExpected
<1>12. CASE RxWriteLed
  BY <1>12, Ranges
     DEF RxWriteLed, Runs, TypeOK, Boot, HandOver, AssertHolds, AlwaysExpected
<1>13. CASE PrintMessage
  BY <1>13, Ranges
     DEF PrintMessage, Runs, TypeOK, Boot, HandOver, AssertHolds, AlwaysExpected
<1>14. CASE Tick
  BY <1>14
     DEF Tick, TypeOK, Boot, HandOver, AssertHolds, AlwaysExpected
<1>15. CASE UNCHANGED vars
  BY <1>15 DEF vars, TypeOK, Boot, HandOver, AssertHolds, AlwaysExpected
<1> QED
  BY <1>1, <1>2, <1>3, <1>4, <1>5, <1>6, <1>7, <1>8, <1>9, <1>10, <1>11, <1>12, <1>13, <1>14, <1>15
     DEF Next, Main, Tx, Rx

\* No toggle is lost.
LEMMA KeepsLights == IInv /\ [Next]_vars => (LightsFollow)'
<1> SUFFICES ASSUME IInv, [Next]_vars PROVE (LightsFollow)'
  OBVIOUS
<1> USE FreeRtosAssumption DEF IInv, TypeOK, Boot, HandOver, LightsFollow, OnItsWay, tasks, lights, time
<1>1. CASE prvSetupHardware
  BY <1>1
     DEF prvSetupHardware, TypeOK, Boot, HandOver, LightsFollow, OnItsWay
<1>2. CASE CreateAndStart
  BY <1>2
     DEF CreateAndStart, TypeOK, Boot, HandOver, LightsFollow, OnItsWay
<1>3. CASE xTaskGetTickCount
  BY <1>3, TxRuns
     DEF xTaskGetTickCount, TypeOK, Boot, HandOver, LightsFollow, OnItsWay
<1>4. CASE vTaskDelayUntil
  BY <1>4, TxRuns
     DEF vTaskDelayUntil, TypeOK, Boot, HandOver, LightsFollow, OnItsWay
<1>5. CASE TxReadLed
  BY <1>5, TxRuns
     DEF TxReadLed, TypeOK, Boot, HandOver, LightsFollow, OnItsWay
<1>6. CASE TxWriteLed
  <2>1. rx = "waiting" /\ queue = <<>> /\ main = "scheduler" /\ txLed = led /\ led \in Leds
    BY <1>6, TxRuns DEF TxWriteLed, TypeOK, HandOver, LightsFollow
  <2>2. led' = Xor(led, 2) /\ tx = "write" /\ tx' = "send" /\ UNCHANGED <<rx, main, queue>>
    BY <1>6, <2>1 DEF TxWriteLed
  <2>3. 2 \in led' <=> 2 \notin led
    BY <2>1, <2>2, XorType
  <2>4. 3 \in led' <=> 3 \in led
    BY <2>1, <2>2, XorType
  <2> QED BY <2>1, <2>2, <2>3, <2>4 DEF LightsFollow, OnItsWay
<1>7. CASE xQueueSend
  BY <1>7, TxRuns
     DEF xQueueSend, TypeOK, Boot, HandOver, LightsFollow, OnItsWay
<1>8. CASE TxAssert
  BY <1>8, TxRuns
     DEF TxAssert, TypeOK, Boot, HandOver, LightsFollow, OnItsWay
<1>9. CASE xQueueReceive
  BY <1>9, OneItem
     DEF xQueueReceive, Runs, TypeOK, Boot, HandOver, LightsFollow, OnItsWay
<1>10. CASE Compare
  BY <1>10
     DEF Compare, Runs, AlwaysExpected, TypeOK, Boot, HandOver, LightsFollow, OnItsWay
<1>11. CASE RxReadLed
  BY <1>11
     DEF RxReadLed, Runs, TypeOK, Boot, HandOver, LightsFollow, OnItsWay
<1>12. CASE RxWriteLed
  <2>1. tx = "assert" /\ queue = <<>> /\ main = "scheduler" /\ rxLed = led /\ led \in Leds
    BY <1>12 DEF RxWriteLed, Runs, TypeOK, HandOver, LightsFollow
  <2>2. led' = Xor(led, 3) /\ rx = "write" /\ rx' = "print" /\ UNCHANGED <<tx, main, queue>>
    BY <1>12, <2>1 DEF RxWriteLed
  <2>3. 3 \in led' <=> 3 \notin led
    BY <2>1, <2>2, XorType
  <2>4. 2 \in led' <=> 2 \in led
    BY <2>1, <2>2, XorType
  <2> QED BY <2>1, <2>2, <2>3, <2>4 DEF LightsFollow, OnItsWay
<1>13. CASE PrintMessage
  BY <1>13
     DEF PrintMessage, Runs, TypeOK, Boot, HandOver, LightsFollow, OnItsWay
<1>14. CASE Tick
  BY <1>14
     DEF Tick, TypeOK, Boot, HandOver, LightsFollow, OnItsWay
<1>15. CASE UNCHANGED vars
  BY <1>15 DEF vars, TypeOK, Boot, HandOver, LightsFollow, OnItsWay
<1> QED
  BY <1>1, <1>2, <1>3, <1>4, <1>5, <1>6, <1>7, <1>8, <1>9, <1>10, <1>11, <1>12, <1>13, <1>14, <1>15
     DEF Next, Main, Tx, Rx

\* The sending task sleeps exactly while the moment lies ahead.
LEMMA KeepsTime == IInv /\ [Next]_vars => (WakesOnTime)'
<1> SUFFICES ASSUME IInv, [Next]_vars PROVE (WakesOnTime)'
  OBVIOUS
<1> USE FreeRtosAssumption DEF IInv, TypeOK, WakesOnTime, Boot, tasks, lights, time
<1>1. CASE prvSetupHardware
  BY <1>1
     DEF prvSetupHardware, TypeOK, WakesOnTime, Boot
<1>2. CASE CreateAndStart
  BY <1>2
     DEF CreateAndStart, TypeOK, WakesOnTime, Boot
<1>3. CASE xTaskGetTickCount
  <2>1. tick \in 0 .. TickRange - 1 /\ tick \in Int /\ tick + 0 = tick
    BY Ranges DEF TypeOK
  <2>2. tick % TickRange = tick
    BY <2>1, Ranges, Remainder
  <2> QED BY <1>3, <2>1, <2>2 DEF xTaskGetTickCount, WakesOnTime
<1>4. CASE vTaskDelayUntil
  <2> DEFINE w == xNextWakeTime
  <2>1. tx = "delay" /\ late \in 0 .. MaxLate /\ tick = (w + late) % TickRange
    BY <1>4 DEF vTaskDelayUntil, TypeOK, WakesOnTime
  <2>2. /\ w \in 0 .. TickRange - 1 /\ late \in 0 .. TickRange - 1
        /\ late \in -TickRange .. TickRange - 1 /\ SendFrequency \in 0 .. TickRange - 1
        /\ late - SendFrequency \in -TickRange .. TickRange - 1
    BY <2>1, Ranges DEF TypeOK
  <2>3. /\ w' = (w + SendFrequency) % TickRange /\ late' = late - SendFrequency
        /\ UNCHANGED tick
        /\ tx' = IF Delays(w') THEN "delayed" ELSE "read"
    BY <1>4 DEF vTaskDelayUntil
  <2>4. tick = (w' + late') % TickRange
    <3>1. (((w + SendFrequency) % TickRange) + (late - SendFrequency)) % TickRange
            = (w + late) % TickRange
      BY <2>2, Ranges, WrappedSum
    <3> QED BY <2>1, <2>3, <3>1
  <2>5. (IF tick < w THEN w' < w /\ w' > tick ELSE w' < w \/ w' > tick) <=> late < SendFrequency
    BY <2>1, <2>2, <2>3, Ranges, Comparison
  <2>6. Delays(w') <=> late' < 0
    BY <2>2, <2>3, <2>5, Ranges DEF Delays
  <2>7. late' \in Int
    BY <2>2, <2>3, Ranges
  <2> QED BY <2>3, <2>4, <2>6, <2>7 DEF WakesOnTime
<1>5. CASE TxReadLed
  BY <1>5, TxRuns
     DEF TxReadLed, TypeOK, WakesOnTime, Boot
<1>6. CASE TxWriteLed
  BY <1>6, TxRuns
     DEF TxWriteLed, TypeOK, WakesOnTime, Boot
<1>7. CASE xQueueSend
  BY <1>7, TxRuns
     DEF xQueueSend, TypeOK, WakesOnTime, Boot
<1>8. CASE TxAssert
  BY <1>8, TxRuns
     DEF TxAssert, TypeOK, WakesOnTime, Boot
<1>9. CASE xQueueReceive
  BY <1>9
     DEF xQueueReceive, Runs, TypeOK, WakesOnTime, Boot
<1>10. CASE Compare
  BY <1>10
     DEF Compare, Runs, TypeOK, WakesOnTime, Boot
<1>11. CASE RxReadLed
  BY <1>11
     DEF RxReadLed, Runs, TypeOK, WakesOnTime, Boot
<1>12. CASE RxWriteLed
  BY <1>12
     DEF RxWriteLed, Runs, TypeOK, WakesOnTime, Boot
<1>13. CASE PrintMessage
  BY <1>13
     DEF PrintMessage, Runs, TypeOK, WakesOnTime, Boot
<1>14. CASE Tick
  <2> DEFINE w == xNextWakeTime
  <2>1. /\ w \in 0 .. TickRange - 1 /\ late \in -SendFrequency .. MaxLate /\ late < MaxLate
        /\ late' = late + 1 /\ tick' = (tick + 1) % TickRange /\ UNCHANGED w
        /\ tx' = IF tx = "delayed" /\ tick' = w THEN "read" ELSE tx
    BY <1>14 DEF Tick, TypeOK
  <2>2. late' \in Int /\ late \in Int
    BY <2>1, Ranges
  <2>3. tx # "start" => tick' = (w + late') % TickRange
    <3>1. w + late \in -TickRange .. 2 * TickRange - 2
      BY <2>1, Ranges
    <3>2. (((w + late) % TickRange) + 1) % TickRange = ((w + late) + 1) % TickRange
      BY <3>1, CarryOne, Ranges
    <3>3. (w + late) + 1 = w + late'
      BY <2>1, <2>2
    <3> QED BY <2>1, <3>2, <3>3 DEF WakesOnTime
  <2>4. tx = "delayed" => (tick' = w <=> late' = 0)
    <3>1. tx = "delayed" => late' \in -(TickRange - 1) .. 0
      BY <2>1, Ranges DEF WakesOnTime
    <3>2. late' \in -(TickRange - 1) .. 0 => ((w + late') % TickRange = w <=> late' = 0)
      BY <2>1, Meets, Ranges
    <3> QED BY <2>3, <3>1, <3>2
  <2>5. tx' = "delayed" => late' < 0
    BY <2>1, <2>2, <2>4 DEF WakesOnTime
  <2>6. tx' \notin {"start", "delayed"} => late' >= 0
    BY <2>1, <2>2, <2>4 DEF WakesOnTime
  <2> QED BY <2>1, <2>3, <2>5, <2>6 DEF WakesOnTime
<1>15. CASE UNCHANGED vars
  BY <1>15 DEF vars, TypeOK, WakesOnTime, Boot
<1> QED
  BY <1>1, <1>2, <1>3, <1>4, <1>5, <1>6, <1>7, <1>8, <1>9, <1>10, <1>11, <1>12, <1>13, <1>14, <1>15
     DEF Next, Main, Tx, Rx

\* The variables keep their types.
LEMMA KeepsType == IInv /\ [Next]_vars => (TypeOK)'
<1> SUFFICES ASSUME IInv, [Next]_vars PROVE (TypeOK)'
  OBVIOUS
<1> USE FreeRtosAssumption DEF IInv, TypeOK, tasks, lights, time
<1>1. CASE prvSetupHardware
  BY <1>1, LedTypes
     DEF prvSetupHardware, TypeOK
<1>2. CASE CreateAndStart
  <2>1. led' \in Leds
    BY <1>2, LedTypes DEF CreateAndStart, TypeOK
  <2> QED BY <1>2, <2>1 DEF CreateAndStart, TypeOK
<1>3. CASE xTaskGetTickCount
  BY <1>3, Ranges, TxRuns
     DEF xTaskGetTickCount, TypeOK
<1>4. CASE vTaskDelayUntil
  <2>1. xNextWakeTime' \in 0 .. TickRange - 1
    <3>1. xNextWakeTime + SendFrequency \in Int
      BY Ranges DEF TypeOK
    <3> QED BY <1>4, <3>1, Remainder, Ranges DEF vTaskDelayUntil
  <2>2. late' \in -SendFrequency .. MaxLate
    BY <1>4, Ranges DEF vTaskDelayUntil, WakesOnTime, TypeOK
  <2> QED BY <1>4, <2>1, <2>2 DEF vTaskDelayUntil, TypeOK
<1>5. CASE TxReadLed
  BY <1>5, TxRuns
     DEF TxReadLed, TypeOK
<1>6. CASE TxWriteLed
  BY <1>6, XorType, TxRuns
     DEF TxWriteLed, TypeOK
<1>7. CASE xQueueSend
  BY <1>7, TxRuns
     DEF xQueueSend, TypeOK
<1>8. CASE TxAssert
  BY <1>8, TxRuns
     DEF TxAssert, TypeOK
<1>9. CASE xQueueReceive
  BY <1>9, OneItem
     DEF xQueueReceive, Runs, TypeOK
<1>10. CASE Compare
  BY <1>10
     DEF Compare, Runs, TypeOK
<1>11. CASE RxReadLed
  BY <1>11
     DEF RxReadLed, Runs, TypeOK
<1>12. CASE RxWriteLed
  <2>1. led' \in Leds
    BY <1>12, XorType DEF RxWriteLed, TypeOK
  <2>2. left' \in 0 .. MessageLength
    BY <1>12, Ranges DEF RxWriteLed
  <2> QED BY <1>12, <2>1, <2>2 DEF RxWriteLed, TypeOK
<1>13. CASE PrintMessage
  <2>1. left' \in 0 .. MessageLength
    BY <1>13, Ranges DEF PrintMessage, HandOver, TypeOK, Runs
  <2> QED BY <1>13, <2>1 DEF PrintMessage, TypeOK
<1>14. CASE Tick
  <2>1. tick' \in 0 .. TickRange - 1
    <3>1. tick + 1 \in Int
      BY Ranges DEF TypeOK
    <3> QED BY <1>14, <3>1, Remainder, Ranges DEF Tick
  <2>2. late' \in -SendFrequency .. MaxLate
    BY <1>14, Ranges DEF Tick, TypeOK
  <2> QED BY <1>14, <2>1, <2>2 DEF Tick, TypeOK
<1>15. CASE UNCHANGED vars
  BY <1>15 DEF vars, TypeOK
<1> QED
  BY <1>1, <1>2, <1>3, <1>4, <1>5, <1>6, <1>7, <1>8, <1>9, <1>10, <1>11, <1>12, <1>13, <1>14, <1>15
     DEF Next, Main, Tx, Rx

LEMMA Inductive == IInv /\ [Next]_vars => IInv'
  BY KeepsType, KeepsHandOver, KeepsLights, KeepsTime DEF IInv

LEMMA Always == Spec => []IInv
  BY Initially, Inductive, PTL DEF Spec

(***************************************************************************)
(* The theorems                                                            *)
(***************************************************************************)
\* Every variable of the demo keeps its type; the counters stay in their ranges.
THEOREM Types == Spec => []TypeOK
  BY Always, PTL DEF IInv

\* "The sending task will never find the queue full": the configASSERT after
\* xQueueSend never fails, for every frequency and every delay of the receiver.
THEOREM NeverFull == Spec => []AssertHolds
  BY Always, PTL DEF IInv

\* The receiving task always finds the value it was sent (main.c compares it with
\* 100 and would print "Unexpected value received").
THEOREM NeverUnexpected == Spec => []AlwaysExpected
  BY Always, PTL DEF IInv

\* vTaskDelayUntil delays exactly until the next moment, also across the wrap of the
\* tick counter, for every range of it.
THEOREM NeverDrifts == Spec => []WakesOnTime
  BY Always, PTL DEF IInv

(***************************************************************************)
(* Refinement                                                              *)
(***************************************************************************)
\* The lights of the board take turns: every step of main and of the tasks is a step of
\* Blink or leaves its lights alone.
THEOREM TakesTurns == Spec => ImplementsBlink
<1>1. Init => B!Init
  BY DEF Init, B!Init
<1>2. IInv /\ [Next]_vars => [B!Next]_<<main # "setup", 2 \in led, 3 \in led>>
  <2> SUFFICES ASSUME IInv, [Next]_vars
               PROVE  [B!Next]_<<main # "setup", 2 \in led, 3 \in led>>
    OBVIOUS
  <2> USE DEF IInv
  <2>1. CASE prvSetupHardware
    BY <2>1 DEF prvSetupHardware, B!Next, B!Start
  <2>2. CASE CreateAndStart
    BY <2>2 DEF CreateAndStart
  <2>3. CASE TxWriteLed
    <3>1. main = "scheduler" /\ txLed = led /\ led \in Leds /\ (2 \in led <=> 3 \in led)
      BY <2>3, TxRuns DEF TxWriteLed, TypeOK, HandOver, LightsFollow, OnItsWay
    <3>2. led' = Xor(led, 2) /\ UNCHANGED main
      BY <2>3, <3>1 DEF TxWriteLed
    <3> QED BY <3>1, <3>2, XorType DEF B!Next, B!Send
  <2>4. CASE RxWriteLed
    <3>1. main = "scheduler" /\ rxLed = led /\ led \in Leds /\ ~(2 \in led <=> 3 \in led)
      BY <2>4 DEF RxWriteLed, Runs, TypeOK, HandOver, LightsFollow, OnItsWay
    <3>2. led' = Xor(led, 3) /\ UNCHANGED main
      BY <2>4, <3>1 DEF RxWriteLed
    <3> QED BY <3>1, <3>2, XorType DEF B!Next, B!Answer
  <2>5. CASE TxAssert
    BY <2>5, TxRuns DEF TxAssert, AssertHolds, lights
  <2>6. CASE xTaskGetTickCount \/ vTaskDelayUntil \/ TxReadLed \/ xQueueSend \/ xQueueReceive
             \/ Compare \/ RxReadLed \/ PrintMessage \/ Tick
    BY <2>6 DEF xTaskGetTickCount, vTaskDelayUntil, TxReadLed, xQueueSend, xQueueReceive, Compare,
                RxReadLed, PrintMessage, Tick, lights
  <2>7. CASE UNCHANGED vars
    BY <2>7 DEF vars, lights
  <2> QED
    BY <2>1, <2>2, <2>3, <2>4, <2>5, <2>6, <2>7 DEF Next, Main, Tx, Rx
<1> QED
  BY <1>1, <1>2, Always, PTL DEF Spec, ImplementsBlink, B!Spec
==============================================================================
