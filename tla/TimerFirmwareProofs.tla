------------------------ MODULE TimerFirmwareProofs ------------------------
(***************************************************************************)
(* Proofs about the timer and about setup_timer of fw/test/start.S, for    *)
(* halves of any width.  The two counters never disagree with a single     *)
(* wide one, and the interrupt is the comparison of the wide registers;    *)
(* the routine reads and writes them correctly with any delays, and any    *)
(* number of cycles between two of its accesses.                           *)
(***************************************************************************)
EXTENDS TimerFirmware, TLAPS

(***************************************************************************)
(* THE TIMER                                                               *)
(***************************************************************************)
IInv == TimerTypeOK /\ CarryAhead

(***************************************************************************)
(* Arithmetic of joined halves                                             *)
(***************************************************************************)
LEMMA ProductMonotone ==
  ASSUME NEW x \in Nat, NEW y \in Nat, x < y
  PROVE  x * Half + Half <= y * Half
<1>1. PICK d \in Nat : y = x + 1 + d
  <2>1. y - x - 1 \in Nat OBVIOUS
  <2> QED BY <2>1
<1>2. y * Half = x * Half + Half + d * Half
  BY <1>1, TimerAssumption
<1>3. d * Half >= 0
  BY TimerAssumption
<1> QED BY <1>2, <1>3, TimerAssumption

\* comparing the wide values is comparing the high halves, then the low ones
LEMMA JoinedOrder ==
  ASSUME NEW a \in HalfValue, NEW b \in HalfValue,
         NEW c \in HalfValue, NEW d \in HalfValue
  PROVE  (a * Half + b >= c * Half + d) <=> (IF a = c THEN b >= d ELSE a >= c)
<1> USE TimerAssumption DEF HalfValue
<1>1. CASE a = c
  BY <1>1
<1>2. CASE a < c
  BY <1>2, ProductMonotone
<1>3. CASE c < a
  BY <1>3, ProductMonotone
<1> QED BY <1>1, <1>2, <1>3

\* the largest wide value is the one both of whose halves are the largest
LEMMA JoinedRange ==
  ASSUME NEW a \in HalfValue, NEW b \in HalfValue
  PROVE  /\ a * Half + b \in 0 .. Half * Half - 1
         /\ (a * Half + b = Half * Half - 1) <=> (a = Half - 1 /\ b = Half - 1)
<1> USE TimerAssumption DEF HalfValue
<1>1. a * Half + Half <= Half * Half
  BY ProductMonotone
<1>2. a * Half >= 0
  OBVIOUS
<1>3. a < Half - 1 => a * Half + Half <= (Half - 1) * Half
  BY ProductMonotone
<1>4. (Half - 1) * Half = Half * Half - Half
  OBVIOUS
<1> QED BY <1>1, <1>2, <1>3, <1>4

\* adding 1 with a carry from the low half to the high half
LEMMA JoinedIncrement ==
  ASSUME NEW a \in HalfValue, NEW b \in HalfValue
  PROVE  (IF b = Half - 1 THEN (a + 1) % Half ELSE a) * Half + ((b + 1) % Half)
           = (a * Half + b + 1) % (Half * Half)
<1> USE TimerAssumption DEF HalfValue
<1>0. a * Half + b \in 0 .. Half * Half - 1
  BY JoinedRange
<1>1. CASE b # Half - 1
  <2>1. (b + 1) % Half = b + 1
    BY <1>1
  <2>2. a * Half + b + 1 \in 0 .. Half * Half - 1
    BY <1>0, <1>1, JoinedRange
  <2>3. (a * Half + b + 1) % (Half * Half) = a * Half + b + 1
    BY <2>2
  <2> QED BY <1>1, <2>1, <2>3
<1>2. CASE b = Half - 1 /\ a # Half - 1
  <2>1. (b + 1) % Half = 0
    BY <1>2
  <2>2. (a + 1) % Half = a + 1
    BY <1>2
  <2>3. a * Half + b + 1 = (a + 1) * Half
    BY <1>2
  <2>4. a * Half + b + 1 \in 0 .. Half * Half - 1
    BY <1>0, <1>2, JoinedRange
  <2>5. (a * Half + b + 1) % (Half * Half) = a * Half + b + 1
    BY <2>4
  <2> QED BY <1>2, <2>1, <2>2, <2>3, <2>5
<1>3. CASE b = Half - 1 /\ a = Half - 1
  <2>1. (b + 1) % Half = 0 /\ (a + 1) % Half = 0
    BY <1>3
  <2>2. a * Half + b + 1 = Half * Half
    BY <1>3, JoinedRange
  <2>3. (Half * Half) % (Half * Half) = 0
    BY <1>0
  <2> QED BY <1>3, <2>1, <2>2, <2>3
<1> QED BY <1>1, <1>2, <1>3

\* the two halves are found again in the wide value
LEMMA JoinedHalves ==
  ASSUME NEW a \in HalfValue, NEW b \in HalfValue
  PROVE  (a * Half + b) \div Half = a /\ (a * Half + b) % Half = b
  BY TimerAssumption DEF HalfValue

(***************************************************************************)
(* The inductive invariant                                                 *)
(***************************************************************************)
\* TimerTypeOK alone says nothing of inc_cnt1, and CarryAhead is preserved only
\* by counters in range: the two are inductive together.
LEMMA ClearedHalves ==
  ASSUME NEW v, v = [i \in {0, 1} |-> 0]
  PROVE  v \in [{0, 1} -> HalfValue] /\ v[0] = 0 /\ ~(v[0] = Half - 1)
  BY TimerAssumption DEF HalfValue

LEMMA TimerInitIInv == TimerInit => IInv
<1> SUFFICES ASSUME TimerInit
             PROVE  IInv
  OBVIOUS
<1>1. TimerTypeOK
  BY ClearedHalves DEF TimerInit, TimerTypeOK
<1>2. inc_cnt1 = FALSE /\ ~(cnt[0] = Half - 1)
  BY ClearedHalves DEF TimerInit
<1> QED BY <1>1, <1>2, Zenon DEF IInv, CarryAhead

LEMMA TimerNextIInv == IInv /\ [TimerNext]_timerVars => IInv'
<1> SUFFICES ASSUME IInv, [TimerNext]_timerVars
             PROVE  IInv'
  OBVIOUS
<1> USE TimerAssumption DEF IInv, TimerTypeOK, CarryAhead, HalfValue
<1>1. ASSUME NEW access \in Accesses, TimerTick(access)
      PROVE  IInv'
  <2>1. cnt' \in [{0, 1} -> HalfValue] /\ inc_cnt1' \in BOOLEAN
    BY <1>1 DEF TimerTick, Count
  <2>2. cmp_val' \in [{0, 1} -> HalfValue]
    BY <1>1 DEF TimerTick, Store, Accesses, NoAccess
  <2>3. cmp_less' \in [{0, 1} -> BOOLEAN] /\ cmp_equal' \in BOOLEAN
    BY <1>1 DEF TimerTick, Compare
  <2>4. CarryAhead'
    BY <1>1 DEF TimerTick, Count
  <2> QED BY <2>1, <2>2, <2>3, <2>4
<1>2. CASE TimerReset
  <2>1. TimerTypeOK'
    BY <1>2, ClearedHalves DEF TimerReset
  <2>2. inc_cnt1' = FALSE /\ ~(cnt'[0] = Half - 1)
    BY <1>2, ClearedHalves DEF TimerReset
  <2>3. CarryAhead'
    BY <2>2, Zenon DEF CarryAhead
  <2> QED BY <2>1, <2>3
<1>3. CASE UNCHANGED timerVars
  BY <1>3 DEF timerVars
<1> QED BY <1>1, <1>2, <1>3 DEF TimerNext

\* Whatever the width of the halves, every register of the timer stays in its
\* range (rtl/nanorv32_timer.v, lines 43-105).
THEOREM TimerTypeCorrect == TimerSpec => []TimerTypeOK
<1>1. IInv => TimerTypeOK
  BY DEF IInv
<1> QED BY TimerInitIInv, TimerNextIInv, <1>1, PTL DEF TimerSpec

\* The carry the timer computes one cycle ahead is always the carry of the cycle
\* it is used in (rtl/nanorv32_timer.v, lines 52-62).
THEOREM CarryCorrect == TimerSpec => []CarryAhead
<1>1. IInv => CarryAhead
  BY DEF IInv
<1> QED BY TimerInitIInv, TimerNextIInv, <1>1, PTL DEF TimerSpec

(***************************************************************************)
(* The two counters implement the wide one                                 *)
(***************************************************************************)
LEMMA MachineInit == TimerInit => Machine!TimerInit
  BY TimerAssumption DEF TimerInit, Machine!TimerInit, Join, mtip

LEMMA MachineCycle ==
  ASSUME IInv, NEW access \in Accesses, TimerTick(access)
  PROVE  Machine!Cycle
<1> USE TimerAssumption DEF IInv, TimerTypeOK, HalfValue
<1>1. Join(cnt)' = (Join(cnt) + 1) % (Half * Half)
  <2>1. /\ cnt'[0] = (cnt[0] + 1) % Half
        /\ cnt'[1] = IF cnt[0] = Half - 1 THEN (cnt[1] + 1) % Half ELSE cnt[1]
    <3>1. inc_cnt1 = (cnt[0] = Half - 1)
      BY Zenon DEF IInv, CarryAhead
    <3>2. cnt' = [i \in {0, 1} |-> IF i = 0 \/ inc_cnt1 THEN (cnt[i] + 1) % Half ELSE cnt[i]]
      BY DEF TimerTick, Count
    <3>3. cnt'[0] = (cnt[0] + 1) % Half
      BY <3>2
    <3>4. cnt'[1] = IF inc_cnt1 THEN (cnt[1] + 1) % Half ELSE cnt[1]
      BY <3>2
    <3> QED BY <3>1, <3>3, <3>4, Zenon
  <2>2. cnt[0] \in HalfValue /\ cnt[1] \in HalfValue
    OBVIOUS
  <2> QED BY <2>1, <2>2, JoinedIncrement DEF Join
<1>2. mtip' = (ENABLE_MTIMECMP /\ Join(cnt) >= Join(cmp_val))
  <2>1. /\ cmp_less'[0] = (cnt[0] < cmp_val[0]) /\ cmp_less'[1] = (cnt[1] < cmp_val[1])
        /\ cmp_equal' = (cnt[1] = cmp_val[1])
    BY DEF TimerTick, Compare
  <2>2. /\ cnt[0] \in HalfValue /\ cnt[1] \in HalfValue
        /\ cmp_val[0] \in HalfValue /\ cmp_val[1] \in HalfValue
    OBVIOUS
  <2>3. Join(cnt) >= Join(cmp_val)
          <=> IF cnt[1] = cmp_val[1] THEN cnt[0] >= cmp_val[0] ELSE cnt[1] >= cmp_val[1]
    BY <2>2, JoinedOrder DEF Join
  <2>4. cnt[0] >= cmp_val[0] <=> ~(cnt[0] < cmp_val[0])
    BY <2>2
  <2>5. cnt[1] >= cmp_val[1] <=> ~(cnt[1] < cmp_val[1])
    BY <2>2
  <2> QED BY <2>1, <2>3, <2>4, <2>5 DEF mtip
<1>3. Machine!SetCompare
  <2>1. CASE cmp_val' = cmp_val
    BY <2>1 DEF Machine!SetCompare, Join
  <2>2. CASE cmp_val' # cmp_val
    <3>1. ENABLE_MTIMECMP /\ access.half \in {0, 1} /\ access.value \in HalfValue
      BY <2>2 DEF TimerTick, Store, Accesses, NoAccess
    <3>2. /\ cmp_val'[0] \in HalfValue /\ cmp_val'[1] \in HalfValue
          /\ cmp_val'[0] = cmp_val[0] \/ cmp_val'[1] = cmp_val[1]
      BY <3>1 DEF TimerTick, Store
    <3>3. /\ cmp_val[0] \in HalfValue /\ cmp_val[1] \in HalfValue
      OBVIOUS
    <3>4. Join(cmp_val)' \in Machine!Wide
      BY <3>2, JoinedRange DEF Join, Machine!Wide
    <3>5. /\ Machine!HighHalf(Join(cmp_val)) = cmp_val[1]
          /\ Machine!LowHalf(Join(cmp_val)) = cmp_val[0]
      BY <3>3, JoinedHalves DEF Join, Machine!HighHalf, Machine!LowHalf
    <3>6. /\ Machine!HighHalf(Join(cmp_val)') = cmp_val'[1]
          /\ Machine!LowHalf(Join(cmp_val)') = cmp_val'[0]
      BY <3>2, JoinedHalves DEF Join, Machine!HighHalf, Machine!LowHalf
    <3> QED BY <3>1, <3>2, <3>4, <3>5, <3>6 DEF Machine!SetCompare
  <2> QED BY <2>1, <2>2
<1> QED BY <1>1, <1>2, <1>3 DEF Machine!Cycle

LEMMA MachineNext ==
  IInv /\ [TimerNext]_timerVars
    => [Machine!Cycle \/ Machine!Restart]_<<Join(cnt), Join(cmp_val), mtip>>
<1> SUFFICES ASSUME IInv, [TimerNext]_timerVars
             PROVE  [Machine!Cycle \/ Machine!Restart]_<<Join(cnt), Join(cmp_val), mtip>>
  OBVIOUS
<1>1. ASSUME NEW access \in Accesses, TimerTick(access)
      PROVE  Machine!Cycle
  BY <1>1, MachineCycle
<1>2. CASE TimerReset
  BY <1>2, TimerAssumption DEF TimerReset, Machine!Restart, Join, mtip
<1>3. CASE UNCHANGED timerVars
  BY <1>3 DEF timerVars, Join, mtip
<1> QED BY <1>1, <1>2, <1>3 DEF TimerNext

\* The pair of 32-bit counters with its carry, and the comparator with its
\* registered results, implement the wide mtime and mtimecmp the README promises,
\* for every width and every sequence of writes.
THEOREM TimerImplements == TimerSpec => ImplementsTimer
<1> QED
  BY TimerInitIInv, TimerNextIInv, MachineInit, MachineNext, PTL
  DEF TimerSpec, ImplementsTimer, Machine!TimerSpec

(***************************************************************************)
(* THE ROUTINE setup_timer                                                 *)
(***************************************************************************)
(***************************************************************************)
(* The assumptions of the theorems: the timer has its compare register,    *)
(* and no deadline lies beyond the range of the wide counter, which would  *)
(* be 2^64 cycles after reset.                                             *)
(***************************************************************************)
DeadlinesFit == \A d \in Delays : LastCycle + d <= Half * Half

(***************************************************************************)
(* The inductive invariant                                                 *)
(***************************************************************************)
Places == {"run", "read_high", "read_low", "read_again", "store_ones",
           "store_high", "store_low", "enable"}

FwTypeOK ==
  /\ fw \in Places
  /\ a0 \in HalfValue /\ t0 \in HalfValue /\ t1 \in HalfValue
  /\ LastCycle + a0 <= Half * Half
  /\ mie_timer \in BOOLEAN /\ mip_timer \in BOOLEAN
  /\ sampled \in Nat /\ old \in Nat

\* What the routine has in its registers while it reads: the high half read
\* first is not above that of the sample, which is not above the present one.
ReadInv ==
  /\ fw = "read_low" => t1 <= cnt[1]
  /\ fw = "read_again" =>
       \E h \in HalfValue : sampled = h * Half + t0 /\ t1 <= h /\ h <= cnt[1]
  /\ fw = "read_again" => sampled < LastCycle

\* What mtimecmp holds at each place.
CompareInv ==
  /\ fw \in {"read_high", "read_low", "read_again", "store_ones"} => mtimecmp = old
  /\ fw = "store_high" => mtimecmp >= old /\ cmp_val[0] = Half - 1
  /\ fw = "store_low" => cmp_val[1] = t1 /\ cmp_val[0] = Half - 1
  /\ fw \in {"run", "enable"} => mtimecmp = deadline

\* The comparison the timer has registered, and the copy of it in mip one edge
\* later, belong to the new deadline when the interrupt is enabled.
PendingInv ==
  /\ mie_timer => fw = "run"
  /\ fw = "enable" /\ mtip => mtime > deadline
  /\ mie_timer /\ (mtip \/ mip_timer) => mtime > deadline

FwInv == IInv /\ FwTypeOK /\ ReadInv /\ ReadIsAtomic /\ CompareInv /\ PendingInv

LEMMA InvImplies ==
  FwInv => ReadIsAtomic /\ UpdateNeverEarly /\ NoEarlyInterrupt
<1> SUFFICES ASSUME FwInv PROVE UpdateNeverEarly /\ NoEarlyInterrupt
  BY DEF FwInv
<1> USE TimerAssumption DEF FwInv, IInv, TimerTypeOK, FwTypeOK, HalfValue
<1>1. ASSUME fw = "store_ones" PROVE mtimecmp >= old
  BY <1>1 DEF CompareInv
<1>2. ASSUME fw = "store_low" PROVE mtimecmp >= deadline
  <2>1. mtimecmp = t1 * Half + (Half - 1)
    BY <1>2 DEF CompareInv, mtimecmp, Join
  <2>2. deadline = t1 * Half + t0
    BY <1>2 DEF ReadIsAtomic, Storing
  <2>3. t1 * Half \in Nat
    OBVIOUS
  <2> QED BY <2>1, <2>2, <2>3
<1>3. UpdateNeverEarly
  BY <1>1, <1>2 DEF UpdateNeverEarly, CompareInv
<1> QED BY <1>3 DEF NoEarlyInterrupt, PendingInv

(***************************************************************************)
(* One cycle of the timer, seen as one counter                             *)
(***************************************************************************)
LEMMA CycleOfTimer ==
  ASSUME FwInv, ENABLE_MTIMECMP, mtime < LastCycle, NEW access \in Accesses, TimerTick(access)
  PROVE  /\ IInv'
         /\ mtime \in Nat /\ mtimecmp \in Nat
         /\ mtime' = mtime + 1
         /\ (mtip' <=> mtime >= mtimecmp)
         /\ cnt[1] <= cnt'[1]
<1> USE TimerAssumption DEF FwInv
<1>0. IInv'
  BY TimerNextIInv DEF TimerNext
<1>1. Machine!Cycle
  BY MachineCycle
<1>2. /\ cnt[0] \in HalfValue /\ cnt[1] \in HalfValue
      /\ cmp_val[0] \in HalfValue /\ cmp_val[1] \in HalfValue
      /\ cnt'[0] \in HalfValue /\ cnt'[1] \in HalfValue
  BY <1>0 DEF IInv, TimerTypeOK
<1>3. mtime \in 0 .. Half * Half - 1 /\ mtimecmp \in 0 .. Half * Half - 1
  BY <1>2, JoinedRange DEF mtime, mtimecmp, Join
<1>4. mtime' = (mtime + 1) % (Half * Half)
  BY <1>1 DEF Machine!Cycle, mtime
<1>5. mtime + 1 \in 0 .. Half * Half - 1
  BY <1>3, FirmwareAssumption
<1>6. mtime' = mtime + 1
  BY <1>4, <1>5
<1>7. (mtip' <=> mtime >= mtimecmp)
  BY <1>1 DEF Machine!Cycle, mtime, mtimecmp
<1>8. cnt[1] <= cnt'[1]
  <2>1. cnt'[1] * Half + cnt'[0] >= cnt[1] * Half + cnt[0]
    BY <1>3, <1>6 DEF mtime, Join
  <2> QED BY <1>2, <2>1, JoinedOrder DEF HalfValue
<1> QED BY <1>0, <1>3, <1>6, <1>7, <1>8

\* add, sltu, add: the carry of the low halves reaches the high half
LEMMA SumOfHalves ==
  ASSUME NEW h \in HalfValue, NEW l \in HalfValue, NEW a \in HalfValue,
         NEW low, low = (l + a) % Half,
         NEW high, high = (h + (IF low < a THEN 1 ELSE 0)) % Half,
         h * Half + l + a < Half * Half
  PROVE  high * Half + low = h * Half + l + a /\ high \in HalfValue /\ low \in HalfValue
<1> USE TimerAssumption DEF HalfValue
<1>1. CASE l + a < Half
  <2>1. low = l + a
    BY <1>1
  <2>2. ~(low < a)
    BY <2>1
  <2>3. high = h
    BY <2>2
  <2> QED BY <1>1, <2>1, <2>3
<1>2. CASE l + a >= Half
  <2>1. low = l + a - Half
    BY <1>2
  <2>2. low < a
    BY <2>1
  <2>3. (h + 1) * Half = h * Half + Half
    OBVIOUS
  <2>4. h + 1 < Half
    <3>1. CASE h + 1 = Half
      BY <1>2, <2>3, <3>1
    <3> QED BY <3>1
  <2>5. high = h + 1
    BY <2>2, <2>4
  <2> QED BY <1>2, <2>1, <2>3, <2>4, <2>5
<1> QED BY <1>1, <1>2

(***************************************************************************)
(* The invariant holds                                                     *)
(***************************************************************************)
LEMMA FirmwareInit == FwInit => FwInv
<1> SUFFICES ASSUME FwInit PROVE FwInv
  OBVIOUS
<1>1. IInv
  BY TimerInitIInv DEF FwInit
<1>2. cnt[0] = 0 /\ cnt[1] = 0 /\ cmp_val[0] = 0 /\ cmp_val[1] = 0
  BY DEF FwInit, TimerInit
<1>3. FwTypeOK
  <2>1. 0 \in HalfValue /\ LastCycle + 0 <= Half * Half
    BY TimerAssumption, FirmwareAssumption DEF HalfValue
  <2> QED BY <2>1 DEF FwInit, FwTypeOK, Places
<1>4. ReadInv /\ ReadIsAtomic
  BY DEF FwInit, ReadInv, ReadIsAtomic, Storing
<1>5. CompareInv
  BY <1>2, TimerAssumption DEF FwInit, CompareInv, mtimecmp, deadline, Join
<1>6. PendingInv
  BY DEF FwInit, PendingInv
<1> QED BY <1>1, <1>3, <1>4, <1>5, <1>6 DEF FwInv

\* the cycles in which software does not write mtimecmp leave it alone
LEMMA NoStore ==
  ASSUME FwInv, TimerTick(NoAccess)
  PROVE  cmp_val' = cmp_val /\ mtimecmp' = mtimecmp
<1>1. cmp_val \in [{0, 1} -> HalfValue]
  BY DEF FwInv, IInv, TimerTypeOK
<1>2. cmp_val' = cmp_val
  BY <1>1 DEF TimerTick, Store, NoAccess
<1> QED BY <1>2 DEF mtimecmp, Join

LEMMA HalfStored ==
  ASSUME FwInv, ENABLE_MTIMECMP, NEW half \in {0, 1}, NEW v \in HalfValue,
         TimerTick([half |-> half, value |-> v])
  PROVE  cmp_val'[half] = v /\ cmp_val'[1 - half] = cmp_val[1 - half]
  BY DEF TimerTick, Store

LEMMA CallKeeps ==
  ASSUME FwInv, ENABLE_MTIMECMP, DeadlinesFit, mtime < LastCycle, Call, mip_timer' = mtip
  PROVE  FwInv'
<1> USE TimerAssumption, FirmwareAssumption DEF FwInv
<1>0. fw = "run" /\ fw' = "read_high" /\ TimerTick(NoAccess) /\ mie_timer' = FALSE
  BY DEF Call, Goes
<1>1. IInv' /\ mtimecmp \in Nat
  BY <1>0, CycleOfTimer DEF Accesses
<1>2. old' = mtimecmp /\ mtimecmp' = mtimecmp
  BY <1>0, NoStore DEF Call
<1>3. FwTypeOK'
  <2>1. a0' \in HalfValue /\ LastCycle + a0' <= Half * Half
    BY DEF Call, DeadlinesFit
  <2>2. mip_timer' \in BOOLEAN
    BY <1>0, <1>1 DEF mtip, IInv, TimerTypeOK
  <2> QED BY <1>0, <1>1, <1>2, <2>1, <2>2 DEF Call, FwTypeOK, Places
<1>4. ReadInv' /\ ReadIsAtomic' /\ PendingInv'
  BY <1>0 DEF ReadInv, ReadIsAtomic, Storing, PendingInv
<1>5. CompareInv'
  BY <1>0, <1>2 DEF CompareInv
<1> QED BY <1>1, <1>3, <1>4, <1>5

\* the registered results are Booleans, so mip and mtip are
LEMMA MipType == FwInv => mtip \in BOOLEAN
  BY TimerAssumption DEF FwInv, IInv, TimerTypeOK, mtip

LEMMA ReadHighKeeps ==
  ASSUME FwInv, ENABLE_MTIMECMP, mtime < LastCycle, ReadHigh, mip_timer' = mtip
  PROVE  FwInv'
<1> USE TimerAssumption DEF FwInv
<1>0. /\ fw = "read_high" /\ fw' = "read_low" /\ TimerTick(NoAccess)
      /\ UNCHANGED <<a0, t0, mie_timer, sampled, old>> /\ t1' = cnt[1]
  BY DEF ReadHigh, Goes, History
<1>1. IInv' /\ cnt[1] <= cnt'[1]
  BY <1>0, CycleOfTimer DEF Accesses
<1>2. FwTypeOK'
  BY <1>0, MipType DEF FwTypeOK, Places, IInv, TimerTypeOK
<1>3. ReadInv' /\ ReadIsAtomic' /\ PendingInv'
  BY <1>0, <1>1 DEF ReadInv, ReadIsAtomic, Storing, PendingInv
<1>4. CompareInv'
  BY <1>0, NoStore DEF CompareInv
<1> QED BY <1>1, <1>2, <1>3, <1>4

LEMMA ReadLowKeeps ==
  ASSUME FwInv, ENABLE_MTIMECMP, mtime < LastCycle, ReadLow, mip_timer' = mtip
  PROVE  FwInv'
<1> USE TimerAssumption DEF FwInv
<1>0. /\ fw = "read_low" /\ fw' = "read_again" /\ TimerTick(NoAccess)
      /\ UNCHANGED <<a0, t1, mie_timer, old>> /\ t0' = cnt[0] /\ sampled' = mtime
  BY DEF ReadLow, Goes
<1>1. IInv' /\ cnt[1] <= cnt'[1] /\ mtime \in Nat
  BY <1>0, CycleOfTimer DEF Accesses
<1>2. FwTypeOK'
  BY <1>0, <1>1, MipType DEF FwTypeOK, Places, IInv, TimerTypeOK
<1>3. ReadInv'
  <2>1. cnt[1] \in HalfValue
    BY DEF IInv, TimerTypeOK
  <2>2. sampled' = cnt[1] * Half + t0' /\ t1' <= cnt[1]
    BY <1>0 DEF ReadInv, mtime, Join
  <2>3. fw' = "read_again" =>
          \E h \in HalfValue : sampled' = h * Half + t0' /\ t1' <= h /\ h <= cnt'[1]
    BY <1>1, <2>1, <2>2
  <2> QED BY <1>0, <2>3 DEF ReadInv
<1>4. ReadIsAtomic' /\ PendingInv'
  BY <1>0 DEF ReadIsAtomic, Storing, PendingInv
<1>5. CompareInv'
  BY <1>0, NoStore DEF CompareInv
<1> QED BY <1>1, <1>2, <1>3, <1>4, <1>5

\* The high half is the same before and after the low half is read: so it was the
\* high half of the sample, and the sum is the deadline.
LEMMA ReadAgainKeeps ==
  ASSUME FwInv, ENABLE_MTIMECMP, mtime < LastCycle, ReadAgain, mip_timer' = mtip
  PROVE  FwInv'
<1> USE TimerAssumption DEF FwInv
<1>0. /\ fw = "read_again" /\ fw' \in {"read_high", "store_ones"} /\ TimerTick(NoAccess)
      /\ UNCHANGED <<a0, mie_timer, sampled, old>>
  BY DEF ReadAgain, Goes, Registers, Add, History
<1>1. IInv'
  BY <1>0, CycleOfTimer DEF Accesses
<1>2. ReadInv' /\ PendingInv'
  BY <1>0 DEF ReadInv, PendingInv
<1>3. CompareInv'
  BY <1>0, NoStore DEF CompareInv
<1>4. CASE fw' = "read_high"
  <2>1. UNCHANGED <<t0, t1>>
    BY <1>4 DEF ReadAgain, Goes, Registers
  <2>2. FwTypeOK'
    BY <1>0, <1>4, <2>1, MipType DEF FwTypeOK, Places
  <2>3. ReadIsAtomic'
    BY <1>4 DEF ReadIsAtomic, Storing
  <2> QED BY <1>1, <1>2, <1>3, <2>2, <2>3
<1>5. CASE fw' = "store_ones"
  <2>1. Add /\ t1 = cnt[1]
    BY <1>5 DEF ReadAgain, Goes
  <2>2. t0 \in HalfValue /\ t1 \in HalfValue /\ a0 \in HalfValue /\ cnt[1] \in HalfValue
    BY DEF FwTypeOK, IInv, TimerTypeOK
  <2>3. sampled = t1 * Half + t0 /\ sampled < LastCycle
    BY <1>0, <2>1, <2>2 DEF ReadInv, HalfValue
  <2>4. t1 * Half + t0 + a0 < Half * Half
    BY <2>2, <2>3, FirmwareAssumption DEF FwTypeOK, HalfValue
  <2>5. /\ t0' = (t0 + a0) % Half
        /\ t1' = (t1 + (IF t0' < a0 THEN 1 ELSE 0)) % Half
    BY <2>1 DEF Add
  <2>6. t1' * Half + t0' = t1 * Half + t0 + a0 /\ t1' \in HalfValue /\ t0' \in HalfValue
    BY <2>2, <2>4, <2>5, SumOfHalves
  <2>7. ReadIsAtomic'
    BY <1>0, <2>3, <2>6 DEF ReadIsAtomic, deadline
  <2>8. FwTypeOK'
    BY <1>0, <1>5, <2>6, MipType DEF FwTypeOK, Places
  <2> QED BY <1>1, <1>2, <1>3, <2>7, <2>8
<1> QED BY <1>0, <1>4, <1>5

\* the three stores: ones in the low half, the new high half, the new low half
LEMMA StoreKeeps ==
  ASSUME FwInv, ENABLE_MTIMECMP, mtime < LastCycle,
         StoreOnes \/ StoreHigh \/ StoreLow, mip_timer' = mtip
  PROVE  FwInv'
<1> USE TimerAssumption DEF FwInv
<1>0. /\ fw \in {"store_ones", "store_high", "store_low"} /\ fw' \in Places
      /\ UNCHANGED <<a0, t0, t1, mie_timer, sampled, old>>
      /\ fw' \in {"store_high", "store_low", "enable"}
  BY DEF StoreOnes, StoreHigh, StoreLow, Goes, Registers, History, Places
<1>1. ASSUME NEW access \in Accesses, TimerTick(access)
      PROVE  IInv' /\ (mtip' <=> mtime >= mtimecmp) /\ mtime' = mtime + 1
  BY <1>1, CycleOfTimer
<1>2. FwTypeOK' /\ ReadInv' /\ ReadIsAtomic'
  BY <1>0, MipType DEF FwTypeOK, ReadInv, ReadIsAtomic, Storing, deadline
<1>3. mie_timer' = FALSE
  BY <1>0 DEF PendingInv, FwTypeOK
<1>4. /\ cmp_val[0] \in HalfValue /\ cmp_val[1] \in HalfValue
      /\ t0 \in HalfValue /\ t1 \in HalfValue /\ Half - 1 \in HalfValue
  BY DEF IInv, TimerTypeOK, FwTypeOK, HalfValue
<1>5. CASE StoreOnes
  <2>1. fw = "store_ones" /\ fw' = "store_high" /\ TimerTick([half |-> 0, value |-> Half - 1])
    BY <1>5 DEF StoreOnes, Goes
  <2>2. cmp_val'[0] = Half - 1 /\ cmp_val'[1] = cmp_val[1]
    BY <1>4, <2>1, HalfStored
  <2>3. mtimecmp' >= mtimecmp
    <3>1. mtimecmp = cmp_val[1] * Half + cmp_val[0] /\ mtimecmp' = cmp_val[1] * Half + (Half - 1)
      BY <2>2 DEF mtimecmp, Join
    <3>2. cmp_val[1] * Half \in Nat
      BY <1>4 DEF HalfValue
    <3> QED BY <1>4, <3>1, <3>2 DEF HalfValue
  <2>4. CompareInv' /\ PendingInv'
    BY <1>0, <1>3, <2>1, <2>2, <2>3 DEF CompareInv, PendingInv
  <2> QED BY <1>1, <1>2, <1>4, <2>1, <2>4 DEF Accesses
<1>6. CASE StoreHigh
  <2>1. fw = "store_high" /\ fw' = "store_low" /\ TimerTick([half |-> 1, value |-> t1])
    BY <1>6 DEF StoreHigh, Goes
  <2>2. cmp_val'[1] = t1 /\ cmp_val'[0] = cmp_val[0]
    BY <1>4, <2>1, HalfStored
  <2>3. cmp_val[0] = Half - 1
    BY <2>1 DEF CompareInv
  <2>4. CompareInv' /\ PendingInv'
    BY <1>0, <1>3, <2>1, <2>2, <2>3 DEF CompareInv, PendingInv
  <2> QED BY <1>1, <1>2, <1>4, <2>1, <2>4 DEF Accesses
<1>7. CASE StoreLow
  <2>1. fw = "store_low" /\ fw' = "enable" /\ TimerTick([half |-> 0, value |-> t0])
    BY <1>7 DEF StoreLow, Goes
  <2>2. cmp_val'[0] = t0 /\ cmp_val'[1] = t1
    BY <1>4, <2>1, HalfStored DEF CompareInv
  <2>3. deadline' = t1 * Half + t0 /\ deadline = deadline'
    BY <1>0, <2>1 DEF ReadIsAtomic, Storing, deadline
  <2>4. mtimecmp' = deadline'
    BY <2>2, <2>3 DEF mtimecmp, Join
  <2>5. mtimecmp >= deadline
    BY <2>1, InvImplies DEF UpdateNeverEarly
  <2>6. mtip' => mtime' > deadline'
    <3>1. [half |-> 0, value |-> t0] \in Accesses
      BY <1>4 DEF Accesses
    <3>2. /\ (mtip' <=> mtime >= mtimecmp) /\ mtime' = mtime + 1
          /\ mtime \in Nat /\ mtimecmp \in Nat
      BY <2>1, <3>1, CycleOfTimer
    <3>3. deadline \in Nat
      BY DEF FwTypeOK, deadline, HalfValue
    <3> QED BY <2>3, <2>5, <3>2, <3>3
  <2>7. CompareInv' /\ PendingInv'
    BY <1>0, <1>3, <2>1, <2>4, <2>6 DEF CompareInv, PendingInv
  <2> QED BY <1>1, <1>2, <1>4, <2>1, <2>7 DEF Accesses
<1> QED BY <1>5, <1>6, <1>7

\* the interrupt is enabled with the comparison of the deadline already registered
LEMMA EnableKeeps ==
  ASSUME FwInv, ENABLE_MTIMECMP, mtime < LastCycle, Enable, mip_timer' = mtip
  PROVE  FwInv'
<1> USE TimerAssumption DEF FwInv
<1>0. /\ fw = "enable" /\ fw' = "run" /\ TimerTick(NoAccess)
      /\ UNCHANGED <<a0, t0, t1, sampled, old>> /\ mie_timer' = TRUE
  BY DEF Enable, Goes, Registers, History
<1>1. /\ IInv' /\ (mtip' <=> mtime >= mtimecmp) /\ mtime' = mtime + 1
      /\ mtime \in Nat /\ mtimecmp \in Nat
  BY <1>0, CycleOfTimer DEF Accesses
<1>2. FwTypeOK' /\ ReadInv' /\ ReadIsAtomic'
  BY <1>0, MipType DEF FwTypeOK, Places, ReadInv, ReadIsAtomic, Storing
<1>3. mtimecmp' = mtimecmp /\ mtimecmp = deadline /\ deadline' = deadline
  BY <1>0, NoStore DEF CompareInv, deadline
<1>4. CompareInv'
  BY <1>0, <1>3 DEF CompareInv
<1>5. PendingInv'
  BY <1>0, <1>1, <1>3 DEF PendingInv
<1> QED BY <1>1, <1>2, <1>4, <1>5

LEMMA BetweenKeeps ==
  ASSUME FwInv, ENABLE_MTIMECMP, mtime < LastCycle, Between, mip_timer' = mtip
  PROVE  FwInv'
<1> USE TimerAssumption DEF FwInv
<1>0. TimerTick(NoAccess) /\ UNCHANGED <<fw, a0, t0, t1, mie_timer, sampled, old>>
  BY DEF Between, Registers, History
<1>1. /\ IInv' /\ (mtip' <=> mtime >= mtimecmp) /\ mtime' = mtime + 1
      /\ mtime \in Nat /\ mtimecmp \in Nat /\ cnt[1] <= cnt'[1]
  BY <1>0, CycleOfTimer DEF Accesses
<1>2. FwTypeOK' /\ ReadIsAtomic'
  BY <1>0, MipType DEF FwTypeOK, ReadIsAtomic, Storing, deadline
<1>3. ReadInv'
  <2>1. cnt[1] \in HalfValue /\ cnt'[1] \in HalfValue
    BY <1>1 DEF IInv, TimerTypeOK
  <2>2. ASSUME fw = "read_again"
        PROVE  \E h \in HalfValue : sampled' = h * Half + t0' /\ t1' <= h /\ h <= cnt'[1]
    <3>1. PICK h \in HalfValue : sampled = h * Half + t0 /\ t1 <= h /\ h <= cnt[1]
      BY <2>2 DEF ReadInv
    <3>2. h <= cnt'[1]
      BY <1>1, <2>1, <3>1 DEF HalfValue
    <3> QED BY <1>0, <3>1, <3>2
  <2>3. fw = "read_low" => t1' <= cnt'[1]
    BY <1>0, <1>1, <2>1 DEF ReadInv, FwTypeOK, HalfValue
  <2> QED BY <1>0, <2>2, <2>3 DEF ReadInv
<1>4. mtimecmp' = mtimecmp /\ deadline' = deadline /\ cmp_val' = cmp_val
  BY <1>0, NoStore DEF deadline
<1>5. CompareInv'
  BY <1>0, <1>4 DEF CompareInv
<1>6. PendingInv'
  <2>1. deadline \in Nat
    BY DEF FwTypeOK, deadline, HalfValue
  <2>2. fw = "enable" \/ mie_timer => mtimecmp = deadline
    BY DEF CompareInv, PendingInv
  <2>3. (mtip => mtime > deadline) => (mtip => mtime' > deadline)
    BY <1>1, <2>1
  <2> QED BY <1>0, <1>1, <1>4, <2>1, <2>2, <2>3 DEF PendingInv
<1> QED BY <1>1, <1>2, <1>3, <1>5, <1>6

LEMMA FirmwareNext ==
  ASSUME ENABLE_MTIMECMP, DeadlinesFit, FwInv, [Cycle]_allVars
  PROVE  FwInv'
<1>1. CASE Cycle
  <2>1. mtime < LastCycle /\ mip_timer' = mtip
    BY <1>1 DEF Cycle
  <2>2. CASE Call
    BY <2>1, <2>2, CallKeeps
  <2>3. CASE ReadHigh
    BY <2>1, <2>3, ReadHighKeeps
  <2>4. CASE ReadLow
    BY <2>1, <2>4, ReadLowKeeps
  <2>5. CASE ReadAgain
    BY <2>1, <2>5, ReadAgainKeeps
  <2>6. CASE StoreOnes \/ StoreHigh \/ StoreLow
    BY <2>1, <2>6, StoreKeeps
  <2>7. CASE Enable
    BY <2>1, <2>7, EnableKeeps
  <2>8. CASE Between
    BY <2>1, <2>8, BetweenKeeps
  <2> QED BY <1>1, <2>2, <2>3, <2>4, <2>5, <2>6, <2>7, <2>8 DEF Cycle
<1>2. CASE UNCHANGED allVars
  BY <1>2 DEF allVars, timerVars, fwVars, FwInv, IInv, TimerTypeOK, CarryAhead, FwTypeOK,
              ReadInv, ReadIsAtomic, Storing, CompareInv, PendingInv, mtip, mtime, mtimecmp,
              deadline, Join
<1> QED BY <1>1, <1>2

LEMMA FirmwareInvariant ==
  ASSUME ENABLE_MTIMECMP, DeadlinesFit
  PROVE  FwSpec => []FwInv
<1>1. FwInv /\ [Cycle]_allVars => FwInv'
  BY FirmwareNext
<1> QED BY FirmwareInit, <1>1, PTL DEF FwSpec

(***************************************************************************)
(* The theorems                                                            *)
(***************************************************************************)
\* Read twice and compared, the two halves of mtime are the halves of one value,
\* whenever the carry comes (fw/test/start.S, lines 292-302).
THEOREM ReadsAtomically ==
  ASSUME ENABLE_MTIMECMP, DeadlinesFit
  PROVE  FwSpec => []ReadIsAtomic
<1>1. FwInv => ReadIsAtomic
  BY InvImplies
<1> QED BY FirmwareInvariant, <1>1, PTL

\* Ones in the low half, then the high half, then the low half: mtimecmp is never
\* below both its old and its new value (fw/test/start.S, lines 304-308).
THEOREM UpdatesNeverEarly ==
  ASSUME ENABLE_MTIMECMP, DeadlinesFit
  PROVE  FwSpec => []UpdateNeverEarly
<1>1. FwInv => UpdateNeverEarly
  BY InvImplies
<1> QED BY FirmwareInvariant, <1>1, PTL

\* The interrupt that comes after the routine has returned is that of the new
\* deadline, however few cycles pass between the last store and the enabling
\* (fw/test/start.S, lines 307-311).
THEOREM InterruptsNeverEarly ==
  ASSUME ENABLE_MTIMECMP, DeadlinesFit
  PROVE  FwSpec => []NoEarlyInterrupt
<1>1. FwInv => NoEarlyInterrupt
  BY InvImplies
<1> QED BY FirmwareInvariant, <1>1, PTL
=============================================================================
