--------------------------- MODULE TimerFirmware ---------------------------
(***************************************************************************)
(* The routine setup_timer of fw/test/start.S running against the timer:   *)
(* software reads the 64-bit mtime and writes the 64-bit mtimecmp with     *)
(* 32-bit accesses, while the counter runs.  The same sequence of stores   *)
(* is what the README recommends for mtimecmp.                             *)
(*                                                                         *)
(* One step is one clock cycle.  In each the core makes the next access of *)
(* the routine, or none: between two accesses MinGap to MaxGap cycles      *)
(* pass (the core needs several cycles for an instruction).                *)
(***************************************************************************)
EXTENDS NanoTimer

CONSTANTS
  Delays,           \* the values of a0, the number of clocks to wait
  MinGap, MaxGap,   \* clock cycles from one access to the next
  LastCall,         \* bound: mtime after which the routine is not called again
  LastCycle         \* bound: mtime at which time ends, before the counter wraps

ASSUME FirmwareAssumption ==
  /\ Delays \subseteq HalfValue
  /\ MinGap \in Nat /\ MaxGap \in Nat /\ 1 <= MinGap /\ MinGap <= MaxGap
  /\ LastCall \in Nat /\ LastCycle \in Nat /\ LastCycle < Half * Half

VARIABLES
  fw,               \* the next access of the routine; "run" outside it
  a0, t0, t1,       \* registers of the routine
  gap,              \* cycles since the last access
  mie_timer,        \* mie.timer
  mip_timer,        \* mip.timer, the input mtip registered by the core
  sampled,          \* history: mtime when the low half was read
  old               \* history: mtimecmp when the routine was called

fwVars == <<fw, a0, t0, t1, gap, mie_timer, mip_timer, sampled, old>>
allVars == <<timerVars, fwVars>>

mtime == Join(cnt)
mtimecmp == Join(cmp_val)
deadline == sampled + a0

Registers == UNCHANGED <<a0, t0, t1>>
History == UNCHANGED <<sampled, old>>

\* one access of the routine: from one place to the next
Goes(from, to) ==
  /\ fw = from /\ gap >= MinGap
  /\ fw' = to /\ gap' = 1

(***************************************************************************)
(* setup_timer                                                             *)
(***************************************************************************)
\* faulty: the timer interrupt stays enabled
CallWithoutDisable ==
  /\ Goes("run", "read_high") /\ mtime <= LastCall
  /\ a0' \in Delays /\ UNCHANGED <<t0, t1>>
  /\ old' = mtimecmp /\ UNCHANGED <<sampled, mie_timer>>
  /\ TimerTick(NoAccess)

Call ==
  /\ Goes("run", "read_high") /\ mtime <= LastCall
  /\ a0' \in Delays /\ UNCHANGED <<t0, t1>>
  /\ mie_timer' = FALSE
  /\ old' = mtimecmp /\ UNCHANGED sampled
  /\ TimerTick(NoAccess)

ReadHigh ==
  /\ Goes("read_high", "read_low")
  /\ t1' = cnt[1] /\ UNCHANGED <<a0, t0>>
  /\ UNCHANGED mie_timer /\ History
  /\ TimerTick(NoAccess)

ReadLow ==
  /\ Goes("read_low", "read_again")
  /\ t0' = cnt[0] /\ UNCHANGED <<a0, t1>>
  /\ sampled' = mtime /\ UNCHANGED <<old, mie_timer>>
  /\ TimerTick(NoAccess)

\* add t0, t0, a0; sltu t3, t0, a0; add t1, t1, t3
Add ==
  LET low == (t0 + a0) % Half
      carry == IF low < a0 THEN 1 ELSE 0
  IN t0' = low /\ t1' = (t1 + carry) % Half /\ UNCHANGED a0

\* faulty: the high half is not read a second time
ReadOnce ==
  /\ Goes("read_again", "store_ones")
  /\ Add
  /\ UNCHANGED mie_timer /\ History
  /\ TimerTick(NoAccess)

\* bne t1, t3, atomic_read_mtime
ReadAgain ==
  /\ \/ Goes("read_again", "read_high") /\ t1 # cnt[1] /\ Registers
     \/ Goes("read_again", "store_ones") /\ t1 = cnt[1] /\ Add
  /\ UNCHANGED mie_timer /\ History
  /\ TimerTick(NoAccess)

\* faulty: the old low half stays until the end
StoreNoOnes ==
  /\ Goes("store_ones", "store_high")
  /\ Registers /\ UNCHANGED mie_timer /\ History
  /\ TimerTick(NoAccess)

StoreOnes ==
  /\ Goes("store_ones", "store_high")
  /\ Registers /\ UNCHANGED mie_timer /\ History
  /\ TimerTick([half |-> 0, value |-> Half - 1])

StoreHigh ==
  /\ Goes("store_high", "store_low")
  /\ Registers /\ UNCHANGED mie_timer /\ History
  /\ TimerTick([half |-> 1, value |-> t1])

StoreLow ==
  /\ Goes("store_low", "enable")
  /\ Registers /\ UNCHANGED mie_timer /\ History
  /\ TimerTick([half |-> 0, value |-> t0])

Enable ==
  /\ Goes("enable", "run")
  /\ mie_timer' = TRUE
  /\ Registers /\ History
  /\ TimerTick(NoAccess)

\* a cycle without an access; inside the routine the next one comes in time
Between ==
  /\ fw # "run" => gap < MaxGap
  /\ gap' = IF gap < MaxGap THEN gap + 1 ELSE gap
  /\ UNCHANGED <<fw, mie_timer>> /\ Registers /\ History
  /\ TimerTick(NoAccess)

(***************************************************************************)
(* Specification.  Bound: time ends before the counter wraps.              *)
(***************************************************************************)
FwInit ==
  /\ TimerInit
  /\ fw = "run" /\ a0 = 0 /\ t0 = 0 /\ t1 = 0 /\ gap = MinGap
  /\ mie_timer = FALSE /\ mip_timer = FALSE
  /\ sampled = 0 /\ old = 0

Cycle ==
  /\ mtime < LastCycle
  /\ \/ Call \/ ReadHigh \/ ReadLow \/ ReadAgain
     \/ StoreOnes \/ StoreHigh \/ StoreLow \/ Enable
     \/ Between
  /\ mip_timer' = mtip

FwSpec == FwInit /\ [][Cycle]_allVars /\ WF_allVars(Cycle)

(***************************************************************************)
(* Properties                                                              *)
(***************************************************************************)
Storing == fw \in {"store_ones", "store_high", "store_low"}

\* The two halves the routine works with are the two halves of one value of
\* mtime, the one of the cycle the low half was read in, plus a0 with its
\* carry (fw/test/start.S, lines 292-302).
ReadIsAtomic == Storing => t1 * Half + t0 = deadline

\* While the halves are stored one by one, mtimecmp is never below both its old
\* and its new value, as the comments beside the stores say (fw/test/start.S,
\* lines 304-308; README, lines 377-388): no interrupt becomes pending that
\* neither of them would have caused.
UpdateNeverEarly ==
  /\ fw \in {"store_ones", "store_high"} => mtimecmp >= old
  /\ fw = "store_low" => mtimecmp >= deadline
  /\ fw = "enable" => mtimecmp = deadline

\* When the routine has returned, the interrupt the core sees is that of the
\* new deadline, never a left-over of the old one that mip still holds.
NoEarlyInterrupt == mie_timer /\ mip_timer => mtime > deadline

\* The deadline set is answered by an interrupt, or replaced by another call.
InterruptComes == (fw = "enable") ~> ((fw = "run" /\ mie_timer /\ mip_timer) \/ fw = "read_high")
=============================================================================
