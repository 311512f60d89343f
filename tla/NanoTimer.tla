----------------------------- MODULE NanoTimer -----------------------------
(***************************************************************************)
(* The 64-bit timer (rtl/nanorv32_timer.v): two 32-bit counters joined by  *)
(* a carry that is computed one cycle ahead, and a comparator whose three  *)
(* results are registered separately for each half.                        *)
(* One step is one rising edge of clk.                                     *)
(***************************************************************************)
EXTENDS Integers

CONSTANTS
  Half,             \* values of one half: 2^32 in the hardware
  ENABLE_MTIMECMP

ASSUME TimerAssumption == Half \in Nat /\ Half >= 2 /\ ENABLE_MTIMECMP \in BOOLEAN

VARIABLES
  cnt, inc_cnt1,       \* cnt[0] the low half, cnt[1] the high half
  cmp_val,             \* mtimecmp
  cmp_less, cmp_equal  \* registered: cnt[i] < cmp_val[i], cnt[1] = cmp_val[1]

timerVars == <<cnt, inc_cnt1, cmp_val, cmp_less, cmp_equal>>

HalfValue == 0 .. Half - 1
Join(v) == v[1] * Half + v[0]

mtip == ENABLE_MTIMECMP /\ (IF cmp_equal THEN ~cmp_less[0] ELSE ~cmp_less[1])

(***************************************************************************)
(* The access of one cycle: a write of one half of mtimecmp, or none.  The *)
(* byte strobes are abstracted: with the others kept, a write of some      *)
(* bytes leaves another value in the half.                                 *)
(***************************************************************************)
NoAccess == [half |-> -1, value |-> 0]
Accesses == [half : {0, 1}, value : HalfValue] \cup {NoAccess}

TimerInit ==
  /\ cnt = [i \in {0, 1} |-> 0] /\ inc_cnt1 = FALSE
  /\ cmp_val = [i \in {0, 1} |-> 0]
  /\ cmp_less = [i \in {0, 1} |-> FALSE] /\ cmp_equal = FALSE

Count ==
  /\ cnt' = [i \in {0, 1} |-> IF i = 0 \/ inc_cnt1 THEN (cnt[i] + 1) % Half ELSE cnt[i]]
  /\ inc_cnt1' = (cnt[0] = Half - 2)

\* faulty: the high halves alone decide
CompareHigh ==
  /\ cmp_less' = [i \in {0, 1} |-> cnt[1] < cmp_val[1]]
  /\ cmp_equal' = (cnt[1] = cmp_val[1])

\* faulty: the interrupt is pending only in the cycle of equality
CompareForEquality ==
  /\ cmp_less' = [i \in {0, 1} |-> cnt[i] # cmp_val[i]]
  /\ cmp_equal' = (cnt[1] = cmp_val[1])

Compare ==
  /\ cmp_less' = [i \in {0, 1} |-> cnt[i] < cmp_val[i]]
  /\ cmp_equal' = (cnt[1] = cmp_val[1])

Store(access) ==
  cmp_val' = IF ENABLE_MTIMECMP
               THEN [i \in {0, 1} |-> IF i = access.half THEN access.value ELSE cmp_val[i]]
               ELSE cmp_val

TimerTick(access) == Count /\ Compare /\ Store(access)

TimerReset ==
  /\ cnt' = [i \in {0, 1} |-> 0] /\ inc_cnt1' = FALSE
  /\ cmp_val' = [i \in {0, 1} |-> 0]
  /\ cmp_less' = [i \in {0, 1} |-> FALSE] /\ cmp_equal' = FALSE

TimerNext == (\E access \in Accesses : TimerTick(access)) \/ TimerReset

TimerSpec == TimerInit /\ [][TimerNext]_timerVars

(***************************************************************************)
(* Properties                                                              *)
(***************************************************************************)
TimerTypeOK ==
  /\ cnt \in [{0, 1} -> HalfValue] /\ inc_cnt1 \in BOOLEAN
  /\ cmp_val \in [{0, 1} -> HalfValue]
  /\ cmp_less \in [{0, 1} -> BOOLEAN] /\ cmp_equal \in BOOLEAN

\* The carry computed a cycle ahead is the carry of this cycle: it is 1 exactly
\* while the low half is at its maximum, so both halves change on one edge.
CarryAhead == inc_cnt1 = (cnt[0] = Half - 1)

\* The two halves together are one counter that never skips or repeats a
\* value, and mtip is the comparison of the whole registers, whatever halves of
\* mtimecmp software writes and when.
Machine == INSTANCE MachineTimer WITH
  HasCompare <- ENABLE_MTIMECMP, mtime <- Join(cnt), mtimecmp <- Join(cmp_val),
  pending <- mtip
ImplementsTimer == Machine!TimerSpec
=============================================================================
