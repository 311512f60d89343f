---------------------------- MODULE MachineTimer ----------------------------
(***************************************************************************)
(* What the timer promises (README of the repository, ENABLE_MTIME and     *)
(* ENABLE_MTIMECMP): mtime counts clock cycles in one wide register, and   *)
(* the interrupt is pending when mtime has reached mtimecmp, one cycle     *)
(* after it did.                                                           *)
(***************************************************************************)
EXTENDS Integers

CONSTANTS Half,     \* values of the register's halves: 2^32 in the hardware
          HasCompare \* ENABLE_MTIMECMP

VARIABLES mtime, mtimecmp, pending

Wide == 0 .. Half * Half - 1
HighHalf(v) == v \div Half
LowHalf(v) == v % Half

TimerInit == mtime = 0 /\ mtimecmp = 0 /\ pending = HasCompare

\* software writes one half of mtimecmp at a time
SetCompare ==
  \/ mtimecmp' = mtimecmp
  \/ /\ HasCompare
     /\ mtimecmp' \in Wide
     /\ \/ HighHalf(mtimecmp') = HighHalf(mtimecmp)
        \/ LowHalf(mtimecmp') = LowHalf(mtimecmp)

Cycle ==
  /\ mtime' = (mtime + 1) % (Half * Half)
  /\ pending' = (HasCompare /\ mtime >= mtimecmp)
  /\ SetCompare

Restart == mtime' = 0 /\ mtimecmp' = 0 /\ pending' = HasCompare

TimerSpec == TimerInit /\ [][Cycle \/ Restart]_<<mtime, mtimecmp, pending>>
=============================================================================
