---------------------------- MODULE MCTimerQueue ----------------------------
(* Instances of TimerQueue for TLC: few addresses, so that they are reused. *)
EXTENDS TimerQueue

CONSTANTS a1, a2, u1
=============================================================================
