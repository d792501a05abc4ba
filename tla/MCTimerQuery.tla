---------------------------- MODULE MCTimerQuery ----------------------------
(* Instantiates TimerQuery with timers as model values. *)
EXTENDS TimerQuery

CONSTANTS a, b
=============================================================================
