---------------------------- MODULE MCTimerView ----------------------------
(***************************************************************************)
(* Instances of TimerView for TLC.                                         *)
(***************************************************************************)
EXTENDS TimerView

CONSTANTS w1, w2, ana
=============================================================================
