--------------------------- MODULE MCTimerManager ----------------------------
(* TimerManager for TLC.                                                   *)
EXTENDS TimerManager
=============================================================================
