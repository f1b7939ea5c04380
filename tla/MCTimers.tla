------------------------------ MODULE MCTimers ------------------------------
(* A word of 14 values: the TOD becomes negative after 7 units of time, in *)
(* the middle of a pseudo-second.                                          *)
EXTENDS Timers, TLC

ProcessSymmetry == Permutations(Process)
=============================================================================
