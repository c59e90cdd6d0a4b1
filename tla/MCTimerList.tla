---------------------------- MODULE MCTimerList -----------------------------
(* Small instances of TimerList.                                            *)
EXTENDS TimerList, TLC

TimersSymmetry == Permutations(Timers)
=============================================================================
