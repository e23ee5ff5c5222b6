------------------------------ MODULE MCTimers ------------------------------
(* Timers with a few processes, which only their names tell apart.         *)
EXTENDS Timers, TLC

Sleepers == Permutations(Timer)
=============================================================================
