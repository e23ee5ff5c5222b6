----------------------------- MODULE MCMonitor ------------------------------
(* Monitor with a few threads and two condition variables.  The threads    *)
(* are interchangeable, and so are the condition variables.                *)
EXTENDS Monitor, TLC

Symmetry == Permutations(Thread) \cup Permutations(CV)
=============================================================================
