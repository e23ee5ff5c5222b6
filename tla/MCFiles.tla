------------------------------ MODULE MCFiles ------------------------------
(* Instance of Files for TLC: processes and files are interchangeable. *)
EXTENDS Files, TLC

Symm == Permutations(Proc) \cup Permutations(Ino)
=============================================================================
