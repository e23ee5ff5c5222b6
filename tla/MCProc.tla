------------------------------- MODULE MCProc -------------------------------
(* Proc with initproc, idleproc and two user processes: enough for the     *)
(* liveness properties.  The theorems of ProcProofs speak of any number.   *)
EXTENDS Proc
=============================================================================
