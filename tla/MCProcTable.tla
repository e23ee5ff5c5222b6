---------------------------- MODULE MCProcTable -----------------------------
(* ProcTable with a few pids, on memories of every size up to what three   *)
(* processes need, for a few calls, and on one that always suffices, for   *)
(* as many calls as there may be; a program has one or two arguments.      *)
EXTENDS ProcTable
=============================================================================
