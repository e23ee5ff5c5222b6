---------------------------- MODULE MCThreadPool ----------------------------
(* ThreadPool with rings of every size up to MAX_TASKS, filled and wrapped *)
(* around.                                                                 *)
EXTENDS ThreadPool
=============================================================================
