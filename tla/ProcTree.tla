------------------------------ MODULE ProcTree ------------------------------
(***************************************************************************)
(* What process management promises, without a scheduler: a process is     *)
(* free, live or a zombie; it is created by a live process, dies once, is  *)
(* reaped by its parent and by nobody else, and the children it leaves are *)
(* adopted by initproc.  Module Proc (kern/process/proc.c with             *)
(* kern/schedule/sched.c) is shown to implement this module.               *)
(***************************************************************************)
CONSTANTS Pid,        \* the pids a process can have
          idleproc,   \* process 0, created by proc_init
          initproc,   \* process 1, created by proc_init
          NULL        \* "no process"

VARIABLES status,     \* status[p]: "free", "live" or "zombie"
          parent      \* parent[p]: the process that may reap p

vars == <<status, parent>>

(* proc_init: idleproc makes itself and forks initproc. *)
Init ==
  /\ status = [p \in Pid |-> IF p \in {idleproc, initproc} THEN "live" ELSE "free"]
  /\ parent = [p \in Pid |-> IF p = initproc THEN idleproc ELSE NULL]

(* do_fork: a live process gets a child under a pid nobody has. *)
Fork(p, c) ==
  /\ status[p] = "live"
  /\ status[c] = "free"
  /\ status' = [status EXCEPT ![c] = "live"]
  /\ parent' = [parent EXCEPT ![c] = p]

(* do_exit: the process becomes a zombie, initproc adopts its children. *)
Exit(p) ==
  /\ p \notin {idleproc, initproc}
  /\ status[p] = "live"
  /\ status' = [status EXCEPT ![p] = "zombie"]
  /\ parent' = [c \in Pid |-> IF parent[c] = p THEN initproc ELSE parent[c]]

(* do_wait: the parent, live, frees one of its zombies. *)
Reap(p, c) ==
  /\ status[p] = "live"
  /\ status[c] = "zombie"
  /\ parent[c] = p
  /\ status' = [status EXCEPT ![c] = "free"]
  /\ parent' = [parent EXCEPT ![c] = NULL]

Next ==
  \E p \in Pid :
    \/ Exit(p)
    \/ \E c \in Pid : Fork(p, c) \/ Reap(p, c)

Spec == Init /\ [][Next]_vars
=============================================================================
