------------------------------ MODULE PidAlloc ------------------------------
(***************************************************************************)
(* The pid allocator of the ucore kernel: get_pid of kern/process/proc.c   *)
(* on proc_list, with the two static variables it keeps between calls.     *)
(* last_pid is the pid given out last; no pid between last_pid and         *)
(* next_safe was in use when get_pid last looked, so most calls need not   *)
(* look at proc_list at all.  In between processes come and go.            *)
(*                                                                         *)
(* get_pid runs with interrupts off; its loop is a step per process here,  *)
(* so that what it relies on while it looks can be stated.                 *)
(***************************************************************************)
EXTENDS Naturals, Sequences, SequencesExt

CONSTANTS MAX_PID,      \* proc.h
          MAX_PROCESS   \* proc.h; the bound of nr_process, idleproc included

ASSUME PidAssumption ==
  /\ MAX_PROCESS \in Nat \ {0}
  /\ MAX_PID \in Nat
  /\ MAX_PID > MAX_PROCESS   \* the static_assert of get_pid

VARIABLES proc_list,   \* the pids of the processes but idleproc, newest first
          last_pid,
          next_safe,
          le           \* where get_pid is in proc_list, 0 when it is not called

pidVars == <<proc_list, last_pid, next_safe, le>>

Pids == 1..MAX_PID-1

Used == Range(proc_list)

(* proc_init, before initproc is forked.                                   *)
PidInit ==
  /\ proc_list = <<>>
  /\ last_pid = MAX_PID
  /\ next_safe = MAX_PID
  /\ le = 0

(* get_pid is done: it stands at the end of the list, or did not look.     *)
Found == le = Len(proc_list) + 1

(* get_pid is called; do_fork has checked nr_process.                      *)
GetPid ==
  /\ le = 0
  /\ Len(proc_list) + 1 < MAX_PROCESS
  /\ \/ /\ last_pid + 1 >= MAX_PID
        /\ last_pid' = 1 /\ next_safe' = MAX_PID /\ le' = 1
     \/ /\ last_pid + 1 < MAX_PID
        /\ last_pid' = last_pid + 1
        /\ IF last_pid + 1 >= next_safe
             THEN next_safe' = MAX_PID /\ le' = 1
             ELSE UNCHANGED next_safe /\ le' = Len(proc_list) + 1
  /\ UNCHANGED proc_list

(* The process at le has the pid that was to be given out, and the next    *)
(* one is still safe for the processes before le.                          *)
Skip ==
  /\ le \in DOMAIN proc_list
  /\ proc_list[le] = last_pid
  /\ last_pid + 1 < next_safe
  /\ last_pid' = last_pid + 1
  /\ le' = le + 1
  /\ UNCHANGED <<proc_list, next_safe>>

(* The same, and it is not: "goto repeat".                                 *)
Restart ==
  /\ le \in DOMAIN proc_list
  /\ proc_list[le] = last_pid
  /\ last_pid + 1 >= next_safe
  /\ last_pid' = IF last_pid + 1 >= MAX_PID THEN 1 ELSE last_pid + 1
  /\ next_safe' = MAX_PID
  /\ le' = 1
  /\ UNCHANGED proc_list

(* The process at le has another pid, which may bound the safe ones.       *)
BoundedMutant(pid) == IF pid > last_pid THEN pid ELSE next_safe

Bounded(pid) == IF pid > last_pid /\ next_safe > pid THEN pid ELSE next_safe

Pass ==
  /\ le \in DOMAIN proc_list
  /\ proc_list[le] # last_pid
  /\ next_safe' = Bounded(proc_list[le])
  /\ le' = le + 1
  /\ UNCHANGED <<proc_list, last_pid>>

(* set_links puts the new process at the front of proc_list.               *)
ListAdd ==
  /\ Found
  /\ proc_list' = <<last_pid>> \o proc_list
  /\ le' = 0
  /\ UNCHANGED <<last_pid, next_safe>>

(* remove_links.                                                           *)
ListDel(pid) ==
  /\ le = 0
  /\ \E i \in DOMAIN proc_list :
       proc_list[i] = pid /\ proc_list' = RemoveAt(proc_list, i)
  /\ UNCHANGED <<last_pid, next_safe, le>>

PidNext ==
  \/ GetPid \/ Skip \/ Restart \/ Pass \/ ListAdd
  \/ \E pid \in Pids : ListDel(pid)

PidSpec == PidInit /\ [][PidNext]_pidVars
-----------------------------------------------------------------------------
PidTypeOK ==
  /\ proc_list \in Seq(Pids)
  /\ last_pid \in 1..MAX_PID
  /\ next_safe \in 1..MAX_PID
  /\ le \in 0..Len(proc_list)+1

(* get_pid never gives out the pid of a process: no two processes in       *)
(* proc_list have the same pid, and when it returns, none has last_pid.    *)
PidUnique ==
  /\ \A i, j \in DOMAIN proc_list : proc_list[i] = proc_list[j] => i = j
  /\ Found => last_pid \in Pids \ Used

(* What the two cached variables are good for: between calls nobody has a  *)
(* pid between them, whoever exited since; while get_pid looks, nobody it  *)
(* has passed has last_pid or a pid between them.                          *)
CacheSafe ==
  LET passed == {i \in DOMAIN proc_list : le = 0 \/ i < le}
  IN \A i \in passed :
       /\ ~(last_pid < proc_list[i] /\ proc_list[i] < next_safe)
       /\ le > 0 => proc_list[i] # last_pid
=============================================================================
