-------------------------------- MODULE Proc --------------------------------
(***************************************************************************)
(* Processes of the ucore kernel: kern/process/proc.c, the class-neutral   *)
(* half of kern/schedule/sched.c, and the trap return of kern/trap/trap.c. *)
(*                                                                         *)
(* One CPU; the kernel is not preemptible.  An action is a piece of kernel *)
(* code between two points where interrupts are enabled or the CPU is      *)
(* given up.  The timer interrupt (Tick) may come at each of those points; *)
(* only its return to user mode reschedules (trap.c, "if (!in_kernel)").   *)
(*                                                                         *)
(* pc[p] says where p stands:                                              *)
(*   "none"       p is not a process                                       *)
(*   "idle"       cpu_idle's loop                                          *)
(*   "init_fork"  init_main before it creates user_main                    *)
(*   "init_sched" init_main, do_wait has returned 0                        *)
(*   "init_done"  init_main, do_wait has found no child                    *)
(*   "user"       user mode, or not run yet                                *)
(*   "sys"        a system call was entered (interrupts stay enabled)      *)
(*   "ret"        the end of trap(), before the return to user mode        *)
(*   "wait"       do_wait, label repeat                                    *)
(*   "wait_sched" do_wait, asleep, before schedule()                       *)
(*   "wait_back"  do_wait, after schedule()                                *)
(*   "sleep_sched", "sleep_back"   do_sleep, before and after schedule()   *)
(*   "exit"       do_exit is entered                                       *)
(*   "exit_links" do_exit, PROC_ZOMBIE is set                              *)
(*   "exit_sched" do_exit, before schedule()                               *)
(*   "dead"       a zombie that gave the CPU up                            *)
(*                                                                         *)
(* A definition whose name ends in Mutant is a wrong variant of the one    *)
(* after it; the properties are tested against it.                         *)
(***************************************************************************)
EXTENDS Naturals, FiniteSets

CONSTANTS Pid, idleproc, initproc, NULL,
          MAX_PROCESS,   \* proc.h: no fork beyond this many processes
          MaxSlice,      \* rq->max_time_slice of sched_init
          MaxSleep       \* bound: the longest time a process sleeps, in ticks

ASSUME ProcAssumption ==
  /\ idleproc \in Pid
  /\ initproc \in Pid \ {idleproc}
  /\ NULL \notin Pid
  /\ IsFiniteSet(Pid)
  /\ MAX_PROCESS \in Nat
  /\ MaxSlice \in Nat \ {0}
  /\ MaxSleep \in Nat \ {0}

VARIABLES
  current,       \* the running process
  state,         \* proc->state, "FREE" for a pid without proc_struct
  wait_state,    \* proc->wait_state
  need_resched,  \* proc->need_resched
  exiting,       \* PF_EXITING in proc->flags
  parent,        \* proc->parent
  rq,            \* how many times the process is linked into the run queue
  time_slice,    \* proc->time_slice
  timer,         \* ticks left of the process's timer, 0 when it has none
  waitpid,       \* the argument of the do_wait the process is in, NULL for any
  nr_process,
  pc,
  panic          \* "none", or why the kernel stopped

vars == <<current, state, wait_state, need_resched, exiting, parent, rq,
          time_slice, timer, waitpid, nr_process, pc, panic>>

States == {"FREE", "RUNNABLE", "SLEEPING", "ZOMBIE"}
WaitStates == {"0", "WT_CHILD", "WT_TIMER"}
Interruptible == {"WT_CHILD", "WT_TIMER"}
Places == {"none", "idle", "init_fork", "init_sched", "init_done", "user", "sys",
           "ret", "wait", "wait_sched", "wait_back", "sleep_sched", "sleep_back",
           "exit", "exit_links", "exit_sched", "dead"}
-----------------------------------------------------------------------------
(* proc_init: idleproc runs, and has forked initproc. *)
Init ==
  /\ current = idleproc
  /\ state = [p \in Pid |-> IF p \in {idleproc, initproc} THEN "RUNNABLE" ELSE "FREE"]
  /\ wait_state = [p \in Pid |-> "0"]
  /\ need_resched = [p \in Pid |-> p = idleproc]
  /\ exiting = [p \in Pid |-> FALSE]
  /\ parent = [p \in Pid |-> IF p = initproc THEN idleproc ELSE NULL]
  /\ rq = [p \in Pid |-> IF p = initproc THEN 1 ELSE 0]
  /\ time_slice = [p \in Pid |-> IF p = initproc THEN MaxSlice ELSE 0]
  /\ timer = [p \in Pid |-> 0]
  /\ waitpid = [p \in Pid |-> NULL]
  /\ nr_process = 2
  /\ pc = [p \in Pid |-> CASE p = idleproc -> "idle"
                           [] p = initproc -> "init_fork"
                           [] OTHER -> "none"]
  /\ panic = "none"

Goto(p, where) == pc' = [pc EXCEPT ![p] = where]

(* The children of p that the kernel's lists hold. *)
Children(p) == {c \in Pid : parent[c] = p}

(* The class's enqueue: time_slice is refilled when it is used up. *)
Refilled(S) ==
  [p \in Pid |-> IF p \in S /\ time_slice[p] = 0 THEN MaxSlice ELSE time_slice[p]]

(* wakeup_proc on each process of W, st being the processes' states.  It   *)
(* leaves time_slice to the caller, which gets the enqueued processes from *)
(* Enqueued.                                                               *)
EnqueuedMutant(W, st) == {p \in W : st[p] # "RUNNABLE"}

Enqueued(W, st) == {p \in W : st[p] # "RUNNABLE" /\ p # current}

Wakeup(W, st) ==
  /\ state' = [p \in Pid |-> IF p \in W THEN "RUNNABLE" ELSE st[p]]
  /\ wait_state' = [p \in Pid |->
       IF p \in W /\ st[p] # "RUNNABLE" THEN "0" ELSE wait_state[p]]
  /\ rq' = [p \in Pid |-> IF p \in Enqueued(W, st) THEN rq[p] + 1 ELSE rq[p]]
  /\ panic' = IF \E p \in W : st[p] = "ZOMBIE" THEN "assert" ELSE panic

(* schedule() called by the running process p, which continues at cont.    *)
(* The class decides which queued process is next.                         *)
Ready(p) ==
  IF state[p] = "RUNNABLE" /\ p # idleproc THEN [rq EXCEPT ![p] = @ + 1] ELSE rq

Schedule(p, cont) ==
  /\ need_resched' = [need_resched EXCEPT ![p] = FALSE]
  /\ time_slice' = IF Ready(p) # rq THEN Refilled({p}) ELSE time_slice
  /\ \/ \E next \in Pid :
          /\ Ready(p)[next] > 0
          /\ current' = next
          /\ rq' = [Ready(p) EXCEPT ![next] = @ - 1]
     \/ /\ \A q \in Pid : Ready(p)[q] = 0
        /\ current' = idleproc
        /\ rq' = Ready(p)
  /\ Goto(p, cont)
  /\ UNCHANGED <<state, wait_state, exiting, parent, timer, waitpid, nr_process, panic>>
-----------------------------------------------------------------------------
(* The timer interrupt: run_timer_list fires the timers that reach 0, then *)
(* the class accounts for the running process.  From user mode it returns  *)
(* through the end of trap(), from the kernel to where it was.             *)
FiredMutant == {p \in Pid \ {current} : timer[p] = 1}

Fired == {p \in Pid : timer[p] = 1}

SliceLeftMutant == time_slice[current] - 1

SliceLeft == IF time_slice[current] > 0 THEN time_slice[current] - 1 ELSE 0

Tick ==
  LET left == SliceLeft
  IN /\ timer' = [p \in Pid |-> IF timer[p] > 0 THEN timer[p] - 1 ELSE 0]
     /\ Wakeup(Fired, state)
     /\ IF current = idleproc
          THEN /\ need_resched' = [need_resched EXCEPT ![idleproc] = TRUE]
               /\ time_slice' = Refilled(Enqueued(Fired, state))
          ELSE /\ need_resched' = [need_resched EXCEPT ![current] = @ \/ left = 0]
               /\ time_slice' =
                    [Refilled(Enqueued(Fired, state)) EXCEPT ![current] = left]
     /\ pc' = IF pc[current] = "user" THEN [pc EXCEPT ![current] = "ret"] ELSE pc
     /\ UNCHANGED <<current, exiting, parent, waitpid, nr_process>>

(* The end of trap() on the way back to user mode. *)
TrapExit(p) ==
  /\ pc[p] = "ret"
  /\ exiting[p]
  /\ Goto(p, "exit")
  /\ UNCHANGED <<current, state, wait_state, need_resched, exiting, parent, rq,
                 time_slice, timer, waitpid, nr_process, panic>>

TrapSchedule(p) ==
  /\ pc[p] = "ret"
  /\ ~exiting[p]
  /\ need_resched[p]
  /\ Schedule(p, "user")

TrapReturn(p) ==
  /\ pc[p] = "ret"
  /\ ~exiting[p]
  /\ ~need_resched[p]
  /\ Goto(p, "user")
  /\ UNCHANGED <<current, state, wait_state, need_resched, exiting, parent, rq,
                 time_slice, timer, waitpid, nr_process, panic>>

(* cpu_idle *)
IdleSchedule(p) ==
  /\ pc[p] = "idle"
  /\ need_resched[p]
  /\ Schedule(p, "idle")
-----------------------------------------------------------------------------
(* System calls. *)
Enter(p) ==
  /\ pc[p] = "user"
  /\ Goto(p, "sys")
  /\ UNCHANGED <<current, state, wait_state, need_resched, exiting, parent, rq,
                 time_slice, timer, waitpid, nr_process, panic>>

(* A call that changes none of this state: one this module does not model, *)
(* sleep(0), or a fork, wait or kill that fails.                           *)
SysReturn(p) ==
  /\ pc[p] = "sys"
  /\ Goto(p, "ret")
  /\ UNCHANGED <<current, state, wait_state, need_resched, exiting, parent, rq,
                 time_slice, timer, waitpid, nr_process, panic>>

(* do_fork: the proc_struct c is filled in, linked and woken. *)
Fork(p, c) ==
  /\ state[c] = "FREE"
  /\ nr_process < MAX_PROCESS
  /\ state' = [state EXCEPT ![c] = "RUNNABLE"]
  /\ wait_state' = [wait_state EXCEPT ![c] = "0"]
  /\ need_resched' = [need_resched EXCEPT ![c] = FALSE]
  /\ exiting' = [exiting EXCEPT ![c] = FALSE]
  /\ parent' = [parent EXCEPT ![c] = p]
  /\ rq' = [rq EXCEPT ![c] = @ + 1]
  /\ time_slice' = [time_slice EXCEPT ![c] = MaxSlice]
  /\ nr_process' = nr_process + 1
  /\ panic' = IF wait_state[p] = "0" THEN panic ELSE "assert"
  /\ UNCHANGED <<current, timer, waitpid>>

SysFork(p, c) ==
  /\ pc[p] = "sys"
  /\ Fork(p, c)
  /\ pc' = [pc EXCEPT ![p] = "ret", ![c] = "user"]

SysExit(p) ==
  /\ pc[p] = "sys"
  /\ Goto(p, "exit")
  /\ UNCHANGED <<current, state, wait_state, need_resched, exiting, parent, rq,
                 time_slice, timer, waitpid, nr_process, panic>>

SysWait(p, t) ==
  /\ pc[p] = "sys"
  /\ waitpid' = [waitpid EXCEPT ![p] = t]
  /\ Goto(p, "wait")
  /\ UNCHANGED <<current, state, wait_state, need_resched, exiting, parent, rq,
                 time_slice, timer, nr_process, panic>>

(* do_kill, with a pid find_proc finds: any but idleproc's, which is not   *)
(* hashed.  The programs under user/ only kill processes they know from    *)
(* fork or getpid, hence not initproc.                                     *)
SysKill(p, t) ==
  /\ pc[p] = "sys"
  /\ t \notin {idleproc, initproc}
  /\ state[t] # "FREE"
  /\ ~exiting[t]
  /\ exiting' = [exiting EXCEPT ![t] = TRUE]
  /\ LET W == {q \in {t} : wait_state[q] \in Interruptible}
     IN /\ Wakeup(W, state)
        /\ time_slice' = Refilled(Enqueued(W, state))
  /\ Goto(p, "ret")
  /\ UNCHANGED <<current, need_resched, parent, timer, waitpid, nr_process>>

(* do_yield *)
SysYield(p) ==
  /\ pc[p] = "sys"
  /\ need_resched' = [need_resched EXCEPT ![p] = TRUE]
  /\ Goto(p, "ret")
  /\ UNCHANGED <<current, state, wait_state, exiting, parent, rq,
                 time_slice, timer, waitpid, nr_process, panic>>
-----------------------------------------------------------------------------
(* do_sleep: asleep and the timer added with interrupts disabled; they are *)
(* enabled again before schedule().                                        *)
SysSleep(p, ticks) ==
  /\ pc[p] = "sys"
  /\ state' = [state EXCEPT ![p] = "SLEEPING"]
  /\ wait_state' = [wait_state EXCEPT ![p] = "WT_TIMER"]
  /\ timer' = [timer EXCEPT ![p] = ticks]
  /\ panic' = IF timer[p] = 0 THEN panic ELSE "assert"
  /\ Goto(p, "sleep_sched")
  /\ UNCHANGED <<current, need_resched, exiting, parent, rq, time_slice, waitpid,
                 nr_process>>

SleepSchedule(p) ==
  /\ pc[p] = "sleep_sched"
  /\ Schedule(p, "sleep_back")

(* del_timer on the way out: the sleeper may have been woken by do_kill. *)
SleepReturnMutant(p) ==
  /\ pc[p] = "sleep_back"
  /\ Goto(p, "ret")
  /\ UNCHANGED <<current, state, wait_state, need_resched, exiting, parent, rq,
                 time_slice, timer, waitpid, nr_process, panic>>

SleepReturn(p) ==
  /\ pc[p] = "sleep_back"
  /\ timer' = [timer EXCEPT ![p] = 0]
  /\ Goto(p, "ret")
  /\ UNCHANGED <<current, state, wait_state, need_resched, exiting, parent, rq,
                 time_slice, waitpid, nr_process, panic>>
-----------------------------------------------------------------------------
(* do_wait.  Candidates are the children the call waits for; the scan      *)
(* takes a zombie among them, if there is one.                             *)
Candidates(p) ==
  IF waitpid[p] = NULL THEN Children(p) ELSE Children(p) \cap {waitpid[p]}

ZombiesForMutant(p) == Candidates(p)

ZombiesFor(p) == {c \in Candidates(p) : state[c] = "ZOMBIE"}

(* found: the child leaves every list and its memory is freed; its pid is  *)
(* nobody's again.  init_main calls schedule() next.                       *)
WaitReap(p) ==
  /\ pc[p] = "wait"
  /\ \E c \in ZombiesFor(p) :
       /\ state' = [state EXCEPT ![c] = "FREE"]
       /\ parent' = [parent EXCEPT ![c] = NULL]
       /\ exiting' = [exiting EXCEPT ![c] = FALSE]
       /\ pc' = [pc EXCEPT ![c] = "none",
                           ![p] = IF p = initproc THEN "init_sched" ELSE "ret"]
       /\ panic' = IF c \in {idleproc, initproc} THEN "assert" ELSE panic
  /\ nr_process' = nr_process - 1
  /\ waitpid' = [waitpid EXCEPT ![p] = NULL]
  /\ UNCHANGED <<current, wait_state, need_resched, rq, time_slice, timer>>

WaitBlock(p) ==
  /\ pc[p] = "wait"
  /\ Candidates(p) # {}
  /\ ZombiesFor(p) = {}
  /\ state' = [state EXCEPT ![p] = "SLEEPING"]
  /\ wait_state' = [wait_state EXCEPT ![p] = "WT_CHILD"]
  /\ Goto(p, "wait_sched")
  /\ UNCHANGED <<current, need_resched, exiting, parent, rq, time_slice, timer,
                 waitpid, nr_process, panic>>

WaitNobody(p) ==
  /\ pc[p] = "wait"
  /\ Candidates(p) = {}
  /\ waitpid' = [waitpid EXCEPT ![p] = NULL]
  /\ Goto(p, IF p = initproc THEN "init_done" ELSE "ret")
  /\ UNCHANGED <<current, state, wait_state, need_resched, exiting, parent, rq,
                 time_slice, timer, nr_process, panic>>

WaitSchedule(p) ==
  /\ pc[p] = "wait_sched"
  /\ Schedule(p, "wait_back")

WaitBackMutant(p) ==
  /\ pc[p] = "wait_back"
  /\ Goto(p, "wait")
  /\ UNCHANGED <<current, state, wait_state, need_resched, exiting, parent, rq,
                 time_slice, timer, waitpid, nr_process, panic>>

WaitBack(p) ==
  /\ pc[p] = "wait_back"
  /\ Goto(p, IF exiting[p] THEN "exit" ELSE "wait")
  /\ waitpid' = IF exiting[p] THEN [waitpid EXCEPT ![p] = NULL] ELSE waitpid
  /\ UNCHANGED <<current, state, wait_state, need_resched, exiting, parent, rq,
                 time_slice, timer, nr_process, panic>>
-----------------------------------------------------------------------------
(* do_exit, first with interrupts enabled. *)
ExitZombie(p) ==
  /\ pc[p] = "exit"
  /\ IF p \in {idleproc, initproc}
       THEN /\ panic' = "initproc exit"
            /\ UNCHANGED <<state, pc>>
       ELSE /\ state' = [state EXCEPT ![p] = "ZOMBIE"]
            /\ Goto(p, "exit_links")
            /\ UNCHANGED panic
  /\ UNCHANGED <<current, wait_state, need_resched, exiting, parent, rq,
                 time_slice, timer, waitpid, nr_process>>

(* Then, interrupts disabled: the parent is woken, initproc adopts the     *)
(* children and is woken when one of them is a zombie.                     *)
ExitWokenMutant(p) ==
  {q \in {initproc} : /\ wait_state[q] = "WT_CHILD"
                      /\ \E c \in Children(p) : state[c] = "ZOMBIE"}

ExitWoken(p) ==
  {q \in {parent[p]} : wait_state[q] = "WT_CHILD"} \cup
  {q \in {initproc} : /\ wait_state[q] = "WT_CHILD"
                      /\ \E c \in Children(p) : state[c] = "ZOMBIE"}

ExitLinksMutant(p) ==
  /\ pc[p] = "exit_links"
  /\ Wakeup(ExitWoken(p), state)
  /\ time_slice' = Refilled(Enqueued(ExitWoken(p), state))
  /\ Goto(p, "exit_sched")
  /\ UNCHANGED <<current, need_resched, exiting, parent, timer, waitpid, nr_process>>

ExitLinks(p) ==
  /\ pc[p] = "exit_links"
  /\ Wakeup(ExitWoken(p), state)
  /\ time_slice' = Refilled(Enqueued(ExitWoken(p), state))
  /\ parent' = [c \in Pid |-> IF parent[c] = p THEN initproc ELSE parent[c]]
  /\ Goto(p, "exit_sched")
  /\ UNCHANGED <<current, need_resched, exiting, timer, waitpid, nr_process>>

ExitSchedule(p) ==
  /\ pc[p] = "exit_sched"
  /\ Schedule(p, "dead")
-----------------------------------------------------------------------------
(* init_main *)
InitFork(p, c) ==
  /\ pc[p] = "init_fork"
  /\ Fork(p, c)
  /\ pc' = [pc EXCEPT ![p] = "wait", ![c] = "user"]

InitSchedule(p) ==
  /\ pc[p] = "init_sched"
  /\ Schedule(p, "wait")

(* The final assertions; then init_main returns into do_exit, which stops  *)
(* the kernel.                                                             *)
InitDone(p) ==
  /\ pc[p] = "init_done"
  /\ panic' = IF Children(p) = {} /\ nr_process = 2 THEN "initproc exit" ELSE "assert"
  /\ UNCHANGED <<current, state, wait_state, need_resched, exiting, parent, rq,
                 time_slice, timer, waitpid, nr_process, pc>>

(* panic() never returns. *)
Halted == panic # "none" /\ UNCHANGED vars
-----------------------------------------------------------------------------
(* The running process's next piece of kernel code. *)
SystemCall(p) ==
  \/ SysReturn(p) \/ SysExit(p) \/ SysYield(p)
  \/ \E c \in Pid : SysFork(p, c) \/ SysKill(p, c)
  \/ \E t \in Pid \cup {NULL} : SysWait(p, t)
  \/ \E ticks \in 1..MaxSleep : SysSleep(p, ticks)

GiveUpCPU(p) ==
  \/ TrapSchedule(p) \/ IdleSchedule(p) \/ SleepSchedule(p)
  \/ WaitSchedule(p) \/ ExitSchedule(p) \/ InitSchedule(p)

KernelStep(p) ==
  \/ TrapExit(p) \/ TrapReturn(p) \/ SystemCall(p) \/ GiveUpCPU(p)
  \/ SleepReturn(p) \/ WaitReap(p) \/ WaitBlock(p) \/ WaitNobody(p) \/ WaitBack(p)
  \/ ExitZombie(p) \/ ExitLinks(p) \/ InitDone(p)
  \/ \E c \in Pid : InitFork(p, c)

Next ==
  \/ /\ panic = "none"
     /\ \/ Tick
        \/ Enter(current)
        \/ KernelStep(current)
  \/ Halted

Spec == Init /\ [][Next]_vars
-----------------------------------------------------------------------------
TypeOK ==
  /\ current \in Pid
  /\ state \in [Pid -> States]
  /\ wait_state \in [Pid -> WaitStates]
  /\ need_resched \in [Pid -> BOOLEAN]
  /\ exiting \in [Pid -> BOOLEAN]
  /\ parent \in [Pid -> Pid \cup {NULL}]
  /\ rq \in [Pid -> Nat]
  /\ time_slice \in [Pid -> 0..MaxSlice]
  /\ timer \in [Pid -> 0..MaxSleep]
  /\ waitpid \in [Pid -> Pid \cup {NULL}]
  /\ nr_process \in Nat
  /\ pc \in [Pid -> Places]
  /\ panic \in {"none", "assert", "initproc exit"}

(* The run queue (sched.c) links a process once if it is runnable and not  *)
(* running, and not at all otherwise: wakeup_proc by an interrupt, by      *)
(* do_exit and by do_kill, and schedule() by the process itself, never     *)
(* link one process twice, forget one, or leave a zombie linked.           *)
RunQueueExact ==
  \A p \in Pid :
    rq[p] = IF state[p] = "RUNNABLE" /\ p \notin {current, idleproc} THEN 1 ELSE 0

(* No lost wake-up in do_wait: a process asleep in WT_CHILD has no zombie  *)
(* to reap among the children it waits for, except one in the middle of    *)
(* do_exit, which is about to wake it.                                     *)
NoLostChild ==
  \A p \in Pid : wait_state[p] = "WT_CHILD" =>
    \A c \in ZombiesFor(p) : c = current /\ pc[c] = "exit_links"

(* do_sleep's timer is on the sleeper's kernel stack (proc.c:1105): it is  *)
(* in timer_list only while the sleeper is inside do_sleep, whoever woke   *)
(* it; and who still sleeps in WT_TIMER has its timer there to wake it.    *)
TimerBacksSleep ==
  \A p \in Pid :
    /\ timer[p] > 0 => pc[p] \in {"sleep_sched", "sleep_back"}
    /\ wait_state[p] = "WT_TIMER" => timer[p] > 0 /\ state[p] = "SLEEPING"

(* No assertion of this code fails: wakeup_proc is never given a zombie,   *)
(* do_fork runs with wait_state 0, a timer is added once, and init_main    *)
(* finds no process left but idleproc and itself when do_wait finds no     *)
(* child (proc.c:1025-1026).                                               *)
NoAssertFails == panic # "assert"

(* nr_process counts the processes of the table, zombies included.         *)
ProcessCount == nr_process = Cardinality({p \in Pid : state[p] # "FREE"})

(* Proc implements ProcTree.  A process counts as dead from the moment its *)
(* children are handed over; nobody else runs between PROC_ZOMBIE and that.*)
Status(p) ==
  CASE state[p] = "FREE" -> "free"
    [] state[p] = "ZOMBIE" /\ pc[p] # "exit_links" -> "zombie"
    [] OTHER -> "live"

TreeStatus == [p \in Pid |-> Status(p)]

Tree == INSTANCE ProcTree WITH status <- TreeStatus

TreeSpec == Tree!Spec
-----------------------------------------------------------------------------
(* The inductive invariant behind the safety properties (ProcProofs).      *)

(* Where a process can stand without the CPU. *)
Resting == {"none", "idle", "init_fork", "wait", "user", "wait_back", "sleep_back", "dead"}

PlacesOK ==
  /\ \A p \in Pid :
       /\ state[p] = "FREE" <=> pc[p] = "none"
       /\ state[p] = "ZOMBIE" <=> pc[p] \in {"exit_links", "exit_sched", "dead"}
       /\ state[p] = "SLEEPING" => pc[p] \in {"wait_sched", "wait_back",
                                             "sleep_sched", "sleep_back"}
       /\ p # current => pc[p] \in Resting
       /\ pc[p] \in {"wait_sched", "sleep_sched"} => p = current
  /\ pc[current] \notin {"none", "dead"}
  /\ state[current] = "SLEEPING" => pc[current] \in {"wait_sched", "sleep_sched"}

(* wait_state says why a process sleeps. *)
WaitStatesOK ==
  \A p \in Pid :
    /\ wait_state[p] = "0" <=> state[p] # "SLEEPING"
    /\ wait_state[p] = "WT_CHILD" => pc[p] \in {"wait_sched", "wait_back"}
    /\ wait_state[p] = "WT_TIMER" => pc[p] \in {"sleep_sched", "sleep_back"}

KernelThreadsOK ==
  /\ \A p \in Pid : pc[p] = "idle" <=> p = idleproc
  /\ pc[initproc] \in {"init_fork", "init_sched", "init_done",
                       "wait", "wait_sched", "wait_back"}
  /\ \A p \in Pid \ {initproc} :
       /\ pc[p] \notin {"init_fork", "init_sched", "init_done"}
       /\ pc[p] = "wait" => p = current
  /\ ~exiting[idleproc] /\ ~exiting[initproc]
  /\ waitpid[initproc] = NULL
  /\ pc[initproc] = "init_done" => Children(initproc) = {}

(* Every process but idleproc has a live parent other than itself;         *)
(* idleproc's one child is initproc.                                       *)
LiveProcs == {p \in Pid : Status(p) = "live"}

ParentsOK ==
  /\ \A p \in Pid \ {idleproc} : state[p] # "FREE" =>
       parent[p] \in LiveProcs \ {p}
  /\ \A p \in Pid : state[p] = "FREE" => parent[p] = NULL
  /\ parent[idleproc] = NULL
  /\ \A p \in Pid : parent[p] = idleproc <=> p = initproc

(* Following parents leads out of every set of user processes.             *)
UserProcs == {p \in Pid \ {idleproc, initproc} : state[p] # "FREE"}

Acyclic ==
  \A S \in SUBSET UserProcs : S # {} => \E p \in S : parent[p] \notin S

IndInv ==
  /\ TypeOK /\ PlacesOK /\ WaitStatesOK /\ KernelThreadsOK /\ ParentsOK /\ Acyclic
  /\ RunQueueExact /\ NoLostChild /\ TimerBacksSleep /\ NoAssertFails /\ ProcessCount
-----------------------------------------------------------------------------
(* Fairness.  The timer interrupt keeps coming; kernel code that has the   *)
(* CPU goes on (no kernel path loops without giving the CPU up); and the   *)
(* class does not pass a queued process over for ever.  Stride keeps that  *)
(* only while forks are finite: a new process starts with stride 0, and a  *)
(* chain of new ones overtakes the others without end.  Nothing else is    *)
(* assumed of user code: it may never make a system call, and never exit.  *)
RunKernel == panic = "none" /\ KernelStep(current)

Dispatch(p) == panic = "none" /\ GiveUpCPU(current) /\ current' = p

Fairness ==
  /\ WF_vars(panic = "none" /\ Tick)
  /\ WF_vars(RunKernel)
  /\ \A p \in Pid : SF_vars(Dispatch(p))

ForksEnd == <>[][\A p, c \in Pid : ~Fork(p, c)]_vars

FairSpec == Spec /\ Fairness /\ ForksEnd

(* do_kill, by its comment (proc.c:938), kills the process: with           *)
(* PF_EXITING set it becomes a zombie and leaves the CPU.  The code does   *)
(* not keep this: a process killed while it is queued with its trap        *)
(* already past the PF_EXITING test goes on in user mode, and when it then *)
(* calls wait it sleeps with PF_EXITING set until a child of its own dies; *)
(* a second do_kill does not wake it.                                      *)
KilledDies == \A p \in Pid : exiting[p] ~> pc[p] \in {"dead", "none"}

(* What does hold: a killed process dies, or is asleep in do_wait, having  *)
(* entered it after the kill.  A process that was asleep, in do_sleep or   *)
(* do_wait, when it was killed dies without another event.                 *)
KilledDiesOrWaits ==
  \A p \in Pid :
    /\ exiting[p] ~> pc[p] \in {"dead", "none", "wait_sched", "wait_back"}
    /\ (exiting[p] /\ pc[p] \in {"sleep_back", "wait_back"} /\ state[p] = "RUNNABLE")
         ~> pc[p] \in {"dead", "none"}

(* sys_sleep returns: a process asleep in WT_TIMER gets out of do_sleep.   *)
SleeperWakes ==
  \A p \in Pid : pc[p] = "sleep_sched" ~> pc[p] \notin {"sleep_sched", "sleep_back"}

(* do_wait returns once a child it waits for is a zombie; for initproc     *)
(* that is what frees orphans.                                             *)
WaitReturns ==
  \A p \in Pid :
    (pc[p] \in {"wait_sched", "wait_back"} /\ ZombiesFor(p) # {})
      ~> pc[p] \notin {"wait", "wait_sched", "wait_back"}
=============================================================================
