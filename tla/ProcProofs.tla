----------------------------- MODULE ProcProofs -----------------------------
(* IndInv is an invariant of Proc, and Proc implements ProcTree.           *)
EXTENDS Proc, FiniteSetTheorems, TLAPS

USE ProcAssumption

(* A step that frees no process and forks none keeps nr_process right. *)
LEMMA CountKept ==
  ASSUME ProcessCount, nr_process' = nr_process,
         \A q \in Pid : state'[q] = "FREE" <=> state[q] = "FREE"
  PROVE  ProcessCount'
<1>1. {q \in Pid : state'[q] # "FREE"} = {q \in Pid : state[q] # "FREE"}
  OBVIOUS
<1>2. QED
  BY <1>1 DEF ProcessCount

(* A step that only removes user processes or hands them to initproc       *)
(* closes no cycle of parents.                                             *)
LEMMA AcyclicKept ==
  ASSUME Acyclic, UserProcs' \subseteq UserProcs,
         \A q \in UserProcs' : parent'[q] \in {parent[q], initproc}
  PROVE  Acyclic'
<1> SUFFICES ASSUME NEW S \in SUBSET UserProcs', S # {}
             PROVE  \E q \in S : parent'[q] \notin S
  BY DEF Acyclic
<1>1. PICK q \in S : parent[q] \notin S
  BY DEF Acyclic
<1>2. initproc \notin S
  BY DEF UserProcs
<1>3. parent'[q] \in {parent[q], initproc}
  OBVIOUS
<1>4. QED
  BY <1>1, <1>2, <1>3

LEMMA UpdateAt ==
  ASSUME NEW S, NEW f \in [Pid -> S], NEW p \in Pid, NEW x \in S
  PROVE  /\ [f EXCEPT ![p] = x] \in [Pid -> S]
         /\ \A q \in Pid : [f EXCEPT ![p] = x][q] = IF q = p THEN x ELSE f[q]
OBVIOUS

LEMMA RefilledType ==
  ASSUME time_slice \in [Pid -> 0..MaxSlice], NEW S
  PROVE  Refilled(S) \in [Pid -> 0..MaxSlice]
BY DEF Refilled, ProcAssumption

(* A step in which the running process p only moves on in its own code.    *)
LEMMA LocalStep ==
  ASSUME IndInv, NEW p, p = current, state[p] = "RUNNABLE", p # idleproc,
         NEW where,
         pc' = [pc EXCEPT ![p] = where],
         IF p = initproc THEN where \in {"wait", "init_done"}
                         ELSE where \in {"user", "sys", "ret", "wait", "exit"},
         where = "init_done" => Children(p) = {},
         timer'[p] = 0,
         \A q \in Pid \ {p} : waitpid'[q] = waitpid[q] /\ timer'[q] = timer[q],
         waitpid' \in [Pid -> Pid \cup {NULL}],
         timer' \in [Pid -> 0..MaxSleep],
         p = initproc => waitpid'[p] = NULL,
         need_resched' \in [Pid -> BOOLEAN],
         UNCHANGED <<current, state, wait_state, exiting, parent, rq, time_slice,
                     nr_process, panic>>
  PROVE  IndInv'
<1> USE DEF IndInv
<1>0. p \in Pid
  BY DEF TypeOK
<1>1. TypeOK'
  BY <1>0 DEF TypeOK, Places
<1>2. PlacesOK'
  BY <1>0 DEF PlacesOK, TypeOK
<1>3. WaitStatesOK'
  BY <1>0 DEF WaitStatesOK, TypeOK
<1>4. KernelThreadsOK'
  <2>1. Children(initproc)' = Children(initproc)
    BY DEF Children
  <2>2. \A q \in Pid : pc'[q] = IF q = p THEN where ELSE pc[q]
    BY <1>0 DEF TypeOK
  <2>3. p # initproc => waitpid'[initproc] = waitpid[initproc]
    BY DEF ProcAssumption
  <2>4. QED
    BY <1>0, <2>1, <2>2, <2>3 DEF KernelThreadsOK, ProcAssumption
<1>5. LiveProcs' = LiveProcs
  BY <1>0 DEF LiveProcs, Status, TypeOK, PlacesOK
<1>6. ParentsOK'
  BY <1>0, <1>5 DEF ParentsOK, TypeOK
<1>7. Acyclic'
  BY AcyclicKept DEF UserProcs
<1>8. RunQueueExact'
  BY DEF RunQueueExact
<1>9. NoLostChild'
  <2> SUFFICES ASSUME NEW q \in Pid, wait_state'[q] = "WT_CHILD"
               PROVE  ZombiesFor(q)' = {}
    BY DEF NoLostChild
  <2>1. q # p
    BY <1>0 DEF WaitStatesOK
  <2>2. ZombiesFor(q)' = ZombiesFor(q)
    BY <2>1 DEF ZombiesFor, Candidates, Children
  <2>3. ZombiesFor(q) = {}
    BY <1>0 DEF NoLostChild, PlacesOK
  <2>4. QED
    BY <2>2, <2>3
<1>10. TimerBacksSleep'
  <2>1. wait_state[p] = "0"
    BY <1>0 DEF WaitStatesOK
  <2>2. \A q \in Pid \ {p} : timer'[q] = timer[q] /\ pc'[q] = pc[q]
    BY <1>0 DEF TypeOK
  <2>3. QED
    BY <1>0, <2>1, <2>2 DEF TimerBacksSleep
<1>11. ProcessCount'
  BY CountKept
<1>12. NoAssertFails'
  BY DEF NoAssertFails
<1>13. QED
  BY <1>1, <1>2, <1>3, <1>4, <1>6, <1>7, <1>8, <1>9, <1>10, <1>11, <1>12

(* schedule(): whoever gets the CPU is runnable, and p stands at cont.     *)
LEMMA ScheduleStep ==
  ASSUME IndInv, NEW p, p = current, NEW cont, Schedule(p, cont),
         cont \in {"idle", "wait", "user", "wait_back", "sleep_back", "dead"},
         cont = "idle" <=> p = idleproc,
         cont = "wait" => p = initproc,
         p = initproc => cont \in {"wait", "wait_back"},
         cont = "dead" <=> state[p] = "ZOMBIE",
         state[p] = "SLEEPING" => cont \in {"wait_back", "sleep_back"},
         wait_state[p] = "WT_CHILD" => cont = "wait_back",
         wait_state[p] = "WT_TIMER" => cont = "sleep_back",
         timer[p] > 0 => cont = "sleep_back",
         pc[p] # "exit_links"
  PROVE  IndInv'
<1> USE DEF IndInv
<1>0. p \in Pid /\ idleproc \in Pid /\ initproc \in Pid
  BY DEF TypeOK, ProcAssumption
<1>a. UNCHANGED <<state, wait_state, exiting, parent, timer, waitpid, nr_process, panic>>
      /\ pc' = [pc EXCEPT ![p] = cont] /\ pc'[p] = cont
      /\ \A q \in Pid \ {p} : pc'[q] = pc[q]
  BY <1>0 DEF Schedule, Goto, TypeOK
<1>b. state[idleproc] = "RUNNABLE"
  BY <1>0 DEF KernelThreadsOK, PlacesOK, TypeOK, States
<1>c. /\ Ready(p) \in [Pid -> Nat]
      /\ \A q \in Pid :
           Ready(p)[q] = IF state[q] = "RUNNABLE" /\ q # idleproc /\ (q # current \/ q = p)
                         THEN 1 ELSE 0
  <2>0. rq \in [Pid -> Nat]
    BY DEF TypeOK
  <2>2. rq[p] = 0
    BY <1>0 DEF RunQueueExact
  <2>3. CASE state[p] = "RUNNABLE" /\ p # idleproc
    <3>1. Ready(p) = [rq EXCEPT ![p] = 1]
      BY <2>2, <2>3 DEF Ready
    <3>2. /\ \A q \in Pid : Ready(p)[q] = IF q = p THEN 1 ELSE rq[q]
          /\ Ready(p) \in [Pid -> Nat]
      BY <1>0, <2>0, <3>1, UpdateAt
    <3>4. QED
      BY <1>0, <2>3, <3>2 DEF RunQueueExact
  <2>4. CASE ~(state[p] = "RUNNABLE" /\ p # idleproc)
    BY <1>0, <2>0, <2>4 DEF Ready, RunQueueExact
  <2>5. QED
    BY <2>3, <2>4
<1>d. /\ current' \in Pid
      /\ state[current'] = "RUNNABLE"
      /\ rq' \in [Pid -> Nat]
      /\ \A q \in Pid : rq'[q] = IF state[q] = "RUNNABLE" /\ q # current' /\ q # idleproc
                                 THEN 1 ELSE 0
  <2>1. CASE \E next \in Pid : /\ Ready(p)[next] > 0
                              /\ current' = next
                              /\ rq' = [Ready(p) EXCEPT ![next] = @ - 1]
    <3>1. PICK next \in Pid : /\ Ready(p)[next] > 0
                             /\ current' = next
                             /\ rq' = [Ready(p) EXCEPT ![next] = @ - 1]
      BY <2>1
    <3>2. Ready(p)[next] = 1 /\ state[next] = "RUNNABLE" /\ next # idleproc
      BY <3>1, <1>c
    <3>3. \A q \in Pid : rq'[q] = IF q = next THEN 0 ELSE Ready(p)[q]
      BY <3>1, <3>2, <1>c
    <3>4. rq' \in [Pid -> Nat]
      BY <3>1, <3>2, <1>c
    <3>5. QED
      BY <3>1, <3>2, <3>3, <3>4, <1>c
  <2>2. CASE /\ \A q \in Pid : Ready(p)[q] = 0
             /\ current' = idleproc
             /\ rq' = Ready(p)
    BY <2>2, <1>0, <1>b, <1>c
  <2>3. QED
    BY <2>1, <2>2 DEF Schedule
<1>1. TypeOK'
  <2>1. Refilled({p}) \in [Pid -> 0..MaxSlice]
    BY RefilledType DEF TypeOK
  <2>2. time_slice' \in [Pid -> 0..MaxSlice] /\ need_resched' \in [Pid -> BOOLEAN]
    BY <2>1 DEF TypeOK, Schedule
  <2>3. pc' \in [Pid -> Places]
    BY <1>a DEF TypeOK, Places
  <2>4. QED
    BY <1>a, <1>d, <2>2, <2>3 DEF TypeOK
<1>2. PlacesOK'
  BY <1>0, <1>a, <1>d DEF PlacesOK, TypeOK, Resting
<1>3. WaitStatesOK'
  BY <1>0, <1>a DEF WaitStatesOK, TypeOK
<1>4. KernelThreadsOK'
  BY <1>0, <1>a DEF KernelThreadsOK, TypeOK, Children
<1>5. LiveProcs' = LiveProcs
  BY <1>0, <1>a DEF LiveProcs, Status, TypeOK, PlacesOK
<1>6. ParentsOK'
  BY <1>0, <1>5, <1>a DEF ParentsOK, TypeOK
<1>7. Acyclic'
  BY <1>a, AcyclicKept DEF UserProcs
<1>8. RunQueueExact'
  BY <1>a, <1>d DEF RunQueueExact
<1>9. NoLostChild'
  <2> SUFFICES ASSUME NEW q \in Pid, wait_state'[q] = "WT_CHILD"
               PROVE  ZombiesFor(q)' = {}
    BY DEF NoLostChild
  <2>1. ZombiesFor(q)' = ZombiesFor(q)
    BY <1>a DEF ZombiesFor, Candidates, Children
  <2>2. ZombiesFor(q) = {}
    BY <1>a DEF NoLostChild
  <2>3. QED
    BY <2>1, <2>2
<1>10. TimerBacksSleep'
  BY <1>0, <1>a DEF TimerBacksSleep
<1>11. ProcessCount'
  BY <1>a, CountKept
<1>12. NoAssertFails'
  BY <1>a DEF NoAssertFails
<1>13. QED
  BY <1>1, <1>2, <1>3, <1>4, <1>6, <1>7, <1>8, <1>9, <1>10, <1>11, <1>12
-----------------------------------------------------------------------------
(* wakeup_proc on a set of sleeping or runnable processes.                 *)
LEMMA WakeFacts ==
  ASSUME IndInv, NEW W \in SUBSET (Pid \ {idleproc}), Wakeup(W, state),
         \A q \in W : state[q] \in {"SLEEPING", "RUNNABLE"},
         current' = current
  PROVE  /\ state' \in [Pid -> States]
         /\ wait_state' \in [Pid -> WaitStates]
         /\ rq' \in [Pid -> Nat]
         /\ panic' = panic
         /\ \A q \in Pid : state'[q] = IF q \in W THEN "RUNNABLE" ELSE state[q]
         /\ \A q \in Pid : wait_state'[q] = IF q \in W THEN "0" ELSE wait_state[q]
         /\ RunQueueExact'
         /\ \A q \in Pid : state'[q] = "FREE" <=> state[q] = "FREE"
         /\ \A q \in Pid : state'[q] = "ZOMBIE" <=> state[q] = "ZOMBIE"
<1> USE DEF IndInv
<1>1. state' \in [Pid -> States]
      /\ \A q \in Pid : state'[q] = IF q \in W THEN "RUNNABLE" ELSE state[q]
  BY DEF Wakeup, States, TypeOK
<1>2. \A q \in Pid : wait_state[q] = "0" <=> state[q] # "SLEEPING"
  BY DEF WaitStatesOK
<1>3. wait_state' \in [Pid -> WaitStates]
      /\ \A q \in Pid : wait_state'[q] = IF q \in W THEN "0" ELSE wait_state[q]
  BY <1>2 DEF Wakeup, WaitStates, TypeOK
<1>4. panic' = panic
  BY DEF Wakeup
<1>5. rq' \in [Pid -> Nat]
      /\ \A q \in Pid :
           rq'[q] = IF q \in W /\ state[q] # "RUNNABLE" /\ q # current THEN rq[q] + 1 ELSE rq[q]
  <2>1. rq \in [Pid -> Nat]
    BY DEF TypeOK
  <2>2. rq' = [q \in Pid |-> IF q \in W /\ state[q] # "RUNNABLE" /\ q # current
                            THEN rq[q] + 1 ELSE rq[q]]
    BY DEF Wakeup, Enqueued
  <2>3. \A q \in Pid : rq[q] + 1 \in Nat
    BY <2>1
  <2>4. QED
    BY <2>1, <2>2, <2>3, Zenon
<1>6. RunQueueExact'
  BY <1>1, <1>5 DEF RunQueueExact
<1>7. QED
  BY <1>1, <1>3, <1>4, <1>5, <1>6

(* A step that wakes W and otherwise only moves the running process from   *)
(* user mode or a system call to the end of trap().                        *)
LEMMA WakeStep ==
  ASSUME IndInv, NEW W \in SUBSET (Pid \ {idleproc}), Wakeup(W, state),
         \A q \in W : state[q] \in {"SLEEPING", "RUNNABLE"},
         NEW where,
         pc' = [pc EXCEPT ![current] = where],
         \/ where = pc[current]
         \/ pc[current] \in {"user", "sys"} /\ where = "ret",
         timer' \in [Pid -> 0..MaxSleep],
         \A q \in Pid : timer'[q] > 0 => timer[q] > 0,
         \A q \in Pid \ W : wait_state[q] = "WT_TIMER" => timer'[q] > 0,
         need_resched' \in [Pid -> BOOLEAN],
         time_slice' \in [Pid -> 0..MaxSlice],
         exiting' \in [Pid -> BOOLEAN],
         ~exiting'[idleproc], ~exiting'[initproc],
         UNCHANGED <<current, parent, waitpid, nr_process>>
  PROVE  IndInv'
<1> USE DEF IndInv
<1>0. current \in Pid
  BY DEF TypeOK
<1>a. /\ state' \in [Pid -> States]
      /\ wait_state' \in [Pid -> WaitStates]
      /\ rq' \in [Pid -> Nat]
      /\ panic' = panic
      /\ \A q \in Pid : state'[q] = IF q \in W THEN "RUNNABLE" ELSE state[q]
      /\ \A q \in Pid : wait_state'[q] = IF q \in W THEN "0" ELSE wait_state[q]
      /\ RunQueueExact'
      /\ \A q \in Pid : state'[q] = "FREE" <=> state[q] = "FREE"
      /\ \A q \in Pid : state'[q] = "ZOMBIE" <=> state[q] = "ZOMBIE"
  BY WakeFacts
<1>b. /\ \A q \in Pid \ {current} : pc'[q] = pc[q]
      /\ pc'[current] = where
      /\ where \in Places
      /\ pc' \in [Pid -> Places]
  BY <1>0 DEF TypeOK, Places
<1>1. TypeOK'
  BY <1>a, <1>b DEF TypeOK
<1>2. PlacesOK'
  BY <1>0, <1>a, <1>b DEF PlacesOK
<1>3. WaitStatesOK'
  <2> SUFFICES ASSUME NEW q \in Pid
               PROVE  /\ wait_state'[q] = "0" <=> state'[q] # "SLEEPING"
                      /\ wait_state'[q] = "WT_CHILD" => pc'[q] \in {"wait_sched", "wait_back"}
                      /\ wait_state'[q] = "WT_TIMER" => pc'[q] \in {"sleep_sched", "sleep_back"}
    BY DEF WaitStatesOK
  <2>1. CASE q \in W
    BY <1>a, <2>1
  <2>2. CASE q \notin W
    <3>1. wait_state'[q] = wait_state[q] /\ state'[q] = state[q]
      BY <1>a, <2>2
    <3>2. q # current \/ where = pc[current] \/ state[q] # "SLEEPING"
      BY DEF PlacesOK
    <3>3. QED
      BY <1>b, <3>1, <3>2 DEF WaitStatesOK
  <2>3. QED
    BY <2>1, <2>2
<1>4. KernelThreadsOK'
  BY <1>0, <1>a, <1>b DEF KernelThreadsOK, ProcAssumption, Children
<1>5. LiveProcs' = LiveProcs
  BY <1>0, <1>a, <1>b DEF LiveProcs, Status
<1>6. ParentsOK'
  BY <1>a, <1>5 DEF ParentsOK, TypeOK
<1>7. Acyclic'
  BY <1>a, AcyclicKept DEF UserProcs
<1>9. NoLostChild'
  <2> SUFFICES ASSUME NEW q \in Pid, wait_state'[q] = "WT_CHILD", NEW c \in ZombiesFor(q)'
               PROVE  c = current /\ pc'[c] = "exit_links"
    BY DEF NoLostChild
  <2>1. wait_state[q] = "WT_CHILD" /\ c \in ZombiesFor(q)
    BY <1>a DEF ZombiesFor, Candidates, Children
  <2>2. c = current /\ pc[c] = "exit_links"
    BY <2>1 DEF NoLostChild
  <2>3. QED
    BY <2>2, <1>b
<1>10. TimerBacksSleep'
  <2> SUFFICES ASSUME NEW q \in Pid
               PROVE  /\ timer'[q] > 0 => pc'[q] \in {"sleep_sched", "sleep_back"}
                      /\ wait_state'[q] = "WT_TIMER" =>
                           timer'[q] > 0 /\ state'[q] = "SLEEPING"
    BY DEF TimerBacksSleep
  <2>1. timer'[q] > 0 => pc[q] \in {"sleep_sched", "sleep_back"}
    BY DEF TimerBacksSleep
  <2>2. wait_state'[q] = "WT_TIMER" => q \notin W /\ wait_state[q] = "WT_TIMER"
    BY <1>a
  <2>3. QED
    BY <1>0, <1>a, <1>b, <2>1, <2>2 DEF TimerBacksSleep
<1>11. ProcessCount'
  BY <1>a, CountKept
<1>12. NoAssertFails'
  BY <1>a DEF NoAssertFails
<1>13. QED
  BY <1>a, <1>1, <1>2, <1>3, <1>4, <1>6, <1>7, <1>9, <1>10, <1>11, <1>12
-----------------------------------------------------------------------------
(* The two ways to fall asleep. *)
LEMMA SleepStep ==
  ASSUME IndInv, NEW p, p = current, p # idleproc, state[p] = "RUNNABLE",
         NEW w, NEW where,
         \/ w = "WT_CHILD" /\ where = "wait_sched" /\ ZombiesFor(p) = {} /\ timer'[p] = 0
         \/ w = "WT_TIMER" /\ where = "sleep_sched" /\ timer'[p] > 0 /\ p # initproc,
         state' = [state EXCEPT ![p] = "SLEEPING"],
         wait_state' = [wait_state EXCEPT ![p] = w],
         pc' = [pc EXCEPT ![p] = where],
         timer' \in [Pid -> 0..MaxSleep],
         \A q \in Pid \ {p} : timer'[q] = timer[q],
         UNCHANGED <<current, need_resched, exiting, parent, rq, time_slice, waitpid,
                     nr_process, panic>>
  PROVE  IndInv'
<1> USE DEF IndInv
<1>0. p \in Pid
  BY DEF TypeOK
<1>a. /\ \A q \in Pid : /\ state'[q] = IF q = p THEN "SLEEPING" ELSE state[q]
                        /\ wait_state'[q] = IF q = p THEN w ELSE wait_state[q]
                        /\ pc'[q] = IF q = p THEN where ELSE pc[q]
      /\ state' \in [Pid -> States]
      /\ wait_state' \in [Pid -> WaitStates]
      /\ pc' \in [Pid -> Places]
  <2>1. state \in [Pid -> States] /\ wait_state \in [Pid -> WaitStates] /\ pc \in [Pid -> Places]
    BY DEF TypeOK
  <2>2. w \in WaitStates /\ where \in Places /\ "SLEEPING" \in States
    BY DEF States, WaitStates, Places
  <2>3. state' \in [Pid -> States]
        /\ \A q \in Pid : state'[q] = IF q = p THEN "SLEEPING" ELSE state[q]
    BY <1>0, <2>1, <2>2, UpdateAt
  <2>4. wait_state' \in [Pid -> WaitStates]
        /\ \A q \in Pid : wait_state'[q] = IF q = p THEN w ELSE wait_state[q]
    BY <1>0, <2>1, <2>2, UpdateAt
  <2>5. pc' \in [Pid -> Places]
        /\ \A q \in Pid : pc'[q] = IF q = p THEN where ELSE pc[q]
    BY <1>0, <2>1, <2>2, UpdateAt
  <2>6. QED
    BY <2>3, <2>4, <2>5
<1>1. TypeOK'
  BY <1>a DEF TypeOK
<1>2. PlacesOK'
  BY <1>0, <1>a DEF PlacesOK
<1>3. WaitStatesOK'
  BY <1>0, <1>a DEF WaitStatesOK
<1>4. KernelThreadsOK'
  BY <1>0, <1>a DEF KernelThreadsOK, ProcAssumption, Children
<1>5. LiveProcs' = LiveProcs
  BY <1>0, <1>a DEF LiveProcs, Status, PlacesOK
<1>6. ParentsOK'
  BY <1>0, <1>a, <1>5 DEF ParentsOK
<1>7. Acyclic'
  BY <1>a, AcyclicKept DEF UserProcs
<1>8. RunQueueExact'
  BY <1>0, <1>a DEF RunQueueExact
<1>9. NoLostChild'
  <2> SUFFICES ASSUME NEW q \in Pid, wait_state'[q] = "WT_CHILD"
               PROVE  ZombiesFor(q)' = {}
    BY DEF NoLostChild
  <2>1. ZombiesFor(q)' \subseteq ZombiesFor(q)
    BY <1>a DEF ZombiesFor, Candidates, Children
  <2>2. CASE q = p
    BY <1>a, <2>1, <2>2
  <2>3. CASE q # p
    <3>1. wait_state[q] = "WT_CHILD"
      BY <1>a, <2>3
    <3>2. pc[p] # "exit_links"
      BY <1>0 DEF PlacesOK
    <3>3. ZombiesFor(q) = {}
      BY <3>1, <3>2 DEF NoLostChild
    <3>4. QED
      BY <2>1, <3>3
  <2>4. QED
    BY <2>2, <2>3
<1>10. TimerBacksSleep'
  <2>1. timer'[p] > 0 => where = "sleep_sched"
    OBVIOUS
  <2>2. QED
    BY <1>0, <1>a, <2>1 DEF TimerBacksSleep
<1>11. ProcessCount'
  BY <1>0, <1>a, CountKept
<1>12. NoAssertFails'
  BY DEF NoAssertFails
<1>13. QED
  BY <1>1, <1>2, <1>3, <1>4, <1>6, <1>7, <1>8, <1>9, <1>10, <1>11, <1>12

(* do_exit sets PROC_ZOMBIE; until exit_links is left the process counts   *)
(* as live.                                                                *)
LEMMA ExitZombieStep ==
  ASSUME IndInv, panic = "none", ExitZombie(current)
  PROVE  IndInv'
<1> USE DEF IndInv
<1> DEFINE p == current
<1>0. /\ p \in Pid /\ pc[p] = "exit" /\ p # idleproc /\ p # initproc
      /\ state[p] = "RUNNABLE"
  BY DEF ExitZombie, TypeOK, KernelThreadsOK, PlacesOK, States
<1>a. /\ \A q \in Pid : /\ state'[q] = IF q = p THEN "ZOMBIE" ELSE state[q]
                        /\ pc'[q] = IF q = p THEN "exit_links" ELSE pc[q]
      /\ state' \in [Pid -> States]
      /\ pc' \in [Pid -> Places]
      /\ UNCHANGED <<current, wait_state, need_resched, exiting, parent, rq,
                     time_slice, timer, waitpid, nr_process, panic>>
  BY <1>0 DEF ExitZombie, Goto, TypeOK, States, Places
<1>1. TypeOK'
  BY <1>a DEF TypeOK
<1>2. PlacesOK'
  BY <1>0, <1>a DEF PlacesOK
<1>3. WaitStatesOK'
  BY <1>0, <1>a DEF WaitStatesOK
<1>4. KernelThreadsOK'
  BY <1>0, <1>a DEF KernelThreadsOK, ProcAssumption, Children
<1>5. LiveProcs' = LiveProcs
  BY <1>0, <1>a DEF LiveProcs, Status
<1>6. ParentsOK'
  BY <1>0, <1>a, <1>5 DEF ParentsOK
<1>7. Acyclic'
  BY <1>0, <1>a, AcyclicKept DEF UserProcs
<1>8. RunQueueExact'
  BY <1>0, <1>a DEF RunQueueExact
<1>9. NoLostChild'
  <2> SUFFICES ASSUME NEW q \in Pid, wait_state'[q] = "WT_CHILD", NEW c \in ZombiesFor(q)'
               PROVE  c = p /\ pc'[c] = "exit_links"
    BY <1>a DEF NoLostChild
  <2>1. CASE c = p
    BY <1>0, <1>a, <2>1
  <2>2. CASE c # p
    <3>1. c \in ZombiesFor(q)
      BY <1>a, <2>2 DEF ZombiesFor, Candidates, Children
    <3>2. QED
      BY <1>0, <1>a, <3>1 DEF NoLostChild
  <2>3. QED
    BY <2>1, <2>2
<1>10. TimerBacksSleep'
  <2>1. wait_state[p] = "0" /\ ~(timer[p] > 0)
    BY <1>0 DEF TimerBacksSleep, WaitStatesOK
  <2>2. QED
    BY <1>0, <1>a, <2>1 DEF TimerBacksSleep
<1>11. ProcessCount'
  BY <1>0, <1>a, CountKept
<1>12. NoAssertFails'
  BY <1>a DEF NoAssertFails
<1>13. QED
  BY <1>1, <1>2, <1>3, <1>4, <1>6, <1>7, <1>8, <1>9, <1>10, <1>11, <1>12

(* The rest of do_exit: p is no longer a live parent, its children are     *)
(* initproc's, and whoever waits for it or for them is awake.              *)
LEMMA ExitLinksStep ==
  ASSUME IndInv, ExitLinks(current)
  PROVE  IndInv'
<1> USE DEF IndInv
<1> DEFINE p == current
           W == ExitWoken(p)
<1>0. /\ p \in Pid /\ pc[p] = "exit_links" /\ p # idleproc /\ p # initproc
      /\ state[p] = "ZOMBIE" /\ initproc \in Pid /\ idleproc \in Pid
  BY DEF ExitLinks, TypeOK, KernelThreadsOK, PlacesOK, ProcAssumption
<1>w. /\ W \in SUBSET (Pid \ {idleproc})
      /\ \A q \in W : state[q] = "SLEEPING" /\ q # p
  <2>1. parent[p] \in Pid
    BY <1>0 DEF ParentsOK, LiveProcs
  <2>2. \A q \in W : q \in Pid /\ wait_state[q] = "WT_CHILD"
    BY <1>0, <2>1 DEF ExitWoken
  <2>3. \A q \in Pid : wait_state[q] = "WT_CHILD" => state[q] = "SLEEPING" /\ pc[q] # "idle"
    BY DEF WaitStatesOK
  <2>4. QED
    BY <1>0, <2>2, <2>3 DEF KernelThreadsOK
<1>a. /\ state' \in [Pid -> States]
      /\ wait_state' \in [Pid -> WaitStates]
      /\ rq' \in [Pid -> Nat]
      /\ panic' = panic
      /\ \A q \in Pid : state'[q] = IF q \in W THEN "RUNNABLE" ELSE state[q]
      /\ \A q \in Pid : wait_state'[q] = IF q \in W THEN "0" ELSE wait_state[q]
      /\ RunQueueExact'
      /\ \A q \in Pid : state'[q] = "FREE" <=> state[q] = "FREE"
      /\ \A q \in Pid : state'[q] = "ZOMBIE" <=> state[q] = "ZOMBIE"
  <2>1. Wakeup(W, state) /\ current' = current
    BY DEF ExitLinks
  <2>2. QED
    BY <1>w, <2>1, WakeFacts
<1>b. /\ pc' \in [Pid -> Places]
      /\ \A q \in Pid : pc'[q] = IF q = p THEN "exit_sched" ELSE pc[q]
  BY <1>0 DEF ExitLinks, Goto, TypeOK, Places
<1>c. /\ parent' \in [Pid -> Pid \cup {NULL}]
      /\ \A q \in Pid : parent'[q] = IF parent[q] = p THEN initproc ELSE parent[q]
  BY <1>0 DEF ExitLinks, TypeOK
<1>d. UNCHANGED <<current, need_resched, exiting, timer, waitpid, nr_process>>
  BY DEF ExitLinks
<1>e. time_slice' \in [Pid -> 0..MaxSlice]
  BY RefilledType DEF ExitLinks, TypeOK
<1>1. TypeOK'
  BY <1>a, <1>b, <1>c, <1>d, <1>e DEF TypeOK
<1>2. PlacesOK'
  BY <1>0, <1>w, <1>a, <1>b, <1>d DEF PlacesOK
<1>3. WaitStatesOK'
  <2> SUFFICES ASSUME NEW q \in Pid
               PROVE  /\ wait_state'[q] = "0" <=> state'[q] # "SLEEPING"
                      /\ wait_state'[q] = "WT_CHILD" => pc'[q] \in {"wait_sched", "wait_back"}
                      /\ wait_state'[q] = "WT_TIMER" => pc'[q] \in {"sleep_sched", "sleep_back"}
    BY DEF WaitStatesOK
  <2>1. CASE q \in W
    BY <1>a, <2>1
  <2>2. CASE q \notin W
    BY <1>0, <1>a, <1>b, <2>2 DEF WaitStatesOK
  <2>3. QED
    BY <2>1, <2>2
<1>4. KernelThreadsOK'
  <2>1. pc'[initproc] = pc[initproc] /\ pc[initproc] # "init_done"
    BY <1>0, <1>b DEF PlacesOK, Resting
  <2>2. QED
    BY <1>0, <1>a, <1>b, <1>d, <2>1 DEF KernelThreadsOK
<1>5. LiveProcs' = LiveProcs \ {p}
  BY <1>0, <1>a, <1>b DEF LiveProcs, Status
<1>6. ParentsOK'
  <2>1. initproc \in LiveProcs \ {p}
    BY <1>0 DEF LiveProcs, Status, PlacesOK, KernelThreadsOK
  <2>2. parent[initproc] = idleproc
    BY <1>0 DEF ParentsOK
  <2>3. ASSUME NEW q \in Pid \ {idleproc}, state'[q] # "FREE"
        PROVE  parent'[q] \in LiveProcs' \ {q}
    <3>1. parent[q] \in LiveProcs \ {q}
      BY <1>a, <2>3 DEF ParentsOK
    <3>2. parent[q] = p => q # initproc
      BY <1>0, <2>2
    <3>3. QED
      BY <1>c, <1>5, <2>1, <3>1, <3>2
  <2>4. \A q \in Pid : state'[q] = "FREE" => parent'[q] = NULL
    BY <1>0, <1>a, <1>c DEF ParentsOK, ProcAssumption
  <2>5. parent'[idleproc] = NULL
    BY <1>0, <1>c DEF ParentsOK, ProcAssumption
  <2>6. \A q \in Pid : parent'[q] = idleproc <=> q = initproc
    BY <1>0, <1>c, <2>2 DEF ParentsOK, ProcAssumption
  <2>7. QED
    BY <2>3, <2>4, <2>5, <2>6 DEF ParentsOK
<1>7. Acyclic'
  <2>1. UserProcs' = UserProcs
    BY <1>a DEF UserProcs
  <2>2. \A q \in UserProcs' : parent'[q] \in {parent[q], initproc}
    BY <1>c DEF UserProcs
  <2>3. QED
    BY <2>1, <2>2, AcyclicKept
<1>9. NoLostChild'
  <2> SUFFICES ASSUME NEW q \in Pid, wait_state'[q] = "WT_CHILD", NEW c \in ZombiesFor(q)'
               PROVE  FALSE
    BY DEF NoLostChild
  <2>1. wait_state[q] = "WT_CHILD" /\ q \notin W
    BY <1>a
  <2>2. /\ c \in Pid /\ parent'[c] = q /\ state[c] = "ZOMBIE"
        /\ waitpid[q] = NULL \/ waitpid[q] = c
    BY <1>a, <1>d DEF ZombiesFor, Candidates, Children
  <2>3. CASE parent[c] = q
    <3>1. c \in ZombiesFor(q)
      BY <2>2, <2>3 DEF ZombiesFor, Candidates, Children
    <3>2. c = p
      BY <2>1, <3>1 DEF NoLostChild
    <3>3. q \in W
      BY <2>1, <2>3, <3>2 DEF ExitWoken
    <3>4. QED
      BY <2>1, <3>3
  <2>4. CASE parent[c] # q
    <3>1. parent[c] = p /\ q = initproc
      BY <1>c, <2>2, <2>4
    <3>2. q \in W
      BY <2>1, <2>2, <3>1 DEF ExitWoken, Children
    <3>3. QED
      BY <2>1, <3>2
  <2>5. QED
    BY <2>3, <2>4
<1>10. TimerBacksSleep'
  <2>1. \A q \in Pid : wait_state'[q] = "WT_TIMER" =>
          wait_state[q] = "WT_TIMER" /\ state'[q] = state[q]
    BY <1>a
  <2>2. ~(timer[p] > 0)
    BY <1>0 DEF TimerBacksSleep
  <2>3. QED
    BY <1>0, <1>b, <1>d, <2>1, <2>2 DEF TimerBacksSleep
<1>11. ProcessCount'
  BY <1>a, <1>d, CountKept
<1>12. NoAssertFails'
  BY <1>a DEF NoAssertFails
<1>13. QED
  BY <1>a, <1>1, <1>2, <1>3, <1>4, <1>6, <1>7, <1>9, <1>10, <1>11, <1>12

(* do_wait frees a zombie child: it is nobody's parent and in no list.     *)
LEMMA WaitReapStep ==
  ASSUME IndInv, WaitReap(current)
  PROVE  IndInv'
<1> USE DEF IndInv
<1> DEFINE p == current
<1>0. PICK c \in ZombiesFor(p) :
        /\ state' = [state EXCEPT ![c] = "FREE"]
        /\ parent' = [parent EXCEPT ![c] = NULL]
        /\ exiting' = [exiting EXCEPT ![c] = FALSE]
        /\ pc' = [pc EXCEPT ![c] = "none",
                            ![p] = IF p = initproc THEN "init_sched" ELSE "ret"]
        /\ panic' = IF c \in {idleproc, initproc} THEN "assert" ELSE panic
  BY DEF WaitReap
<1>1. /\ p \in Pid /\ pc[p] = "wait" /\ p # idleproc /\ state[p] = "RUNNABLE"
      /\ idleproc \in Pid /\ initproc \in Pid
  BY DEF WaitReap, TypeOK, KernelThreadsOK, PlacesOK, States, ProcAssumption
<1>2. /\ c \in Pid /\ state[c] = "ZOMBIE" /\ parent[c] = p /\ c # p
      /\ pc[c] = "dead" /\ c \notin {idleproc, initproc}
  <2>1. c \in Pid /\ state[c] = "ZOMBIE" /\ parent[c] = p /\ c # p
    BY <1>1 DEF ZombiesFor, Candidates, Children
  <2>2. pc[c] = "dead"
    BY <1>1, <2>1 DEF PlacesOK, Resting
  <2>3. QED
    BY <2>1, <2>2 DEF KernelThreadsOK
<1>3. c \notin LiveProcs /\ \A q \in Pid : parent[q] # c
  <2>1. c \notin LiveProcs
    BY <1>2 DEF LiveProcs, Status
  <2>2. QED
    BY <1>2, <2>1 DEF ParentsOK, ProcAssumption
<1>a. /\ state'[c] = "FREE" /\ parent'[c] = NULL /\ exiting'[c] = FALSE /\ waitpid'[p] = NULL
      /\ \A q \in Pid \ {c} :
           state'[q] = state[q] /\ parent'[q] = parent[q] /\ exiting'[q] = exiting[q]
      /\ \A q \in Pid \ {p} : waitpid'[q] = waitpid[q]
      /\ state' \in [Pid -> States]
      /\ parent' \in [Pid -> Pid \cup {NULL}]
      /\ exiting' \in [Pid -> BOOLEAN]
      /\ waitpid' \in [Pid -> Pid \cup {NULL}]
  <2>1. waitpid' = [waitpid EXCEPT ![p] = NULL]
    BY DEF WaitReap
  <2>2. /\ state \in [Pid -> States] /\ "FREE" \in States
        /\ parent \in [Pid -> Pid \cup {NULL}]
        /\ exiting \in [Pid -> BOOLEAN]
        /\ waitpid \in [Pid -> Pid \cup {NULL}]
    BY DEF TypeOK, States
  <2>3. QED
    BY <1>0, <1>1, <1>2, <2>1, <2>2
<1>b. /\ p = initproc => pc'[p] = "init_sched"
      /\ p # initproc => pc'[p] = "ret"
      /\ pc'[c] = "none"
      /\ \A q \in Pid \ {p, c} : pc'[q] = pc[q]
      /\ pc' \in [Pid -> Places]
  BY <1>0, <1>1, <1>2 DEF TypeOK, Places
<1>c. /\ UNCHANGED <<current, wait_state, need_resched, rq, time_slice, timer, panic>>
      /\ nr_process' = nr_process - 1
  BY <1>0, <1>2 DEF WaitReap
<1>11. ProcessCount' /\ nr_process' \in Nat
  <2> DEFINE T == {q \in Pid : state[q] # "FREE"}
  <2>1. {q \in Pid : state'[q] # "FREE"} = T \ {c}
    BY <1>a, <1>2
  <2>2. IsFiniteSet(T)
    BY FS_Subset DEF ProcAssumption
  <2>3. c \in T
    BY <1>2
  <2>4. IsFiniteSet(T \ {c}) /\ Cardinality(T \ {c}) = Cardinality(T) - 1
    BY <2>2, <2>3, FS_RemoveElement
  <2>5. Cardinality(T \ {c}) \in Nat
    BY <2>4, FS_CardinalityType
  <2>6. nr_process = Cardinality(T)
    BY DEF ProcessCount
  <2>7. QED
    BY <1>c, <2>1, <2>4, <2>5, <2>6 DEF ProcessCount
<1>4. TypeOK'
  BY <1>a, <1>b, <1>c, <1>11 DEF TypeOK
<1>5. PlacesOK'
  <2>1. \A q \in Pid \ {p, c} : state'[q] = state[q] /\ pc'[q] = pc[q]
    BY <1>a, <1>b
  <2>2. /\ state'[c] = "FREE" /\ pc'[c] = "none"
        /\ state'[p] = "RUNNABLE" /\ pc'[p] \in {"init_sched", "ret"}
    BY <1>1, <1>2, <1>a, <1>b
  <2>3. QED
    BY <1>1, <1>2, <1>c, <2>1, <2>2 DEF PlacesOK, Resting
<1>6. WaitStatesOK'
  BY <1>1, <1>2, <1>a, <1>b, <1>c DEF WaitStatesOK
<1>7. KernelThreadsOK'
  <2>1. pc'[initproc] # "init_done"
    BY <1>1, <1>2, <1>b DEF PlacesOK, Resting
  <2>2. QED
    BY <1>1, <1>2, <1>a, <1>b, <1>c, <2>1 DEF KernelThreadsOK
<1>8. LiveProcs' = LiveProcs
  BY <1>1, <1>2, <1>3, <1>a, <1>b DEF LiveProcs, Status, PlacesOK
<1>9. ParentsOK'
  BY <1>1, <1>2, <1>3, <1>a, <1>8 DEF ParentsOK, ProcAssumption
<1>10. Acyclic'
  <2>1. UserProcs' \subseteq UserProcs /\ c \notin UserProcs'
    BY <1>2, <1>a DEF UserProcs
  <2>2. \A q \in UserProcs' : parent'[q] \in {parent[q], initproc}
    BY <2>1, <1>a DEF UserProcs
  <2>3. QED
    BY <2>1, <2>2, AcyclicKept
<1>12. RunQueueExact'
  BY <1>2, <1>a, <1>c DEF RunQueueExact
<1>13. NoLostChild'
  <2> SUFFICES ASSUME NEW q \in Pid, wait_state'[q] = "WT_CHILD", NEW d \in ZombiesFor(q)'
               PROVE  FALSE
    BY DEF NoLostChild
  <2>1. wait_state[q] = "WT_CHILD" /\ q # p
    BY <1>1, <1>c DEF WaitStatesOK
  <2>2. d \in ZombiesFor(q)
    BY <2>1, <1>a, ProcAssumption DEF ZombiesFor, Candidates, Children, ProcAssumption
  <2>3. QED
    BY <1>1, <2>1, <2>2 DEF NoLostChild
<1>14. TimerBacksSleep'
  <2>1. ~(timer[p] > 0) /\ ~(timer[c] > 0)
    BY <1>1, <1>2 DEF TimerBacksSleep
  <2>2. wait_state[c] # "WT_TIMER"
    BY <1>2 DEF TimerBacksSleep
  <2>3. QED
    BY <1>1, <1>2, <1>a, <1>b, <1>c, <2>1, <2>2 DEF TimerBacksSleep
<1>15. NoAssertFails'
  BY <1>c DEF NoAssertFails
<1>16. QED
  BY <1>4, <1>5, <1>6, <1>7, <1>9, <1>10, <1>11, <1>12, <1>13, <1>14, <1>15

(* do_fork gives c a parent before it can run. *)
LEMMA ForkStep ==
  ASSUME IndInv, NEW p, p = current, state[p] = "RUNNABLE", p # idleproc,
         NEW c \in Pid, Fork(p, c), NEW where,
         pc' = [pc EXCEPT ![p] = where, ![c] = "user"],
         IF p = initproc THEN where = "wait" ELSE where = "ret",
         pc[p] \notin {"init_done", "sleep_sched", "sleep_back"}
  PROVE  IndInv'
<1> USE DEF IndInv
<1>1. /\ p \in Pid /\ idleproc \in Pid /\ initproc \in Pid /\ where \in Places
      /\ wait_state[p] = "0" /\ pc[p] # "exit_links"
  BY DEF TypeOK, ProcAssumption, WaitStatesOK, PlacesOK, Places
<1>2. /\ state[c] = "FREE" /\ pc[c] = "none" /\ c # p /\ c \notin {idleproc, initproc}
      /\ rq[c] = 0 /\ wait_state[c] = "0"
  BY <1>1 DEF Fork, PlacesOK, KernelThreadsOK, RunQueueExact, WaitStatesOK
<1>3. c \notin LiveProcs /\ \A q \in Pid : parent[q] # c
  <2>1. c \notin LiveProcs
    BY <1>2 DEF LiveProcs, Status
  <2>2. QED
    BY <1>2, <2>1 DEF ParentsOK, ProcAssumption
<1>4. p \in LiveProcs
  BY <1>1 DEF LiveProcs, Status
<1>a. /\ state'[c] = "RUNNABLE" /\ wait_state'[c] = "0" /\ exiting'[c] = FALSE
      /\ parent'[c] = p /\ rq'[c] = 1
      /\ \A q \in Pid \ {c} :
           /\ state'[q] = state[q] /\ wait_state'[q] = wait_state[q]
           /\ exiting'[q] = exiting[q] /\ parent'[q] = parent[q] /\ rq'[q] = rq[q]
  <2>1. /\ state \in [Pid -> States] /\ wait_state \in [Pid -> WaitStates]
        /\ exiting \in [Pid -> BOOLEAN] /\ parent \in [Pid -> Pid \cup {NULL}]
        /\ rq \in [Pid -> Nat]
    BY DEF TypeOK
  <2>2. /\ state' = [state EXCEPT ![c] = "RUNNABLE"]
        /\ wait_state' = [wait_state EXCEPT ![c] = "0"]
        /\ exiting' = [exiting EXCEPT ![c] = FALSE]
        /\ parent' = [parent EXCEPT ![c] = p]
        /\ rq' = [rq EXCEPT ![c] = 1]
    BY <1>2 DEF Fork
  <2>3. QED
    BY <2>1, <2>2
<1>b. /\ pc'[p] = where
      /\ pc'[c] = "user"
      /\ \A q \in Pid \ {p, c} : pc'[q] = pc[q]
      /\ pc' \in [Pid -> Places]
  BY <1>1, <1>2 DEF TypeOK, Places
<1>c. /\ UNCHANGED <<current, timer, waitpid, panic>>
      /\ nr_process' = nr_process + 1
  BY <1>1 DEF Fork
<1>5. TypeOK'
  <2>1. /\ state' \in [Pid -> States] /\ wait_state' \in [Pid -> WaitStates]
        /\ exiting' \in [Pid -> BOOLEAN] /\ need_resched' \in [Pid -> BOOLEAN]
        /\ parent' \in [Pid -> Pid \cup {NULL}]
    BY <1>1 DEF Fork, TypeOK, States, WaitStates
  <2>2. /\ time_slice' \in [Pid -> 0..MaxSlice]
        /\ rq' \in [Pid -> Nat]
    <3>1. time_slice \in [Pid -> 0..MaxSlice] /\ rq \in [Pid -> Nat]
      BY DEF TypeOK
    <3>4. MaxSlice \in 0..MaxSlice
      BY DEF ProcAssumption
    <3>2. time_slice' = [time_slice EXCEPT ![c] = MaxSlice] /\ rq' = [rq EXCEPT ![c] = 1]
      BY <1>2 DEF Fork
    <3>3. QED
      BY <3>1, <3>2, <3>4, UpdateAt
  <2>3. nr_process' \in Nat
    <3>1. nr_process \in Nat
      BY DEF TypeOK
    <3>2. QED
      BY <3>1, <1>c
  <2>4. QED
    BY <1>b, <1>c, <2>1, <2>2, <2>3 DEF TypeOK
<1>6. PlacesOK'
  BY <1>1, <1>2, <1>a, <1>b, <1>c DEF PlacesOK, Resting
<1>7. WaitStatesOK'
  BY <1>1, <1>2, <1>a, <1>b, <1>c DEF WaitStatesOK
<1>8. KernelThreadsOK'
  <2>1. pc'[initproc] # "init_done"
    BY <1>1, <1>2, <1>b DEF PlacesOK, Resting
  <2>2. QED
    BY <1>1, <1>2, <1>a, <1>b, <1>c, <2>1 DEF KernelThreadsOK
<1>9. LiveProcs' = LiveProcs \cup {c}
  BY <1>1, <1>2, <1>a, <1>b, <1>4 DEF LiveProcs, Status
<1>10. ParentsOK'
  BY <1>1, <1>2, <1>3, <1>4, <1>a, <1>9 DEF ParentsOK, ProcAssumption
<1>11. Acyclic'
  <2> SUFFICES ASSUME NEW S \in SUBSET UserProcs', S # {}
               PROVE  \E q \in S : parent'[q] \notin S
    BY DEF Acyclic
  <2>1. S \ {c} \subseteq UserProcs
    BY <1>a DEF UserProcs
  <2>2. CASE S = {c}
    BY <1>2, <1>a, <2>2
  <2>3. CASE S # {c}
    <3>1. PICK q \in S \ {c} : parent[q] \notin S \ {c}
      BY <2>1, <2>3 DEF Acyclic
    <3>2. q \in Pid /\ parent'[q] = parent[q] /\ parent[q] # c
      BY <2>1, <1>3, <1>a DEF UserProcs
    <3>3. QED
      BY <3>1, <3>2
  <2>4. QED
    BY <2>2, <2>3
<1>12. RunQueueExact'
  BY <1>1, <1>2, <1>a, <1>c DEF RunQueueExact
<1>13. NoLostChild'
  <2> SUFFICES ASSUME NEW q \in Pid, wait_state'[q] = "WT_CHILD", NEW d \in ZombiesFor(q)'
               PROVE  FALSE
    BY DEF NoLostChild
  <2>1. wait_state[q] = "WT_CHILD"
    BY <1>a
  <2>2. d \in ZombiesFor(q)
    BY <1>a, <1>c DEF ZombiesFor, Candidates, Children
  <2>3. QED
    BY <1>1, <2>1, <2>2 DEF NoLostChild
<1>14. TimerBacksSleep'
  <2>1. ~(timer[p] > 0) /\ ~(timer[c] > 0)
    BY <1>1, <1>2 DEF TimerBacksSleep
  <2>2. QED
    BY <1>1, <1>2, <1>a, <1>b, <1>c, <2>1 DEF TimerBacksSleep
<1>15. ProcessCount'
  <2> DEFINE T == {q \in Pid : state[q] # "FREE"}
  <2>1. {q \in Pid : state'[q] # "FREE"} = T \cup {c}
    BY <1>a
  <2>2. IsFiniteSet(T)
    BY FS_Subset DEF ProcAssumption
  <2>3. c \notin T
    BY <1>2
  <2>4. Cardinality(T \cup {c}) = Cardinality(T) + 1
    BY <2>2, <2>3, FS_AddElement
  <2>5. nr_process = Cardinality(T)
    BY DEF ProcessCount
  <2>6. QED
    BY <1>c, <2>1, <2>4, <2>5 DEF ProcessCount
<1>16. NoAssertFails'
  BY <1>c DEF NoAssertFails
<1>17. QED
  BY <1>5, <1>6, <1>7, <1>8, <1>10, <1>11, <1>12, <1>13, <1>14, <1>15, <1>16
-----------------------------------------------------------------------------
(* The timer interrupt wakes sleepers only. *)
LEMMA FiredAsleep ==
  ASSUME IndInv
  PROVE  /\ Fired \in SUBSET (Pid \ {idleproc})
         /\ \A q \in Fired : state[q] \in {"SLEEPING", "RUNNABLE"}
<1> USE DEF IndInv
<1>1. timer \in [Pid -> 0..MaxSleep] /\ state \in [Pid -> States]
  BY DEF TypeOK
<1>2. \A q \in Fired : q \in Pid /\ pc[q] \in {"sleep_sched", "sleep_back"}
  BY <1>1 DEF Fired, TimerBacksSleep
<1>3. QED
  BY <1>1, <1>2 DEF KernelThreadsOK, PlacesOK, States

LEMMA TickStep ==
  ASSUME IndInv, Tick
  PROVE  IndInv'
<1> USE DEF IndInv
<1> DEFINE where == IF pc[current] = "user" THEN "ret" ELSE pc[current]
<1>0. current \in Pid /\ timer \in [Pid -> 0..MaxSleep] /\ pc \in [Pid -> Places]
  BY DEF TypeOK
<1>1. /\ Fired \in SUBSET (Pid \ {idleproc})
      /\ \A q \in Fired : state[q] \in {"SLEEPING", "RUNNABLE"}
  BY FiredAsleep
<1>2. Wakeup(Fired, state)
  BY DEF Tick
<1>3. pc' = [pc EXCEPT ![current] = where]
  BY <1>0 DEF Tick
<1>4. \/ where = pc[current]
      \/ pc[current] \in {"user", "sys"} /\ where = "ret"
  OBVIOUS
<1>5. /\ timer' \in [Pid -> 0..MaxSleep]
      /\ \A q \in Pid : timer'[q] > 0 => timer[q] > 0
      /\ \A q \in Pid : timer[q] > 0 /\ timer[q] # 1 => timer'[q] > 0
  <2>1. timer' = [q \in Pid |-> IF timer[q] > 0 THEN timer[q] - 1 ELSE 0]
    BY DEF Tick
  <2>2. MaxSleep \in Nat
    BY DEF ProcAssumption
  <2>3. QED
    BY <1>0, <2>1, <2>2
<1>6. \A q \in Pid \ Fired : wait_state[q] = "WT_TIMER" => timer'[q] > 0
  BY <1>5 DEF Fired, TimerBacksSleep
<1>7. need_resched' \in [Pid -> BOOLEAN]
  <2>1. need_resched \in [Pid -> BOOLEAN]
    BY DEF TypeOK
  <2>2. \E b \in BOOLEAN : need_resched' = [need_resched EXCEPT ![current] = b]
    BY <1>0, <2>1 DEF Tick
  <2>3. QED
    BY <1>0, <2>1, <2>2
<1>8. time_slice' \in [Pid -> 0..MaxSlice]
  <2>1. Refilled(Enqueued(Fired, state)) \in [Pid -> 0..MaxSlice]
    BY RefilledType DEF TypeOK
  <2>2. SliceLeft \in 0..MaxSlice
    <3>1. time_slice[current] \in 0..MaxSlice /\ MaxSlice \in Nat
      BY <1>0 DEF TypeOK, ProcAssumption
    <3>2. QED
      BY <3>1 DEF SliceLeft
  <2>3. QED
    BY <1>0, <2>1, <2>2 DEF Tick
<1>9. UNCHANGED <<current, exiting, parent, waitpid, nr_process>>
  BY DEF Tick
<1>10. exiting' \in [Pid -> BOOLEAN] /\ ~exiting'[idleproc] /\ ~exiting'[initproc]
  BY <1>9 DEF TypeOK, KernelThreadsOK
<1>11. QED
  BY <1>1, <1>2, <1>3, <1>4, <1>5, <1>6, <1>7, <1>8, <1>9, <1>10, WakeStep

(* do_kill wakes its target if it sleeps interruptibly. *)
LEMMA SysKillStep ==
  ASSUME IndInv, NEW t \in Pid, SysKill(current, t)
  PROVE  IndInv'
<1> USE DEF IndInv
<1> DEFINE W == {q \in {t} : wait_state[q] \in Interruptible}
<1>0. current \in Pid /\ timer \in [Pid -> 0..MaxSleep]
  BY DEF TypeOK
<1>1. /\ W \in SUBSET (Pid \ {idleproc})
      /\ \A q \in W : state[q] \in {"SLEEPING", "RUNNABLE"}
  BY DEF SysKill, WaitStatesOK, Interruptible
<1>2. /\ Wakeup(W, state)
      /\ time_slice' = Refilled(Enqueued(W, state))
      /\ pc' = [pc EXCEPT ![current] = "ret"]
      /\ pc[current] = "sys"
      /\ UNCHANGED <<current, need_resched, parent, timer, waitpid, nr_process>>
  BY DEF SysKill, Goto
<1>3. time_slice' \in [Pid -> 0..MaxSlice] /\ need_resched' \in [Pid -> BOOLEAN]
  BY <1>2, RefilledType DEF TypeOK
<1>4. exiting' \in [Pid -> BOOLEAN] /\ ~exiting'[idleproc] /\ ~exiting'[initproc]
  <2>1. exiting \in [Pid -> BOOLEAN] /\ exiting' = [exiting EXCEPT ![t] = TRUE]
        /\ t \notin {idleproc, initproc}
    BY DEF TypeOK, SysKill
  <2>2. QED
    BY <2>1 DEF KernelThreadsOK, ProcAssumption
<1>5. /\ timer' \in [Pid -> 0..MaxSleep]
      /\ \A q \in Pid : timer'[q] > 0 => timer[q] > 0
      /\ \A q \in Pid \ W : wait_state[q] = "WT_TIMER" => timer'[q] > 0
  BY <1>0, <1>2 DEF TimerBacksSleep
<1>6. QED
  BY <1>1, <1>2, <1>3, <1>4, <1>5, WakeStep

(* init_main sees no child: every process but idleproc and itself is gone, *)
(* for a set of user processes that is not empty has a parent outside it.  *)
LEMMA InitDoneStep ==
  ASSUME IndInv, InitDone(current)
  PROVE  IndInv'
<1> USE DEF IndInv
<1>1. current = initproc /\ Children(initproc) = {} /\ initproc \in Pid /\ idleproc \in Pid
  BY DEF InitDone, KernelThreadsOK, TypeOK, ProcAssumption
<1>2. UserProcs = {}
  <2> SUFFICES ASSUME UserProcs # {} PROVE FALSE
    OBVIOUS
  <2>1. PICK q \in UserProcs : parent[q] \notin UserProcs
    BY DEF Acyclic
  <2>2. /\ q \in Pid \ {idleproc, initproc} /\ state[q] # "FREE"
        /\ parent[q] \in Pid /\ Status(parent[q]) = "live"
    BY <2>1 DEF UserProcs, ParentsOK, LiveProcs
  <2>3. state[parent[q]] # "FREE"
    BY <2>2 DEF Status
  <2>4. parent[q] # idleproc
    BY <2>2 DEF ParentsOK
  <2>5. parent[q] = initproc
    BY <2>1, <2>2, <2>3, <2>4 DEF UserProcs
  <2>6. QED
    BY <1>1, <2>2, <2>5 DEF Children
<1>3. nr_process = 2
  <2>1. state[initproc] # "FREE" /\ state[idleproc] # "FREE"
    BY <1>1 DEF PlacesOK, KernelThreadsOK
  <2>2. {q \in Pid : state[q] # "FREE"} = {idleproc, initproc}
    BY <1>1, <1>2, <2>1 DEF UserProcs
  <2>3. idleproc # initproc
    BY DEF ProcAssumption
  <2>4. Cardinality({idleproc, initproc}) = 2
    <3>1. IsFiniteSet({initproc}) /\ Cardinality({initproc}) = 1
      BY FS_Singleton
    <3>2. {idleproc, initproc} = {initproc} \cup {idleproc}
      OBVIOUS
    <3>3. Cardinality({initproc} \cup {idleproc}) = 1 + 1
      BY <2>3, <3>1, FS_AddElement
    <3>4. QED
      BY <3>2, <3>3
  <2>5. QED
    BY <2>2, <2>4 DEF ProcessCount
<1>4. /\ panic' = "initproc exit"
      /\ UNCHANGED <<current, state, wait_state, need_resched, exiting, parent, rq,
                     time_slice, timer, waitpid, nr_process, pc>>
  BY <1>1, <1>3 DEF InitDone
<1>5. TypeOK'
  BY <1>4 DEF TypeOK
<1>6. PlacesOK' /\ WaitStatesOK' /\ RunQueueExact' /\ TimerBacksSleep' /\ NoAssertFails'
  BY <1>4 DEF PlacesOK, WaitStatesOK, RunQueueExact, TimerBacksSleep, NoAssertFails
<1>7. KernelThreadsOK' /\ ParentsOK' /\ Acyclic'
  <2>1. KernelThreadsOK'
    BY <1>4 DEF KernelThreadsOK, Children
  <2>2. LiveProcs' = LiveProcs
    BY <1>4 DEF LiveProcs, Status
  <2>3. ParentsOK'
    BY <1>4, <2>2 DEF ParentsOK
  <2>4. Acyclic'
    BY <1>4, AcyclicKept DEF UserProcs
  <2>5. QED
    BY <2>1, <2>3, <2>4
<1>8. NoLostChild' /\ ProcessCount'
  BY <1>4 DEF NoLostChild, ZombiesFor, Candidates, Children, ProcessCount
<1>9. QED
  BY <1>5, <1>6, <1>7, <1>8
-----------------------------------------------------------------------------
(* What is known of the running process from where it stands.              *)
LEMMA RunningFacts ==
  ASSUME IndInv
  PROVE  /\ current \in Pid
         /\ pc[current] \in {"user", "sys", "ret", "exit", "wait", "wait_back", "sleep_back",
                             "init_fork", "init_sched", "init_done"} =>
              state[current] = "RUNNABLE" /\ current # idleproc
         /\ pc[current] \notin {"sleep_sched", "sleep_back"} => timer[current] = 0
         /\ pc[current] \in {"user", "sys", "ret", "exit", "sleep_sched", "sleep_back"} =>
              current # initproc
         /\ ~exiting[initproc]
<1> USE DEF IndInv
<1>1. current \in Pid /\ state[current] \in States /\ timer[current] \in 0..MaxSleep
  BY DEF TypeOK
<1>2. pc[current] \in {"user", "sys", "ret", "exit", "wait", "wait_back", "sleep_back",
                      "init_fork", "init_sched", "init_done"} =>
        state[current] = "RUNNABLE" /\ current # idleproc
  BY <1>1 DEF PlacesOK, KernelThreadsOK, States
<1>3. pc[current] \notin {"sleep_sched", "sleep_back"} => timer[current] = 0
  BY <1>1 DEF TimerBacksSleep, ProcAssumption
<1>4. pc[current] \in {"user", "sys", "ret", "exit", "sleep_sched", "sleep_back"} =>
        current # initproc
  BY DEF KernelThreadsOK
<1>5. QED
  BY <1>1, <1>2, <1>3, <1>4 DEF KernelThreadsOK

(* Steps that change nothing but the place of the running process.         *)
LEMMA PlainStep ==
  ASSUME IndInv, NEW where,
         pc' = [pc EXCEPT ![current] = where],
         \/ pc[current] \in {"user", "sys", "ret"} /\ where \in {"user", "sys", "ret", "exit"}
         \/ pc[current] = "wait_back" /\ where = "wait",
         UNCHANGED <<current, state, wait_state, need_resched, exiting, parent, rq,
                     time_slice, timer, waitpid, nr_process, panic>>
  PROVE  IndInv'
<1>1. waitpid \in [Pid -> Pid \cup {NULL}] /\ timer \in [Pid -> 0..MaxSleep]
      /\ need_resched \in [Pid -> BOOLEAN] /\ waitpid[initproc] = NULL
  BY DEF IndInv, TypeOK, KernelThreadsOK
<1>2. QED
  BY <1>1, RunningFacts, LocalStep

LEMMA SysCallStep ==
  ASSUME IndInv, SystemCall(current)
  PROVE  IndInv'
<1>0. /\ current \in Pid
      /\ pc[current] = "sys" =>
           /\ state[current] = "RUNNABLE" /\ current # idleproc
           /\ current # initproc /\ timer[current] = 0
  BY RunningFacts
<1>1. CASE SysReturn(current) \/ SysExit(current)
  BY <1>1, PlainStep DEF SysReturn, SysExit, Goto
<1>2. CASE SysYield(current)
  <2>1. /\ need_resched' \in [Pid -> BOOLEAN]
        /\ waitpid \in [Pid -> Pid \cup {NULL}] /\ timer \in [Pid -> 0..MaxSleep]
    BY <1>2 DEF IndInv, TypeOK, SysYield
  <2>2. pc' = [pc EXCEPT ![current] = "ret"] /\ pc[current] = "sys"
        /\ UNCHANGED <<current, state, wait_state, exiting, parent, rq,
                       time_slice, timer, waitpid, nr_process, panic>>
    BY <1>2 DEF SysYield, Goto
  <2>3. QED
    BY <1>0, <2>1, <2>2, LocalStep
<1>3. ASSUME NEW c \in Pid, SysFork(current, c)
      PROVE  IndInv'
  BY <1>0, <1>3, ForkStep DEF SysFork
<1>4. ASSUME NEW c \in Pid, SysKill(current, c)
      PROVE  IndInv'
  BY <1>4, SysKillStep
<1>5. ASSUME NEW t \in Pid \cup {NULL}, SysWait(current, t)
      PROVE  IndInv'
  <2>1. /\ waitpid \in [Pid -> Pid \cup {NULL}] /\ timer \in [Pid -> 0..MaxSleep]
        /\ need_resched \in [Pid -> BOOLEAN]
    BY DEF IndInv, TypeOK
  <2>2. pc' = [pc EXCEPT ![current] = "wait"] /\ pc[current] = "sys"
        /\ waitpid' = [waitpid EXCEPT ![current] = t]
        /\ UNCHANGED <<current, state, wait_state, need_resched, exiting, parent, rq,
                       time_slice, timer, nr_process, panic>>
    BY <1>5 DEF SysWait, Goto
  <2>3. /\ waitpid' \in [Pid -> Pid \cup {NULL}]
        /\ \A q \in Pid \ {current} : waitpid'[q] = waitpid[q]
    BY <2>1, <2>2
  <2>4. QED
    BY <1>0, <2>1, <2>2, <2>3, LocalStep
<1>6. ASSUME NEW ticks \in 1..MaxSleep, SysSleep(current, ticks)
      PROVE  IndInv'
  <2>0. timer \in [Pid -> 0..MaxSleep]
    BY DEF IndInv, TypeOK
  <2>1. ticks \in 0..MaxSleep /\ ticks > 0
    BY DEF ProcAssumption
  <2>2. /\ pc[current] = "sys"
        /\ state' = [state EXCEPT ![current] = "SLEEPING"]
        /\ wait_state' = [wait_state EXCEPT ![current] = "WT_TIMER"]
        /\ pc' = [pc EXCEPT ![current] = "sleep_sched"]
        /\ timer' = [timer EXCEPT ![current] = ticks]
        /\ UNCHANGED <<current, need_resched, exiting, parent, rq, time_slice, waitpid,
                       nr_process, panic>>
    BY <1>0, <1>6 DEF SysSleep, Goto
  <2>3. /\ timer' \in [Pid -> 0..MaxSleep] /\ timer'[current] > 0
        /\ \A q \in Pid \ {current} : timer'[q] = timer[q]
    BY <1>0, <2>0, <2>1, <2>2
  <2>4. QED
    BY <1>0, <2>2, <2>3, SleepStep
<1>7. QED
  BY <1>1, <1>2, <1>3, <1>4, <1>5, <1>6 DEF SystemCall

LEMMA GiveUpStep ==
  ASSUME IndInv, GiveUpCPU(current)
  PROVE  IndInv'
<1> USE DEF IndInv
<1>0. /\ current \in Pid /\ initproc \in Pid
      /\ pc[current] = "idle" <=> current = idleproc
      /\ pc[current] \in {"init_sched"} => current = initproc
      /\ current = initproc => pc[current] \in {"init_fork", "init_sched", "init_done",
                                               "wait", "wait_sched", "wait_back"}
      /\ state[current] = "ZOMBIE" <=> pc[current] \in {"exit_links", "exit_sched", "dead"}
      /\ state[current] = "SLEEPING" => pc[current] \in {"wait_sched", "sleep_sched"}
      /\ wait_state[current] = "WT_CHILD" => pc[current] \in {"wait_sched", "wait_back"}
      /\ wait_state[current] = "WT_TIMER" => pc[current] \in {"sleep_sched", "sleep_back"}
      /\ timer[current] > 0 => pc[current] \in {"sleep_sched", "sleep_back"}
  BY DEF TypeOK, KernelThreadsOK, PlacesOK, WaitStatesOK, TimerBacksSleep, ProcAssumption
<1>1. CASE TrapSchedule(current)
  BY <1>0, <1>1, ScheduleStep DEF TrapSchedule
<1>2. CASE IdleSchedule(current)
  BY <1>0, <1>2, ScheduleStep DEF IdleSchedule, ProcAssumption
<1>3. CASE SleepSchedule(current)
  BY <1>0, <1>3, ScheduleStep DEF SleepSchedule
<1>4. CASE WaitSchedule(current)
  BY <1>0, <1>4, ScheduleStep DEF WaitSchedule
<1>5. CASE ExitSchedule(current)
  BY <1>0, <1>5, ScheduleStep DEF ExitSchedule
<1>6. CASE InitSchedule(current)
  BY <1>0, <1>6, ScheduleStep DEF InitSchedule
<1>7. QED
  BY <1>1, <1>2, <1>3, <1>4, <1>5, <1>6 DEF GiveUpCPU

LEMMA OtherStep ==
  ASSUME IndInv,
         \/ SleepReturn(current) \/ WaitBlock(current)
         \/ WaitNobody(current) \/ WaitBack(current)
  PROVE  IndInv'
<1>0. /\ waitpid \in [Pid -> Pid \cup {NULL}] /\ timer \in [Pid -> 0..MaxSleep]
      /\ need_resched \in [Pid -> BOOLEAN] /\ waitpid[initproc] = NULL
  BY DEF IndInv, TypeOK, KernelThreadsOK, ProcAssumption
<1>z. 0 \in 0..MaxSleep
  BY DEF ProcAssumption
<1>1. CASE SleepReturn(current)
  <2>1. /\ pc[current] = "sleep_back"
        /\ pc' = [pc EXCEPT ![current] = "ret"]
        /\ timer' = [timer EXCEPT ![current] = 0]
        /\ UNCHANGED <<current, state, wait_state, need_resched, exiting, parent, rq,
                       time_slice, waitpid, nr_process, panic>>
    BY <1>1 DEF SleepReturn, Goto
  <2>2. /\ timer' \in [Pid -> 0..MaxSleep] /\ timer'[current] = 0
        /\ \A q \in Pid \ {current} : timer'[q] = timer[q]
    BY <1>0, <1>z, <2>1, RunningFacts
  <2>3. QED
    BY <1>0, <2>1, <2>2, RunningFacts, LocalStep
<1>2. CASE WaitBlock(current)
  <2>1. /\ pc[current] = "wait"
        /\ ZombiesFor(current) = {}
        /\ state' = [state EXCEPT ![current] = "SLEEPING"]
        /\ wait_state' = [wait_state EXCEPT ![current] = "WT_CHILD"]
        /\ pc' = [pc EXCEPT ![current] = "wait_sched"]
        /\ UNCHANGED <<current, need_resched, exiting, parent, rq, time_slice, timer,
                       waitpid, nr_process, panic>>
    BY <1>2 DEF WaitBlock, Goto
  <2>2. QED
    BY <1>0, <2>1, RunningFacts, SleepStep
<1>3. CASE WaitNobody(current)
  <2> DEFINE where == IF current = initproc THEN "init_done" ELSE "ret"
  <2>1. /\ pc[current] = "wait"
        /\ Candidates(current) = {}
        /\ waitpid' = [waitpid EXCEPT ![current] = NULL]
        /\ pc' = [pc EXCEPT ![current] = where]
        /\ UNCHANGED <<current, state, wait_state, need_resched, exiting, parent, rq,
                       time_slice, timer, nr_process, panic>>
    BY <1>3 DEF WaitNobody, Goto
  <2>2. /\ waitpid' \in [Pid -> Pid \cup {NULL}]
        /\ waitpid'[current] = NULL
        /\ \A q \in Pid \ {current} : waitpid'[q] = waitpid[q]
    BY <1>0, <2>1, RunningFacts
  <2>3. where = "init_done" => Children(current) = {}
    BY <1>0, <2>1 DEF Candidates
  <2>4. IF current = initproc THEN where \in {"wait", "init_done"}
                             ELSE where \in {"user", "sys", "ret", "wait", "exit"}
    OBVIOUS
  <2>5. QED
    BY <1>0, <2>1, <2>2, <2>3, <2>4, RunningFacts, LocalStep
<1>4. CASE WaitBack(current)
  <2>1. CASE ~exiting[current]
    BY <1>4, <2>1, PlainStep DEF WaitBack, Goto
  <2>2. CASE exiting[current]
    <3>1. /\ pc[current] = "wait_back"
          /\ waitpid' = [waitpid EXCEPT ![current] = NULL]
          /\ pc' = [pc EXCEPT ![current] = "exit"]
          /\ UNCHANGED <<current, state, wait_state, need_resched, exiting, parent, rq,
                         time_slice, timer, nr_process, panic>>
      BY <1>4, <2>2 DEF WaitBack, Goto
    <3>2. /\ waitpid' \in [Pid -> Pid \cup {NULL}]
          /\ \A q \in Pid \ {current} : waitpid'[q] = waitpid[q]
      BY <1>0, <3>1, RunningFacts
    <3>3. current # initproc
      BY <2>2, RunningFacts
    <3>4. QED
      BY <1>0, <3>1, <3>2, <3>3, RunningFacts, LocalStep
  <2>3. QED
    BY <2>1, <2>2
<1>5. QED
  BY <1>1, <1>2, <1>3, <1>4
-----------------------------------------------------------------------------
LEMMA InitIndInv == Init => IndInv
<1> SUFFICES ASSUME Init PROVE IndInv
  OBVIOUS
<1>0. /\ idleproc \in Pid /\ initproc \in Pid /\ idleproc # initproc
      /\ MaxSlice \in 0..MaxSlice /\ 0 \in 0..MaxSlice /\ 0 \in 0..MaxSleep
  BY DEF ProcAssumption
<1>1. TypeOK
  BY <1>0 DEF Init, TypeOK, States, WaitStates, Places
<1>2. /\ \A q \in Pid : /\ state[q] = IF q \in {idleproc, initproc} THEN "RUNNABLE" ELSE "FREE"
                        /\ pc[q] = IF q = idleproc THEN "idle"
                                   ELSE IF q = initproc THEN "init_fork" ELSE "none"
                        /\ parent[q] = IF q = initproc THEN idleproc ELSE NULL
                        /\ wait_state[q] = "0" /\ ~exiting[q] /\ waitpid[q] = NULL
                        /\ rq[q] = IF q = initproc THEN 1 ELSE 0
                        /\ timer[q] = 0
      /\ current = idleproc /\ panic = "none" /\ nr_process = 2
  BY DEF Init
<1>3. PlacesOK /\ WaitStatesOK /\ KernelThreadsOK
  BY <1>0, <1>2 DEF PlacesOK, WaitStatesOK, KernelThreadsOK, Resting
<1>4. ParentsOK
  <2>1. LiveProcs = {idleproc, initproc}
    BY <1>0, <1>2 DEF LiveProcs, Status
  <2>2. QED
    BY <1>0, <1>2, <2>1 DEF ParentsOK, ProcAssumption
<1>5. Acyclic
  BY <1>2 DEF Acyclic, UserProcs
<1>6. RunQueueExact /\ NoLostChild /\ TimerBacksSleep /\ NoAssertFails
  BY <1>0, <1>2 DEF RunQueueExact, NoLostChild, TimerBacksSleep, NoAssertFails
<1>7. ProcessCount
  <2>1. {q \in Pid : state[q] # "FREE"} = {initproc} \cup {idleproc}
    BY <1>0, <1>2
  <2>2. IsFiniteSet({initproc}) /\ Cardinality({initproc}) = 1
    BY FS_Singleton
  <2>3. Cardinality({initproc} \cup {idleproc}) = 1 + 1
    BY <1>0, <2>2, FS_AddElement
  <2>4. QED
    BY <1>2, <2>1, <2>3 DEF ProcessCount
<1>8. QED
  BY <1>1, <1>3, <1>4, <1>5, <1>6, <1>7 DEF IndInv

LEMMA NextIndInv == IndInv /\ [Next]_vars => IndInv'
<1> SUFFICES ASSUME IndInv, [Next]_vars PROVE IndInv'
  OBVIOUS
<1>1. CASE Tick
  BY <1>1, TickStep
<1>2. CASE Enter(current)
  BY <1>2, PlainStep DEF Enter, Goto
<1>3. CASE panic = "none" /\ KernelStep(current)
  <2>1. CASE TrapExit(current) \/ TrapReturn(current)
    BY <2>1, PlainStep DEF TrapExit, TrapReturn, Goto
  <2>2. CASE SystemCall(current)
    BY <2>2, SysCallStep
  <2>3. CASE GiveUpCPU(current)
    BY <2>3, GiveUpStep
  <2>4. CASE SleepReturn(current) \/ WaitBlock(current) \/ WaitNobody(current) \/ WaitBack(current)
    BY <2>4, OtherStep
  <2>5. CASE WaitReap(current)
    BY <2>5, WaitReapStep
  <2>6. CASE ExitZombie(current)
    BY <1>3, <2>6, ExitZombieStep
  <2>7. CASE ExitLinks(current)
    BY <2>7, ExitLinksStep
  <2>8. CASE InitDone(current)
    BY <2>8, InitDoneStep
  <2>9. ASSUME NEW c \in Pid, InitFork(current, c)
        PROVE  IndInv'
    <3>1. pc[current] = "init_fork" /\ current = initproc
      BY <2>9 DEF InitFork, IndInv, KernelThreadsOK, TypeOK
    <3>2. QED
      BY <2>9, <3>1, RunningFacts, ForkStep DEF InitFork
  <2>10. QED
    BY <1>3, <2>1, <2>2, <2>3, <2>4, <2>5, <2>6, <2>7, <2>8, <2>9 DEF KernelStep
<1>4. CASE UNCHANGED vars
  <2>1. UNCHANGED <<current, state, wait_state, need_resched, exiting, parent, rq,
                    time_slice, timer, waitpid, nr_process, pc, panic>>
    BY <1>4 DEF vars
  <2>2. TypeOK' /\ PlacesOK' /\ WaitStatesOK'
    BY <2>1 DEF IndInv, TypeOK, PlacesOK, WaitStatesOK
  <2>3. KernelThreadsOK' /\ ParentsOK'
    BY <2>1 DEF IndInv, KernelThreadsOK, Children, ParentsOK, LiveProcs, Status
  <2>4. Acyclic' /\ ProcessCount'
    BY <2>1, AcyclicKept, CountKept DEF IndInv, UserProcs
  <2>5. RunQueueExact' /\ TimerBacksSleep' /\ NoAssertFails'
    BY <2>1 DEF IndInv, RunQueueExact, TimerBacksSleep, NoAssertFails
  <2>6. NoLostChild'
    BY <2>1 DEF IndInv, NoLostChild, ZombiesFor, Candidates, Children
  <2>7. QED
    BY <2>2, <2>3, <2>4, <2>5, <2>6 DEF IndInv
<1>5. QED
  BY <1>1, <1>2, <1>3, <1>4 DEF Next, Halted

(* The inductive invariant holds in every reachable state, whatever the    *)
(* number of pids and the bounds on processes, slices and sleeps.          *)
THEOREM Invariance == Spec => []IndInv
BY InitIndInv, NextIndInv, PTL DEF Spec

(* The state of proc.c and sched.c stays well typed: time_slice never      *)
(* leaves 0..max_time_slice, timers never run below 0.                     *)
THEOREM TypeCorrect == Spec => []TypeOK
<1>1. IndInv => TypeOK
  BY DEF IndInv
<1>2. QED
  BY <1>1, Invariance, PTL

(* Every runnable process that is not running is linked into the run queue *)
(* once, and nobody else is: no wakeup_proc or schedule() links twice.     *)
THEOREM RunQueue == Spec => []RunQueueExact
<1>1. IndInv => RunQueueExact
  BY DEF IndInv
<1>2. QED
  BY <1>1, Invariance, PTL

(* do_wait loses no wake-up from do_exit. *)
THEOREM NoLostWakeup == Spec => []NoLostChild
<1>1. IndInv => NoLostChild
  BY DEF IndInv
<1>2. QED
  BY <1>1, Invariance, PTL

(* A timer of do_sleep is in timer_list only while its stack frame lives.  *)
THEOREM TimerSafe == Spec => []TimerBacksSleep
<1>1. IndInv => TimerBacksSleep
  BY DEF IndInv
<1>2. QED
  BY <1>1, Invariance, PTL

(* No assertion of wakeup_proc, do_fork, do_sleep, do_wait or init_main    *)
(* fails.                                                                  *)
THEOREM AssertsHold == Spec => []NoAssertFails
<1>1. IndInv => NoAssertFails
  BY DEF IndInv
<1>2. QED
  BY <1>1, Invariance, PTL

(* nr_process counts the processes that exist. *)
THEOREM CountRight == Spec => []ProcessCount
<1>1. IndInv => ProcessCount
  BY DEF IndInv
<1>2. QED
  BY <1>1, Invariance, PTL
-----------------------------------------------------------------------------
(* Proc implements ProcTree. *)
LEMMA TreeStatusAt ==
  /\ TreeStatus = [q \in Pid |-> TreeStatus[q]]
  /\ TreeStatus' = [q \in Pid |-> TreeStatus'[q]]
  /\ \A q \in Pid : TreeStatus[q] =
       IF state[q] = "FREE" THEN "free"
       ELSE IF state[q] = "ZOMBIE" /\ pc[q] # "exit_links" THEN "zombie" ELSE "live"
  /\ \A q \in Pid : TreeStatus'[q] =
       IF state'[q] = "FREE" THEN "free"
       ELSE IF state'[q] = "ZOMBIE" /\ pc'[q] # "exit_links" THEN "zombie" ELSE "live"
BY DEF TreeStatus, Status

LEMMA TreeStutter ==
  ASSUME parent' = parent,
         \A q \in Pid : /\ state'[q] = "FREE" <=> state[q] = "FREE"
                        /\ state'[q] = "ZOMBIE" <=> state[q] = "ZOMBIE"
                        /\ pc'[q] = "exit_links" <=> pc[q] = "exit_links"
  PROVE  UNCHANGED Tree!vars
<1>1. TreeStatus' = TreeStatus
  BY TreeStatusAt
<1>2. QED
  BY <1>1 DEF Tree!vars

(* A wake-up changes no status. *)
LEMMA WakeTree ==
  ASSUME IndInv, NEW W, Wakeup(W, state), parent' = parent,
         \A q \in W : state[q] \in {"SLEEPING", "RUNNABLE"},
         NEW where, pc' = [pc EXCEPT ![current] = where],
         where = pc[current] \/ (where = "ret" /\ pc[current] \in {"user", "sys"})
  PROVE  UNCHANGED Tree!vars
<1>1. \A q \in Pid : /\ state'[q] = "FREE" <=> state[q] = "FREE"
                     /\ state'[q] = "ZOMBIE" <=> state[q] = "ZOMBIE"
  BY DEF Wakeup
<1>2. \A q \in Pid : pc'[q] = "exit_links" <=> pc[q] = "exit_links"
  BY DEF IndInv, TypeOK
<1>3. QED
  BY <1>1, <1>2, TreeStutter

LEMMA ForkTree ==
  ASSUME IndInv, NEW c \in Pid, Fork(current, c), state[current] = "RUNNABLE",
         NEW where, where # "exit_links", pc[current] # "exit_links",
         pc' = [pc EXCEPT ![current] = where, ![c] = "user"]
  PROVE  Tree!Fork(current, c)
<1>1. /\ current \in Pid /\ state \in [Pid -> States] /\ pc \in [Pid -> Places]
      /\ state[c] = "FREE" /\ c # current
      /\ state' = [state EXCEPT ![c] = "RUNNABLE"]
      /\ parent' = [parent EXCEPT ![c] = current]
  BY DEF IndInv, TypeOK, Fork
<1>2. /\ state'[c] = "RUNNABLE"
      /\ \A q \in Pid \ {c} : state'[q] = state[q]
      /\ \A q \in Pid \ {c} : pc'[q] = "exit_links" <=> pc[q] = "exit_links"
  BY <1>1
<1>3. /\ TreeStatus[current] = "live" /\ TreeStatus[c] = "free"
      /\ TreeStatus' = [TreeStatus EXCEPT ![c] = "live"]
  <2>1. TreeStatus[current] = "live" /\ TreeStatus[c] = "free"
    BY <1>1, TreeStatusAt
  <2>2. pc'[c] # "exit_links"
    BY <1>1
  <2>3. TreeStatus'[c] = "live"
    BY <1>2, <2>2, TreeStatusAt
  <2>4. ASSUME NEW q \in Pid \ {c} PROVE TreeStatus'[q] = TreeStatus[q]
    <3>1. state'[q] = state[q] /\ (pc'[q] = "exit_links" <=> pc[q] = "exit_links")
      BY <1>2
    <3>2. QED
      BY <3>1, TreeStatusAt
  <2>5. QED
    BY <2>1, <2>3, <2>4, TreeStatusAt
<1>4. QED
  BY <1>1, <1>3 DEF Tree!Fork

LEMMA ExitTree ==
  ASSUME IndInv, ExitLinks(current)
  PROVE  Tree!Exit(current)
<1> DEFINE p == current
           W == ExitWoken(p)
<1>1. /\ p \in Pid /\ pc[p] = "exit_links" /\ p \notin {idleproc, initproc}
      /\ state[p] = "ZOMBIE" /\ pc \in [Pid -> Places]
  BY DEF ExitLinks, IndInv, TypeOK, KernelThreadsOK, PlacesOK
<1>2. \A q \in W \cap Pid : state[q] = "SLEEPING"
  BY DEF ExitWoken, IndInv, WaitStatesOK
<1>3. \A q \in Pid : state'[q] = IF q \in W THEN "RUNNABLE" ELSE state[q]
  BY DEF ExitLinks, Wakeup
<1>4. pc'[p] = "exit_sched" /\ \A q \in Pid \ {p} : pc'[q] = pc[q]
  BY <1>1 DEF ExitLinks, Goto
<1>5. TreeStatus[p] = "live" /\ TreeStatus'[p] = "zombie"
  BY <1>1, <1>2, <1>3, <1>4, TreeStatusAt
<1>6. \A q \in Pid \ {p} : TreeStatus'[q] = TreeStatus[q]
  BY <1>1, <1>2, <1>3, <1>4, TreeStatusAt
<1>9. TreeStatus' = [TreeStatus EXCEPT ![p] = "zombie"]
  BY <1>5, <1>6, TreeStatusAt
<1>7. parent' = [c \in Pid |-> IF parent[c] = p THEN initproc ELSE parent[c]]
  BY DEF ExitLinks
<1>8. QED
  BY <1>1, <1>5, <1>7, <1>9 DEF Tree!Exit

LEMMA ReapTree ==
  ASSUME IndInv, WaitReap(current)
  PROVE  \E c \in Pid : Tree!Reap(current, c)
<1> DEFINE p == current
           where == IF p = initproc THEN "init_sched" ELSE "ret"
<1>1. PICK c \in ZombiesFor(p) :
        /\ state' = [state EXCEPT ![c] = "FREE"]
        /\ parent' = [parent EXCEPT ![c] = NULL]
        /\ pc' = [pc EXCEPT ![c] = "none", ![p] = where]
  BY DEF WaitReap
<1>2. p \in Pid /\ pc[p] = "wait" /\ state[p] = "RUNNABLE"
  <2>1. pc[p] = "wait"
    BY DEF WaitReap
  <2>2. QED
    BY <2>1, RunningFacts
<1>3. c \in Pid /\ state[c] = "ZOMBIE" /\ parent[c] = p /\ c # p
  BY <1>2 DEF ZombiesFor, Candidates, Children
<1>4. pc[c] # "exit_links"
  BY <1>2, <1>3 DEF IndInv, PlacesOK, Resting
<1>5. /\ state'[c] = "FREE"
      /\ \A q \in Pid \ {c} : state'[q] = state[q]
      /\ \A q \in Pid \ {c} : pc'[q] = "exit_links" <=> pc[q] = "exit_links"
  <2>1. state \in [Pid -> States] /\ pc \in [Pid -> Places]
    BY DEF IndInv, TypeOK
  <2>2. QED
    BY <1>1, <1>2, <1>3, <2>1
<1>6. TreeStatus[p] = "live" /\ TreeStatus[c] = "zombie" /\ TreeStatus'[c] = "free"
  BY <1>2, <1>3, <1>4, <1>5, TreeStatusAt
<1>7. \A q \in Pid \ {c} : TreeStatus'[q] = TreeStatus[q]
  BY <1>5, TreeStatusAt
<1>9. TreeStatus' = [TreeStatus EXCEPT ![c] = "free"]
  BY <1>6, <1>7, TreeStatusAt
<1>8. QED
  BY <1>1, <1>3, <1>6, <1>9 DEF Tree!Reap

(* The steps of the running process that the tree does not see.            *)
LEMMA HiddenStep ==
  ASSUME IndInv, NEW where,
         pc' = [pc EXCEPT ![current] = where],
         where # "exit_links", pc[current] # "exit_links",
         parent' = parent,
         \/ state' = state
         \/ /\ state' = [state EXCEPT ![current] = "SLEEPING"]
            /\ state[current] = "RUNNABLE"
  PROVE  UNCHANGED Tree!vars
<1>1. current \in Pid /\ state \in [Pid -> States] /\ pc \in [Pid -> Places]
  BY DEF IndInv, TypeOK
<1>2. \A q \in Pid : /\ state'[q] = "FREE" <=> state[q] = "FREE"
                     /\ state'[q] = "ZOMBIE" <=> state[q] = "ZOMBIE"
  BY <1>1
<1>3. \A q \in Pid : pc'[q] = "exit_links" <=> pc[q] = "exit_links"
  BY <1>1
<1>4. QED
  BY <1>2, <1>3, TreeStutter

LEMMA SysCallTree ==
  ASSUME IndInv, SystemCall(current)
  PROVE  [Tree!Next]_(Tree!vars)
<1>0. current \in Pid /\ (pc[current] = "sys" => state[current] = "RUNNABLE")
  BY RunningFacts
<1>1. CASE SysReturn(current) \/ SysExit(current) \/ SysYield(current)
  BY <1>1, HiddenStep DEF SysReturn, SysExit, SysYield, Goto
<1>2. ASSUME NEW c \in Pid, SysFork(current, c)
      PROVE  [Tree!Next]_(Tree!vars)
  BY <1>0, <1>2, ForkTree DEF SysFork, Tree!Next
<1>3. ASSUME NEW c \in Pid, SysKill(current, c)
      PROVE  [Tree!Next]_(Tree!vars)
  <2> DEFINE W == {q \in {c} : wait_state[q] \in Interruptible}
  <2>1. \A q \in W : state[q] \in {"SLEEPING", "RUNNABLE"}
    BY DEF Interruptible, IndInv, WaitStatesOK
  <2>2. /\ Wakeup(W, state) /\ parent' = parent
        /\ pc' = [pc EXCEPT ![current] = "ret"] /\ pc[current] = "sys"
    BY <1>3 DEF SysKill, Goto
  <2>3. QED
    BY <2>1, <2>2, WakeTree
<1>4. ASSUME NEW t \in Pid \cup {NULL}, SysWait(current, t)
      PROVE  [Tree!Next]_(Tree!vars)
  BY <1>4, HiddenStep DEF SysWait, Goto
<1>5. ASSUME NEW ticks \in 1..MaxSleep, SysSleep(current, ticks)
      PROVE  [Tree!Next]_(Tree!vars)
  BY <1>0, <1>5, HiddenStep DEF SysSleep, Goto
<1>6. QED
  BY <1>1, <1>2, <1>3, <1>4, <1>5 DEF SystemCall

LEMMA KernelTree ==
  ASSUME IndInv, KernelStep(current)
  PROVE  [Tree!Next]_(Tree!vars)
<1>0. current \in Pid /\ pc \in [Pid -> Places] /\ state \in [Pid -> States]
  BY DEF IndInv, TypeOK
<1>1. CASE TrapExit(current) \/ TrapReturn(current) \/ SleepReturn(current) \/ WaitNobody(current)
  BY <1>1, HiddenStep DEF TrapExit, TrapReturn, SleepReturn, WaitNobody, Goto
<1>2. CASE SystemCall(current)
  BY <1>2, SysCallTree
<1>3. CASE GiveUpCPU(current)
  <2>1. \E cont : Schedule(current, cont) /\ cont # "exit_links" /\ pc[current] # "exit_links"
    BY <1>3 DEF GiveUpCPU, TrapSchedule, IdleSchedule, SleepSchedule, WaitSchedule,
                ExitSchedule, InitSchedule
  <2>2. QED
    BY <2>1, HiddenStep DEF Schedule, Goto
<1>4. CASE WaitBlock(current)
  BY <1>4, RunningFacts, HiddenStep DEF WaitBlock, Goto
<1>5. CASE WaitBack(current)
  BY <1>5, HiddenStep DEF WaitBack, Goto
<1>6. CASE WaitReap(current)
  BY <1>0, <1>6, ReapTree DEF Tree!Next
<1>7. CASE ExitLinks(current)
  BY <1>0, <1>7, ExitTree DEF Tree!Next
<1>8. CASE ExitZombie(current)
  <2>1. CASE current \in {idleproc, initproc}
    <3>1. UNCHANGED <<state, pc, parent>>
      BY <1>8, <2>1 DEF ExitZombie
    <3>2. QED
      BY <3>1, TreeStutter
  <2>2. CASE current \notin {idleproc, initproc}
    <3>1. /\ state' = [state EXCEPT ![current] = "ZOMBIE"]
          /\ pc' = [pc EXCEPT ![current] = "exit_links"]
          /\ parent' = parent /\ pc[current] = "exit"
      BY <1>8, <2>2 DEF ExitZombie, Goto
    <3>2. \A q \in Pid \ {current} : state'[q] = state[q] /\ pc'[q] = pc[q]
      BY <1>0, <3>1
    <3>3. state'[current] = "ZOMBIE" /\ pc'[current] = "exit_links" /\ state[current] = "RUNNABLE"
      BY <1>0, <3>1, RunningFacts
    <3>4. TreeStatus' = TreeStatus
      <4>1. TreeStatus'[current] = "live" /\ TreeStatus[current] = "live"
        BY <1>0, <3>3, TreeStatusAt
      <4>2. \A q \in Pid \ {current} : TreeStatus'[q] = TreeStatus[q]
        BY <3>2, TreeStatusAt
      <4>3. QED
        BY <4>1, <4>2, TreeStatusAt
    <3>5. QED
      BY <3>1, <3>4 DEF Tree!vars
  <2>3. QED
    BY <2>1, <2>2
<1>9. CASE InitDone(current)
  BY <1>9, TreeStutter DEF InitDone
<1>10. ASSUME NEW c \in Pid, InitFork(current, c)
       PROVE  [Tree!Next]_(Tree!vars)
  BY <1>0, <1>10, RunningFacts, ForkTree DEF InitFork, Tree!Next
<1>11. QED
  BY <1>1, <1>2, <1>3, <1>4, <1>5, <1>6, <1>7, <1>8, <1>9, <1>10 DEF KernelStep

(* proc.c implements the process tree: a process dies once, is reaped by   *)
(* its live parent only, and leaves its children to initproc.              *)
THEOREM Refinement == Spec => TreeSpec
<1>1. Init => Tree!Init
  <2> SUFFICES ASSUME Init PROVE Tree!Init
    OBVIOUS
  <2>1. \A q \in Pid : state[q] = IF q \in {idleproc, initproc} THEN "RUNNABLE" ELSE "FREE"
    BY DEF Init
  <2>2. TreeStatus = [q \in Pid |-> IF q \in {idleproc, initproc} THEN "live" ELSE "free"]
    BY <2>1, TreeStatusAt
  <2>3. QED
    BY <2>2 DEF Init, Tree!Init
<1>2. IndInv /\ [Next]_vars => [Tree!Next]_(Tree!vars)
  <2> SUFFICES ASSUME IndInv, [Next]_vars PROVE [Tree!Next]_(Tree!vars)
    OBVIOUS
  <2>1. CASE Tick
    <3>1. \A q \in Fired : state[q] \in {"SLEEPING", "RUNNABLE"}
      BY FiredAsleep
    <3>2. \A q \in Pid : state'[q] = IF q \in Fired THEN "RUNNABLE" ELSE state[q]
      BY <2>1 DEF Tick, Wakeup
    <3>3. \A q \in Pid : pc'[q] = "exit_links" <=> pc[q] = "exit_links"
      BY <2>1 DEF Tick, IndInv, TypeOK
    <3>4. parent' = parent
      BY <2>1 DEF Tick
    <3>5. QED
      BY <3>1, <3>2, <3>3, <3>4, TreeStutter
  <2>2. CASE Enter(current)
    BY <2>2, HiddenStep DEF Enter, Goto
  <2>3. CASE KernelStep(current)
    BY <2>3, KernelTree
  <2>4. CASE UNCHANGED vars
    BY <2>4, TreeStutter DEF vars
  <2>5. QED
    BY <2>1, <2>2, <2>3, <2>4 DEF Next, Halted
<1>3. QED
  BY <1>1, <1>2, Invariance, PTL DEF Spec, TreeSpec, Tree!Spec
=============================================================================
