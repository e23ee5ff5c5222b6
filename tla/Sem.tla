-------------------------------- MODULE Sem ---------------------------------
(***************************************************************************)
(* Semaphores between kernel threads: kern/sync/sem.c on the wait queues   *)
(* of kern/sync/wait.c.  up() hands the semaphore to the first waiter, so  *)
(* value stays 0 while anybody waits.                                      *)
(*                                                                         *)
(* The kernel is not preemptible: the running thread goes on until it      *)
(* sleeps, and the timer interrupt only makes sleepers of do_sleep         *)
(* runnable.  WT_KSEM lacks WT_INTERRUPTED, so do_kill wakes nobody here.  *)
(*                                                                         *)
(* The operators are steps of the running thread t, to be used in the      *)
(* actions of a module that has the threads' program.                      *)
(***************************************************************************)
EXTENDS Naturals, Sequences, FiniteSets

CONSTANTS Thread, Semaphore, NULL

VARIABLES value,        \* sem->value
          wait_queue,   \* sem->wait_queue, the waiting threads in order
          tstate,       \* "ready", "ksem" or "timer" (asleep), "gone"
          running       \* the thread that has the CPU, or NULL

SemTypeOK ==
  /\ value \in [Semaphore -> Nat]
  /\ wait_queue \in [Semaphore -> Seq(Thread)]
  /\ tstate \in [Thread -> {"ready", "ksem", "timer", "gone"}]
  /\ running \in Thread \cup {NULL}

(* sem_init with the values v; the threads are forked and have not run.    *)
SemInit(v) ==
  /\ value = v
  /\ wait_queue = [s \in Semaphore |-> <<>>]
  /\ tstate = [t \in Thread |-> "ready"]
  /\ running = NULL

UpMutant(s) ==
  /\ value' = [value EXCEPT ![s] = @ + 1]
  /\ IF wait_queue[s] = <<>>
       THEN UNCHANGED <<wait_queue, tstate>>
       ELSE /\ wait_queue' = [wait_queue EXCEPT ![s] = Tail(@)]
            /\ tstate' = [tstate EXCEPT ![Head(wait_queue[s])] = "ready"]
  /\ UNCHANGED running

WakeMutant(s) ==
  /\ IF wait_queue[s] = <<>>
       THEN value' = [value EXCEPT ![s] = @ + 1] /\ UNCHANGED tstate
       ELSE /\ tstate' = [tstate EXCEPT ![Head(wait_queue[s])] = "ready"]
            /\ UNCHANGED value
  /\ UNCHANGED <<wait_queue, running>>

Up(s) ==
  /\ IF wait_queue[s] = <<>>
       THEN /\ value' = [value EXCEPT ![s] = @ + 1]
            /\ UNCHANGED <<wait_queue, tstate>>
       ELSE /\ wait_queue' = [wait_queue EXCEPT ![s] = Tail(@)]
            /\ tstate' = [tstate EXCEPT ![Head(wait_queue[s])] = "ready"]
            /\ UNCHANGED value
  /\ UNCHANGED running

(* down: t goes on, or waits at the end of the queue and gives up the CPU; *)
(* it goes on when it is dispatched again.                                 *)
Down(t, s) ==
  IF value[s] > 0
    THEN /\ value' = [value EXCEPT ![s] = @ - 1]
         /\ UNCHANGED <<wait_queue, tstate, running>>
    ELSE /\ wait_queue' = [wait_queue EXCEPT ![s] = Append(@, t)]
         /\ tstate' = [tstate EXCEPT ![t] = "ksem"]
         /\ running' = NULL
         /\ UNCHANGED value

(* do_sleep, and the return of the thread's function into do_exit.         *)
Leave(t, st) ==
  /\ tstate' = [tstate EXCEPT ![t] = st]
  /\ running' = NULL
  /\ UNCHANGED <<value, wait_queue>>

(* schedule() picks t. *)
Dispatch(t) ==
  /\ running = NULL
  /\ tstate[t] = "ready"
  /\ running' = t
  /\ UNCHANGED <<value, wait_queue, tstate>>

(* The timer interrupt ends t's do_sleep. *)
Fire(t) ==
  /\ tstate[t] = "timer"
  /\ tstate' = [tstate EXCEPT ![t] = "ready"]
  /\ UNCHANGED <<value, wait_queue, running>>

(* wait_current_set and wakeup_wait keep the queues and the states of the  *)
(* threads together: who waits is asleep in WT_KSEM, in one queue, once;   *)
(* and nobody waits on a semaphore that is not 0.                          *)
Waiting(t, s) == \E i \in DOMAIN wait_queue[s] : wait_queue[s][i] = t

QueuesOK ==
  /\ \A t \in Thread : tstate[t] = "ksem" <=> \E s \in Semaphore : Waiting(t, s)
  /\ \A s, r \in Semaphore :
       \A i \in DOMAIN wait_queue[s], j \in DOMAIN wait_queue[r] :
         wait_queue[s][i] = wait_queue[r][j] => s = r /\ i = j
  /\ \A s \in Semaphore : value[s] > 0 => wait_queue[s] = <<>>
  /\ running # NULL => tstate[running] = "ready"
=============================================================================
