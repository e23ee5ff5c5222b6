----------------------------- MODULE ThreadPool -----------------------------
(***************************************************************************)
(* The pool of 05myWebServer/01ThreadPool_test/threadPool.cc: workers take *)
(* tasks from a ring under one mutex and wait on one condition variable.   *)
(*                                                                         *)
(* What a thread does between taking the mutex and giving it up, or        *)
(* waiting on the condition, nobody else sees; it is one step.  The mutex  *)
(* has an owner between steps only when a call has returned without giving *)
(* it up, as two error returns do; nobody gets it after that.              *)
(***************************************************************************)
EXTENDS Naturals, Sequences, FiniteSets

CONSTANTS Worker,      \* the threads there may be
          Client,      \* threads that call the pool
          MAX_TASKS,   \* threadPool.h: the largest ring
          MaxTask,     \* bound: the tasks that are added
          NULL

ASSUME PoolAssumption ==
  /\ MAX_TASKS \in Nat \ {0}
  /\ MaxTask \in Nat
  /\ IsFiniteSet(Worker)
  /\ Client # {} /\ Worker \cap Client = {}
  /\ NULL \notin Worker \cup Client

VARIABLES tasks, tasks_size, task_head, task_tail, task_count,
          shutdown,
          tmutex,              \* who has it, or NULL
          thread_count,        \* the workers that are to be joined
          thread_start_count,
          pc,                  \* of a worker
          task,                \* the one it has taken
          creating,            \* threadpool_create has not returned
          joining,             \* who is in threadpool_destroy, past the broadcast
          joiner,              \* the one of them that joins the threads, or NULL
          freed,
          started,             \* history: the tasks in the order they are started
          added,               \* history: how many were added
          wild                 \* an entry beyond the ring has been read

queue == <<tasks, tasks_size, task_head, task_tail, task_count>>
ends == <<shutdown, joining, joiner, freed>>
threads == <<thread_count, thread_start_count, creating>>
vars == <<queue, ends, tmutex, threads, pc, task, started, added, wild>>

Task == 1..MaxTask

Created == {w \in Worker : pc[w] # "none"}

(* Tasks may call the pool as well.                                        *)
Caller == Client \cup {w \in Worker : pc[w] = "run"}

(* The library: what was read beyond the ring may do anything.             *)
Runs == ~wild /\ ~freed

(* threadpool_create, before the first thread.                             *)
Init ==
  /\ tasks_size \in 1..MAX_TASKS
  /\ tasks = [i \in 0..tasks_size-1 |-> NULL]
  /\ task_head = 0 /\ task_tail = 0 /\ task_count = 0
  /\ shutdown = FALSE
  /\ tmutex = NULL
  /\ thread_count = 0 /\ thread_start_count = 0
  /\ creating = TRUE
  /\ pc = [w \in Worker |-> "none"]
  /\ task = [w \in Worker |-> NULL]
  /\ joining = {} /\ joiner = NULL /\ freed = FALSE
  /\ started = <<>> /\ added = 0
  /\ wild = FALSE

(* One pthread_create with its two counts.                                 *)
CreateThread(w) ==
  /\ creating /\ pc[w] = "none"
  /\ pc' = [pc EXCEPT ![w] = "lock"]
  /\ thread_count' = thread_count + 1
  /\ thread_start_count' = thread_start_count + 1
  /\ UNCHANGED <<queue, ends, tmutex, creating, task, started, added, wild>>

(* All are created, or a pthread_create has failed; main does not look.    *)
Create ==
  /\ creating
  /\ creating' = FALSE
  /\ UNCHANGED <<queue, ends, tmutex, thread_count, thread_start_count, pc, task, started, added, wild>>
-----------------------------------------------------------------------------
(* pthread_cond_signal wakes one of those who wait, if there is one.       *)
Waiting == {w \in Worker : pc[w] = "wait"}

SignalMutant ==
  IF Waiting = {} \/ task_count > 0 THEN UNCHANGED pc
                                    ELSE \E w \in Waiting : pc' = [pc EXCEPT ![w] = "lock"]

NoSignal == UNCHANGED pc

Signal ==
  IF Waiting = {} THEN UNCHANGED pc
                  ELSE \E w \in Waiting : pc' = [pc EXCEPT ![w] = "lock"]

Add(c) ==
  /\ Runs /\ ~creating
  /\ c \in Caller \ joining /\ tmutex = NULL
  /\ added < MaxTask
  /\ task_count < tasks_size /\ ~shutdown
  /\ added' = added + 1
  /\ tasks' = [tasks EXCEPT ![task_tail] = added']
  /\ task_tail' = (task_tail + 1) % tasks_size
  /\ task_count' = task_count + 1
  /\ Signal
  /\ UNCHANGED <<tasks_size, task_head, ends, tmutex, threads, task, started, wild>>

(* THREADPOOL_TASKS_FULL and THREADPOOL_SHUTDOWN: c returns with tmutex.   *)
Refuse(c) ==
  /\ Runs /\ ~creating
  /\ c \in Caller \ joining /\ tmutex = NULL
  /\ task_count = tasks_size \/ shutdown
  /\ tmutex' = c
  /\ UNCHANGED <<queue, ends, threads, pc, task, started, added, wild>>
-----------------------------------------------------------------------------
(* threadpool_thread, from pthread_mutex_lock or from the wake-up in       *)
(* pthread_cond_wait: nothing to do,                                       *)
Await(w) ==
  /\ Runs /\ pc[w] = "lock" /\ tmutex = NULL
  /\ task_count = 0 /\ ~shutdown
  /\ pc' = [pc EXCEPT ![w] = "wait"]
  /\ UNCHANGED <<queue, ends, tmutex, threads, task, started, added, wild>>

(* the end,                                                                *)
Quit(w) ==
  /\ Runs /\ pc[w] = "lock" /\ tmutex = NULL
  /\ shutdown
  /\ pc' = [pc EXCEPT ![w] = "done"]
  /\ thread_start_count' = thread_start_count - 1
  /\ UNCHANGED <<queue, ends, tmutex, thread_count, creating, task, started, added, wild>>

(* or a task.  task_head goes round at MAX_TASKS, not at tasks_size.       *)
HeadMutant == (task_head + 1) % (MAX_TASKS - 1)

NextHead == (task_head + 1) % MAX_TASKS

TakeTask(w) ==
  /\ Runs /\ pc[w] = "lock" /\ tmutex = NULL
  /\ task_count > 0 /\ ~shutdown
  /\ task_head < tasks_size
  /\ task' = [task EXCEPT ![w] = tasks[task_head]]
  /\ tasks' = [tasks EXCEPT ![task_head] = NULL]
  /\ task_head' = NextHead
  /\ task_count' = task_count - 1
  /\ started' = Append(started, tasks[task_head])
  /\ pc' = [pc EXCEPT ![w] = "run"]
  /\ UNCHANGED <<tasks_size, task_tail, ends, tmutex, threads, added, wild>>

TakeBeyond(w) ==
  /\ Runs /\ pc[w] = "lock" /\ tmutex = NULL
  /\ task_count > 0 /\ ~shutdown
  /\ task_head >= tasks_size
  /\ wild' = TRUE
  /\ UNCHANGED <<queue, ends, tmutex, threads, pc, task, started, added>>

(* The task returns, and the loop is back at pthread_mutex_lock.           *)
Return(w) ==
  /\ Runs /\ pc[w] = "run"
  /\ pc' = [pc EXCEPT ![w] = "lock"]
  /\ task' = [task EXCEPT ![w] = NULL]
  /\ UNCHANGED <<queue, ends, tmutex, threads, started, added, wild>>

(* pthread_cond_wait may return unasked.                                   *)
Spurious(w) ==
  /\ Runs /\ pc[w] = "wait"
  /\ pc' = [pc EXCEPT ![w] = "lock"]
  /\ UNCHANGED <<queue, ends, tmutex, threads, task, started, added, wild>>
-----------------------------------------------------------------------------
(* threadpool_destroy(_shutdown), to its first pthread_join.  It is let in *)
(* as long as shutdown is 0, a destroy(0) that joins or not.               *)
BroadcastMutant ==
  IF Waiting = {} THEN UNCHANGED pc
                  ELSE \E w \in Waiting : pc' = [pc EXCEPT ![w] = "lock"]

Broadcast ==
  pc' = [w \in Worker |-> IF w \in Waiting THEN "lock" ELSE pc[w]]

Destroy(c, _shutdown) ==
  /\ Runs /\ ~creating
  /\ c \in Client \ joining /\ tmutex = NULL
  /\ ~shutdown
  /\ shutdown' = _shutdown
  /\ Broadcast
  /\ joining' = joining \cup {c}
  /\ UNCHANGED <<queue, joiner, freed, tmutex, threads, task, started, added, wild>>

(* THREADPOOL_SHUTDOWN: again c returns with tmutex.                       *)
DestroyAgain(c) ==
  /\ Runs /\ c \in Client \ joining /\ tmutex = NULL
  /\ shutdown
  /\ tmutex' = c
  /\ UNCHANGED <<queue, ends, threads, pc, task, started, added, wild>>

(* Its pthread_joins: who comes first joins all the threads.               *)
StartJoin(c) ==
  /\ Runs /\ c \in joining /\ joiner = NULL
  /\ joiner' = c
  /\ UNCHANGED <<queue, shutdown, joining, freed, tmutex, threads, pc, task, started, added, wild>>

(* A thread that another joins, or has joined, gives an error (POSIX does  *)
(* not define it; glibc has one joiner): THREADPOOL_THREAD_FAILURE, before *)
(* threadpool_free.                                                        *)
JoinFails(c) ==
  /\ Runs /\ c \in joining /\ joiner \notin {NULL, c}
  /\ Created # {}
  /\ joining' = joining \ {c}
  /\ UNCHANGED <<queue, shutdown, joiner, freed, tmutex, threads, pc, task, started, added, wild>>

(* The last pthread_join, and threadpool_free.                             *)
Join ==
  /\ Runs /\ joiner # NULL
  /\ \A w \in Created : pc[w] = "done"
  /\ joining' = joining \ {joiner} /\ joiner' = NULL
  /\ freed' = (thread_start_count = 0)
  /\ UNCHANGED <<queue, shutdown, tmutex, threads, pc, task, started, added, wild>>

Next ==
  \/ Create \/ Join
  \/ \E w \in Worker :
       \/ CreateThread(w) \/ Await(w) \/ Quit(w) \/ TakeTask(w) \/ TakeBeyond(w)
       \/ Return(w) \/ Spurious(w)
  \/ \E c \in Client \cup Worker : Add(c) \/ Refuse(c)
  \/ \E c \in Client : \/ DestroyAgain(c) \/ StartJoin(c) \/ JoinFails(c)
                       \/ \E s \in BOOLEAN : Destroy(c, s)

Spec == Init /\ [][Next]_vars

(* Some thread gets a mutex that is free, the tasks return, and those in   *)
(* threadpool_destroy go on.                                               *)
Look(w) == Await(w) \/ Quit(w) \/ TakeTask(w) \/ TakeBeyond(w)

FairSpec ==
  /\ Spec
  /\ WF_vars(\E w \in Worker : Look(w))
  /\ WF_vars(\E c \in Client : StartJoin(c)) /\ WF_vars(Join)
  /\ \A w \in Worker : WF_vars(Return(w))
-----------------------------------------------------------------------------
TypeOK ==
  /\ tasks_size \in 1..MAX_TASKS
  /\ tasks \in [0..tasks_size-1 -> Task \cup {NULL}]
  /\ task_head \in 0..MAX_TASKS-1
  /\ task_tail \in 0..tasks_size-1
  /\ task_count \in 0..tasks_size
  /\ shutdown \in BOOLEAN
  /\ tmutex \in Client \cup Worker \cup {NULL}
  /\ thread_count \in Nat
  /\ thread_start_count \in 0..thread_count
  /\ added \in 0..MaxTask
  /\ pc \in [Worker -> {"none", "lock", "wait", "run", "done"}]
  /\ task \in [Worker -> Task \cup {NULL}]
  /\ joining \subseteq Client
  /\ joiner \in joining \cup {NULL}

(* No signal is lost: while a worker waits, as many others are on their    *)
(* way to the mutex as there are tasks, although a signal may go to nobody *)
(* and a task to a worker that was not signalled; and nobody waits in a    *)
(* pool that is shut down, which would hold up threadpool_destroy.         *)
NoLostTask ==
  /\ TypeOK
  /\ Waiting # {} =>
       ~shutdown /\ task_count <= Cardinality({w \in Worker : pc[w] = "lock"})

(* The ring is the queue of TaskQueue until an entry beyond it is read:    *)
(* tasks start once, in the order they were added, and none after          *)
(* threadpool_destroy has begun.                                           *)
Pool == INSTANCE TaskQueue WITH
  queue <- [i \in 1..task_count |-> tasks[(task_head + i - 1) % tasks_size]],
  open <- ~shutdown

PoolSpec == Pool!Spec

(* When the mutex has been kept, or the ring left, all bets are off.       *)
Broken == tmutex # NULL \/ wild

(* A task that threadpool_add accepted is started, unless the pool is shut *)
(* down first.                                                             *)
TaskStarts ==
  \A t \in Task :
    (added >= t /\ Created # {}) ~> (Len(started) >= t \/ shutdown \/ Broken)

(* Once threadpool_destroy(1) has been let in, every worker is woken and   *)
(* joined, and threadpool_free finds none running, whatever each was doing,*)
(* although a destroy(0) that waits for them may be the one that joins.    *)
DestroyFrees == (joining # {} /\ shutdown) ~> (freed \/ Broken)
=============================================================================
