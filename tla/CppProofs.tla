-------------------------- MODULE CppProofs --------------------------
(***************************************************************************)
(* The programs with threads in C++: the pool of threads, the reactor of   *)
(* the web server, and its log, for any instance of each.  They share no   *)
(* state and no definition of their proofs.                                *)
(*                                                                         *)
(* The pool.  NoLostTask is inductive but for a type: thread_start_count   *)
(* stays in Nat because it counts the workers that have not quit           *)
(* (StartedOK).  The tasks in the ring are a queue because task_tail is    *)
(* always task_count entries beyond task_head (RingInv).                   *)
(*                                                                         *)
(* The reactor.  The properties speak of a loop that waits.  What every    *)
(* step keeps, Inv, says what holds in between: Threads of the order in    *)
(* which the two threads add, wake and take; Descriptors of numbers that   *)
(* are used again; Place of where a connection may be, and who refers to   *)
(* it; and Watch of what a handler has still to do for the events that     *)
(* epoll has reported.                                                     *)
(*                                                                         *)
(* The log.  Both of its properties rest on Roles: append can only have    *)
(* used nextBuffer_ up if there is a full buffer, and then the logging     *)
(* thread has two to take back.                                            *)
(***************************************************************************)
EXTENDS ThreadPool, SequenceFacts, FiniteSetTheorems, TLAPS

USE PoolAssumption

Looking == {w \in Worker : pc[w] = "lock"}

Alive == {w \in Worker : pc[w] \in {"lock", "wait", "run"}}

StartedOK == thread_start_count = Cardinality(Alive)

PoolInv ==
  /\ NoLostTask
  /\ StartedOK

(* Sets of workers are finite.                                             *)
LEMMA Finite ==
  ASSUME NEW S \in SUBSET Worker
  PROVE  IsFiniteSet(S) /\ Cardinality(S) \in Nat
BY FS_Subset, FS_CardinalityType

(* One worker more, or less, in a set.                                     *)
LEMMA OneMore ==
  ASSUME NEW S \in SUBSET Worker, NEW w \in Worker, w \notin S
  PROVE  Cardinality(S \cup {w}) = Cardinality(S) + 1
BY Finite, FS_AddElement

(* One worker less.                                                        *)
LEMMA OneLess ==
  ASSUME NEW S \in SUBSET Worker, NEW w \in S
  PROVE  Cardinality(S \ {w}) = Cardinality(S) - 1
BY Finite, FS_RemoveElement

(* w goes from one place to another.                                       *)
LEMMA Moves ==
  ASSUME TypeOK, NEW w \in Worker,
         NEW to \in {"none", "lock", "wait", "run", "done"},
         pc' = [pc EXCEPT ![w] = to]
  PROVE  /\ pc' \in [Worker -> {"none", "lock", "wait", "run", "done"}]
         /\ Waiting' = IF to = "wait" THEN Waiting \cup {w} ELSE Waiting \ {w}
         /\ Looking' = IF to = "lock" THEN Looking \cup {w} ELSE Looking \ {w}
         /\ Alive' = IF to \in {"lock", "wait", "run"} THEN Alive \cup {w} ELSE Alive \ {w}
BY DEF TypeOK, Waiting, Looking, Alive

(* Nobody waits yet.                                                       *)
LEMMA PoolInit == Init => PoolInv
<1> SUFFICES ASSUME Init PROVE PoolInv
  OBVIOUS
<1>1. TypeOK
  <2>1. /\ tasks_size \in 1..MAX_TASKS /\ task_count = 0 /\ task_head = 0 /\ task_tail = 0
        /\ thread_count = 0 /\ thread_start_count = 0 /\ added = 0
    BY DEF Init
  <2>2. tasks \in [0..tasks_size-1 -> Task \cup {NULL}] /\ task \in [Worker -> Task \cup {NULL}]
    BY DEF Init
  <2>3. /\ pc \in [Worker -> {"none", "lock", "wait", "run", "done"}]
        /\ shutdown \in BOOLEAN /\ tmutex = NULL /\ joining = {} /\ joiner = NULL
    BY DEF Init
  <2>4. QED
    BY <2>1, <2>2, <2>3 DEF TypeOK
<1>2. Waiting = {} /\ Alive = {}
  BY DEF Init, Waiting, Alive
<1>3. StartedOK
  BY <1>2, FS_EmptySet DEF Init, StartedOK
<1>4. QED
  BY <1>1, <1>2, <1>3 DEF PoolInv, NoLostTask

(* What NoLostTask says besides the types.                                 *)
NoLost == Waiting # {} => ~shutdown /\ task_count <= Cardinality(Looking)

(* What the two sets of NoLostTask are made of.                            *)
LEMMA Parts ==
  /\ PoolInv <=> TypeOK /\ NoLost /\ StartedOK
  /\ PoolInv' <=> TypeOK' /\ NoLost' /\ StartedOK'
BY DEF PoolInv, NoLostTask, NoLost, Looking

(* How a step keeps it: if somebody waits then, somebody waited before, and *)
(* as many tasks as workers have come to be on their way.                  *)
LEMMA NoLostKept ==
  ASSUME NoLost,
         Waiting' # {} => Waiting # {},
         Waiting # {} => shutdown' = shutdown,
         NEW n \in Nat, NEW d \in Int,
         task_count = n, task_count' <= n + d,
         Cardinality(Looking) \in Nat, Cardinality(Looking') = Cardinality(Looking) + d,
         task_count' \in Nat
  PROVE  NoLost'
<1>1. ASSUME Waiting' # {} PROVE ~shutdown'
  BY <1>1, Zenon DEF NoLost
<1>2. ASSUME Waiting' # {} PROVE task_count' <= Cardinality(Looking')
  <2>1. n <= Cardinality(Looking)
    BY <1>2 DEF NoLost
  <2>2. QED
    BY <2>1
<1>3. QED
  BY <1>1, <1>2 DEF NoLost

(* The steps that leave the workers, the queue's length and shutdown alone.*)
LEMMA Idle ==
  ASSUME PoolInv, UNCHANGED <<pc, task_count, shutdown, thread_start_count>>, TypeOK'
  PROVE  PoolInv'
BY Parts DEF NoLost, StartedOK, Waiting, Looking, Alive

(* A step in which w comes to look for a task.                             *)
LEMMA ComesToLook ==
  ASSUME PoolInv, NEW w \in Worker, pc[w] \in {"wait", "run"},
         pc' = [pc EXCEPT ![w] = "lock"],
         UNCHANGED <<task_count, shutdown, thread_start_count>>, TypeOK'
  PROVE  PoolInv'
<1> USE Parts
<1>1. Waiting' \subseteq Waiting /\ Looking' = Looking \cup {w} /\ Alive' = Alive
  BY Moves DEF Waiting, Alive
<1>2. w \notin Looking
  BY DEF Looking
<1>3. Cardinality(Looking') = Cardinality(Looking) + 1 /\ Cardinality(Looking) \in Nat
  BY <1>1, <1>2, OneMore, Finite DEF Looking
<1>4. NoLost'
  <2>1. task_count \in Nat /\ task_count' \in Nat
    BY DEF TypeOK
  <2>2. (Waiting' # {} => Waiting # {}) /\ shutdown' = shutdown
    BY <1>1
  <2>3. task_count' <= task_count + 1
    BY <2>1
  <2>4. QED
    BY <2>1, <2>2, <2>3, <1>3, NoLostKept
<1>5. QED
  BY <1>1, <1>4 DEF StartedOK

(* One lemma per step, or per group of steps that do the same to both.     *)
LEMMA CreateThreadInv ==
  ASSUME PoolInv, NEW w \in Worker, CreateThread(w)
  PROVE  PoolInv'
<1> USE Parts
<1>1. pc[w] = "none" /\ pc' = [pc EXCEPT ![w] = "lock"]
  BY DEF CreateThread
<1>2. TypeOK'
  BY Moves, <1>1 DEF TypeOK, CreateThread, queue, ends
<1>3. /\ Waiting' = Waiting \ {w}
      /\ Looking' = Looking \cup {w} /\ w \notin Looking
      /\ Alive' = Alive \cup {w} /\ w \notin Alive
  BY Moves, <1>1 DEF Looking, Alive
<1>4. /\ Cardinality(Looking') = Cardinality(Looking) + 1 /\ Cardinality(Looking) \in Nat
      /\ Cardinality(Alive') = Cardinality(Alive) + 1
  BY <1>3, OneMore, Finite DEF Looking, Alive
<1>5. /\ task_count' = task_count /\ shutdown' = shutdown
      /\ thread_start_count' = thread_start_count + 1
  BY DEF CreateThread, queue, ends
<1>6. NoLost'
  BY <1>3, <1>4, <1>5 DEF NoLost, TypeOK
<1>7. StartedOK'
  BY <1>4, <1>5 DEF StartedOK
<1>8. QED
  BY <1>2, <1>6, <1>7

(* threadpool_add: one task more, and one worker more on its way to it, if *)
(* any waits.                                                              *)
LEMMA AddInv ==
  ASSUME PoolInv, NEW c, Add(c)
  PROVE  PoolInv'
<1> USE Parts
<1>1. /\ task_count' = task_count + 1 /\ task_count < tasks_size
      /\ shutdown' = shutdown /\ thread_start_count' = thread_start_count /\ Signal
  BY DEF Add, ends, threads
<1>2. /\ added' = added + 1 /\ added < MaxTask
      /\ tasks' = [tasks EXCEPT ![task_tail] = added']
      /\ task_tail' = (task_tail + 1) % tasks_size
      /\ UNCHANGED <<tasks_size, task_head, tmutex, thread_count, task, joining, joiner>>
  BY DEF Add, ends, threads
<1>3. task_tail' \in 0..tasks_size-1 /\ added' \in 0..MaxTask /\ added' \in Task
  <2>1. /\ tasks_size \in Nat \ {0} /\ task_tail \in Nat /\ added \in Nat
    BY DEF TypeOK
  <2>2. task_tail' \in 0..tasks_size-1
    BY <1>2, <2>1
  <2>3. added' \in 0..MaxTask /\ added' \in Task
    BY <1>2, <2>1 DEF Task
  <2>4. QED
    BY <2>2, <2>3
<1>4. ASSUME pc' \in [Worker -> {"none", "lock", "wait", "run", "done"}]
      PROVE  TypeOK'
  <2>1. tasks' \in [0..tasks_size'-1 -> Task \cup {NULL}]
    BY <1>2, <1>3 DEF TypeOK
  <2>2. task_count' \in 0..tasks_size'
    <3>1. task_count \in Nat /\ tasks_size \in Nat
      BY DEF TypeOK
    <3>2. QED
      BY <3>1, <1>1, <1>2
  <2>3. /\ tasks_size' \in 1..MAX_TASKS /\ task_head' \in 0..MAX_TASKS-1
        /\ shutdown' \in BOOLEAN /\ tmutex' \in Client \cup Worker \cup {NULL}
        /\ thread_count' \in Nat /\ thread_start_count' \in 0..thread_count'
        /\ task' \in [Worker -> Task \cup {NULL}]
        /\ joining' \subseteq Client /\ joiner' \in joining' \cup {NULL}
    BY <1>1, <1>2, Zenon DEF TypeOK
  <2>4. task_tail' \in 0..tasks_size'-1
    BY <1>2, <1>3
  <2>5. QED
    BY <1>3, <1>4, <2>1, <2>2, <2>3, <2>4, Zenon DEF TypeOK
<1>5. CASE Waiting = {}
  <2>1. pc' = pc
    BY <1>1, <1>5 DEF Signal
  <2>2. QED
    BY <2>1, <1>1, <1>4, <1>5 DEF TypeOK, NoLost, StartedOK, Waiting, Alive
<1>6. CASE Waiting # {}
  <2>1. PICK w \in Waiting : pc' = [pc EXCEPT ![w] = "lock"]
    BY <1>1, <1>6 DEF Signal
  <2>2. w \in Worker /\ pc[w] = "wait"
    BY DEF Waiting
  <2>3. /\ TypeOK'
        /\ Waiting' = Waiting \ {w}
        /\ Looking' = Looking \cup {w} /\ w \notin Looking
        /\ Alive' = Alive
    BY <1>4, <2>1, <2>2, Moves DEF Looking, Alive
  <2>4. Cardinality(Looking') = Cardinality(Looking) + 1 /\ Cardinality(Looking) \in Nat
    BY <2>2, <2>3, OneMore, Finite DEF Looking
  <2>5. NoLost'
    <3>1. task_count \in Nat /\ task_count' \in Nat
      BY <1>1 DEF TypeOK
    <3>2. task_count' <= task_count + 1
      BY <1>1, <3>1
    <3>3. QED
      BY <3>1, <3>2, <2>4, <1>1, <1>6, NoLostKept
  <2>6. StartedOK'
    BY <2>3, <1>1 DEF StartedOK
  <2>7. QED
    BY <2>3, <2>5, <2>6
<1>7. QED
  BY <1>5, <1>6

(* A worker waits when there is no task.                                   *)
LEMMA AwaitInv ==
  ASSUME PoolInv, NEW w \in Worker, Await(w)
  PROVE  PoolInv'
<1> USE Parts
<1>1. /\ pc[w] = "lock" /\ pc' = [pc EXCEPT ![w] = "wait"]
      /\ task_count = 0 /\ ~shutdown
      /\ UNCHANGED <<task_count, shutdown, thread_start_count>>
  BY DEF Await, queue, ends, threads
<1>2. TypeOK'
  BY <1>1, Moves DEF Await, queue, ends, threads, TypeOK
<1>3. Alive' = Alive /\ Looking' \subseteq Worker
  BY <1>1, Moves DEF Alive, Looking
<1>4. Cardinality(Looking') \in Nat
  BY <1>3, Finite
<1>5. QED
  BY <1>1, <1>2, <1>3, <1>4 DEF NoLost, StartedOK

(* A worker quits, which it does in a pool that is shut down only.         *)
LEMMA QuitInv ==
  ASSUME PoolInv, NEW w \in Worker, Quit(w)
  PROVE  PoolInv'
<1> USE Parts
<1>1. /\ pc[w] = "lock" /\ pc' = [pc EXCEPT ![w] = "done"]
      /\ shutdown /\ shutdown' = shutdown
      /\ thread_start_count' = thread_start_count - 1
  BY DEF Quit, queue, ends
<1>2. Alive' = Alive \ {w} /\ w \in Alive /\ Waiting' \subseteq Waiting
  BY <1>1, Moves DEF Alive
<1>3. Cardinality(Alive') = Cardinality(Alive) - 1 /\ Cardinality(Alive') \in Nat
  BY <1>2, OneLess, Finite DEF Alive
<1>4. StartedOK' /\ thread_start_count' \in Nat
  BY <1>1, <1>3 DEF StartedOK
<1>5. TypeOK'
  BY <1>1, <1>4, Moves DEF Quit, queue, ends, TypeOK
<1>6. NoLost'
  BY <1>1, <1>2 DEF NoLost
<1>7. QED
  BY <1>4, <1>5, <1>6

(* A worker takes a task: one task less and one worker less on its way.    *)
LEMMA TakeTaskInv ==
  ASSUME PoolInv, NEW w \in Worker, TakeTask(w)
  PROVE  PoolInv'
<1> USE Parts
<1>1. /\ pc[w] = "lock" /\ pc' = [pc EXCEPT ![w] = "run"]
      /\ task_count > 0 /\ task_count' = task_count - 1
      /\ UNCHANGED <<shutdown, thread_start_count>>
  BY DEF TakeTask, ends, threads
<1>2. TypeOK'
  <2>1. task_head' \in 0..MAX_TASKS-1
    <3>1. task_head' = (task_head + 1) % MAX_TASKS
      BY Zenon DEF TakeTask, NextHead
    <3>2. task_head \in Nat /\ MAX_TASKS \in Nat \ {0}
      BY PoolAssumption DEF TypeOK
    <3>3. QED
      BY <3>1, <3>2
  <2>2. tasks' \in [0..tasks_size'-1 -> Task \cup {NULL}]
    <3>1. tasks' = [tasks EXCEPT ![task_head] = NULL] /\ tasks_size' = tasks_size
      BY Zenon DEF TakeTask
    <3>2. QED
      BY <3>1 DEF TypeOK
  <2>3. task' \in [Worker -> Task \cup {NULL}]
    BY DEF TakeTask, TypeOK
  <2>4. UNCHANGED <<tasks_size, task_tail, tmutex, thread_count, added, joining, joiner>>
    BY DEF TakeTask, ends, threads
  <2>5. QED
    <3>1. pc' \in [Worker -> {"none", "lock", "wait", "run", "done"}]
      BY <1>1, Moves
    <3>2. task_count' \in 0..tasks_size'
      BY <1>1, <2>4 DEF TypeOK
    <3>3. QED
      BY <1>1, <2>1, <2>2, <2>3, <2>4, <3>1, <3>2 DEF TypeOK
<1>3. /\ Waiting' \subseteq Waiting /\ Alive' = Alive
      /\ Looking' = Looking \ {w} /\ w \in Looking
  <2>1. w \in Looking /\ w \in Alive
    BY <1>1 DEF Alive, Looking
  <2>2. Waiting' = Waiting \ {w} /\ Looking' = Looking \ {w} /\ Alive' = Alive \cup {w}
    BY <1>1, Moves
  <2>3. QED
    BY <2>1, <2>2
<1>4. Cardinality(Looking') = Cardinality(Looking) - 1 /\ Cardinality(Looking) \in Nat
  BY <1>3, OneLess, Finite DEF Looking
<1>5. NoLost'
  <2>1. task_count \in Nat /\ task_count' \in Nat
    BY <1>1 DEF TypeOK
  <2>2. Waiting' # {} => Waiting # {}
    BY <1>3
  <2>3. task_count' <= task_count + (-1) /\ Cardinality(Looking') = Cardinality(Looking) + (-1)
    BY <1>1, <1>4, <2>1
  <2>4. QED
    BY <2>1, <2>2, <2>3, <1>1, <1>4, NoLostKept
<1>6. QED
  BY <1>1, <1>2, <1>3, <1>5 DEF StartedOK

(* threadpool_destroy leaves nobody waiting.                               *)
LEMMA DestroyInv ==
  ASSUME PoolInv, NEW c, NEW s \in BOOLEAN, Destroy(c, s)
  PROVE  PoolInv'
<1> USE Parts
<1>1. /\ pc' = [w \in Worker |-> IF w \in Waiting THEN "lock" ELSE pc[w]]
      /\ thread_start_count' = thread_start_count
  BY DEF Destroy, Broadcast, threads
<1>2. TypeOK'
  BY <1>1 DEF Destroy, queue, threads, TypeOK
<1>3. Waiting' = {} /\ Alive' = Alive
  BY <1>1 DEF Waiting, Alive, TypeOK
<1>4. QED
  BY <1>1, <1>2, <1>3 DEF NoLost, StartedOK

(* The steps that touch neither tasks nor waiting workers.                 *)
LEMMA OtherSteps ==
  ASSUME PoolInv,
         \/ Create \/ Join \/ UNCHANGED vars
         \/ \E w \in Worker : TakeBeyond(w)
         \/ \E c \in Client \cup Worker : Refuse(c)
         \/ \E c \in Client : DestroyAgain(c) \/ StartJoin(c) \/ JoinFails(c)
  PROVE  PoolInv'
<1> USE Parts
<1>1. UNCHANGED <<pc, task_count, shutdown, thread_start_count>>
  BY DEF Create, Join, TakeBeyond, Refuse, DestroyAgain, StartJoin, JoinFails,
     vars, queue, ends, threads
<1>2. TypeOK'
  BY DEF TypeOK, Create, Join, TakeBeyond, Refuse, DestroyAgain, StartJoin, JoinFails,
     vars, queue, ends, threads
<1>3. QED
  BY <1>1, <1>2, Idle

(* No signal is lost, whoever is signalled and whoever takes the task.     *)
THEOREM NoTaskLost == Spec => []NoLostTask
<1>1. PoolInv /\ [Next]_vars => PoolInv'
  <2> SUFFICES ASSUME PoolInv, [Next]_vars PROVE PoolInv'
    OBVIOUS
  <2>1. ASSUME NEW w \in Worker, Return(w) \/ Spurious(w) PROVE PoolInv'
    <3>1. /\ pc[w] \in {"wait", "run"} /\ pc' = [pc EXCEPT ![w] = "lock"]
          /\ UNCHANGED <<task_count, shutdown, thread_start_count>>
      BY <2>1 DEF Return, Spurious, queue, ends, threads
    <3>2. TypeOK'
      BY <2>1, Moves, Parts DEF Return, Spurious, queue, ends, threads, TypeOK
    <3>3. QED
      BY <3>1, <3>2, ComesToLook
  <2>2. QED
    BY <2>1, CreateThreadInv, AddInv, AwaitInv, QuitInv, TakeTaskInv, DestroyInv,
       OtherSteps
    DEF Next
<1>2. QED
  BY PoolInit, <1>1, PTL DEF Spec, PoolInv

-----------------------------------------------------------------------------
(* The ring as a queue *)

(* The k tasks from h on, in a ring t of n entries.                        *)
Entry(h, i, n) == (h + i - 1) % n
Ring(t, h, k, n) == [i \in 1..k |-> t[Entry(h, i, n)]]

(* Where they are.                                                         *)
Holding(S, r, t, h, k, n) ==
  /\ r \in Seq(S) /\ Len(r) = k
  /\ \A i \in 1..k :
       /\ r[i] = t[Entry(h, i, n)]
       /\ Entry(h, i, n) \in 0..n-1
       /\ Entry(h, i, n) = IF h + i - 1 < n THEN h + i - 1 ELSE h + i - 1 - n

(* No position is more than one round beyond the start.                    *)
LEMMA RingFacts ==
  ASSUME NEW S, NEW n \in Nat, n > 0, NEW t \in [0..n-1 -> S], NEW h \in 0..n, NEW k \in 0..n
  PROVE  Holding(S, Ring(t, h, k, n), t, h, k, n)
<1>1. ASSUME NEW i \in 1..k
      PROVE  /\ Entry(h, i, n) \in 0..n-1
             /\ Entry(h, i, n) = IF h + i - 1 < n THEN h + i - 1 ELSE h + i - 1 - n
  <2> DEFINE x == h + i - 1
  <2>1. x \in Nat /\ x < n + n
    OBVIOUS
  <2> HIDE DEF x
  <2>2. x % n = IF x < n THEN x ELSE x - n
    BY <2>1, Wrap
  <2>3. x % n \in 0..n-1
    BY <2>1, <2>2
  <2>4. QED
    BY <2>2, <2>3 DEF x, Entry
<1>2. ASSUME NEW i \in 1..k PROVE t[Entry(h, i, n)] \in S
  <2> DEFINE y == Entry(h, i, n)
  <2>1. y \in 0..n-1
    BY <1>1
  <2> HIDE DEF y
  <2>2. t[y] \in S
    BY <2>1
  <2>3. QED
    BY <2>2 DEF y
<1>3. Ring(t, h, k, n) \in [1..k -> S]
  BY <1>2 DEF Ring
<1>4. k \in Nat
  OBVIOUS
<1>5. Ring(t, h, k, n) \in Seq(S) /\ Len(Ring(t, h, k, n)) = k
  <2> DEFINE s == Ring(t, h, k, n)
  <2>1. s \in [1..k -> S]
    BY <1>3
  <2> HIDE DEF s
  <2>2. s \in Seq(S) /\ Len(s) = k
    BY <1>4, <2>1
  <2>3. QED
    BY <2>2 DEF s
<1>6. QED
  BY <1>1, <1>3, <1>5 DEF Ring, Holding

(* One task more at the end,                                               *)
TaskPut(n, t, h, k, v, last) ==
  /\ last \in 0..n-1 /\ (last + 1) % n = (h + k + 1) % n
  /\ Ring([t EXCEPT ![last] = v], h, k + 1, n) = Append(Ring(t, h, k, n), v)

(* The entry written is behind those in use.                               *)
LEMMA RingPut ==
  ASSUME NEW S, NEW n \in Nat, n > 0, NEW t \in [0..n-1 -> S], NEW h \in 0..n, NEW k \in 0..n-1,
         NEW v \in S, NEW last, last = (h + k) % n
  PROVE  TaskPut(n, t, h, k, v, last)
<1> DEFINE x == h + k
           u == [t EXCEPT ![last] = v]
           r == Ring(t, h, k, n)
           s == Ring(u, h, k + 1, n)
<1>1. x \in Nat /\ x < n + n /\ last = x % n /\ k \in Nat /\ h \in Nat
  OBVIOUS
<1>2. last = (IF x < n THEN x ELSE x - n) /\ last \in 0..n-1
  <2> HIDE DEF x
  <2>1. last = IF x < n THEN x ELSE x - n
    BY <1>1, Wrap
  <2>2. QED
    BY <1>1, <2>1
<1>3. (last + 1) % n = (x + 1) % n
  <2> DEFINE y == x + 1
             z == last + 1
  <2>1. y \in Nat /\ y <= n + n /\ z \in Nat /\ z <= n + n
    BY <1>1, <1>2
  <2> HIDE DEF y, z
  <2>2. /\ y % n = IF y < n THEN y ELSE IF y < n + n THEN y - n ELSE 0
        /\ z % n = IF z < n THEN z ELSE IF z < n + n THEN z - n ELSE 0
    BY <2>1, Wrap
  <2> HIDE DEF x
  <2>3. y % n = z % n
    BY <2>2, <1>1, <1>2 DEF y, z
  <2>4. QED
    BY <2>3 DEF y, z
<1>4. u \in [0..n-1 -> S] /\ \A j \in 0..n-1 : u[j] = IF j = last THEN v ELSE t[j]
  BY <1>2
<1>5. Holding(S, r, t, h, k, n)
  BY <1>1, RingFacts
<1>6. Holding(S, s, u, h, k + 1, n)
  <2> HIDE DEF u
  <2>1. k + 1 \in 0..n
    OBVIOUS
  <2>2. QED
    BY <1>4, <2>1, RingFacts
<1>7. s[k + 1] = v
  <2>1. Entry(h, k + 1, n) = last
    BY <1>1 DEF Entry
  <2> HIDE DEF x, u, s
  <2>2. s[k + 1] = u[last]
    BY <1>1, <1>6, <2>1 DEF Holding
  <2>3. QED
    BY <2>2, <1>1, <1>2, <1>4
<1>8. ASSUME NEW i \in 1..k PROVE s[i] = r[i]
  <2> DEFINE j == Entry(h, i, n)
  <2>1. j \in 0..n-1 /\ j # last
    <3>1. j \in 0..n-1 /\ j = IF h + i - 1 < n THEN h + i - 1 ELSE h + i - 1 - n
      BY <1>5 DEF Holding
    <3> HIDE DEF j
    <3>2. QED
      BY <3>1, <1>2
  <2>2. s[i] = u[j] /\ r[i] = t[j]
    <3> HIDE DEF u, s, r
    <3>1. i \in 1..k + 1
      OBVIOUS
    <3>2. QED
      BY <1>5, <1>6, <3>1, Zenon DEF Holding
  <2> HIDE DEF j, u, s, r
  <2>3. QED
    BY <2>1, <2>2, <1>4
<1> HIDE DEF x, u, s, r
<1>9. s = Append(r, v)
  BY <1>1, <1>5, <1>6, <1>7, <1>8 DEF Holding
<1>10. QED
  BY <1>2, <1>3, <1>9 DEF x, u, s, r, TaskPut

(* and the first one taken, where the head goes on or round.               *)
TaskTaken(n, t, h, k, v, g) ==
  /\ Ring(t, h, k, n) # <<>> /\ Head(Ring(t, h, k, n)) = t[h]
  /\ Ring([t EXCEPT ![h] = v], g, k - 1, n) = Tail(Ring(t, h, k, n))
  /\ (g + (k - 1)) % n = (h + k) % n

(* The entry that is given up is the first one in use.                     *)
LEMMA RingTake ==
  ASSUME NEW S, NEW n \in Nat, n > 0, NEW t \in [0..n-1 -> S], NEW h \in 0..n-1, NEW k \in 1..n,
         NEW v \in S, NEW g, g = h + 1 \/ (g = 0 /\ h + 1 = n)
  PROVE  TaskTaken(n, t, h, k, v, g)
<1> DEFINE u == [t EXCEPT ![h] = v]
           r == Ring(t, h, k, n)
           s == Ring(u, g, k - 1, n)
<1>1. h \in Nat /\ k \in Nat /\ k - 1 \in 0..n /\ g \in 0..n /\ h \in 0..n /\ k \in 0..n
  OBVIOUS
<1>2. u \in [0..n-1 -> S] /\ \A j \in 0..n-1 : j # h => u[j] = t[j]
  OBVIOUS
<1>3. Holding(S, r, t, h, k, n)
  BY <1>1, RingFacts
<1>4. Holding(S, s, u, g, k - 1, n)
  <2> HIDE DEF u
  <2> DEFINE l == k - 1
  <2>1. l \in 0..n
    OBVIOUS
  <2> HIDE DEF l
  <2>2. Holding(S, Ring(u, g, l, n), u, g, l, n)
    BY <1>1, <1>2, <2>1, RingFacts
  <2>3. QED
    BY <2>2 DEF l
<1>5. ASSUME NEW i \in 1..k - 1 PROVE s[i] = r[i + 1]
  <2> DEFINE j == Entry(g, i, n)
             m == Entry(h, i + 1, n)
  <2>1. i + 1 \in 1..k
    OBVIOUS
  <2>2. j \in 0..n-1 /\ j = IF g + i - 1 < n THEN g + i - 1 ELSE g + i - 1 - n
    BY <1>4 DEF Holding
  <2>3. m \in 0..n-1 /\ m = IF h + (i + 1) - 1 < n THEN h + (i + 1) - 1 ELSE h + (i + 1) - 1 - n
    BY <1>3, <2>1 DEF Holding
  <2>4. s[i] = u[j] /\ r[i + 1] = t[m]
    <3> HIDE DEF u, s, r
    <3>1. QED
      BY <1>3, <1>4, <2>1 DEF Holding
  <2> HIDE DEF j, m, u, s, r
  <2>5. j = m /\ j # h
    BY <1>1, <2>2, <2>3
  <2>6. QED
    BY <2>2, <2>4, <2>5, <1>2
<1>6. r # <<>> /\ Head(r) = t[h]
  <2>1. r[1] = t[Entry(h, 1, n)] /\ Entry(h, 1, n) = h
    BY <1>1, <1>3 DEF Holding
  <2> HIDE DEF r
  <2>2. QED
    BY <2>1, <1>1, <1>3 DEF Holding
<1>7. (g + (k - 1)) % n = (h + k) % n
  <2> DEFINE y == g + (k - 1)
             z == h + k
  <2>1. y \in Nat /\ y <= n + n /\ z \in Nat /\ z <= n + n /\ (y = z \/ (z = y + n /\ y < n))
    OBVIOUS
  <2> HIDE DEF y, z
  <2>2. /\ y % n = IF y < n THEN y ELSE IF y < n + n THEN y - n ELSE 0
        /\ z % n = IF z < n THEN z ELSE IF z < n + n THEN z - n ELSE 0
    BY <2>1, Wrap
  <2>3. y % n = z % n
    BY <2>1, <2>2
  <2>4. QED
    BY <2>3 DEF y, z
<1> HIDE DEF u, s, r
<1>8. s = Tail(r)
  <2> DEFINE d == Tail(r)
  <2>1. r \in Seq(S) /\ Len(r) = k /\ s \in Seq(S) /\ Len(s) = k - 1
    BY <1>3, <1>4 DEF Holding
  <2>2. /\ d \in Seq(S) /\ Len(d) = k - 1
        /\ \A i \in 1..k - 1 : d[i] = r[i + 1]
    BY <2>1, <1>1, <1>6
  <2> HIDE DEF d
  <2>3. \A i \in 1..k - 1 : s[i] = d[i]
    BY <2>2, <1>5
  <2>4. s = d
    <3> DEFINE l == k - 1
    <3>1. l \in Nat /\ Len(s) = l /\ Len(d) = l /\ \A i \in 1..l : s[i] = d[i]
      BY <2>1, <2>2, <2>3, <1>1
    <3> HIDE DEF l
    <3>2. QED
      BY <2>1, <2>2, <3>1
  <2>5. QED
    BY <2>4 DEF d
<1>9. QED
  BY <1>6, <1>7, <1>8 DEF u, s, r, TaskTaken

-----------------------------------------------------------------------------
(* The pool starts tasks in order *)

(* Where the tasks are.  The head may be one entry beyond the ring, as it  *)
(* goes round at MAX_TASKS; it is the first entry then, until TakeBeyond.  *)
RingInv ==
  /\ task_head <= tasks_size
  /\ task_tail = (task_head + task_count) % tasks_size

Tasks == Ring(tasks, task_head, task_count, tasks_size)

(* The numbers of the ring.                                                *)
LEMMA RingTypes ==
  ASSUME TypeOK, RingInv
  PROVE  /\ tasks_size \in Nat /\ tasks_size > 0 /\ tasks_size <= MAX_TASKS /\ MAX_TASKS \in Nat
         /\ tasks \in [0..tasks_size-1 -> Task \cup {NULL}]
         /\ task_head \in 0..tasks_size /\ task_count \in 0..tasks_size
BY DEF TypeOK, RingInv

(* The refinement mapping, as an entry of the ring at a time.              *)
LEMMA PoolState ==
  /\ Pool!vars = <<Tasks, started, ~shutdown>>
  /\ Pool!Init <=> Tasks = <<>> /\ started = <<>> /\ ~shutdown = TRUE
  /\ \A t \in Task : Pool!Accept(t) <=> /\ ~shutdown
                                        /\ Tasks' = Append(Tasks, t)
                                        /\ UNCHANGED <<started, ~shutdown>>
  /\ Pool!Start <=> /\ ~shutdown /\ Tasks # <<>>
                    /\ started' = Append(started, Head(Tasks))
                    /\ Tasks' = Tail(Tasks)
                    /\ UNCHANGED ~shutdown
  /\ Pool!Close <=> (~shutdown)' = FALSE /\ UNCHANGED <<Tasks, started>>
BY DEF Pool!vars, Pool!Init, Pool!Accept, Pool!Start, Pool!Close, Tasks, Ring, Entry

(* The ring is empty at first.                                             *)
LEMMA RingInit == Init => RingInv /\ Pool!Init
<1>1. SUFFICES ASSUME Init PROVE RingInv /\ Pool!Init
  OBVIOUS
<1>2. TypeOK /\ tasks_size \in Nat /\ tasks_size > 0 /\ task_head = 0 /\ task_count = 0
      /\ task_tail = 0 /\ started = <<>> /\ shutdown = FALSE
  BY <1>1, PoolInit DEF Init, PoolInv, NoLostTask
<1>3. RingInv
  BY <1>2, Wrap DEF RingInv
<1>4. Holding(Task \cup {NULL}, Tasks, tasks, task_head, task_count, tasks_size)
  BY <1>2, <1>3, RingTypes, RingFacts DEF Tasks
<1>5. Tasks = <<>>
  BY <1>2, <1>4 DEF Holding
<1>6. QED
  BY <1>2, <1>3, <1>5, PoolState

(* threadpool_add                                                          *)
LEMMA AddMaps ==
  ASSUME TypeOK, RingInv, NEW c, Add(c)
  PROVE  RingInv' /\ \E t \in Task : Pool!Accept(t)
<1> DEFINE n == tasks_size
           h == task_head
           k == task_count
           v == added'
<1>1. /\ k < n /\ ~shutdown /\ tasks' = [tasks EXCEPT ![task_tail] = v]
      /\ task_tail' = (task_tail + 1) % n /\ task_count' = k + 1
      /\ UNCHANGED <<tasks_size, task_head, shutdown, started>>
      /\ added' = added + 1 /\ added < MaxTask
  BY DEF Add, ends
<1>2. v \in Task
  BY <1>1 DEF TypeOK, Task
<1>3. /\ n \in Nat /\ n > 0 /\ tasks \in [0..n-1 -> Task \cup {NULL}] /\ h \in 0..n /\ k \in 0..n-1
  <2>1. k \in 0..n /\ n \in Nat
    BY RingTypes
  <2>2. k \in 0..n-1
    BY <2>1, <1>1
  <2>3. QED
    BY <2>2, RingTypes
<1>4. task_tail = (h + k) % n
  BY DEF RingInv
<1> HIDE DEF n, h, k, v
<1>5. /\ (task_tail + 1) % n = (h + k + 1) % n
      /\ Ring([tasks EXCEPT ![task_tail] = v], h, k + 1, n) = Append(Ring(tasks, h, k, n), v)
  <2>1. TaskPut(n, tasks, h, k, v, task_tail)
    BY <1>2, <1>3, <1>4, RingPut
  <2>2. QED
    BY <2>1, Zenon DEF TaskPut
<1>6. Tasks' = Append(Tasks, v)
  BY <1>1, <1>5 DEF Tasks, n, h, k
<1>7. RingInv'
  <2>1. task_head' = h /\ tasks_size' = n /\ h <= n
    BY <1>1, <1>3 DEF h, n
  <2>2. h + k + 1 = h + (k + 1)
    BY <1>3
  <2>3. task_tail' = (task_head' + task_count') % tasks_size'
    BY <1>1, <1>5, <2>1, <2>2
  <2>4. QED
    BY <2>1, <2>3 DEF RingInv
<1>8. QED
  BY <1>1, <1>2, <1>6, <1>7, PoolState

(* A worker takes the first task, and the head goes on or round.           *)
LEMMA TakeMaps ==
  ASSUME TypeOK, RingInv, NEW w \in Worker, TakeTask(w)
  PROVE  RingInv' /\ Pool!Start
<1> DEFINE n == tasks_size
           h == task_head
           k == task_count
           g == task_head'
<1>1. /\ k > 0 /\ h < n /\ ~shutdown /\ tasks' = [tasks EXCEPT ![h] = NULL]
      /\ g = (h + 1) % MAX_TASKS /\ task_count' = k - 1
      /\ UNCHANGED <<tasks_size, task_tail, shutdown>>
      /\ started' = Append(started, tasks[h])
  BY DEF TakeTask, ends, NextHead
<1>2. /\ n \in Nat /\ n > 0 /\ tasks \in [0..n-1 -> Task \cup {NULL}] /\ h \in 0..n-1 /\ k \in 1..n
      /\ n <= MAX_TASKS /\ MAX_TASKS \in Nat
  <2>1. k \in 0..n /\ h \in 0..n /\ n \in Nat
    BY RingTypes
  <2>2. k \in 1..n /\ h \in 0..n-1
    BY <2>1, <1>1
  <2>3. QED
    BY <2>2, RingTypes
<1>3. task_tail = (h + k) % n
  BY DEF RingInv
<1> HIDE DEF n, h, k, g
<1>4. g = h + 1 \/ (g = 0 /\ h + 1 = n)
  <2> DEFINE x == h + 1
  <2>1. x \in Nat /\ x <= n /\ MAX_TASKS > 0 /\ x <= MAX_TASKS + MAX_TASKS
    BY <1>2
  <2> HIDE DEF x
  <2>2. x % MAX_TASKS = IF x < MAX_TASKS THEN x
                        ELSE IF x < MAX_TASKS + MAX_TASKS THEN x - MAX_TASKS ELSE 0
    BY <2>1, <1>2, Wrap
  <2>3. g = x % MAX_TASKS
    BY <1>1 DEF x
  <2>4. QED
    BY <2>1, <2>2, <2>3, <1>2 DEF x
<1>5. /\ Ring(tasks, h, k, n) # <<>> /\ Head(Ring(tasks, h, k, n)) = tasks[h]
      /\ Ring([tasks EXCEPT ![h] = NULL], g, k - 1, n) = Tail(Ring(tasks, h, k, n))
      /\ (g + (k - 1)) % n = (h + k) % n
  <2>1. NULL \in Task \cup {NULL}
    OBVIOUS
  <2>2. TaskTaken(n, tasks, h, k, NULL, g)
    BY <1>2, <1>4, <2>1, RingTake
  <2>3. QED
    BY <2>2, Zenon DEF TaskTaken
<1>6. Tasks # <<>> /\ Head(Tasks) = tasks[h] /\ Tasks' = Tail(Tasks)
  BY <1>1, <1>5 DEF Tasks, n, h, k, g
<1>7. RingInv'
  <2>1. g <= n
    BY <1>2, <1>4
  <2>2. task_tail' = (g + (k - 1)) % n
    BY <1>1, <1>3, <1>5
  <2>3. QED
    BY <2>1, <2>2, <1>1 DEF RingInv, g, n
<1>8. QED
  BY <1>1, <1>6, <1>7, PoolState

(* Every step of the pool is one of the queue's, or none.                  *)
LEMMA PoolMaps ==
  ASSUME TypeOK, RingInv, [Next]_vars
  PROVE  RingInv' /\ [Pool!Next]_Pool!vars
<1>0. ASSUME UNCHANGED <<Tasks, started, shutdown>> PROVE UNCHANGED Pool!vars
  <2>1. Tasks' = Tasks /\ started' = started /\ shutdown' = shutdown
    BY <1>0
  <2>2. QED
    BY <2>1, Zenon DEF Pool!vars, Tasks, Ring, Entry
<1>1. ASSUME NEW c, Add(c) PROVE RingInv' /\ [Pool!Next]_Pool!vars
  BY <1>1, AddMaps DEF Pool!Next
<1>2. ASSUME NEW w \in Worker, TakeTask(w) PROVE RingInv' /\ [Pool!Next]_Pool!vars
  BY <1>2, TakeMaps DEF Pool!Next
<1>3. ASSUME UNCHANGED <<queue, started>> PROVE RingInv' /\ UNCHANGED <<Tasks, started>>
  BY <1>3 DEF queue, RingInv, Tasks
<1>4. ASSUME NEW c, NEW s \in BOOLEAN, Destroy(c, s) PROVE RingInv' /\ [Pool!Next]_Pool!vars
  <2>1. UNCHANGED <<queue, started>> /\ shutdown' = s /\ ~shutdown
    BY <1>4 DEF Destroy
  <2>2. RingInv' /\ UNCHANGED <<Tasks, started>>
    BY <2>1, <1>3
  <2>3. CASE s = TRUE
    BY <2>1, <2>2, <2>3, PoolState DEF Pool!Next
  <2>4. CASE s = FALSE
    <3>1. shutdown' = shutdown
      BY <2>1, <2>4 DEF TypeOK
    <3>2. QED
      BY <2>2, <3>1, <1>0
  <2>5. QED
    BY <2>3, <2>4
<1>5. ASSUME UNCHANGED <<queue, started, shutdown>> PROVE RingInv' /\ [Pool!Next]_Pool!vars
  BY <1>0, <1>3, <1>5
<1>6. ASSUME \/ Create \/ Join \/ UNCHANGED vars
             \/ \E w \in Worker : \/ CreateThread(w) \/ Await(w) \/ Quit(w) \/ TakeBeyond(w)
                                  \/ Return(w) \/ Spurious(w)
             \/ \E c \in Client \cup Worker : Refuse(c)
             \/ \E c \in Client : DestroyAgain(c) \/ StartJoin(c) \/ JoinFails(c)
      PROVE  UNCHANGED <<queue, started, shutdown>>
  BY <1>6 DEF Create, Join, vars, CreateThread, Await, Quit, TakeBeyond, Return, Spurious,
       Refuse, DestroyAgain, StartJoin, JoinFails, ends
<1>7. QED
  BY <1>1, <1>2, <1>4, <1>5, <1>6, Zenon DEF Next

(* The ring is a queue: tasks start once each and in the order they were   *)
(* added, and none after threadpool_destroy has begun (threadpool_add,     *)
(* threadpool_thread, threadpool_destroy), for any size of the ring.       *)
THEOREM RingIsQueue == Spec => PoolSpec
<1>1. Init => RingInv /\ Pool!Init
  BY RingInit
<1>2. NoLostTask => TypeOK
  BY DEF NoLostTask
<1>3. TypeOK /\ RingInv /\ [Next]_vars => RingInv' /\ [Pool!Next]_Pool!vars
  BY PoolMaps
<1>4. QED
  BY NoTaskLost, <1>1, <1>2, <1>3, PTL DEF Spec, PoolSpec, Pool!Spec
-----------------------------------------------------------------------------
(* The reactor of the web server.                                          *)

CONSTANTS Conn, NumFd, MAXFDS

VARIABLES phase, fd, rx, fin, rst, room, reg, ready, evt, accepting,
          mpc, mconn, pendingFunctors_, lpc, batch, functors, fd2chan_, fd2http_,
          inBuffer_, outBuffer_, connectionState_, lastEvents_, nodes, timer_, due

W == INSTANCE WebServer

Wakes == mpc = "wake" \/ ("wakeup" \in ready /\ evt)

Threads ==
  /\ pendingFunctors_ # <<>> /\ lpc # "events" => Wakes
  /\ mpc = "wake" <=> mconn # NULL
  /\ lpc = "poll" => batch = {} /\ functors = <<>>
  /\ lpc = "events" => functors = <<>>
  /\ lpc = "calling" => batch = {}
  /\ IsInjective(pendingFunctors_) /\ IsInjective(functors)
  /\ Range(pendingFunctors_) \cap Range(functors) = {}

Descriptors ==
  /\ fd2chan_ = fd2http_
  /\ \A c \in Conn : phase[c] = "open" => fd[c] \in W!Fd
  /\ \A c, d \in Conn : phase[c] = "open" /\ phase[d] = "open" /\ fd[c] = fd[d] => c = d
  /\ \A f \in W!Fd : fd2http_[f] # NULL => phase[fd2http_[f]] = "open" /\ fd[fd2http_[f]] = f

Handed == Range(pendingFunctors_) \cup Range(functors)
Mapped(c) == phase[c] = "open" /\ fd2http_[fd[c]] = c

Place(c) ==
  /\ reg[c] # NULL <=> Mapped(c)
  /\ phase[c] = "open" => c \in Handed \/ reg[c] # NULL \/ mconn = c
  /\ c \in Handed \/ mconn = c => phase[c] = "open"
  /\ c \in Handed => reg[c] = NULL
  /\ c \in Handed \/ phase[c] \in {"new", "backlog"} =>
       ~outBuffer_[c] /\ connectionState_[c] = "connected"
  /\ nodes[c] = IF timer_[c] THEN 1 ELSE 0
  /\ timer_[c] => reg[c] # NULL
  /\ c \in due => timer_[c]
  /\ reg[c] # NULL => timer_[c] \/ W!Lingering(c)
  /\ c \in ready => reg[c] # NULL

Batch ==
  /\ \A e \in batch : e.chan # "wakeup" => reg[e.chan] # NULL
  /\ \A e, d \in batch : e.chan = d.chan => e = d

(* There is something to report for c.                                     *)
Reports(c, i) == ("IN" \in i /\ (rx[c] # <<>> \/ fin[c])) \/ ("OUT" \in i /\ room[c])

Watch(c) ==
  reg[c] # NULL /\ ~rst[c] /\ connectionState_[c] = "connected" =>
    /\ lastEvents_[c] \in {{"IN", "ONESHOT"}, {"IN"}, {"OUT"}}
    /\ outBuffer_[c] => "OUT" \in lastEvents_[c]
    /\ (\A e \in batch : e.chan # c) =>
         /\ reg[c] = lastEvents_[c]
         /\ Reports(c, reg[c]) => c \in ready
    /\ \A e \in batch : e.chan = c =>
         /\ e.rev \subseteq lastEvents_[c] \cap {"IN", "OUT"} /\ e.rev # {}
         /\ "ONESHOT" \notin lastEvents_[c] => reg[c] = lastEvents_[c]

Inv ==
  /\ W!TypeOK /\ Threads /\ Descriptors /\ Batch
  /\ \A c \in Conn : Place(c)
  /\ \A c \in Conn : Watch(c)

(* What the assumption says of the values that are no connection.          *)
LEMMA ServerConstants ==
  ASSUME W!ServerAssumption
  PROVE  /\ NULL \notin Conn /\ "wakeup" \notin Conn /\ NULL \notin W!Fd
         /\ NULL \notin W!Events
BY DEF W!ServerAssumption, W!Fd, W!Events

-----------------------------------------------------------------------------
(* Inv holds at first: nobody is connected.                                *)
LEMMA InvInit ==
  ASSUME W!ServerAssumption, W!Init
  PROVE  Inv
<1> USE ServerConstants, EmptyFacts
<1>1. W!TypeOK
  BY DEF W!Init, W!TypeOK, W!Events
<1>2. Threads /\ Descriptors /\ Batch
  BY DEF W!Init, Threads, Descriptors, Batch, Wakes
<1>3. ASSUME NEW c \in Conn PROVE Place(c) /\ Watch(c)
  BY DEF W!Init, Place, Watch, Mapped, Handed
<1> QED
  BY <1>1, <1>2, <1>3 DEF Inv

(* A client acts on its socket.  If c is watched for what happens, there   *)
(* is an edge.                                                             *)
LEMMA EdgeInv ==
  ASSUME W!ServerAssumption, Inv, NEW c \in Conn, NEW event \in {"IN", "OUT", "HUP"},
         W!Edge(c, event),
         UNCHANGED <<phase, fd, reg, evt, W!accept, W!loop, W!maps, W!http, W!timers>>,
         DOMAIN rx' = Conn, fin' \in [Conn -> BOOLEAN], rst' \in [Conn -> BOOLEAN],
         room' \in [Conn -> BOOLEAN],
         \A d \in Conn \ {c} : /\ rx'[d] = rx[d] /\ fin'[d] = fin[d]
                               /\ rst'[d] = rst[d] /\ room'[d] = room[d],
         event = "HUP" => rst'[c],
         event # "IN" => rx'[c] = rx[c] /\ fin'[c] = fin[c],
         event # "OUT" => room'[c] = room[c],
         event # "HUP" => rst'[c] = rst[c]
  PROVE  Inv'
<1> USE DEF W!accept, W!loop, W!maps, W!http, W!timers
<1>1. /\ ready \subseteq ready' /\ ready' \subseteq ready \cup {c}
      /\ reg[c] = NULL => ready' = ready
      /\ reg[c] \notin {NULL, {}} /\ event \in reg[c] => c \in ready'
  BY DEF W!Edge
<1>2. W!TypeOK'
  BY <1>1 DEF Inv, W!TypeOK
<1>3. Threads'
  BY <1>1 DEF Inv, Threads, Wakes
<1>4. Descriptors' /\ Batch'
  BY DEF Inv, Descriptors, Batch
<1>5. ASSUME NEW d \in Conn PROVE Place(d)'
  <2>1. Place(d)
    BY DEF Inv
  <2> QED
    BY <2>1, <1>1 DEF Place, Mapped, Handed, W!Lingering
<1>6. ASSUME NEW d \in Conn PROVE Watch(d)'
  <2>1. Watch(d)
    BY DEF Inv
  <2>2. CASE d # c
    BY <2>1, <2>2, <1>1 DEF Watch, Reports
  <2>3. CASE d = c
    <3> SUFFICES ASSUME reg[c] # NULL, ~rst'[c], ~rst[c]
                 PROVE  Reports(c, reg[c])' => Reports(c, reg[c]) \/ c \in ready'
      BY <2>1, <2>3, <1>1 DEF Watch
    <3> QED
      BY <1>1 DEF Reports
  <2> QED
    BY <2>2, <2>3
<1> QED
  BY <1>2, <1>3, <1>4, <1>5, <1>6 DEF Inv

(* A new connection waits in the backlog, unknown to the server.           *)
LEMMA ConnectInv ==
  ASSUME W!ServerAssumption, Inv, NEW c \in Conn, W!Connect(c)
  PROVE  Inv'
<1> USE DEF W!epoll, W!accept, W!loop, W!maps, W!http, W!timers
<1>1. /\ phase[c] = "new" /\ phase' = [phase EXCEPT ![c] = "backlog"]
      /\ UNCHANGED <<fd, rx, fin, rst, room, W!epoll, W!accept, W!loop, W!maps, W!http, W!timers>>
  BY DEF W!Connect
<1>2. W!TypeOK' /\ Threads' /\ Batch'
  BY <1>1 DEF Inv, W!TypeOK, Threads, Batch, Wakes
<1>3. Descriptors'
  <2>1. \A d \in Conn : phase'[d] = "open" <=> phase[d] = "open"
    BY <1>1 DEF Inv, W!TypeOK
  <2>2. \A f \in W!Fd : fd2http_[f] # NULL => fd2http_[f] \in Conn
    BY DEF Inv, W!TypeOK
  <2> QED
    BY <1>1, <2>1, <2>2 DEF Inv, Descriptors
<1>4. ASSUME NEW d \in Conn PROVE Place(d)' /\ Watch(d)'
  <2>1. Place(d) /\ Watch(d) /\ phase \in [Conn -> {"new", "backlog", "open", "closed"}]
    BY DEF Inv, W!TypeOK
  <2>2. Place(d)'
    BY <2>1, <1>1 DEF Place, Mapped, Handed, W!Lingering
  <2>3. Watch(d)'
    BY <2>1, <1>1 DEF Watch, Reports
  <2> QED
    BY <2>2, <2>3
<1> QED
  BY <1>2, <1>3, <1>4 DEF Inv

(* The time of a timer node is over: nothing else changes.                 *)
LEMMA RunOutInv ==
  ASSUME W!ServerAssumption, Inv, NEW c \in Conn, W!RunOut(c)
  PROVE  Inv'
<1> USE DEF W!kernel, W!epoll, W!accept, W!loop, W!maps, W!http
<1>1. /\ nodes[c] > 0 /\ due' = due \cup {c}
      /\ UNCHANGED <<phase, fd, W!kernel, W!epoll, W!accept, W!loop, W!maps, W!http, nodes, timer_>>
  BY DEF W!RunOut
<1>2. /\ W!TypeOK'
      /\ Threads' /\ Descriptors' /\ Batch'
  <2>1. W!TypeOK'
    BY <1>1 DEF Inv, W!TypeOK
  <2>2. Threads' /\ Descriptors' /\ Batch'
    BY <1>1, Zenon DEF Inv, Threads, Descriptors, Batch, Wakes
  <2> QED
    BY <2>1, <2>2
<1>3. ASSUME NEW d \in Conn PROVE Place(d)' /\ Watch(d)'
  <2>1. Place(d) /\ Watch(d)
    BY DEF Inv
  <2>2. Place(d)'
    BY <2>1, <1>1 DEF Place, Mapped, Handed, W!Lingering
  <2>3. Watch(d)'
    BY <2>1, <1>1 DEF Watch, Reports
  <2> QED
    BY <2>2, <2>3
<1> QED
  BY <1>2, <1>3 DEF Inv

(* A step of the clients keeps Inv.                                        *)
LEMMA ClientsInv ==
  ASSUME W!ServerAssumption, Inv, W!Clients
  PROVE  Inv'
<1>1. PICK c \in Conn :
        \/ W!Connect(c) \/ W!Shutdown(c) \/ W!Reset(c) \/ W!Drain(c) \/ W!RunOut(c)
        \/ \E p \in W!Piece : W!Send(c, p)
  BY DEF W!Clients
<1> USE DEF W!epoll
<1>2. W!TypeOK
  BY DEF Inv
<1>3. CASE W!Connect(c)
  BY <1>3, ConnectInv
<1>4. CASE W!Shutdown(c)
  BY <1>2, <1>4, EdgeInv DEF W!Shutdown, W!TypeOK
<1>5. CASE W!Reset(c)
  BY <1>2, <1>5, EdgeInv DEF W!Reset, W!TypeOK
<1>6. CASE W!Drain(c)
  BY <1>2, <1>6, EdgeInv DEF W!Drain, W!TypeOK
<1>7. CASE W!RunOut(c)
  BY <1>7, RunOutInv
<1>8. CASE \E p \in W!Piece : W!Send(c, p)
  <2>1. PICK p \in W!Piece : W!Send(c, p)
    BY <1>8
  <2> QED
    BY <1>2, <2>1, EdgeInv DEF W!Send, W!TypeOK
<1> QED
  BY <1>1, <1>3, <1>4, <1>5, <1>6, <1>7, <1>8
-----------------------------------------------------------------------------
(* The main thread.  Who is closed by Release is referred to by nobody.    *)
LEMMA Released ==
  ASSUME W!Release, phase \in [Conn -> {"new", "backlog", "open", "closed"}]
  PROVE  /\ phase' \in [Conn -> {"new", "backlog", "open", "closed"}]
         /\ \A c \in Conn : phase'[c] = "open" => phase[c] = "open"
         /\ \A c \in Conn : phase'[c] \in {"new", "backlog"} => phase'[c] = phase[c]
         /\ \A c \in Conn : phase[c] = "open" /\ W!Referenced(c)' => phase'[c] = "open"
         /\ \A c \in Conn : phase'[c] = "open" => W!Referenced(c)'
BY DEF W!Release

(* A descriptor that no open connection has goes to the new one.           *)
LEMMA AcceptInv ==
  ASSUME W!ServerAssumption, Inv, NEW c \in Conn, W!Accept(c)
  PROVE  Inv'
<1> USE DEF W!kernel, W!epoll, W!loop, W!maps, W!http, W!timers
<1>1. PICK f \in W!FreeFds : fd' = [fd EXCEPT ![c] = f]
  BY DEF W!Accept
<1>2. /\ phase[c] = "backlog" /\ phase' = [phase EXCEPT ![c] = "open"]
      /\ mpc = "accept" /\ mpc' = "wake" /\ mconn' = c
      /\ pendingFunctors_' = Append(pendingFunctors_, c)
      /\ UNCHANGED <<W!kernel, W!epoll, W!loop, W!maps, W!http, W!timers>>
  BY DEF W!Accept
<1>3. W!TypeOK /\ Place(c)
  BY DEF Inv
<1>4. f \in W!Fd /\ \A d \in Conn : phase[d] = "open" => fd[d] # f
  BY DEF W!FreeFds
<1>5. c \notin Handed /\ mconn # c /\ mconn = NULL
  BY <1>2, <1>3, ServerConstants DEF Place, Inv, Threads
<1>6. /\ pendingFunctors_' \in Seq(Conn)
      /\ Range(pendingFunctors_') = Range(pendingFunctors_) \cup {c}
      /\ IsInjective(pendingFunctors_')
  BY <1>2, <1>3, <1>5, AppendFacts DEF W!TypeOK, Inv, Threads, Handed
<1>7. W!TypeOK'
  BY <1>1, <1>2, <1>3, <1>4, <1>6 DEF W!TypeOK
<1>8. Threads'
  BY <1>2, <1>5, <1>6, ServerConstants DEF Inv, Threads, Wakes, Handed
<1>9. Descriptors'
  <2> USE <1>1, <1>2, <1>3, <1>4, ServerConstants DEF Inv, Descriptors, W!TypeOK
  <2>1. \A d \in Conn : phase'[d] = "open" => fd'[d] \in W!Fd
    OBVIOUS
  <2>2. \A d, e \in Conn : phase'[d] = "open" /\ phase'[e] = "open" /\ fd'[d] = fd'[e] => d = e
    OBVIOUS
  <2>3. \A g \in W!Fd : fd2http_'[g] # NULL => phase'[fd2http_'[g]] = "open" /\ fd'[fd2http_'[g]] = g
    OBVIOUS
  <2> QED
    BY <2>1, <2>2, <2>3
<1>10. Batch'
  BY <1>2 DEF Inv, Batch
<1>11. ASSUME NEW d \in Conn PROVE Place(d)' /\ Watch(d)'
  <2>1. Place(d) /\ Watch(d) /\ Descriptors
    BY DEF Inv
  <2>2. Handed' = Handed \cup {c}
    BY <1>2, <1>6 DEF Handed
  <2>3. CASE d # c
    <3>1. Mapped(d)' <=> Mapped(d)
      BY <1>1, <1>2, <1>3, <2>3 DEF Mapped, W!TypeOK
    <3> QED
      BY <2>1, <2>2, <2>3, <3>1, <1>2, <1>3, <1>5, ServerConstants DEF W!TypeOK, Place, Watch, W!Lingering, Reports
  <2>4. CASE d = c
    <3>1. ~Mapped(c) /\ ~Mapped(c)'
      <4>1. phase[c] # "open" /\ c # NULL
        BY <1>2, ServerConstants
      <4>2. fd'[c] = f /\ fd2http_' = fd2http_
        BY <1>1, <1>2, <1>3 DEF W!TypeOK
      <4>3. fd2http_[f] # c
        BY <4>1, <1>4, <2>1 DEF Descriptors
      <4> QED
        BY <4>1, <4>2, <4>3 DEF Mapped
    <3> QED
      BY <2>1, <2>2, <2>4, <3>1, <1>2, <1>3, <1>5, ServerConstants DEF W!TypeOK, Place, Watch, W!Lingering, Reports
  <2> QED
    BY <2>3, <2>4
<1> QED
  BY <1>7, <1>8, <1>9, <1>10, <1>11 DEF Inv

(* Who is mapped is in the map.                                            *)
LEMMA MappedFacts ==
  ASSUME W!ServerAssumption, Inv, NEW c \in Conn
  PROVE  c \in Range(fd2http_) <=> Mapped(c)
<1>1. /\ DOMAIN fd2http_ = W!Fd /\ Descriptors /\ c # NULL
  BY ServerConstants DEF Inv, W!TypeOK
<1>2. Range(fd2http_) = {fd2http_[f] : f \in W!Fd}
  BY <1>1, Zenon DEF Range
<1>3. ASSUME Mapped(c) PROVE c \in Range(fd2http_)
  <2>1. fd[c] \in W!Fd /\ fd2http_[fd[c]] = c
    BY <1>1, <1>3 DEF Descriptors, Mapped
  <2> QED
    BY <1>2, <2>1
<1>4. ASSUME NEW f \in W!Fd, fd2http_[f] = c PROVE Mapped(c)
  BY <1>1, <1>4 DEF Descriptors, Mapped
<1> QED
  BY <1>2, <1>3, <1>4

(* The loop has been woken; the main thread forgets the connection, which  *)
(* the loop may have closed already.                                       *)
LEMMA WakeupInv ==
  ASSUME W!ServerAssumption, Inv, W!Wakeup
  PROVE  Inv'
<1> USE DEF W!kernel, W!loop, W!maps, W!http, W!timers
<1>1. /\ mpc = "wake" /\ mpc' = "accept" /\ mconn' = NULL
      /\ evt' = TRUE /\ ready' = ready \cup {"wakeup"}
      /\ UNCHANGED <<fd, W!kernel, reg, pendingFunctors_, W!loop, W!maps, W!http, W!timers>>
      /\ W!Release
  BY DEF W!Wakeup
<1>2. W!TypeOK
  BY DEF Inv
<1>3. /\ phase' \in [Conn -> {"new", "backlog", "open", "closed"}]
      /\ \A c \in Conn : phase'[c] = "open" => phase[c] = "open" /\ W!Referenced(c)'
      /\ \A c \in Conn : phase'[c] \in {"new", "backlog"} => phase'[c] = phase[c]
      /\ \A c \in Conn : phase[c] = "open" /\ W!Referenced(c)' => phase'[c] = "open"
  BY <1>1, <1>2, Released DEF W!TypeOK
<1>4. \A c \in Conn : W!Referenced(c)' <=> Mapped(c) \/ nodes[c] > 0 \/ c \in Handed
  <2> SUFFICES ASSUME NEW c \in Conn
               PROVE  W!Referenced(c)' <=> Mapped(c) \/ nodes[c] > 0 \/ c \in Handed
    OBVIOUS
  <2>1. mconn' # c
    BY <1>1, ServerConstants
  <2> QED
    BY <1>1, <2>1, MappedFacts, Zenon DEF W!Referenced, Handed, W!Range, Range
<1>5. W!TypeOK'
  BY <1>1, <1>2, <1>3 DEF W!TypeOK
<1>6. Threads' /\ Batch'
  BY <1>1 DEF Inv, Threads, Batch, Wakes
<1>7. \A c \in Conn : Mapped(c)' <=> Mapped(c)
  BY <1>1, <1>3, <1>4 DEF Mapped
<1>8. Descriptors'
  <2>1. \A f \in W!Fd : fd2http_[f] # NULL => Mapped(fd2http_[f]) /\ fd2http_[f] \in Conn
    BY <1>2 DEF Inv, Descriptors, Mapped, W!TypeOK
  <2> QED
    BY <1>1, <1>3, <1>4, <2>1 DEF Inv, Descriptors
<1>9. ASSUME NEW c \in Conn PROVE Place(c)' /\ Watch(c)'
  <2>1. Place(c) /\ Watch(c) /\ c # "wakeup" /\ c # NULL
    BY ServerConstants DEF Inv
  <2>2. Handed' = Handed
    BY <1>1 DEF Handed
  <2>3. Place(c)'
    BY <1>1, <1>2, <1>3, <1>4, <1>7, <2>1, <2>2 DEF Place, W!Lingering, W!TypeOK
  <2>4. Watch(c)'
    BY <1>1, <2>1 DEF Watch, Reports
  <2> QED
    BY <2>3, <2>4
<1> QED
  BY <1>5, <1>6, <1>8, <1>9 DEF Inv

(* A connection refused for its descriptor was never the loop's.           *)
LEMMA RefuseInv ==
  ASSUME W!ServerAssumption, Inv, NEW c \in Conn, W!Refuse(c)
  PROVE  Inv'
<1> USE DEF W!kernel, W!epoll, W!accept, W!loop, W!maps, W!http, W!timers
<1>1. /\ phase[c] = "backlog" /\ phase' = [phase EXCEPT ![c] = "closed"]
      /\ UNCHANGED <<fd, W!kernel, W!epoll, W!accept, W!loop, W!maps, W!http, W!timers>>
  BY DEF W!Refuse
<1>2. W!TypeOK' /\ Threads' /\ Batch'
  BY <1>1 DEF Inv, W!TypeOK, Threads, Batch, Wakes
<1>3. Descriptors'
  <2>1. \A d \in Conn : phase'[d] = "open" <=> phase[d] = "open"
    BY <1>1 DEF Inv, W!TypeOK
  <2>2. \A f \in W!Fd : fd2http_[f] # NULL => fd2http_[f] \in Conn
    BY DEF Inv, W!TypeOK
  <2> QED
    BY <1>1, <2>1, <2>2 DEF Inv, Descriptors
<1>4. ASSUME NEW d \in Conn PROVE Place(d)' /\ Watch(d)'
  <2>1. Place(d) /\ Watch(d) /\ phase \in [Conn -> {"new", "backlog", "open", "closed"}]
    BY DEF Inv, W!TypeOK
  <2>2. Place(d)'
    BY <2>1, <1>1 DEF Place, Mapped, Handed, W!Lingering
  <2>3. Watch(d)'
    BY <2>1, <1>1 DEF Watch, Reports
  <2> QED
    BY <2>2, <2>3
<1> QED
  BY <1>2, <1>3, <1>4 DEF Inv

(* Steps that only take the main thread, or nobody, further.               *)
LEMMA IdleInv ==
  ASSUME W!ServerAssumption, Inv, W!MainPoll \/ W!AcceptEnd \/ UNCHANGED W!vars
  PROVE  Inv'
<1> USE DEF W!epoll, W!loop, W!maps, W!http, W!timers
<1>1. /\ UNCHANGED <<phase, fd, rx, fin, rst, room, W!epoll, mconn, pendingFunctors_, W!loop, W!maps, W!http, W!timers>>
      /\ mpc' \in {"poll", "accept", "wake"} /\ (mpc' = "wake" <=> mpc = "wake")
  BY DEF W!MainPoll, W!AcceptEnd, W!vars, W!kernel, W!accept, Inv, W!TypeOK
<1>2. W!TypeOK'
  BY <1>1 DEF Inv, W!TypeOK
<1>3. Threads' /\ Descriptors' /\ Batch'
  BY <1>1, Zenon DEF Inv, Threads, Descriptors, Batch, Wakes
<1>4. ASSUME NEW c \in Conn PROVE Place(c)' /\ Watch(c)'
  BY <1>1, Zenon DEF Inv, Place, Watch, Mapped, Handed, W!Lingering, Reports
<1> QED
  BY <1>2, <1>3, <1>4 DEF Inv

(* A step of the main thread keeps Inv.                                    *)
LEMMA MainInv ==
  ASSUME W!ServerAssumption, Inv, W!Main
  PROVE  Inv'
BY AcceptInv, RefuseInv, WakeupInv, IdleInv DEF W!Main
-----------------------------------------------------------------------------
(* The loop.  What epoll finds for a connection that is not reset.         *)
LEMMA FoundFacts ==
  ASSUME NEW c, NEW i \in W!Events
  PROVE  /\ ~rst[c] => /\ W!Found(c, i) \subseteq i \cap {"IN", "OUT"}
                       /\ W!Found(c, i) # {} <=> Reports(c, i)
         /\ ~rst'[c] => (W!Found(c, i)' # {} <=> Reports(c, i)')
BY DEF W!Found, Reports, W!Events

(* epoll reports each connection once, and the wake-up if there is one.    *)
LEMMA PollInv ==
  ASSUME W!ServerAssumption, Inv, W!Poll
  PROVE  Inv'
<1> USE DEF W!kernel, W!accept, W!maps, W!http, W!timers
<1>1. /\ lpc = "poll" /\ ready' = {} /\ lpc' = IF batch' = {} THEN "poll" ELSE "events"
      /\ reg' = [c \in Conn |-> IF c \in W!Reported /\ "ONESHOT" \in reg[c] THEN {} ELSE reg[c]]
      /\ UNCHANGED <<phase, fd, W!kernel, evt, W!accept, functors, W!maps, W!http, W!timers>>
  BY DEF W!Poll
<1>2. W!TypeOK /\ Threads /\ Descriptors
  BY DEF Inv
<1>3. batch = {} /\ functors = <<>>
  BY <1>1, <1>2 DEF Threads
<1>4. \A c \in W!Reported : c \in Conn /\ c \in ready /\ reg[c] # NULL /\ fd2chan_[fd[c]] = c /\ c # NULL /\ c # "wakeup"
  BY <1>2, ServerConstants DEF W!Reported, Inv, Place, Mapped, Descriptors
<1> DEFINE EventOf(c) == [chan |-> c, rev |-> W!Found(c, reg[c])]
           Woken == [chan |-> "wakeup", rev |-> {"IN"}]
<1>5. batch' = {EventOf(c) : c \in W!Reported} \cup {w \in {Woken} : "wakeup" \in ready /\ evt}
  <2>1. {d \in W!Reported : fd2chan_[fd[d]] # NULL} = W!Reported
    BY <1>4
  <2>2. {[chan |-> fd2chan_[fd[c]], rev |-> W!Found(c, reg[c])] : c \in W!Reported} = {EventOf(c) : c \in W!Reported}
    BY <1>4
  <2>3. {[chan |-> w, rev |-> {"IN"}] : w \in {v \in ready : v = "wakeup" /\ evt}}
          = {w \in {Woken} : "wakeup" \in ready /\ evt}
    OBVIOUS
  <2> QED
    BY <2>1, <2>2, <2>3 DEF W!Poll
<1>6. /\ \A c \in W!Reported : EventOf(c) \in batch'
      /\ "wakeup" \in ready /\ evt => Woken \in batch'
      /\ \A e \in batch' : e = Woken \/ \E c \in W!Reported : e = EventOf(c)
  BY <1>5
<1>7. /\ \A e \in batch' : e.chan = "wakeup" => e = Woken
      /\ \A e \in batch' : e.chan # "wakeup" => e.chan \in W!Reported /\ e = EventOf(e.chan)
  BY <1>4, <1>6
<1> HIDE DEF EventOf, Woken
<1>8. \A c \in Conn : reg'[c] \in W!Events \cup {NULL} /\ (reg'[c] # NULL <=> reg[c] # NULL)
  BY <1>1, <1>2, <1>4, ServerConstants DEF W!TypeOK, W!Events
<1>9. W!TypeOK'
  BY <1>1, <1>2, <1>4, <1>7, <1>8 DEF W!TypeOK
<1>10. Threads'
  <2>1. batch' = {} => ~("wakeup" \in ready /\ evt)
    BY <1>6
  <2> QED
    BY <1>1, <1>2, <1>3, <2>1 DEF Threads, Wakes
<1>11. Descriptors'
  BY <1>1, <1>2 DEF Descriptors
<1>12. Batch'
  <2>1. \A e \in batch' : e.chan # "wakeup" => reg'[e.chan] # NULL
    BY <1>4, <1>7, <1>8
  <2>2. \A e, d \in batch' : e.chan = d.chan => e = d
    BY <1>7, Zenon
  <2> QED
    BY <2>1, <2>2 DEF Batch
<1>13. ASSUME NEW c \in Conn PROVE Place(c)' /\ Watch(c)'
  <2>1. Place(c) /\ Watch(c)
    BY DEF Inv
  <2>2. Place(c)'
    BY <2>1, <1>1, <1>8 DEF Place, Mapped, Handed, W!Lingering
  <2>3. Watch(c)'
    <3> SUFFICES ASSUME reg[c] # NULL, ~rst[c], connectionState_[c] = "connected"
                 PROVE  Watch(c)'
      BY <1>1, <1>8 DEF Watch
    <3>1. /\ lastEvents_[c] \in {{"IN", "ONESHOT"}, {"IN"}, {"OUT"}}
          /\ outBuffer_[c] => "OUT" \in lastEvents_[c]
          /\ reg[c] = lastEvents_[c]
          /\ Reports(c, reg[c]) => c \in ready
      BY <2>1, <1>3 DEF Watch
    <3>2. /\ W!Found(c, reg[c]) \subseteq reg[c] \cap {"IN", "OUT"}
          /\ W!Found(c, reg[c]) # {} <=> Reports(c, reg[c])
      BY FoundFacts, <1>2 DEF W!TypeOK
    <3>3. CASE c \in W!Reported
      <4>1. \A e \in batch' : e.chan = c => e.rev = W!Found(c, reg[c])
        BY <1>4, <1>7, <3>3 DEF EventOf
      <4>2. \E e \in batch' : e.chan = c
        BY <1>6, <3>3 DEF EventOf
      <4>3. W!Found(c, reg[c]) # {}
        BY <3>3 DEF W!Reported
      <4> QED
        BY <1>1, <3>1, <3>2, <4>1, <4>2, <4>3 DEF Watch
    <3>4. CASE c \notin W!Reported
      <4>1. \A e \in batch' : e.chan # c
        BY <1>7, <3>4, ServerConstants
      <4>2. ~Reports(c, reg[c]) /\ reg'[c] = reg[c]
        BY <3>1, <3>2, <3>4, <1>1 DEF W!Reported
      <4> QED
        BY <1>1, <3>1, <4>1, <4>2 DEF Watch, Reports
    <3> QED
      BY <3>3, <3>4
  <2> QED
    BY <2>2, <2>3
<1> QED
  BY <1>9, <1>10, <1>11, <1>12, <1>13 DEF Inv

(* The wake-up is read; the functors are taken after it.                   *)
LEMMA HandleWakeupInv ==
  ASSUME W!ServerAssumption, Inv, W!HandleWakeup
  PROVE  Inv'
<1> USE DEF W!kernel, W!accept, W!maps, W!http, W!timers
<1>1. /\ lpc = "events" /\ evt' = FALSE
      /\ UNCHANGED <<phase, fd, W!kernel, reg, ready, W!accept, lpc, functors, W!maps, W!http, W!timers>>
  BY DEF W!HandleWakeup
<1>2. PICK e \in batch : e.chan = "wakeup" /\ batch' = batch \ {e}
  BY DEF W!HandleWakeup
<1>3. W!TypeOK' /\ Threads' /\ Descriptors' /\ Batch'
  <2>1. W!TypeOK'
    BY <1>1, <1>2 DEF Inv, W!TypeOK
  <2>2. Threads' /\ Batch'
    BY <1>1, <1>2 DEF Inv, Threads, Batch
  <2>3. Descriptors'
    BY <1>1, Zenon DEF Inv, Descriptors
  <2> QED
    BY <2>1, <2>2, <2>3
<1>4. ASSUME NEW c \in Conn PROVE Place(c)' /\ Watch(c)'
  <2>1. Place(c) /\ Watch(c) /\ c # "wakeup"
    BY ServerConstants DEF Inv
  <2>2. Place(c)'
    BY <2>1, <1>1 DEF Place, Mapped, Handed, W!Lingering
  <2>3. (\A d \in batch : d.chan # c) <=> (\A d \in batch' : d.chan # c)
    BY <2>1, <1>2
  <2>4. Watch(c)'
    BY <2>1, <2>3, <1>1, <1>2 DEF Watch, Reports
  <2> QED
    BY <2>2, <2>4
<1> QED
  BY <1>3, <1>4 DEF Inv

(* The event of a connection that was reset is passed over.                *)
LEMMA HandleHupInv ==
  ASSUME W!ServerAssumption, Inv, NEW c \in Conn, W!HandleHup(c)
  PROVE  Inv'
<1> USE DEF W!kernel, W!epoll, W!accept, W!maps, W!http, W!timers
<1>1. /\ lpc = "events"
      /\ UNCHANGED <<phase, fd, W!kernel, W!epoll, W!accept, lpc, functors, W!maps, W!http, W!timers>>
  BY DEF W!HandleHup
<1>2. PICK e \in batch : e.chan = c /\ "HUP" \in e.rev /\ batch' = batch \ {e}
  BY DEF W!HandleHup
<1>3. W!TypeOK' /\ Threads' /\ Descriptors' /\ Batch'
  <2>1. W!TypeOK'
    BY <1>1, <1>2 DEF Inv, W!TypeOK
  <2>2. Threads' /\ Batch'
    BY <1>1, <1>2 DEF Inv, Threads, Batch, Wakes
  <2>3. Descriptors'
    BY <1>1, Zenon DEF Inv, Descriptors
  <2> QED
    BY <2>1, <2>2, <2>3
<1>4. ASSUME NEW d \in Conn PROVE Place(d)' /\ Watch(d)'
  <2>1. Place(d) /\ Watch(d)
    BY DEF Inv
  <2>2. Place(d)'
    BY <2>1, <1>1 DEF Place, Mapped, Handed, W!Lingering
  <2>3. CASE d = c
    <3>1. reg[c] # NULL /\ ~rst[c] /\ connectionState_[c] = "connected" => FALSE
      BY <2>1, <2>3, <1>2 DEF Watch
    <3> QED
      BY <2>3, <3>1, <2>2, <1>1 DEF Watch
  <2>4. CASE d # c
    <3>1. (\A x \in batch : x.chan # d) <=> (\A x \in batch' : x.chan # d)
      BY <2>4, <1>2
    <3> QED
      BY <2>1, <2>2, <3>1, <1>1, <1>2 DEF Watch, Reports
  <2> QED
    BY <2>3, <2>4
<1> QED
  BY <1>3, <1>4 DEF Inv

(* What a handler may leave: the response is not sent completely just if   *)
(* it waits to send more; it has seen it if the client sends no more.      *)
LEMMA AfterReadFacts ==
  ASSUME NEW c \in Conn, W!TypeOK
  PROVE  /\ W!AfterRead(c).out \in BOOLEAN /\ W!AfterRead(c).error \in BOOLEAN
         /\ W!AfterRead(c).conn \in {"connected", "disconnecting", "disconnected"}
         /\ W!AfterRead(c).events \in {{}, {"IN"}}
         /\ W!AfterRead(c).error => ~W!AfterRead(c).out
         /\ ~W!AfterRead(c).error /\ W!AfterRead(c).conn = "connected" =>
              ~fin[c] /\ connectionState_[c] = "connected"
<1>1. /\ outBuffer_[c] \in BOOLEAN
      /\ connectionState_[c] \in {"connected", "disconnecting", "disconnected"}
  BY DEF W!TypeOK
<1>2. ASSUME NEW q, NEW out \in BOOLEAN, NEW conn \in {"connected", "disconnecting", "disconnected"}
      PROVE  /\ W!Serve(q, out, conn).out \in BOOLEAN /\ W!Serve(q, out, conn).error \in BOOLEAN
             /\ W!Serve(q, out, conn).events \in {{}, {"IN"}}
             /\ W!Serve(q, out, conn).error => W!Serve(q, out, conn) = W!Failed
             /\ ~W!Serve(q, out, conn).error => W!Serve(q, out, conn).conn = conn
  BY DEF W!Serve, W!Left, W!Failed
<1>3. W!Failed = [in |-> <<>>, out |-> FALSE, conn |-> "connected", error |-> TRUE, events |-> {}]
  BY DEF W!Failed, W!Left
<1> DEFINE conn == IF fin[c] THEN "disconnecting" ELSE connectionState_[c]
           s == W!Serve(inBuffer_[c] \o rx[c], outBuffer_[c], conn)
<1>4. /\ s.out \in BOOLEAN /\ s.error \in BOOLEAN /\ s.events \in {{}, {"IN"}}
      /\ s.error => s = W!Failed
      /\ ~s.error => s.conn = conn
  BY <1>1, <1>2
<1>5. W!AfterRead(c) = s \/ W!AfterRead(c) = W!Failed
        \/ W!AfterRead(c) = W!Left(<<>>, outBuffer_[c], "disconnecting", FALSE, {"IN"})
        \/ W!AfterRead(c) = W!Left(inBuffer_[c], outBuffer_[c], "disconnecting", FALSE, {"IN"})
  BY DEF W!AfterRead
<1>6. CASE W!AfterRead(c) = s
  BY <1>1, <1>3, <1>4, <1>6
<1>7. CASE W!AfterRead(c) = W!Failed
  BY <1>3, <1>7
<1>8. ASSUME NEW in, W!AfterRead(c) = W!Left(in, outBuffer_[c], "disconnecting", FALSE, {"IN"})
      PROVE  /\ W!AfterRead(c).out = outBuffer_[c] /\ W!AfterRead(c).error = FALSE
             /\ W!AfterRead(c).conn = "disconnecting" /\ W!AfterRead(c).events = {"IN"}
  BY <1>8 DEF W!Left
<1> QED
  BY <1>1, <1>5, <1>6, <1>7, <1>8, Zenon

(* What the handlers of an event leave together.                           *)
LEMMA ResultFacts ==
  ASSUME NEW c \in Conn, W!TypeOK, NEW rev, NEW all \in BOOLEAN, NEW r, r = W!Result(c, rev, all)
  PROVE  /\ r.out \in BOOLEAN
         /\ r.conn \in {"connected", "disconnecting", "disconnected"}
         /\ r.out <=> "OUT" \in r.events
         /\ ~r.error /\ r.conn = "connected" =>
              ("IN" \in rev => ~fin[c]) /\ connectionState_[c] = "connected"
<1> DEFINE s == IF "IN" \in rev THEN W!AfterRead(c)
                ELSE W!Left(inBuffer_[c], outBuffer_[c], connectionState_[c], FALSE, {})
<1>1. /\ outBuffer_[c] \in BOOLEAN
      /\ connectionState_[c] \in {"connected", "disconnecting", "disconnected"}
  BY DEF W!TypeOK
<1>2. /\ s.out \in BOOLEAN /\ s.error \in BOOLEAN
      /\ s.conn \in {"connected", "disconnecting", "disconnected"}
      /\ s.events \in {{}, {"IN"}} /\ (s.error => ~s.out)
      /\ ~s.error /\ s.conn = "connected" =>
           ("IN" \in rev => ~fin[c]) /\ connectionState_[c] = "connected"
  BY <1>1, AfterReadFacts DEF W!Left
<1>3. r = W!AfterWrite(c, s, all)
  BY DEF W!Result
<1> HIDE DEF s
<1>4. CASE s.error \/ ~s.out
  <2>1. r = s
    BY <1>3, <1>4 DEF W!AfterWrite
  <2> QED
    BY <1>2, <1>4, <2>1
<1>5. CASE ~(s.error \/ ~s.out) /\ rst[c]
  <2>1. r = [in |-> <<>>, out |-> FALSE, conn |-> "connected", error |-> TRUE, events |-> {}]
    BY <1>3, <1>5 DEF W!AfterWrite, W!Failed, W!Left
  <2> QED
    BY <2>1
<1>6. CASE ~(s.error \/ ~s.out) /\ ~rst[c]
  <2> DEFINE events == IF all THEN s.events ELSE s.events \cup {"OUT"}
  <2>1. r = [in |-> s.in, out |-> ~all, conn |-> s.conn, error |-> FALSE, events |-> events]
    BY <1>3, <1>6 DEF W!AfterWrite, W!Left
  <2>2. ~all <=> "OUT" \in events
    BY <1>2
  <2> HIDE DEF events
  <2> QED
    BY <1>2, <1>6, <2>1, <2>2
<1> QED
  BY <1>4, <1>5, <1>6

(* A handler takes the event of c, and the timer of c.                     *)
LEMMA HandlerFacts ==
  ASSUME W!ServerAssumption, Inv, NEW c \in Conn, NEW r, W!Handler(c, r)
  PROVE  /\ lpc = "events" /\ reg[c] # NULL /\ Mapped(c) /\ c \notin Handed
         /\ batch' = {e \in batch : e.chan # c}
         /\ UNCHANGED <<fd, fin, rst, accepting, evt, W!accept, lpc, functors>>
         /\ DOMAIN rx' = Conn /\ room' \in [Conn -> BOOLEAN] /\ DOMAIN inBuffer_' = Conn
         /\ \A d \in Conn \ {c} : rx'[d] = rx[d] /\ room'[d] = room[d]
         /\ r.out \in BOOLEAN /\ outBuffer_' = [outBuffer_ EXCEPT ![c] = r.out]
         /\ r.conn \in {"connected", "disconnecting", "disconnected"}
         /\ r.out <=> "OUT" \in r.events
         /\ "OUT" \in r.events => ~room'[c]
<1>1. PICK e \in batch, all \in BOOLEAN :
        /\ e.chan = c /\ "HUP" \notin e.rev
        /\ r = W!Result(c, e.rev, all)
        /\ batch' = batch \ {e}
        /\ rx' = [rx EXCEPT ![c] = IF "IN" \in e.rev THEN <<>> ELSE @]
        /\ room' = [room EXCEPT ![c] = @ /\ "OUT" \notin r.events]
  BY DEF W!Handler
<1>2. /\ lpc = "events"
      /\ UNCHANGED <<fd, fin, rst, accepting, evt, W!accept, lpc, functors>>
      /\ inBuffer_' = [inBuffer_ EXCEPT ![c] = r.in]
      /\ outBuffer_' = [outBuffer_ EXCEPT ![c] = r.out]
  BY DEF W!Handler
<1>3. W!TypeOK /\ Batch /\ Place(c) /\ c # "wakeup"
  BY ServerConstants DEF Inv
<1>4. reg[c] # NULL /\ Mapped(c) /\ c \notin Handed
  BY <1>1, <1>3 DEF Batch, Place
<1>5. batch' = {d \in batch : d.chan # c}
  BY <1>1, <1>3 DEF Batch
<1>6. /\ DOMAIN rx' = Conn /\ room' \in [Conn -> BOOLEAN] /\ DOMAIN inBuffer_' = Conn
      /\ \A d \in Conn \ {c} : rx'[d] = rx[d] /\ room'[d] = room[d]
      /\ "OUT" \in r.events => ~room'[c]
  BY <1>1, <1>2, <1>3 DEF W!TypeOK
<1>7. /\ r.out \in BOOLEAN /\ (r.out <=> "OUT" \in r.events)
      /\ r.conn \in {"connected", "disconnecting", "disconnected"}
  BY <1>1, <1>3, ResultFacts
<1> QED
  BY <1>2, <1>4, <1>5, <1>6, <1>7

(* A new timer takes the place of the old one.                             *)
LEMMA TimerFacts ==
  ASSUME W!TypeOK, NEW c \in Conn, Place(c), NEW new \in BOOLEAN, W!Timer(c, new)
  PROVE  /\ nodes' \in [Conn -> Nat] /\ timer_' \in [Conn -> BOOLEAN]
         /\ nodes'[c] = (IF new THEN 1 ELSE 0) /\ timer_'[c] = new
         /\ \A d \in Conn \ {c} : nodes'[d] = nodes[d] /\ timer_'[d] = timer_[d]
         /\ due' = due \ {c}
<1>1. W!Separated(c) = 0
  BY DEF W!Separated, Place, W!TypeOK
<1> QED
  BY <1>1 DEF W!Timer, Place, W!TypeOK

(* The handlers after which c is open still.                               *)
LEMMA KeepsInv ==
  ASSUME W!ServerAssumption, Inv, NEW c \in Conn, NEW r, W!Handler(c, r),
         NEW new \in BOOLEAN, W!Timer(c, new), UNCHANGED <<phase, W!maps>>,
         NEW i \in W!Events, reg' = [reg EXCEPT ![c] = i],
         ready \subseteq ready', ready' \subseteq ready \cup {c},
         connectionState_' = [connectionState_ EXCEPT ![c] = r.conn],
         NEW l \in W!Events, lastEvents_' = [lastEvents_ EXCEPT ![c] = l],
         new \/ (r.conn = "disconnecting" /\ r.out),
         r.conn = "connected" /\ ~rst[c] =>
           /\ l \in {{"IN"}, {"OUT"}} /\ i = l
           /\ r.out => "OUT" \in l
           /\ Reports(c, i)' => c \in ready'
  PROVE  Inv'
<1> USE DEF W!accept, W!maps
<1>1. W!TypeOK /\ Threads /\ Place(c) /\ i # NULL /\ l # NULL /\ c # "wakeup"
  BY ServerConstants DEF Inv
<1>2. /\ lpc = "events" /\ reg[c] # NULL /\ Mapped(c) /\ c \notin Handed
      /\ batch' = {e \in batch : e.chan # c}
      /\ UNCHANGED <<fd, fin, rst, accepting, evt, W!accept, lpc, functors>>
      /\ DOMAIN rx' = Conn /\ room' \in [Conn -> BOOLEAN] /\ DOMAIN inBuffer_' = Conn
      /\ \A d \in Conn \ {c} : rx'[d] = rx[d] /\ room'[d] = room[d]
      /\ r.out \in BOOLEAN /\ outBuffer_' = [outBuffer_ EXCEPT ![c] = r.out]
      /\ r.conn \in {"connected", "disconnecting", "disconnected"}
  BY HandlerFacts
<1>3. /\ nodes' \in [Conn -> Nat] /\ timer_' \in [Conn -> BOOLEAN]
      /\ nodes'[c] = (IF new THEN 1 ELSE 0) /\ timer_'[c] = new
      /\ \A d \in Conn \ {c} : nodes'[d] = nodes[d] /\ timer_'[d] = timer_[d]
      /\ due' = due \ {c}
  BY <1>1, TimerFacts
<1>4. \A d \in Conn : /\ reg'[d] # NULL <=> reg[d] # NULL
                      /\ d # c => /\ reg'[d] = reg[d] /\ lastEvents_'[d] = lastEvents_[d]
                                  /\ connectionState_'[d] = connectionState_[d]
                                  /\ outBuffer_'[d] = outBuffer_[d]
  BY <1>1, <1>2 DEF W!TypeOK
<1>5. /\ reg'[c] = i /\ lastEvents_'[c] = l /\ connectionState_'[c] = r.conn
      /\ outBuffer_'[c] = r.out
  BY <1>1, <1>2 DEF W!TypeOK
<1>6. W!TypeOK'
  BY <1>1, <1>2, <1>3 DEF W!TypeOK
<1>7. Threads'
  BY <1>1, <1>2 DEF Threads, Wakes
<1>8. Descriptors'
  BY <1>2, Zenon DEF Inv, Descriptors
<1>9. Batch'
  <2>1. \A e \in batch' : e \in batch /\ (e.chan # "wakeup" => e.chan \in Conn)
    BY <1>1, <1>2 DEF W!TypeOK
  <2> QED
    BY <1>4, <2>1 DEF Inv, Batch
<1>10. ASSUME NEW d \in Conn PROVE Place(d)'
  <2>1. Place(d) /\ (Mapped(d)' <=> Mapped(d)) /\ Handed' = Handed
    BY <1>2 DEF Inv, Mapped, Handed
  <2>2. CASE d = c
    <3>1. phase[c] = "open"
      BY <1>2 DEF Mapped
    <3> QED
      BY <1>1, <1>2, <1>3, <1>4, <1>5, <2>1, <2>2, <3>1 DEF Place, W!Lingering
  <2>3. CASE d # c
    BY <1>1, <1>2, <1>3, <1>4, <2>1, <2>3 DEF Place, W!Lingering
  <2> QED
    BY <2>2, <2>3
<1>11. ASSUME NEW d \in Conn PROVE Watch(d)'
  <2>1. Watch(d)
    BY DEF Inv
  <2>2. CASE d = c
    BY <1>2, <1>5, <2>2 DEF Watch
  <2>3. CASE d # c
    <3>1. (\A e \in batch : e.chan # d) <=> (\A e \in batch' : e.chan # d)
      BY <1>2, <2>3
    <3>2. \A e \in batch' : e \in batch
      BY <1>2
    <3>3. Reports(d, reg[d])' <=> Reports(d, reg[d])
      BY <1>2, <1>4, <2>3 DEF Reports
    <3> QED
      BY <1>2, <1>4, <2>1, <2>3, <3>1, <3>2, <3>3 DEF Watch
  <2> QED
    BY <2>2, <2>3
<1> QED
  BY <1>6, <1>7, <1>8, <1>9, <1>10, <1>11 DEF Inv

(* A connection that stays is asked for what it waits for, and has read or *)
(* written until there was no more.                                        *)
LEMMA StayInv ==
  ASSUME W!ServerAssumption, Inv, NEW c \in Conn, W!Stay(c)
  PROVE  Inv'
<1>1. PICK r \in W!Results(c) :
        /\ ~r.error /\ r.conn = "connected"
        /\ W!Handler(c, r)
        /\ W!Timer(c, TRUE)
        /\ connectionState_' = [connectionState_ EXCEPT ![c] = r.conn]
        /\ lastEvents_' = [lastEvents_ EXCEPT ![c] = W!Wanted(r.events)]
        /\ IF lastEvents_[c] = W!Wanted(r.events) THEN UNCHANGED <<reg, ready>>
           ELSE /\ reg' = [reg EXCEPT ![c] = W!Wanted(r.events)]
                /\ ready' = IF W!Found(c, W!Wanted(r.events))' = {} THEN ready ELSE ready \cup {c}
        /\ UNCHANGED <<phase, W!maps>>
  BY DEF W!Stay
<1> DEFINE l == W!Wanted(r.events)
<1>2. /\ reg[c] # NULL /\ rst' = rst /\ fin' = fin
      /\ r.out <=> "OUT" \in r.events
      /\ "OUT" \in r.events => ~room'[c]
  BY <1>1, HandlerFacts
<1>3. /\ l \in {{"IN"}, {"OUT"}} /\ l \in W!Events /\ (r.out <=> "OUT" \in l)
      /\ l = {"OUT"} => ~room'[c]
  BY <1>2 DEF W!Wanted, W!Events
<1>4. W!TypeOK /\ Watch(c)
  BY DEF Inv
<1> HIDE DEF l
<1>5. PICK e \in batch, all \in BOOLEAN :
        /\ e.chan = c /\ r = W!Result(c, e.rev, all)
        /\ rx' = [rx EXCEPT ![c] = IF "IN" \in e.rev THEN <<>> ELSE @]
  BY <1>1 DEF W!Handler
<1>6. connectionState_[c] = "connected" /\ ("IN" \in e.rev => ~fin[c])
  BY <1>1, <1>4, <1>5, ResultFacts
<1>7. CASE lastEvents_[c] = l
  <2>0. PICK i \in W!Events : i = reg[c]
    BY <1>2, <1>4 DEF W!TypeOK
  <2>1. reg' = [reg EXCEPT ![c] = i] /\ ready' = ready
    BY <1>1, <1>4, <1>7, <2>0 DEF W!TypeOK, l
  <2>2. ~rst[c] => /\ i = l /\ e.rev # {} /\ e.rev \subseteq l
    BY <1>2, <1>3, <1>4, <1>5, <1>6, <1>7, <2>0 DEF Watch
  <2>3. ASSUME ~rst[c] PROVE ~Reports(c, i)'
    <3>1. CASE l = {"IN"}
      <4>1. "IN" \in e.rev
        BY <2>2, <2>3, <3>1
      <4>2. ~fin'[c] /\ rx'[c] = <<>>
        BY <1>2, <1>4, <1>5, <1>6, <4>1 DEF W!TypeOK
      <4> QED
        BY <2>2, <2>3, <3>1, <4>2 DEF Reports
    <3>2. CASE l = {"OUT"}
      BY <1>3, <2>2, <2>3, <3>2 DEF Reports
    <3> QED
      BY <1>3, <3>1, <3>2
  <2>4. lastEvents_' = [lastEvents_ EXCEPT ![c] = l]
    BY <1>1 DEF l
  <2> QED
    BY <1>1, <1>2, <1>3, <2>1, <2>2, <2>3, <2>4, KeepsInv
<1>8. CASE lastEvents_[c] # l
  <2>1. /\ reg' = [reg EXCEPT ![c] = l]
        /\ ready' = IF W!Found(c, l)' = {} THEN ready ELSE ready \cup {c}
        /\ lastEvents_' = [lastEvents_ EXCEPT ![c] = l]
    BY <1>1, <1>8 DEF l
  <2>2. ~rst[c] /\ Reports(c, l)' => c \in ready'
    BY <1>2, <1>3, <2>1, FoundFacts
  <2>3. ready \subseteq ready' /\ ready' \subseteq ready \cup {c}
    BY <2>1
  <2> QED
    BY <1>1, <1>2, <1>3, <2>1, <2>2, <2>3, KeepsInv
<1> QED
  BY <1>7, <1>8

(* A connection that lingers keeps what epoll looks for.                   *)
LEMMA LingerInv ==
  ASSUME W!ServerAssumption, Inv, NEW c \in Conn, W!Linger(c)
  PROVE  Inv'
<1>1. PICK r \in W!Results(c) :
        /\ r.conn = "disconnecting" /\ "OUT" \in r.events
        /\ W!Handler(c, r)
        /\ W!Timer(c, FALSE)
        /\ connectionState_' = [connectionState_ EXCEPT ![c] = r.conn]
        /\ UNCHANGED <<phase, reg, ready, W!maps, lastEvents_>>
  BY DEF W!Linger, W!Unsent
<1>2. reg[c] # NULL /\ r.out
  BY <1>1, HandlerFacts
<1>3. PICK i \in W!Events, l \in W!Events : i = reg[c] /\ l = lastEvents_[c]
  BY <1>2 DEF Inv, W!TypeOK
<1>4. /\ reg' = [reg EXCEPT ![c] = i]
      /\ lastEvents_' = [lastEvents_ EXCEPT ![c] = l]
  BY <1>1, <1>3 DEF Inv, W!TypeOK
<1> QED
  BY <1>1, <1>2, <1>4, KeepsInv

(* The connections S are removed from the poller; who is referred to by    *)
(* nobody then is closed, and its descriptor is nobody's in the map.       *)
LEMMA RemoveInv ==
  ASSUME W!ServerAssumption, Inv, NEW S \in SUBSET Conn, \A c \in S : reg[c] # NULL,
         W!RemoveFromPoller(S), W!Release,
         UNCHANGED <<fd, fin, rst, evt, mconn, pendingFunctors_, functors, lastEvents_>>,
         mpc' = mpc, lpc' \in {"poll", "events", "calling"},
         DOMAIN rx' = Conn, room' \in [Conn -> BOOLEAN], DOMAIN inBuffer_' = Conn,
         outBuffer_' \in [Conn -> BOOLEAN],
         \A d \in Conn \ S : rx'[d] = rx[d] /\ room'[d] = room[d] /\ outBuffer_'[d] = outBuffer_[d],
         batch' = {e \in batch : e.chan \notin S},
         nodes' \in [Conn -> Nat], timer_' \in [Conn -> BOOLEAN],
         \A c \in S : nodes'[c] = 0 /\ ~timer_'[c],
         \A d \in Conn \ S : nodes'[d] = nodes[d] /\ (timer_'[d] <=> timer_[d]),
         due' = due \ S,
         Threads'
  PROVE  Inv'
<1>1. W!TypeOK /\ Descriptors /\ "wakeup" \notin Conn /\ NULL \notin Conn
  BY ServerConstants DEF Inv
<1> DEFINE F == {fd[c] : c \in S}
<1>2. /\ fd2chan_' = [f \in W!Fd |-> IF f \in F THEN NULL ELSE fd2chan_[f]]
      /\ fd2http_' = [f \in W!Fd |-> IF f \in F THEN NULL ELSE fd2http_[f]]
      /\ reg' = [c \in Conn |-> IF c \in S THEN NULL ELSE reg[c]]
      /\ ready' = ready \ S
      /\ connectionState_' = [c \in Conn |-> IF c \in S THEN "disconnected" ELSE connectionState_[c]]
  BY DEF W!RemoveFromPoller, W!Unmapped
<1>3. \A c \in S : Mapped(c) /\ phase[c] = "open" /\ c \notin Handed
  BY DEF Inv, Place, Mapped
<1>4. \A c \in Conn : phase[c] = "open" /\ c \notin S => fd[c] \notin F
  BY <1>1, <1>3 DEF Descriptors
<1>5. \A c \in S : fd[c] \in F
  OBVIOUS
<1> HIDE DEF F
<1>6. ASSUME NEW c \in Conn
      PROVE  c \in Range(fd2http_') <=> c \notin S /\ Mapped(c)
  <2>1. DOMAIN fd2http_' = W!Fd
    BY <1>2
  <2>2. Range(fd2http_') = {fd2http_'[f] : f \in W!Fd}
    BY <2>1, Zenon DEF Range
  <2>3. ASSUME NEW f \in W!Fd, fd2http_'[f] = c PROVE c \notin S /\ Mapped(c)
    <3>1. f \notin F /\ fd2http_[f] = c
      BY <1>1, <1>2, <2>3
    <3>2. phase[c] = "open" /\ fd[c] = f
      BY <1>1, <3>1 DEF Descriptors
    <3> QED
      BY <1>5, <3>1, <3>2 DEF Mapped
  <2>4. ASSUME c \notin S, Mapped(c) PROVE fd[c] \in W!Fd /\ fd2http_'[fd[c]] = c
    BY <1>1, <1>2, <1>4, <2>4 DEF Descriptors, Mapped
  <2> QED
    BY <2>2, <2>3, <2>4
<1>7. \A c \in Conn : W!Referenced(c)' <=> (c \notin S /\ Mapped(c)) \/ nodes'[c] > 0 \/ mconn = c \/ c \in Handed
  BY <1>6, Zenon DEF W!Referenced, Handed, W!Range, Range
<1>8. /\ phase' \in [Conn -> {"new", "backlog", "open", "closed"}]
      /\ \A c \in Conn : phase'[c] = "open" => phase[c] = "open" /\ W!Referenced(c)'
      /\ \A c \in Conn : phase'[c] \in {"new", "backlog"} => phase'[c] = phase[c]
      /\ \A c \in Conn : phase[c] = "open" /\ W!Referenced(c)' => phase'[c] = "open"
  BY <1>1, Released DEF W!TypeOK
<1>9. ASSUME NEW c \in Conn PROVE Mapped(c)' <=> c \notin S /\ Mapped(c)
  <2>1. CASE Mapped(c)'
    <3>1. fd[c] \in W!Fd /\ fd2http_'[fd[c]] = c
      BY <1>1, <1>8, <2>1 DEF Mapped, Descriptors
    <3>2. fd[c] \notin F /\ fd2http_[fd[c]] = c
      BY <1>1, <1>2, <3>1
    <3> QED
      BY <1>5, <1>8, <2>1, <3>2 DEF Mapped
  <2>2. CASE c \notin S /\ Mapped(c)
    BY <1>1, <1>2, <1>4, <1>7, <1>8, <2>2 DEF Mapped, Descriptors
  <2> QED
    BY <2>1, <2>2
<1>10. W!TypeOK'
  BY <1>1, <1>2, <1>8 DEF W!TypeOK
<1>11. Descriptors'
  <2>1. fd2chan_' = fd2http_'
    BY <1>1, <1>2 DEF Descriptors
  <2>2. ASSUME NEW f \in W!Fd, fd2http_'[f] # NULL
        PROVE  phase'[fd2http_'[f]] = "open" /\ fd'[fd2http_'[f]] = f
    <3>1. f \notin F /\ fd2http_'[f] = fd2http_[f] /\ fd2http_[f] # NULL /\ fd2http_[f] \in Conn
      BY <1>1, <1>2, <2>2 DEF W!TypeOK
    <3>2. phase[fd2http_[f]] = "open" /\ fd[fd2http_[f]] = f
      BY <1>1, <3>1 DEF Descriptors
    <3>3. fd2http_[f] \notin S /\ Mapped(fd2http_[f])
      BY <1>5, <3>1, <3>2 DEF Mapped
    <3> QED
      BY <1>7, <1>8, <3>1, <3>2, <3>3
  <2>3. /\ \A c \in Conn : phase'[c] = "open" => fd'[c] \in W!Fd
        /\ \A c, d \in Conn : phase'[c] = "open" /\ phase'[d] = "open" /\ fd'[c] = fd'[d] => c = d
    BY <1>1, <1>8 DEF Descriptors
  <2> QED
    BY <2>1, <2>2, <2>3 DEF Descriptors
<1>12. Batch'
  <2>1. \A e \in batch' : e \in batch /\ e.chan \notin S /\ (e.chan # "wakeup" => e.chan \in Conn)
    BY <1>1 DEF W!TypeOK
  <2> QED
    BY <1>2, <2>1 DEF Inv, Batch
<1>13. ASSUME NEW c \in Conn PROVE Place(c)' /\ Watch(c)'
  <2>1. Place(c) /\ Watch(c) /\ Handed' = Handed
    BY DEF Inv, Handed
  <2>2. CASE c \in S
    <3>1. reg'[c] = NULL /\ ~Mapped(c)' /\ ~timer_'[c] /\ nodes'[c] = 0 /\ c \notin due' /\ c \notin ready'
      BY <1>2, <1>9, <2>2
    <3> QED
      BY <1>3, <1>7, <1>8, <2>1, <2>2, <3>1 DEF Place, Watch
  <2>3. CASE c \notin S
    <3>1. /\ reg'[c] = reg[c] /\ (Mapped(c)' <=> Mapped(c)) /\ (timer_'[c] <=> timer_[c]) /\ nodes'[c] = nodes[c]
          /\ (c \in due' <=> c \in due) /\ (c \in ready' <=> c \in ready)
          /\ connectionState_'[c] = connectionState_[c] /\ outBuffer_'[c] = outBuffer_[c]
      BY <1>2, <1>9, <2>3
    <3>2. Place(c)'
      BY <1>1, <1>7, <1>8, <2>1, <2>3, <3>1 DEF Place, W!Lingering, W!TypeOK
    <3>3. /\ (\A e \in batch : e.chan # c) <=> (\A e \in batch' : e.chan # c)
          /\ \A e \in batch' : e \in batch
      BY <2>3
    <3>4. Reports(c, reg[c])' <=> Reports(c, reg[c])
      BY <2>3, <3>1 DEF Reports
    <3>5. Watch(c)'
      BY <2>1, <3>1, <3>3, <3>4 DEF Watch
    <3> QED
      BY <3>2, <3>5
  <2> QED
    BY <2>2, <2>3
<1> QED
  BY <1>10, <1>11, <1>12, <1>13 DEF Inv

(* A handler that closes its connection removes all of it.                 *)
LEMMA CloseInv ==
  ASSUME W!ServerAssumption, Inv, NEW c \in Conn, W!Close(c)
  PROVE  Inv'
<1>1. PICK r \in W!Results(c) :
        /\ W!Handler(c, r) /\ W!Timer(c, FALSE) /\ W!RemoveFromPoller({c})
        /\ lastEvents_' = lastEvents_ /\ W!Release
  BY DEF W!Close
<1>2. W!TypeOK /\ Threads /\ Place(c) /\ c # "wakeup"
  BY ServerConstants DEF Inv
<1>3. /\ lpc = "events" /\ reg[c] # NULL
      /\ batch' = {e \in batch : e.chan # c}
      /\ UNCHANGED <<fd, fin, rst, evt, W!accept, lpc, functors>>
      /\ DOMAIN rx' = Conn /\ room' \in [Conn -> BOOLEAN] /\ DOMAIN inBuffer_' = Conn
      /\ \A d \in Conn \ {c} : rx'[d] = rx[d] /\ room'[d] = room[d]
      /\ r.out \in BOOLEAN /\ outBuffer_' = [outBuffer_ EXCEPT ![c] = r.out]
  BY <1>1, HandlerFacts
<1>4. /\ nodes' \in [Conn -> Nat] /\ timer_' \in [Conn -> BOOLEAN]
      /\ nodes'[c] = 0 /\ timer_'[c] = FALSE
      /\ \A d \in Conn \ {c} : nodes'[d] = nodes[d] /\ timer_'[d] = timer_[d]
      /\ due' = due \ {c}
  BY <1>1, <1>2, TimerFacts
<1>5. outBuffer_' \in [Conn -> BOOLEAN] /\ \A d \in Conn \ {c} : outBuffer_'[d] = outBuffer_[d]
  BY <1>2, <1>3 DEF W!TypeOK
<1>6. Threads'
  BY <1>2, <1>3 DEF Threads, Wakes, W!accept
<1>7. batch' = {e \in batch : e.chan \notin {c}}
  BY <1>3
<1> QED
  BY <1>1, <1>3, <1>4, <1>5, <1>6, <1>7, RemoveInv DEF W!accept

(* Every timer that has run out closes the connection it refers to.        *)
LEMMA HandleExpiredInv ==
  ASSUME W!ServerAssumption, Inv, W!HandleExpired
  PROVE  Inv'
<1>1. W!TypeOK /\ Threads /\ "wakeup" \notin Conn
  BY ServerConstants DEF Inv
<1>2. PICK S \in SUBSET Conn : S = due
  BY <1>1 DEF W!TypeOK
<1>3. /\ lpc = "calling" /\ functors = <<>> /\ lpc' = "poll"
      /\ nodes' = [c \in Conn |-> IF c \in S THEN nodes[c] - 1 ELSE nodes[c]]
      /\ timer_' = [c \in Conn |-> timer_[c] /\ c \notin S]
      /\ due' = {} /\ W!RemoveFromPoller(S) /\ W!Release
      /\ UNCHANGED <<fd, W!kernel, evt, W!accept, batch, functors, inBuffer_, outBuffer_, lastEvents_>>
  BY <1>2 DEF W!HandleExpired
<1>4. \A c \in S : reg[c] # NULL /\ timer_[c] /\ nodes[c] = 1
  BY <1>2 DEF Inv, Place
<1>5. batch = {} /\ batch' = {e \in batch : e.chan \notin S}
  BY <1>1, <1>3 DEF Threads
<1>6. /\ nodes' \in [Conn -> Nat] /\ timer_' \in [Conn -> BOOLEAN]
      /\ \A c \in S : nodes'[c] = 0 /\ ~timer_'[c]
      /\ \A d \in Conn \ S : nodes'[d] = nodes[d] /\ (timer_'[d] <=> timer_[d])
      /\ due' = due \ S
  <2>1. nodes' \in [Conn -> Nat] /\ \A d \in Conn : nodes'[d] = IF d \in S THEN 0 ELSE nodes[d]
    BY <1>1, <1>3, <1>4 DEF W!TypeOK
  <2>2. /\ timer_' \in [Conn -> BOOLEAN]
        /\ \A d \in Conn : timer_'[d] <=> timer_[d] /\ d \notin S
    BY <1>3, Zenon
  <2>3. due' = due \ S
    BY <1>2, <1>3
  <2> QED
    BY <2>1, <2>2, <2>3
<1>7. /\ UNCHANGED <<fd, fin, rst, evt, mconn, pendingFunctors_, functors, lastEvents_>>
      /\ mpc' = mpc /\ DOMAIN rx' = Conn /\ room' \in [Conn -> BOOLEAN]
      /\ DOMAIN inBuffer_' = Conn /\ outBuffer_' \in [Conn -> BOOLEAN]
      /\ \A d \in Conn \ S : rx'[d] = rx[d] /\ room'[d] = room[d] /\ outBuffer_'[d] = outBuffer_[d]
  BY <1>1, <1>3 DEF W!TypeOK, W!kernel, W!accept
<1>8. Threads'
  <2>1. "wakeup" \in ready => "wakeup" \in ready'
    BY <1>1, <1>3 DEF W!RemoveFromPoller
  <2> QED
    BY <1>1, <1>3, <1>5, <1>7, <2>1 DEF Threads, Wakes
<1> QED
  BY <1>3, <1>4, <1>5, <1>6, <1>7, <1>8, RemoveInv

(* The loop takes what was handed to it,                                   *)
LEMMA SwapInv ==
  ASSUME W!ServerAssumption, Inv, W!Swap
  PROVE  Inv'
<1> USE DEF W!kernel, W!epoll, W!maps, W!http, W!timers
<1>1. /\ lpc = "events" /\ batch = {} /\ lpc' = "calling"
      /\ functors' = pendingFunctors_ /\ pendingFunctors_' = <<>>
      /\ UNCHANGED <<phase, fd, W!kernel, W!epoll, mpc, mconn, batch, W!maps, W!http, W!timers>>
  BY DEF W!Swap
<1>2. functors = <<>> /\ Range(<<>>) = {} /\ IsInjective(<<>>) /\ <<>> \in Seq(Conn)
  BY <1>1, EmptyFacts DEF Inv, Threads
<1>3. W!TypeOK'
  BY <1>1, <1>2 DEF Inv, W!TypeOK
<1>4. Threads' /\ Batch' /\ Descriptors'
  <2>1. Threads'
    BY <1>1, <1>2 DEF Inv, Threads
  <2>2. Batch' /\ Descriptors'
    BY <1>1, Zenon DEF Inv, Batch, Descriptors
  <2> QED
    BY <2>1, <2>2
<1>5. Handed' = Handed
  BY <1>1, <1>2 DEF Handed
<1>6. ASSUME NEW c \in Conn PROVE Place(c)' /\ Watch(c)'
  <2>1. Place(c) /\ Watch(c)
    BY DEF Inv
  <2>2. Place(c)'
    BY <1>1, <1>5, <2>1 DEF Place, Mapped, W!Lingering
  <2>3. Watch(c)'
    BY <1>1, <2>1 DEF Watch, Reports
  <2> QED
    BY <2>2, <2>3
<1> QED
  BY <1>3, <1>4, <1>6 DEF Inv

(* and adds each to its maps; no other connection has the descriptor.      *)
LEMMA NewEventInv ==
  ASSUME W!ServerAssumption, Inv, NEW c \in Conn, W!NewEvent(c)
  PROVE  Inv'
<1> USE DEF W!kernel, W!accept
<1> DEFINE i == {"IN", "ONESHOT"}
<1>1. /\ lpc = "calling" /\ functors # <<>> /\ c = Head(functors)
      /\ functors' = Tail(functors)
      /\ nodes' = [nodes EXCEPT ![c] = @ + 1] /\ timer_' = [timer_ EXCEPT ![c] = TRUE]
      /\ fd2http_' = [fd2http_ EXCEPT ![fd[c]] = c]
      /\ fd2chan_' = [fd2chan_ EXCEPT ![fd[c]] = c]
      /\ lastEvents_' = [lastEvents_ EXCEPT ![c] = i]
      /\ reg' = [reg EXCEPT ![c] = i]
      /\ ready' = IF W!Found(c, i) = {} THEN ready ELSE ready \cup {c}
      /\ UNCHANGED <<phase, fd, W!kernel, evt, W!accept, lpc, batch, due,
                     inBuffer_, outBuffer_, connectionState_>>
  BY DEF W!NewEvent
<1>2. W!TypeOK /\ Threads /\ Descriptors /\ Place(c) /\ c # NULL /\ c # "wakeup"
  BY ServerConstants DEF Inv
<1>3. i \in W!Events /\ i # NULL
  BY ServerConstants DEF W!Events
<1>4. ~rst[c] /\ Reports(c, i) => c \in ready'
  BY <1>1, <1>3, FoundFacts
<1> HIDE DEF i
<1>5. /\ c \in Range(functors) /\ Tail(functors) \in Seq(Conn)
      /\ IsInjective(Tail(functors)) /\ Range(Tail(functors)) = Range(functors) \ {c}
  BY <1>1, <1>2, TailFacts DEF W!TypeOK, Threads
<1>6. Handed' = Handed \ {c} /\ c \in Handed
  BY <1>1, <1>2, <1>5 DEF Handed, Threads
<1>7. /\ phase[c] = "open" /\ fd[c] \in W!Fd /\ reg[c] = NULL /\ ~timer_[c] /\ nodes[c] = 0
      /\ c \notin due /\ ~outBuffer_[c] /\ connectionState_[c] = "connected" /\ ~Mapped(c)
  BY <1>2, <1>6 DEF Place, Descriptors, W!TypeOK
<1>8. \A d \in Conn : phase[d] = "open" /\ d # c => fd[d] # fd[c]
  BY <1>2, <1>7 DEF Descriptors
<1>9. W!TypeOK'
  BY <1>1, <1>2, <1>3, <1>5, <1>7 DEF W!TypeOK
<1>10. Threads'
  <2>1. ready \subseteq ready' /\ batch = {} /\ (pendingFunctors_ # <<>> => Wakes)
    BY <1>1, <1>2 DEF Threads
  <2>2. Wakes => Wakes'
    BY <1>1, <2>1 DEF Wakes
  <2> QED
    BY <1>1, <1>2, <1>5, <2>1, <2>2 DEF Threads
<1>11. Descriptors'
  <2>1. \A f \in W!Fd : fd2http_'[f] # NULL =>
          phase'[fd2http_'[f]] = "open" /\ fd'[fd2http_'[f]] = f
    BY <1>1, <1>2, <1>7 DEF Descriptors, W!TypeOK
  <2>2. fd2chan_' = fd2http_'
    BY <1>1, <1>2 DEF Descriptors
  <2> QED
    BY <1>1, <1>2, <2>1, <2>2 DEF Descriptors
<1>12. Batch'
  BY <1>1, <1>2 DEF Batch, Threads
<1>13. ASSUME NEW d \in Conn PROVE Place(d)' /\ Watch(d)'
  <2>1. Place(d) /\ Watch(d) /\ d # "wakeup"
    BY ServerConstants DEF Inv
  <2>2. CASE d = c
    <3>1. Mapped(c)'
      BY <1>1, <1>2, <1>7 DEF Mapped, W!TypeOK
    <3>2. /\ reg'[c] = i /\ timer_'[c] /\ nodes'[c] = 1 /\ lastEvents_'[c] = i
      BY <1>1, <1>2, <1>7 DEF W!TypeOK
    <3>3. Place(c)'
      BY <1>1, <1>3, <1>6, <1>7, <3>1, <3>2 DEF Place
    <3>4. Watch(c)'
      BY <1>1, <1>2, <1>4, <1>7, <3>2 DEF Watch, Reports, Threads, i
    <3> QED
      BY <2>2, <3>3, <3>4
  <2>3. CASE d # c
    <3>1. Mapped(d)' <=> Mapped(d)
      BY <1>1, <1>2, <1>8, <2>3 DEF Mapped, Descriptors, W!TypeOK
    <3>2. /\ reg'[d] = reg[d] /\ timer_'[d] = timer_[d] /\ nodes'[d] = nodes[d]
          /\ lastEvents_'[d] = lastEvents_[d] /\ (d \in ready' <=> d \in ready)
      BY <1>1, <1>2, <2>3 DEF W!TypeOK
    <3>3. Place(d)'
      BY <1>1, <1>6, <2>1, <2>3, <3>1, <3>2 DEF Place, W!Lingering
    <3>4. Watch(d)'
      BY <1>1, <2>1, <3>2 DEF Watch, Reports
    <3> QED
      BY <3>3, <3>4
  <2> QED
    BY <2>2, <2>3
<1> QED
  BY <1>9, <1>10, <1>11, <1>12, <1>13 DEF Inv

(* A step of the loop keeps Inv.                                           *)
LEMMA LoopInv ==
  ASSUME W!ServerAssumption, Inv, W!Loop
  PROVE  Inv'
BY PollInv, HandleWakeupInv, SwapInv, HandleExpiredInv, HandleHupInv, StayInv, LingerInv,
   CloseInv, NewEventInv DEF W!Loop
-----------------------------------------------------------------------------
(* Inv holds always.                                                       *)
THEOREM ServerInvariance ==
  ASSUME W!ServerAssumption
  PROVE  W!Spec => []Inv
<1>1. W!Init => Inv
  BY InvInit
<1>2. Inv /\ [W!Next]_W!vars => Inv'
  BY MainInv, LoopInv, ClientsInv, IdleInv DEF W!Next
<1> QED
  BY <1>1, <1>2, PTL DEF W!Spec

(* Each state variable stays in its type.                                  *)
THEOREM ServerTypes ==
  ASSUME W!ServerAssumption
  PROVE  W!Spec => []W!TypeOK
<1>1. Inv => W!TypeOK
  BY DEF Inv
<1> QED
  BY <1>1, ServerInvariance, PTL

(* No loop waits for events while a connection that was handed to it waits *)
(* for the loop, with no wake-up under way: the order of queueInLoop, add  *)
(* and then write, and of loop(), read and then take, is enough.           *)
THEOREM WakeupKept ==
  ASSUME W!ServerAssumption
  PROVE  W!Spec => []W!NoLostWakeup
<1>1. Inv => W!NoLostWakeup
  BY DEF Inv, Threads, Wakes, W!NoLostWakeup
<1> QED
  BY <1>1, ServerInvariance, PTL

(* However often a descriptor is used again, what epoll reports of it goes *)
(* to the connection that has it, which is there to be handled.            *)
THEOREM NoStaleDescriptor ==
  ASSUME W!ServerAssumption
  PROVE  W!Spec => []W!FdsExact
<1>1. Inv => W!FdsExact
  BY DEF Inv, Descriptors, Place, Mapped, Batch, W!FdsExact
<1> QED
  BY <1>1, ServerInvariance, PTL

(* Edge-triggered epoll is enough for the handlers: none leaves a socket   *)
(* with something to do that no later event tells of.                      *)
THEOREM NoEdgeLost ==
  ASSUME W!ServerAssumption
  PROVE  W!Spec => []W!EdgeKept
<1>1. ASSUME Inv PROVE W!EdgeKept
  <2> SUFFICES ASSUME lpc = "poll", NEW c \in Conn,
                      reg[c] # NULL, ~rst[c], connectionState_[c] = "connected"
               PROVE  /\ reg[c] # {}
                      /\ W!Found(c, reg[c]) # {} => c \in ready
                      /\ outBuffer_[c] => "OUT" \in reg[c]
    BY DEF W!EdgeKept
  <2>1. Watch(c) /\ batch = {} /\ reg[c] \in W!Events
    BY <1>1 DEF Inv, Threads, W!TypeOK
  <2>2. W!Found(c, reg[c]) # {} <=> Reports(c, reg[c])
    BY <2>1, FoundFacts
  <2> QED
    BY <2>1, <2>2 DEF Watch
<1> QED
  BY <1>1, ServerInvariance, PTL

(* No connection is open and forgotten, except by a client that has shut   *)
(* down before it took the response.                                       *)
THEOREM NoneForgotten ==
  ASSUME W!ServerAssumption
  PROVE  W!Spec => []W!NoLeak
<1>1. ASSUME Inv PROVE W!NoLeak
  <2> SUFFICES ASSUME lpc = "poll", NEW c \in Conn, phase[c] = "open",
                      c \notin Range(pendingFunctors_), mconn # c
               PROVE  fd2http_[fd[c]] = c /\ (nodes[c] = 1 \/ (nodes[c] = 0 /\ W!Lingering(c)))
    BY DEF W!NoLeak, W!Range, Range
  <2>1. Place(c) /\ functors = <<>> /\ Range(<<>>) = {}
    BY <1>1, EmptyFacts DEF Inv, Threads
  <2> QED
    BY <2>1 DEF Place, Mapped, Handed
<1> QED
  BY <1>1, ServerInvariance, PTL
-----------------------------------------------------------------------------
(* The log, which shares no state with the server.                         *)

CONSTANTS Buffer, Limit, MaxLine

VARIABLES running_, currentBuffer_, nextBuffer_, buffers_,
          newBuffer1, newBuffer2, buffersToWrite, data, file, logging, count

L == INSTANCE AsyncLogging WITH pc <- logging

(* What the assumption says: four buffers, none of them null.              *)
LEMMA LogConstants ==
  ASSUME L!BufferAssumption
  PROVE  NULL \notin Buffer /\ Limit \in Nat /\ Limit >= 2 /\ MaxLine \in Nat
BY DEF L!BufferAssumption

Roles ==
  /\ nextBuffer_ = NULL => buffers_ # <<>>
  /\ logging = "write" =>
       /\ newBuffer1 = NULL
       /\ Len(buffersToWrite) >= (IF newBuffer2 = NULL THEN 2 ELSE 1)
       /\ newBuffer2 # NULL => data[newBuffer2] = <<>>
  /\ logging # "write" =>
       /\ buffersToWrite = <<>>
       /\ newBuffer1 # NULL /\ data[newBuffer1] = <<>>
       /\ newBuffer2 # NULL /\ data[newBuffer2] = <<>>

(* NoAlias, one pair of places at a time.                                  *)
Apart ==
  /\ currentBuffer_ \notin {nextBuffer_, newBuffer1, newBuffer2}
  /\ nextBuffer_ = NULL \/ nextBuffer_ \notin {newBuffer1, newBuffer2}
  /\ newBuffer1 = NULL \/ newBuffer1 # newBuffer2
  /\ \A b \in Range(buffers_) \cup Range(buffersToWrite) :
       b \notin {currentBuffer_, nextBuffer_, newBuffer1, newBuffer2}
  /\ \A b \in Range(buffers_) : b \notin Range(buffersToWrite)
  /\ IsInjective(buffers_) /\ IsInjective(buffersToWrite)

LogInv == L!TypeOK /\ Roles /\ Apart

(* Apart says of the places one by one what NoAlias says.                  *)
LEMMA ApartIsNoAlias == ASSUME L!BufferAssumption, L!TypeOK PROVE Apart <=> L!NoAlias
<1>1. /\ L!Pointers[1] = currentBuffer_ /\ L!Pointers[2] = nextBuffer_
      /\ L!Pointers[3] = newBuffer1 /\ L!Pointers[4] = newBuffer2
  BY DEF L!Pointers
<1>2. 1..4 = {1, 2, 3, 4}
  OBVIOUS
<1>3. currentBuffer_ # NULL
  BY LogConstants DEF L!TypeOK
<1>4. (\A i, j \in 1..4 : L!Pointers[i] = L!Pointers[j] => i = j \/ L!Pointers[i] = NULL)
        <=> /\ currentBuffer_ \notin {nextBuffer_, newBuffer1, newBuffer2}
            /\ nextBuffer_ = NULL \/ nextBuffer_ \notin {newBuffer1, newBuffer2}
            /\ newBuffer1 = NULL \/ newBuffer1 # newBuffer2
  BY <1>1, <1>2, <1>3
<1>5. ASSUME NEW S
      PROVE  (\A i \in 1..4 : L!Pointers[i] \notin S)
               <=> \A b \in S : b \notin {currentBuffer_, nextBuffer_, newBuffer1, newBuffer2}
  BY <1>1, <1>2
<1>6. QED
  BY <1>4, <1>5, Zenon DEF Apart, L!NoAlias, L!Range, Range, L!IsInjective, IsInjective

-----------------------------------------------------------------------------
(* No list of buffers holds the null pointer.                              *)
LEMMA NoNull == ASSUME L!BufferAssumption, NEW s \in Seq(Buffer) PROVE NULL \notin Range(s)
BY LogConstants DEF Range

(* What Write takes back.                                                  *)
LEMMA SpareFacts ==
  ASSUME L!BufferAssumption, buffersToWrite \in Seq(Buffer), Len(buffersToWrite) >= 1
  PROVE  /\ Len(L!Kept) >= 1 /\ (Len(buffersToWrite) >= 2 => Len(L!Kept) >= 2)
         /\ Last(L!Spare) \in Range(buffersToWrite) /\ Last(L!Spare) \in Buffer
         /\ Len(buffersToWrite) >= 2 =>
              /\ L!Second \in Range(buffersToWrite) /\ L!Second \in Buffer
              /\ IsInjective(buffersToWrite) => L!Second # Last(L!Spare)
<1> DEFINE bs == buffersToWrite
<1>0. Limit \in Nat /\ Limit >= 2
  BY LogConstants
<1>1. CASE Len(bs) = 1
  <2>1. ~(Len(bs) > Limit) /\ ~(Len(bs) > 2)
    BY <1>0, <1>1
  <2>. L!Kept = bs /\ L!Spare = bs
    BY <2>1, Zenon DEF L!Kept, L!Spare
  <2>2. QED
    BY <1>1 DEF Last, Range
<1>2. CASE Len(bs) >= 2
  <2>1. Len(L!Kept) >= 2 /\ L!Kept \in Seq(Buffer) /\ L!Kept[1] = bs[1] /\ L!Kept[2] = bs[2]
    BY <1>0, <1>2 DEF L!Kept
  <2>2. L!Spare \in Seq(Buffer) /\ Len(L!Spare) = 2 /\ L!Spare[1] = bs[1] /\ L!Spare[2] = bs[2]
    <3> DEFINE n == Len(L!Kept)
    <3>0. n \in Nat /\ n >= 2
      BY <2>1
    <3> HIDE DEF n
    <3>1. CASE n > 2
      <4>1. L!Spare = SubSeq(L!Kept, 1, 2)
        BY <3>1, Zenon DEF L!Spare, n
      <4>2. QED
        BY <2>1, <3>1, <4>1 DEF n
    <3>2. CASE n = 2
      <4>1. L!Spare = L!Kept
        BY <3>2, SMT DEF L!Spare, n
      <4>2. QED
        BY <2>1, <3>2, <4>1 DEF n
    <3>3. QED
      BY <3>0, <3>1, <3>2
  <2>3. Last(L!Spare) = bs[2] /\ L!Second = bs[1]
    BY <2>2 DEF L!Second, Last, Front, L!Last, L!Front
  <2>4. QED
    BY <1>2, <2>1, <2>3 DEF Range, IsInjective
<1>3. Len(bs) = 1 \/ Len(bs) >= 2
  <2> DEFINE k == Len(bs)
  <2>1. k \in Nat /\ k >= 1
    OBVIOUS
  <2> HIDE DEF k
  <2>2. k = 1 \/ k >= 2
    BY <2>1
  <2>3. QED
    BY <2>2 DEF k
<1>4. QED
  BY <1>1, <1>2, <1>3, Zenon

-----------------------------------------------------------------------------
USE LogConstants

(* LogInv holds at first: the four buffers are different and empty.        *)
LEMMA LogInit == ASSUME L!BufferAssumption PROVE L!Init => LogInv
<1> SUFFICES ASSUME L!Init PROVE LogInv
  OBVIOUS
<1> DEFINE t == CHOOSE s \in [1..4 -> Buffer] : IsInjective(s)
<1>1. t \in [1..4 -> Buffer] /\ IsInjective(t)
  BY DEF L!BufferAssumption, L!IsInjective, IsInjective
<1>2. /\ currentBuffer_ = t[1] /\ nextBuffer_ = t[2]
      /\ newBuffer1 = t[3] /\ newBuffer2 = t[4]
  BY Zenon DEF L!Init, L!IsInjective, IsInjective
<1> HIDE DEF t
<1>3. /\ t[1] # t[2] /\ t[1] # t[3] /\ t[1] # t[4] /\ t[2] # t[3] /\ t[2] # t[4] /\ t[3] # t[4]
  BY <1>1 DEF IsInjective
<1>4. \A i \in 1..4 : t[i] \in Buffer /\ t[i] # NULL
  BY <1>1
<1>5. L!TypeOK
  BY <1>2, <1>4, EmptyFacts DEF L!Init, L!TypeOK, L!Pointer
<1>6. Roles
  BY <1>2, <1>4 DEF L!Init, Roles
<1>7. Apart
  BY <1>2, <1>3, EmptyFacts DEF L!Init, Apart
<1>8. QED
  BY <1>5, <1>6, <1>7 DEF LogInv

(* A line goes to the current buffer, which the logging thread has not.    *)
LEMMA Append1Inv ==
  ASSUME L!BufferAssumption, LogInv, L!Append1
  PROVE  LogInv'
<1> USE DEF LogInv
<1>1. UNCHANGED <<running_, L!front, L!back, logging>>
  BY DEF L!Append1
<1>2. count' \in L!Line /\ count' \in 0..MaxLine
  BY DEF L!Append1, L!TypeOK, L!Line
<1>3. data' \in [Buffer -> Seq(L!Line)]
  BY <1>2 DEF L!Append1, L!TypeOK
<1>4. \A b \in Buffer : b # currentBuffer_ => data'[b] = data[b]
  BY DEF L!Append1, L!TypeOK
<1>5. L!TypeOK'
  BY <1>1, <1>2, <1>3, Zenon DEF L!TypeOK, L!front, L!back, L!Pointer
<1>6. Apart'
  BY <1>1, Zenon DEF Apart, L!front, L!back
<1>7. Roles'
  BY <1>1, <1>4 DEF Roles, Apart, L!TypeOK, L!Pointer, L!front, L!back
<1>8. QED
  BY <1>5, <1>6, <1>7

(* The current buffer is full: it joins the others, and the next one, of   *)
(* which nobody else knew, takes its place.                                *)
LEMMA AppendNextInv ==
  ASSUME L!BufferAssumption, LogInv, L!AppendNext
  PROVE  LogInv'
<1> USE DEF LogInv
<1>1. /\ UNCHANGED <<running_, L!back, logging>>
      /\ nextBuffer_' = NULL
      /\ buffers_' = Append(buffers_, currentBuffer_)
      /\ currentBuffer_' = IF nextBuffer_ # NULL THEN nextBuffer_ ELSE L!New
      /\ nextBuffer_ = NULL => L!Fresh # {}
  BY DEF L!AppendNext
<1>2. nextBuffer_ = NULL => L!New \in Buffer /\ L!New \notin L!Known
  BY <1>1 DEF L!New, L!Fresh
<1>3. /\ currentBuffer_' \in Buffer /\ currentBuffer_' # NULL
      /\ currentBuffer_' \notin {currentBuffer_, newBuffer1, newBuffer2}
      /\ currentBuffer_' \notin Range(buffers_) \cup Range(buffersToWrite)
  BY <1>1, <1>2, Zenon DEF L!Known, L!TypeOK, L!Pointer, Apart, L!Range, Range
<1>4. count' \in L!Line /\ count' \in 0..MaxLine
  BY DEF L!AppendNext, L!TypeOK, L!Line
<1>5. data' = [data EXCEPT ![currentBuffer_'] = Append(@, count')]
  BY DEF L!AppendNext
<1>6. data' \in [Buffer -> Seq(L!Line)]
  BY <1>3, <1>4, <1>5 DEF L!TypeOK
<1>7. \A b \in Buffer : b # currentBuffer_' => data'[b] = data[b]
  BY <1>3, <1>5 DEF L!TypeOK
<1>8. /\ buffers_' \in Seq(Buffer) /\ buffers_' # <<>>
      /\ Range(buffers_') = Range(buffers_) \cup {currentBuffer_}
      /\ IsInjective(buffers_')
  BY <1>1, AppendFacts DEF L!TypeOK, Apart
<1>9. L!TypeOK'
  BY <1>1, <1>3, <1>4, <1>6, <1>8, Zenon DEF L!TypeOK, L!back, L!Pointer
<1>10. Apart'
  <2>1. NULL \notin Range(buffers_') /\ NULL \notin Range(buffersToWrite')
    BY <1>1, <1>8, NoNull DEF L!TypeOK, L!back
  <2>2. currentBuffer_ \notin {newBuffer1, newBuffer2} \cup Range(buffersToWrite)
    BY Zenon DEF Apart
  <2>3. QED
    BY <1>1, <1>3, <1>8, <2>1, <2>2, Zenon DEF Apart, L!back
<1>11. Roles'
  BY <1>1, <1>3, <1>7, <1>8 DEF Roles, L!TypeOK, L!Pointer, L!back
<1>12. QED
  BY <1>9, <1>10, <1>11

(* The logging thread takes the full buffers and the current one, and puts *)
(* its own in place of what is missing.                                    *)
LEMMA ExchangeInv ==
  ASSUME L!BufferAssumption, LogInv, L!Exchange
  PROVE  LogInv'
<1> USE DEF LogInv
<1>1. /\ UNCHANGED <<running_, data, count>>
      /\ buffersToWrite' = Append(buffers_, currentBuffer_)
      /\ buffers_' = <<>>
      /\ currentBuffer_' = newBuffer1 /\ newBuffer1' = NULL
      /\ nextBuffer_' = IF nextBuffer_ = NULL THEN newBuffer2 ELSE nextBuffer_
      /\ newBuffer2' = IF nextBuffer_ = NULL THEN NULL ELSE newBuffer2
      /\ logging' = "write"
  BY DEF L!Exchange
<1>2. logging # "write"
  BY DEF L!Exchange, L!Awake
<1>3. /\ buffersToWrite = <<>>
      /\ newBuffer1 \in Buffer /\ newBuffer2 \in Buffer
      /\ data[newBuffer2] = <<>>
  BY <1>2 DEF Roles, L!TypeOK, L!Pointer
<1>4. /\ buffersToWrite' \in Seq(Buffer)
      /\ Len(buffersToWrite') = Len(buffers_) + 1
      /\ Range(buffersToWrite') = Range(buffers_) \cup {currentBuffer_}
      /\ IsInjective(buffersToWrite')
  BY <1>1, AppendFacts DEF L!TypeOK, Apart
<1>5. L!TypeOK'
  BY <1>1, <1>3, <1>4, EmptyFacts, Zenon DEF L!TypeOK, L!Pointer
<1>6. Apart'
  <2>1. NULL \notin Range(buffersToWrite') /\ NULL \notin Buffer
    BY <1>4, NoNull
  <2>2. currentBuffer_' \in Buffer /\ currentBuffer_ \in Buffer
    BY <1>1, <1>3 DEF L!TypeOK
  <2>3. QED
    BY <1>1, <1>3, <1>4, <2>1, <2>2, EmptyFacts, Zenon DEF Apart
<1>7. nextBuffer_ = NULL => Len(buffers_) >= 1
  BY DEF Roles, L!TypeOK
<1>8. Roles'
  <2>1. nextBuffer_' # NULL
    BY <1>1, <1>3
  <2>2. Len(buffersToWrite') >= (IF newBuffer2' = NULL THEN 2 ELSE 1)
    <3>1. Len(buffers_) \in Nat
      BY DEF L!TypeOK
    <3>2. newBuffer2' = NULL => Len(buffers_) >= 1
      BY <1>1, <1>3, <1>7, NoNull
    <3>3. QED
      BY <1>4, <3>1, <3>2
  <2>3. QED
    BY <1>1, <1>3, <2>1, <2>2, Zenon DEF Roles
<1>9. QED
  BY <1>5, <1>6, <1>8

(* It takes two back, which nobody else has.                               *)
LEMMA WriteInv ==
  ASSUME L!BufferAssumption, LogInv, L!Write
  PROVE  LogInv'
<1> USE DEF LogInv
<1>1. /\ UNCHANGED <<running_, L!front, count>>
      /\ newBuffer1' = Last(L!Spare)
      /\ newBuffer2' = IF newBuffer2 = NULL THEN L!Second ELSE newBuffer2
      /\ buffersToWrite' = <<>>
      /\ data' = [b \in Buffer |-> IF b \in L!Cleared THEN <<>> ELSE data[b]]
      /\ logging = "write" /\ logging' = "top"
  BY DEF L!Write, L!Last, Last
<1>2. /\ buffersToWrite \in Seq(Buffer)
      /\ Len(buffersToWrite) >= (IF newBuffer2 = NULL THEN 2 ELSE 1)
      /\ newBuffer2 # NULL => newBuffer2 \in Buffer /\ data[newBuffer2] = <<>>
  BY <1>1 DEF Roles, L!TypeOK, L!Pointer
<1>3. Len(buffersToWrite) >= 1 /\ (newBuffer2 = NULL => Len(buffersToWrite) >= 2)
  BY <1>2
<1>4. /\ newBuffer1' \in Buffer /\ newBuffer1' \in Range(buffersToWrite)
      /\ newBuffer2' \in Buffer /\ newBuffer2' # newBuffer1'
      /\ newBuffer2' = newBuffer2 \/ newBuffer2' \in Range(buffersToWrite)
  BY <1>1, <1>2, <1>3, SpareFacts DEF Apart
<1>5. data' \in [Buffer -> Seq(L!Line)]
  BY <1>1 DEF L!TypeOK
<1>6. data'[newBuffer1'] = <<>> /\ data'[newBuffer2'] = <<>>
  BY <1>1, <1>2, <1>4 DEF L!Cleared, L!Range, Range
<1>7. L!TypeOK'
  BY <1>1, <1>4, <1>5, EmptyFacts, Zenon DEF L!TypeOK, L!front, L!Pointer
<1>8. Apart'
  BY <1>1, <1>4, EmptyFacts, Zenon DEF Apart, L!TypeOK, L!front
<1>9. Roles'
  BY <1>1, <1>4, <1>6, Zenon DEF Roles, L!front
<1>10. QED
  BY <1>7, <1>8, <1>9

(* Steps that move no buffer.                                              *)
LEMMA LogOtherSteps ==
  ASSUME L!BufferAssumption, LogInv, L!Top \/ L!Wait \/ L!Stop \/ UNCHANGED L!vars
  PROVE  LogInv'
<1>1. /\ UNCHANGED <<L!front, L!back, data, count>>
      /\ running_' \in BOOLEAN
      /\ logging' \in {"top", "look", "wait", "write", "done"}
      /\ logging' = "write" <=> logging = "write"
  BY DEF LogInv, L!TypeOK, L!Top, L!Wait, L!Stop, L!vars
<1>2. L!TypeOK'
  BY <1>1, Zenon DEF LogInv, L!TypeOK, L!front, L!back, L!Pointer
<1>3. Roles' /\ Apart'
  BY <1>1, Zenon DEF LogInv, Roles, Apart, L!front, L!back
<1>4. QED
  BY <1>2, <1>3 DEF LogInv

(* The pointers of both threads and the lists of buffers are as LogInv     *)
(* says: each buffer has one place, and the right pointers are null.       *)
THEOREM LogInvariance ==
  ASSUME L!BufferAssumption
  PROVE  L!Spec => []LogInv
<1>1. ASSUME LogInv, [L!Next]_L!vars PROVE LogInv'
  BY <1>1, Append1Inv, AppendNextInv, ExchangeInv, WriteInv, LogOtherSteps DEF L!Next
<1>2. QED
  BY LogInit, <1>1, PTL DEF L!Spec

(* The assertions of threadFunc never fail.                                *)
THEOREM LogAsserts ==
  ASSUME L!BufferAssumption
  PROVE  L!Spec => []L!AssertsHold
<1>1. ASSUME LogInv PROVE L!AssertsHold
  <2>1. logging = "write" => Len(L!Kept) >= (IF newBuffer2 = NULL THEN 2 ELSE 1)
    BY <1>1, SpareFacts DEF LogInv, L!TypeOK, Roles
  <2>2. logging \in {"top", "look", "wait"} => logging # "write"
    OBVIOUS
  <2>3. QED
    BY <1>1, <2>1, <2>2 DEF LogInv, Roles, L!AssertsHold
<1>2. QED
  BY <1>1, LogInvariance, PTL

(* No buffer is appended to while it is written or kept for later.         *)
THEOREM OneOwner ==
  ASSUME L!BufferAssumption
  PROVE  L!Spec => []L!NoAlias
<1>1. ASSUME LogInv PROVE L!NoAlias
  BY <1>1, ApartIsNoAlias DEF LogInv
<1>2. QED
  BY <1>1, LogInvariance, PTL
=============================================================================
