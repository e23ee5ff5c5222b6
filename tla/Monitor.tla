------------------------------ MODULE Monitor -------------------------------
(***************************************************************************)
(* The monitor of kern/sync/monitor.c, built from semaphores, used by      *)
(* threads whose routines follow monitor.h: Enter, then cond_signal and    *)
(* cond_wait on any condition variables, then Exit.                        *)
(*                                                                         *)
(* at[t] is where t is in the monitor's code:                              *)
(*   "out"   in no routine            "in"    in the body of a routine     *)
(*   "sig"   before down(&next)       "sigged"  before next_count--        *)
(*   "wait"  before down(&cv->sem)    "waited"  before count--             *)
(* With tstate "ksem" it is still inside the down() before that place.     *)
(***************************************************************************)
EXTENDS Naturals, Sequences, FiniteSets

CONSTANTS Thread, CV, NULL

ASSUME MonitorAssumption == NULL \notin Thread

VARIABLES value, wait_queue, tstate, running,
          next_count, count,
          at, on        \* on[t] is the condition variable t waits on, or NULL

semVars == <<value, wait_queue, tstate, running>>
monVars == <<next_count, count, at, on>>
vars == <<semVars, monVars>>

mutex == <<"mutex", NULL>>
next == <<"next", NULL>>
sem(c) == <<"sem", c>>
Semaphores == {mutex, next} \cup {sem(c) : c \in CV}

INSTANCE Sem WITH Semaphore <- Semaphores

(* monitor_init *)
Init ==
  /\ SemInit([x \in Semaphores |-> IF x = mutex THEN 1 ELSE 0])
  /\ next_count = 0
  /\ count = [c \in CV |-> 0]
  /\ at = [t \in Thread |-> "out"]
  /\ on = [t \in Thread |-> NULL]

Move(t, from, to) == at[t] = from /\ at' = [at EXCEPT ![t] = to]
-----------------------------------------------------------------------------
Enter(t) ==
  /\ Move(t, "out", "in")
  /\ Down(t, mutex)
  /\ UNCHANGED <<next_count, count, on>>

(* The end of a routine, and what cond_wait does to let others in. *)
ReleaseMutant == Up(mutex)

Release == IF next_count > 0 THEN Up(next) ELSE Up(mutex)

Exit(t) ==
  /\ Move(t, "in", "out")
  /\ Release
  /\ UNCHANGED <<next_count, count, on>>

(* cond_signal does nothing when count[c] is 0. *)
CondSignal(t, c) ==
  /\ count[c] > 0
  /\ Move(t, "in", "sig")
  /\ next_count' = next_count + 1
  /\ Up(sem(c))
  /\ UNCHANGED <<count, on>>

SignalDown(t) ==
  /\ Move(t, "sig", "sigged")
  /\ Down(t, next)
  /\ UNCHANGED <<next_count, count, on>>

SignalReturnMutant(t) ==
  /\ Move(t, "sigged", "in")
  /\ UNCHANGED <<semVars, next_count, count, on>>

SignalReturn(t) ==
  /\ Move(t, "sigged", "in")
  /\ next_count' = next_count - 1
  /\ UNCHANGED <<semVars, count, on>>

CondWait(t, c) ==
  /\ Move(t, "in", "wait")
  /\ count' = [count EXCEPT ![c] = @ + 1]
  /\ Release
  /\ on' = [on EXCEPT ![t] = c]
  /\ UNCHANGED next_count

WaitDown(t) ==
  /\ Move(t, "wait", "waited")
  /\ Down(t, sem(on[t]))
  /\ UNCHANGED <<next_count, count, on>>

WaitReturn(t) ==
  /\ Move(t, "waited", "in")
  /\ count' = [count EXCEPT ![on[t]] = @ - 1]
  /\ on' = [on EXCEPT ![t] = NULL]
  /\ UNCHANGED <<semVars, next_count>>

(* The statements inside cond_signal and cond_wait. *)
Inside(t) == SignalDown(t) \/ SignalReturn(t) \/ WaitDown(t) \/ WaitReturn(t)

(* do_sleep, in a routine or outside one. *)
Sleep(t) ==
  /\ at[t] \in {"out", "in"}
  /\ Leave(t, "timer")
  /\ UNCHANGED <<next_count, count, at, on>>
(* The thread's function returns. *)
Quit(t) ==
  /\ at[t] = "out"
  /\ Leave(t, "gone")
  /\ UNCHANGED <<next_count, count, at, on>>
-----------------------------------------------------------------------------
Run(t) ==
  /\ running = t
  /\ \/ Enter(t) \/ Exit(t) \/ Inside(t) \/ Sleep(t) \/ Quit(t)
     \/ \E c \in CV : CondSignal(t, c) \/ CondWait(t, c)

Schedule(t) == Dispatch(t) /\ UNCHANGED <<next_count, count, at, on>>

Interrupt(t) == Fire(t) /\ UNCHANGED <<next_count, count, at, on>>

Next == \E t \in Thread : Run(t) \/ Schedule(t) \/ Interrupt(t)

Spec == Init /\ [][Next]_vars
-----------------------------------------------------------------------------
(* The types, and value and next_count never go below 0.                   *)
TypeOK ==
  /\ SemTypeOK
  /\ next_count \in Nat
  /\ count \in [CV -> Nat]
  /\ at \in [Thread -> {"out", "in", "sig", "sigged", "wait", "waited"}]
  /\ on \in [Thread -> CV \cup {NULL}]

(* t may touch what the monitor protects: it has not given the monitor     *)
(* away and is past the down() that gives it back.                         *)
Owns(t) == at[t] \in {"in", "sigged", "waited"} /\ tstate[t] # "ksem"

(* At most one thread is in the monitor, none while mutex is free, and no  *)
(* up() of next or of a condition variable finds its queue empty: a signal *)
(* that was stored would let a second thread in later.                     *)
OneInside ==
  /\ \A t, u \in Thread : Owns(t) /\ Owns(u) => t = u
  /\ value[mutex] + Cardinality({t \in Thread : Owns(t)}) <= 1
  /\ \A x \in Semaphores \ {mutex} : value[x] = 0

(* Whenever a thread may read the counters, they are the numbers of the    *)
(* threads asleep: count[c] on the condition variable, next_count on next. *)
CountsExact ==
  \A t \in Thread : running = t /\ at[t] = "in" =>
    /\ next_count = Len(wait_queue[next])
    /\ \A c \in CV : count[c] = Len(wait_queue[sem(c)])

(* The invariant of the monitor. *)
MonitorOK == TypeOK /\ OneInside /\ CountsExact

(* The monitor implements Hoare: a thread that has given the monitor away  *)
(* and not yet gone to sleep counts as the last one in the queue.          *)
Going(where, c) ==
  IF \E t \in Thread : running = t /\ at[t] = where /\ on[t] = c THEN <<running>> ELSE <<>>

Owner == IF \E t \in Thread : Owns(t) THEN CHOOSE t \in Thread : Owns(t) ELSE NULL
Urgent == wait_queue[next] \o Going("sig", NULL)
Cond == [c \in CV |-> wait_queue[sem(c)] \o Going("wait", c)]

H == INSTANCE Hoare WITH owner <- Owner, entry <- wait_queue[mutex], urgent <- Urgent, cond <- Cond

HoareSpec == H!Spec
=============================================================================
