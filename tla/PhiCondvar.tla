----------------------------- MODULE PhiCondvar -----------------------------
(***************************************************************************)
(* The philosophers of kern/sync/check_sync.c that use a monitor: kernel   *)
(* threads forked by init_main, which eat TIMES times and quit.            *)
(*                                                                         *)
(* pc[i] is the next statement of philosopher i:                           *)
(*   "think" do_sleep            "take" enter the monitor                  *)
(*   "hungry" HUNGRY             "self" test(i)                            *)
(*   "check" cond_wait, or not   "served" leave the monitor                *)
(*   "eat" do_sleep              "put" enter the monitor                   *)
(*   "drop" THINKING             "left", "right" test the neighbours       *)
(*   "leave" leave the monitor   "quit" return 0       "gone"              *)
(* While at[i] is inside cond_signal or cond_wait the call goes on first.  *)
(***************************************************************************)
EXTENDS Naturals, Sequences, FiniteSets

CONSTANTS N,        \* the number of philosophers
          TIMES,    \* how often each one eats
          NULL

ASSUME PhiAssumption ==
  /\ N \in Nat /\ N >= 3
  /\ TIMES \in Nat \ {0}
  /\ NULL \notin 0..N-1

VARIABLES value, wait_queue, tstate, running,
          next_count, count, at, on,
          state_condvar, pc, iter

vars == <<value, wait_queue, tstate, running, next_count, count, at, on,
          state_condvar, pc, iter>>

Phi == 0..N-1
LEFT(i) == (i - 1 + N) % N
RIGHT(i) == (i + 1) % N

(* mtp, with a condition variable for every philosopher. *)
Mtp == INSTANCE Monitor WITH Thread <- Phi, CV <- Phi

Stays == UNCHANGED <<value, wait_queue, tstate, running, next_count, count, at, on>>

Init ==
  /\ Mtp!Init
  /\ state_condvar = [i \in Phi |-> "THINKING"]
  /\ pc = [i \in Phi |-> "think"]
  /\ iter = [i \in Phi |-> 1]

(* The statement at from, outside the monitor's own code. *)
Step(i, from, to) ==
  /\ pc[i] = from
  /\ pc' = [pc EXCEPT ![i] = to]
  /\ at[i] \in {"in", "out"}
-----------------------------------------------------------------------------
Think(i) ==
  /\ Step(i, "think", "take")
  /\ Mtp!Sleep(i)
  /\ UNCHANGED <<state_condvar, iter>>

(* phi_take_forks_condvar *)
Take(i) ==
  /\ Step(i, "take", "hungry")
  /\ Mtp!Enter(i)
  /\ UNCHANGED <<state_condvar, iter>>

Hungry(i) ==
  /\ Step(i, "hungry", "self")
  /\ state_condvar' = [state_condvar EXCEPT ![i] = "HUNGRY"]
  /\ Stays
  /\ UNCHANGED iter

(* phi_test_condvar(j), called by i *)
MayEat(j) ==
  /\ state_condvar[j] = "HUNGRY"
  /\ state_condvar[LEFT(j)] # "EATING"
  /\ state_condvar[RIGHT(j)] # "EATING"

TestMutant(i, j) ==
  IF MayEat(j)
    THEN IF count[j] > 0
           THEN Mtp!CondSignal(i, j) /\ UNCHANGED state_condvar
           ELSE state_condvar' = [state_condvar EXCEPT ![j] = "EATING"] /\ Stays
    ELSE Stays /\ UNCHANGED state_condvar

Test(i, j) ==
  IF MayEat(j)
    THEN /\ state_condvar' = [state_condvar EXCEPT ![j] = "EATING"]
         /\ IF count[j] > 0 THEN Mtp!CondSignal(i, j) ELSE Stays
    ELSE Stays /\ UNCHANGED state_condvar

TestSelf(i) ==
  /\ Step(i, "self", "check")
  /\ Test(i, i)
  /\ UNCHANGED iter

Check(i) ==
  /\ Step(i, "check", "served")
  /\ IF state_condvar[i] # "EATING" THEN Mtp!CondWait(i, i) ELSE Stays
  /\ UNCHANGED <<state_condvar, iter>>

Served(i) ==
  /\ Step(i, "served", "eat")
  /\ Mtp!Exit(i)
  /\ UNCHANGED <<state_condvar, iter>>

Eat(i) ==
  /\ Step(i, "eat", "put")
  /\ Mtp!Sleep(i)
  /\ UNCHANGED <<state_condvar, iter>>

(* phi_put_forks_condvar *)
Put(i) ==
  /\ Step(i, "put", "drop")
  /\ Mtp!Enter(i)
  /\ UNCHANGED <<state_condvar, iter>>

Drop(i) ==
  /\ Step(i, "drop", "left")
  /\ state_condvar' = [state_condvar EXCEPT ![i] = "THINKING"]
  /\ Stays
  /\ UNCHANGED iter

TestLeftMutant(i) ==
  /\ Step(i, "left", "right")
  /\ Stays
  /\ UNCHANGED <<state_condvar, iter>>

TestLeft(i) ==
  /\ Step(i, "left", "right")
  /\ Test(i, LEFT(i))
  /\ UNCHANGED iter

TestRight(i) ==
  /\ Step(i, "right", "leave")
  /\ Test(i, RIGHT(i))
  /\ UNCHANGED iter

LeaveTable(i) ==
  /\ Step(i, "leave", IF iter[i] < TIMES THEN "think" ELSE "quit")
  /\ Mtp!Exit(i)
  /\ iter' = [iter EXCEPT ![i] = @ + 1]
  /\ UNCHANGED state_condvar

Quit(i) ==
  /\ Step(i, "quit", "gone")
  /\ Mtp!Quit(i)
  /\ UNCHANGED <<state_condvar, iter>>

(* The rest of a cond_signal or cond_wait. *)
InCall(i) == Mtp!Inside(i) /\ UNCHANGED <<state_condvar, pc, iter>>
-----------------------------------------------------------------------------
Run(i) ==
  /\ running = i
  /\ \/ Think(i) \/ Take(i) \/ Hungry(i) \/ TestSelf(i) \/ Check(i) \/ Served(i)
     \/ Eat(i) \/ Put(i) \/ Drop(i) \/ TestLeft(i) \/ TestRight(i) \/ LeaveTable(i)
     \/ Quit(i) \/ InCall(i)

Schedule(i) == Mtp!Schedule(i) /\ UNCHANGED <<state_condvar, pc, iter>>

Interrupt(i) == Mtp!Interrupt(i) /\ UNCHANGED <<state_condvar, pc, iter>>

AllGone == (\A i \in Phi : pc[i] = "gone") /\ UNCHANGED vars

Next ==
  \/ \E i \in Phi : Run(i) \/ Schedule(i) \/ Interrupt(i)
  \/ AllGone

Spec == Init /\ [][Next]_vars

(* The running thread goes on, sleeps end, and a runnable thread gets the  *)
(* CPU again and again.                                                    *)
Fairness ==
  \A i \in Phi :
    /\ WF_vars(Run(i))
    /\ WF_vars(Interrupt(i))
    /\ SF_vars(Schedule(i))

FairSpec == Spec /\ Fairness
-----------------------------------------------------------------------------
(* cond_wait is called under an if, not in a loop: whoever returns from it *)
(* has been made EATING by a neighbour, and still is when it has come back *)
(* to put the forks down.                                                  *)
WokenEats ==
  \A i \in Phi :
    \/ pc[i] = "served" /\ Mtp!Owns(i) /\ at[i] = "in"
    \/ pc[i] \in {"eat", "put", "drop"}
    => state_condvar[i] = "EATING"

(* PhiCondvar implements Dining. *)
Table == INSTANCE Dining WITH state <- state_condvar

TableSpec == Table!Spec

(* Every philosopher eats TIMES times and quits: nobody starves, and no    *)
(* call of cond_signal or cond_wait sleeps for ever.                       *)
EveryoneQuits == <>(\A i \in Phi : pc[i] = "gone")
=============================================================================
