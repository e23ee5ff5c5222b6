------------------------------ MODULE PhiSema -------------------------------
(***************************************************************************)
(* The philosophers of kern/sync/check_sync.c that use semaphores: kernel  *)
(* threads forked by init_main, which eat TIMES times and quit.            *)
(*                                                                         *)
(* pc[i] is the next statement of philosopher i:                           *)
(*   "think" do_sleep            "take" down(&mutex)                       *)
(*   "hungry" HUNGRY             "self" test(i)                            *)
(*   "took" up(&mutex)           "grab" down(&s[i])                        *)
(*   "eat" do_sleep              "put" down(&mutex)                        *)
(*   "drop" THINKING             "left", "right" test the neighbours       *)
(*   "leave" up(&mutex)          "quit" return 0       "gone"              *)
(* With tstate "ksem" it is still inside the down() before that statement. *)
(***************************************************************************)
EXTENDS Naturals, Sequences, FiniteSets

CONSTANTS N,        \* the number of philosophers
          TIMES,    \* how often each one eats
          NULL

ASSUME PhiAssumption ==
  /\ N \in Nat /\ N >= 3
  /\ TIMES \in Nat \ {0}
  /\ NULL \notin 0..N-1

VARIABLES value, wait_queue, tstate, running,
          state_sema, pc, iter

vars == <<value, wait_queue, tstate, running, state_sema, pc, iter>>

Phi == 0..N-1
LEFT(i) == (i - 1 + N) % N
RIGHT(i) == (i + 1) % N

mutex == <<"mutex", 0>>
s(i) == <<"s", i>>
Semaphores == {mutex} \cup {s(i) : i \in Phi}

INSTANCE Sem WITH Thread <- Phi, Semaphore <- Semaphores

Init ==
  /\ SemInit([x \in Semaphores |-> IF x = mutex THEN 1 ELSE 0])
  /\ state_sema = [i \in Phi |-> "THINKING"]
  /\ pc = [i \in Phi |-> "think"]
  /\ iter = [i \in Phi |-> 1]

Goto(i, where) == pc' = [pc EXCEPT ![i] = where]

(* phi_test_sema(j) *)
MayEatMutant(j) ==
  state_sema[j] = "HUNGRY" /\ state_sema[LEFT(j)] # "EATING"

MayEat(j) ==
  /\ state_sema[j] = "HUNGRY"
  /\ state_sema[LEFT(j)] # "EATING"
  /\ state_sema[RIGHT(j)] # "EATING"

Test(j) ==
  IF MayEat(j)
    THEN state_sema' = [state_sema EXCEPT ![j] = "EATING"] /\ Up(s(j))
    ELSE UNCHANGED <<state_sema, value, wait_queue, tstate, running>>
-----------------------------------------------------------------------------
Think(i) ==
  /\ pc[i] = "think"
  /\ Leave(i, "timer")
  /\ Goto(i, "take")
  /\ UNCHANGED <<state_sema, iter>>

(* phi_take_forks_sema *)
Take(i) ==
  /\ pc[i] = "take"
  /\ Down(i, mutex)
  /\ Goto(i, "hungry")
  /\ UNCHANGED <<state_sema, iter>>

Hungry(i) ==
  /\ pc[i] = "hungry"
  /\ state_sema' = [state_sema EXCEPT ![i] = "HUNGRY"]
  /\ Goto(i, "self")
  /\ UNCHANGED <<value, wait_queue, tstate, running, iter>>

TestSelf(i) ==
  /\ pc[i] = "self"
  /\ Test(i)
  /\ Goto(i, "took")
  /\ UNCHANGED iter

Took(i) ==
  /\ pc[i] = "took"
  /\ Up(mutex)
  /\ Goto(i, "grab")
  /\ UNCHANGED <<state_sema, iter>>

Grab(i) ==
  /\ pc[i] = "grab"
  /\ Down(i, s(i))
  /\ Goto(i, "eat")
  /\ UNCHANGED <<state_sema, iter>>

Eat(i) ==
  /\ pc[i] = "eat"
  /\ Leave(i, "timer")
  /\ Goto(i, "put")
  /\ UNCHANGED <<state_sema, iter>>

(* phi_put_forks_sema *)
Put(i) ==
  /\ pc[i] = "put"
  /\ Down(i, mutex)
  /\ Goto(i, "drop")
  /\ UNCHANGED <<state_sema, iter>>

Drop(i) ==
  /\ pc[i] = "drop"
  /\ state_sema' = [state_sema EXCEPT ![i] = "THINKING"]
  /\ Goto(i, "left")
  /\ UNCHANGED <<value, wait_queue, tstate, running, iter>>

TestLeftMutant(i) ==
  /\ pc[i] = "left"
  /\ Goto(i, "right")
  /\ UNCHANGED <<value, wait_queue, tstate, running, state_sema, iter>>

TestLeft(i) ==
  /\ pc[i] = "left"
  /\ Test(LEFT(i))
  /\ Goto(i, "right")
  /\ UNCHANGED iter

TestRight(i) ==
  /\ pc[i] = "right"
  /\ Test(RIGHT(i))
  /\ Goto(i, "leave")
  /\ UNCHANGED iter

LeaveTable(i) ==
  /\ pc[i] = "leave"
  /\ Up(mutex)
  /\ Goto(i, IF iter[i] < TIMES THEN "think" ELSE "quit")
  /\ iter' = [iter EXCEPT ![i] = @ + 1]
  /\ UNCHANGED state_sema

Quit(i) ==
  /\ pc[i] = "quit"
  /\ Leave(i, "gone")
  /\ Goto(i, "gone")
  /\ UNCHANGED <<state_sema, iter>>
-----------------------------------------------------------------------------
Run(i) ==
  /\ running = i
  /\ \/ Think(i) \/ Take(i) \/ Hungry(i) \/ TestSelf(i) \/ Took(i) \/ Grab(i)
     \/ Eat(i) \/ Put(i) \/ Drop(i) \/ TestLeft(i) \/ TestRight(i) \/ LeaveTable(i) \/ Quit(i)

Schedule(i) == Dispatch(i) /\ UNCHANGED <<state_sema, pc, iter>>

Interrupt(i) == Fire(i) /\ UNCHANGED <<state_sema, pc, iter>>

AllGone == (\A i \in Phi : pc[i] = "gone") /\ UNCHANGED vars

Next ==
  \/ \E i \in Phi : Run(i) \/ Schedule(i) \/ Interrupt(i)
  \/ AllGone

Spec == Init /\ [][Next]_vars

(* The running thread goes on, sleeps end, and a runnable thread gets the  *)
(* CPU again and again.                                                    *)
Fairness ==
  \A i \in Phi :
    /\ WF_vars(Run(i))
    /\ WF_vars(Interrupt(i))
    /\ SF_vars(Schedule(i))

FairSpec == Spec /\ Fairness
-----------------------------------------------------------------------------
TypeOK ==
  /\ SemTypeOK
  /\ state_sema \in [Phi -> {"THINKING", "HUNGRY", "EATING"}]
  /\ pc \in [Phi -> {"think", "take", "hungry", "self", "took", "grab", "eat", "put",
                     "drop", "left", "right", "leave", "quit", "gone"}]
  /\ iter \in [Phi -> 1..TIMES + 1]

(* i is past its down(&s[i]) and has not put the forks down. *)
AtTable(i) ==
  \/ pc[i] = "eat" /\ tstate[i] # "ksem"
  \/ pc[i] \in {"put", "drop"}

(* What the forks stand for: two neighbours never are between taking their *)
(* forks and putting them down, whatever state_sema says.                  *)
ForksExclusive == \A i \in Phi : ~(AtTable(i) /\ AtTable(LEFT(i)))

(* i is between its down(&mutex) and its up(&mutex). *)
Inside(i) ==
  \/ pc[i] \in {"hungry", "drop"} /\ tstate[i] # "ksem"
  \/ pc[i] \in {"self", "took", "left", "right", "leave"}

(* The semaphores count what they stand for: mutex is 1, or one            *)
(* philosopher is inside; s[i] is 1 exactly while i may eat and has not    *)
(* taken the permit.                                                       *)
PermitsExact ==
  /\ TypeOK /\ ForksExclusive
  /\ value[mutex] + Cardinality({i \in Phi : Inside(i)}) = 1
  /\ \A i \in Phi :
       value[s(i)] = IF state_sema[i] = "EATING" /\ pc[i] \in {"took", "grab"} THEN 1 ELSE 0

(* PhiSema implements Dining. *)
Table == INSTANCE Dining WITH state <- state_sema

TableSpec == Table!Spec

(* Every philosopher eats TIMES times and quits: nobody starves, and no    *)
(* down() sleeps for ever.                                                 *)
EveryoneQuits == <>(\A i \in Phi : pc[i] = "gone")
=============================================================================
