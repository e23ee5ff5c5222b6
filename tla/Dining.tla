------------------------------- MODULE Dining -------------------------------
(* The dining philosophers as kern/sync/check_sync.c states them: a        *)
(* philosopher eats only while neither neighbour does, and only when it    *)
(* has become hungry.  PhiSema and PhiCondvar implement this module.       *)
EXTENDS Naturals

CONSTANT N

VARIABLE state

Phi == 0..N-1
LEFT(i) == (i - 1 + N) % N
RIGHT(i) == (i + 1) % N

Init == state = [i \in Phi |-> "THINKING"]

GetHungry(i) ==
  /\ state[i] = "THINKING"
  /\ state' = [state EXCEPT ![i] = "HUNGRY"]

Eat(i) ==
  /\ state[i] = "HUNGRY"
  /\ state[LEFT(i)] # "EATING"
  /\ state[RIGHT(i)] # "EATING"
  /\ state' = [state EXCEPT ![i] = "EATING"]

Finish(i) ==
  /\ state[i] = "EATING"
  /\ state' = [state EXCEPT ![i] = "THINKING"]

Next == \E i \in Phi : GetHungry(i) \/ Eat(i) \/ Finish(i)

Spec == Init /\ [][Next]_state
=============================================================================
