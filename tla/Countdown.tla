----------------------------- MODULE Countdown ------------------------------
(* What the kernel timers promise: a timer set for n ticks fires at the     *)
(* n-th tick after it was set, unless it is deleted first.  Proc uses       *)
(* timers in this form; Timers (schedule/sched.c) implements it.            *)
EXTENDS Naturals

CONSTANTS Timer, MaxExpires

VARIABLES left,    \* left[t]: the ticks until t fires, 0 when t is not set
          fired    \* the timers the last tick fired

vars == <<left, fired>>

Init ==
  /\ left = [t \in Timer |-> 0]
  /\ fired = {}

Add(t, n) ==
  /\ left[t] = 0
  /\ left' = [left EXCEPT ![t] = n]
  /\ fired' = {}

Del(t) ==
  /\ left' = [left EXCEPT ![t] = 0]
  /\ fired' = {}

Tick ==
  /\ left' = [t \in Timer |-> IF left[t] > 0 THEN left[t] - 1 ELSE 0]
  /\ fired' = {t \in Timer : left[t] = 1}

Next ==
  \/ Tick
  \/ \E t \in Timer : Del(t) \/ \E n \in 1..MaxExpires : Add(t, n)

Spec == Init /\ [][Next]_vars
=============================================================================
