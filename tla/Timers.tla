------------------------------- MODULE Timers -------------------------------
(***************************************************************************)
(* The kernel timers of kern/schedule/sched.c.  timer_list is kept in the  *)
(* order of expiry, and each timer_t holds only the ticks that remain      *)
(* after the timer before it: add_timer and del_timer adjust the timer     *)
(* that follows, and run_timer_list counts down the first one only.  Each  *)
(* operation runs with interrupts disabled.                                *)
(*                                                                         *)
(* do_sleep (proc.c) sets one timer at a time per process and deletes it   *)
(* before it returns, so a timer is named by its process here.             *)
(***************************************************************************)
EXTENDS Naturals, SequencesExt

CONSTANTS Timer,
          MaxExpires      \* bound: the longest time asked for, in ticks

ASSUME TimersAssumption == MaxExpires \in Nat

VARIABLES timer_list,     \* sequence of [timer, expires]
          fired           \* the timers that the last tick woke, in order

vars == <<timer_list, fired>>

Entry == [timer : Timer, expires : 0..MaxExpires]

Init ==
  /\ timer_list = <<>>
  /\ fired = <<>>

Linked(t) == \E i \in DOMAIN timer_list : timer_list[i].timer = t

Index(t) == CHOOSE i \in DOMAIN timer_list : timer_list[i].timer = t

(* The ticks until the i-th timer of the list is due: the differences up  *)
(* to it, added.                                                           *)
Sums(list) ==
  LET sum[i \in 0..Len(list)] == IF i = 0 THEN 0 ELSE sum[i - 1] + list[i].expires
  IN sum

Due(i) == Sums(timer_list)[i]

Later(e, n) == [e EXCEPT !.expires = @ + n]
Sooner(e, n) == [e EXCEPT !.expires = @ - n]

(* add_timer: walk past every timer due no later than the new one.         *)
Passed(n) == {i \in DOMAIN timer_list : Due(i) <= n}

AddTimer(t, n) ==
  LET k == Cardinality(Passed(n))
      new == [timer |-> t, expires |-> n - Due(k)]
      rest == SubSeq(timer_list, k + 1, Len(timer_list))
  IN /\ ~Linked(t)
     /\ timer_list' = SubSeq(timer_list, 1, k) \o <<new>>
                        \o (IF rest = <<>> THEN <<>>
                            ELSE <<Sooner(Head(rest), new.expires)>> \o Tail(rest))
     /\ fired' = <<>>

(* del_timer: the following timer takes over the ticks; a timer that is    *)
(* not in the list is left alone.                                          *)
DelTimerMutant(t) ==
  /\ timer_list' = SelectSeq(timer_list, LAMBDA e : e.timer # t)
  /\ fired' = <<>>

DelTimer(t) ==
  /\ IF Linked(t)
       THEN LET i == Index(t)
                rest == SubSeq(timer_list, i + 1, Len(timer_list))
            IN timer_list' = SubSeq(timer_list, 1, i - 1)
                  \o (IF rest = <<>> THEN <<>>
                      ELSE <<Later(Head(rest), timer_list[i].expires)>> \o Tail(rest))
       ELSE UNCHANGED timer_list
  /\ fired' = <<>>

(* run_timer_list: the first timer counts down; it and the timers of 0     *)
(* after it are woken and deleted.                                         *)
RunTimerList ==
  IF timer_list = <<>>
    THEN UNCHANGED timer_list /\ fired' = <<>>
    ELSE LET now == <<Sooner(Head(timer_list), 1)>> \o Tail(timer_list)
             due == {i \in DOMAIN now : \A j \in 1..i : now[j].expires = 0}
             k == Cardinality(due)
         IN /\ timer_list' = SubSeq(now, k + 1, Len(now))
            /\ fired' = [i \in 1..k |-> now[i].timer]

Next ==
  \/ RunTimerList
  \/ \E t \in Timer : DelTimer(t) \/ \E n \in 1..MaxExpires : AddTimer(t, n)

Spec == Init /\ [][Next]_vars
-----------------------------------------------------------------------------
TypeOK ==
  /\ timer_list \in Seq(Entry)
  /\ fired \in Seq(Timer)

(* assert(timer->expires != 0) of run_timer_list (sched.c:150): the first  *)
(* timer of the list still has ticks to go, although timers after it may   *)
(* have none; and a timer is linked once, as assert(list_empty) of         *)
(* add_timer (sched.c:107) expects.                                        *)
ListOK ==
  /\ TypeOK
  /\ timer_list # <<>> => Head(timer_list).expires > 0
  /\ \A i, j \in DOMAIN timer_list :
       timer_list[i].timer = timer_list[j].timer => i = j
  /\ \A i \in DOMAIN timer_list : Due(i) <= MaxExpires

(* Every timer fires at exactly the tick it was set for, whatever timers   *)
(* are added and deleted around it.                                        *)
Left == [t \in Timer |->
  IF Linked(t) THEN Due(Index(t)) ELSE 0]

Count == INSTANCE Countdown WITH left <- Left, fired <- ToSet(fired)

CountdownSpec == Count!Spec
=============================================================================
