------------------------------- MODULE Hoare --------------------------------
(***************************************************************************)
(* What kern/sync/monitor.h promises: a monitor with signal-and-wait.  One *)
(* thread owns the monitor.  cond_signal hands it to the thread that has   *)
(* waited longest, at once, and the signaller goes before the threads at   *)
(* the entry; a signal nobody waits for does nothing.                      *)
(***************************************************************************)
EXTENDS Sequences

CONSTANTS Thread, CV, NULL

VARIABLES owner,   \* the thread in the monitor, or NULL
          entry,   \* threads that want to enter
          urgent,  \* threads that gave the monitor away in cond_signal
          cond     \* threads in cond_wait, for each condition variable

Init ==
  /\ owner = NULL
  /\ entry = <<>>
  /\ urgent = <<>>
  /\ cond = [c \in CV |-> <<>>]

Busy(t) ==
  \/ owner = t
  \/ \E q \in {entry, urgent} \cup {cond[c] : c \in CV} : \E i \in DOMAIN q : q[i] = t

Enter(t) ==
  /\ ~Busy(t)
  /\ IF owner = NULL
       THEN owner' = t /\ UNCHANGED entry
       ELSE entry' = Append(entry, t) /\ UNCHANGED owner
  /\ UNCHANGED <<urgent, cond>>

(* The owner gives the monitor to the next thread. *)
PassOn ==
  \/ /\ urgent # <<>>
     /\ owner' = Head(urgent)
     /\ urgent' = Tail(urgent)
     /\ UNCHANGED entry
  \/ /\ urgent = <<>> /\ entry # <<>>
     /\ owner' = Head(entry)
     /\ entry' = Tail(entry)
     /\ UNCHANGED urgent
  \/ /\ urgent = <<>> /\ entry = <<>>
     /\ owner' = NULL
     /\ UNCHANGED <<urgent, entry>>

Wait(t, c) ==
  /\ owner = t
  /\ PassOn
  /\ cond' = [cond EXCEPT ![c] = Append(@, t)]

Signal(t, c) ==
  /\ owner = t
  /\ cond[c] # <<>>
  /\ owner' = Head(cond[c])
  /\ cond' = [cond EXCEPT ![c] = Tail(@)]
  /\ urgent' = Append(urgent, t)
  /\ UNCHANGED entry

Leave(t) ==
  /\ owner = t
  /\ PassOn
  /\ UNCHANGED cond

Next ==
  \E t \in Thread :
    \/ Enter(t) \/ Leave(t)
    \/ \E c \in CV : Wait(t, c) \/ Signal(t, c)

Spec == Init /\ [][Next]_<<owner, entry, urgent, cond>>
=============================================================================
