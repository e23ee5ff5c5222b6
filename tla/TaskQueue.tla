----------------------------- MODULE TaskQueue ------------------------------
(***************************************************************************)
(* What a pool of threads promises: the tasks it accepts are started in    *)
(* the order they came, each once, and none once it is shut down.          *)
(***************************************************************************)
EXTENDS Naturals, Sequences

CONSTANT Task

VARIABLES queue, started, open

vars == <<queue, started, open>>

Init == queue = <<>> /\ started = <<>> /\ open = TRUE

Accept(t) ==
  /\ open
  /\ queue' = Append(queue, t)
  /\ UNCHANGED <<started, open>>

Start ==
  /\ open /\ queue # <<>>
  /\ started' = Append(started, Head(queue))
  /\ queue' = Tail(queue)
  /\ UNCHANGED open

Close == open' = FALSE /\ UNCHANGED <<queue, started>>

Next == Start \/ Close \/ \E t \in Task : Accept(t)

Spec == Init /\ [][Next]_vars
=============================================================================
