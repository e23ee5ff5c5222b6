------------------------------- MODULE Stride -------------------------------
(***************************************************************************)
(* The stride scheduler of kern/schedule/default_sched.c on the skew heap  *)
(* of libs/skew_heap.h.  Every process runs in turn, the one with the      *)
(* least stride first, and pays BIG_STRIDE / priority when it is picked.   *)
(* A stride is a uint32_t that wraps around, so strides are compared by    *)
(* the sign of their difference.                                           *)
(*                                                                         *)
(* A process starts with stride 0 and keeps its stride while it sleeps,    *)
(* wherever the strides of the others have got to.                         *)
(***************************************************************************)
EXTENDS Naturals, FiniteSets

CONSTANTS Process,
          BIG_STRIDE,   \* the greatest signed integer
          Priority,     \* the arguments of lab6_set_priority
          NULL          \* the empty heap, and idleproc

ASSUME StrideAssumption ==
  /\ BIG_STRIDE \in Nat \ {0}
  /\ Priority \subseteq 0..BIG_STRIDE
  /\ NULL \notin Process
  /\ IsFiniteSet(Process)

VARIABLES heap,      \* rq->lab6_run_pool: the root, or NULL
          left,      \* lab6_run_pool of each process
          right,
          parent,
          state,     \* "unused", "ready", "run", "sleep"
          stride,
          priority,
          current,
          late       \* a process has joined the others with a stride too far
                     \* from theirs (for the properties only)

links == <<left, right, parent>>
vars == <<heap, links, state, stride, priority, current, late>>

Modulus == 2 * (BIG_STRIDE + 1)

(* The uint32_t difference of two strides. *)
Ahead(x, y) == (x + Modulus - y) % Modulus

LessMutant(x, y) == x < y

(* proc_stride_comp_f(a, b) == -1 *)
Less(x, y) == Ahead(x, y) > BIG_STRIDE

Links == [Process -> Process \cup {NULL}]

(* What skew_heap_merge(a, b) returns: NULL, or the one that stays on top. *)
Top(a, b, s) == IF a # NULL /\ (b = NULL \/ Less(s[a], s[b])) THEN a ELSE b

(* m stays on top: what a and b become is its left child.                  *)
Keep(x, m, a, b, s) ==
  [left   |-> [x.left EXCEPT ![m] = Top(a, b, s)],
   right  |-> [x.right EXCEPT ![m] = x.left[m]],
   parent |-> [x.parent EXCEPT ![Top(a, b, s)] = m],
   a |-> a, b |-> b]

(* skew_heap_merge(x.a, x.b) up to the call of itself.  The calls do not   *)
(* read each other's links: here the outer one sets its own first.         *)
Descend(s) ==
  [x \in [left : Links, right : Links, parent : Links,
          a : Process \cup {NULL}, b : Process \cup {NULL}] |->
     IF x.a = NULL \/ x.b = NULL THEN x
     ELSE IF Less(s[x.a], s[x.b]) THEN Keep(x, x.a, x.right[x.a], x.b, s)
                                  ELSE Keep(x, x.b, x.a, x.right[x.b], s)]

(* skew_heap_merge with the given strides: at most one call for a process. *)
Merge(t, a, b, s) ==
  LET call[n \in 0..Cardinality(Process)] ==
        IF n = 0 THEN [left |-> t.left, right |-> t.right, parent |-> t.parent,
                       a |-> a, b |-> b]
                 ELSE Descend(s)[call[n-1]]
      end == call[Cardinality(Process)]
  IN [root |-> Top(a, b, s),
      left |-> end.left, right |-> end.right, parent |-> end.parent]

(* skew_heap_init *)
Clear(t, b) == [t EXCEPT !.left[b] = NULL, !.right[b] = NULL, !.parent[b] = NULL]

(* skew_heap_insert *)
Insert(t, b, s) ==
  Merge(Clear(t, b), t.root, b, s)

PassMutant(p) == IF priority[p] = 0 THEN BIG_STRIDE + 1 ELSE BIG_STRIDE \div priority[p]

(* What stride_pick_next adds. *)
Pass(p) == IF priority[p] = 0 THEN BIG_STRIDE ELSE BIG_STRIDE \div priority[p]

Init ==
  /\ heap = NULL
  /\ left = [p \in Process |-> NULL] /\ right = left /\ parent = left
  /\ state = [p \in Process |-> "unused"]
  /\ stride = [p \in Process |-> 0]
  /\ priority = [p \in Process |-> 0]
  /\ current = NULL
  /\ late = FALSE
-----------------------------------------------------------------------------
Pool == [root |-> heap, left |-> left, right |-> right, parent |-> parent]

SetPool(t) ==
  heap' = t.root /\ left' = t.left /\ right' = t.right /\ parent' = t.parent

RemoveMutant(t, b, s) == SetPool(Merge(t, t.left[b], t.right[b], s))

(* skew_heap_remove: what is left of b takes its place. *)
Remove(t, b, s) ==
  \E m \in {Merge(t, t.left[b], t.right[b], s)} :
    LET p == t.parent[b]
    IN /\ heap' = IF p = NULL THEN m.root ELSE t.root
       /\ left' = [q \in Process |-> IF q = p /\ m.left[q] = b THEN m.root ELSE m.left[q]]
       /\ right' = [q \in Process |-> IF q = p /\ m.left[q] # b THEN m.root ELSE m.right[q]]
       /\ parent' = [q \in Process |-> IF q = m.root THEN p ELSE m.parent[q]]

(* schedule() picks from the heap t and takes what it picks out of it; sd  *)
(* and st are the strides and the states without the choice.               *)
Dispatch(t, sd, st) ==
  \/ /\ t.root = NULL
     /\ SetPool(t) /\ current' = NULL /\ stride' = sd /\ state' = st
  \/ /\ t.root # NULL
     /\ stride' = [sd EXCEPT ![t.root] = (@ + Pass(t.root)) % Modulus]
     /\ Remove(t, t.root, stride')
     /\ current' = t.root
     /\ state' = [st EXCEPT ![t.root] = "run"]

(* schedule() with current runnable: its slice is over, or it yields; the  *)
(* idle process always calls it.                                           *)
Reschedule ==
  /\ \/ current = NULL /\ heap # NULL /\ Dispatch(Pool, stride, state)
     \/ /\ current # NULL
        /\ \E t \in {Insert(Pool, current, stride)} :
             Dispatch(t, stride, [state EXCEPT ![current] = "ready"])
  /\ UNCHANGED <<priority, late>>

(* current waits for something. *)
Block ==
  /\ current # NULL
  /\ Dispatch(Pool, stride, [state EXCEPT ![current] = "sleep"])
  /\ UNCHANGED <<priority, late>>

(* do_exit by current; another process with the same name will have what   *)
(* alloc_proc gives it (proc.c:129-135).                                   *)
Exit ==
  /\ current # NULL
  /\ Dispatch(Clear(Pool, current), [stride EXCEPT ![current] = 0],
              [state EXCEPT ![current] = "unused"])
  /\ priority' = [priority EXCEPT ![current] = 0]
  /\ UNCHANGED late

(* The processes that take part, and whether their strides are all within  *)
(* BIG_STRIDE of one of them.                                              *)
Active == {p \in Process : state[p] \in {"ready", "run"}}

InWindow == \E p \in Active : \A q \in Active : Ahead(stride[q], stride[p]) <= BIG_STRIDE

Join(p) ==
  /\ state' = [state EXCEPT ![p] = "ready"]
  /\ late' = (late \/ ~InWindow')
  /\ UNCHANGED current

(* do_fork *)
Fork(p) ==
  /\ state[p] = "unused"
  /\ UNCHANGED <<stride, priority>>
  /\ \E t \in {Insert(Pool, p, stride)} : SetPool(t)
  /\ Join(p)

(* wakeup_proc *)
Wake(p) ==
  /\ state[p] = "sleep"
  /\ UNCHANGED <<stride, priority>>
  /\ \E t \in {Insert(Pool, p, stride)} : SetPool(t)
  /\ Join(p)

(* lab6_set_priority *)
SetPriority(x) ==
  /\ current # NULL
  /\ priority' = [priority EXCEPT ![current] = IF x = 0 THEN 1 ELSE x]
  /\ UNCHANGED <<heap, links, state, stride, current, late>>

Next ==
  \/ Reschedule
  \/ Block \/ Exit
  \/ \E p \in Process : Fork(p) \/ Wake(p)
  \/ \E x \in Priority : SetPriority(x)

Spec == Init /\ [][Next]_vars

(* The timer interrupt ends every time slice. *)
FairSpec == Spec /\ WF_vars(Reschedule)
-----------------------------------------------------------------------------
TypeOK ==
  /\ heap \in Process \cup {NULL}
  /\ \A f \in {left, right, parent} : f \in [Process -> Process \cup {NULL}]
  /\ state \in [Process -> {"unused", "ready", "run", "sleep"}]
  /\ stride \in [Process -> 0..Modulus-1]
  /\ priority \in [Process -> {0, 1} \cup Priority]
  /\ current \in Process \cup {NULL}
  /\ late \in BOOLEAN

(* Whoever is in every set that has the root and its members' children.    *)
Members ==
  {p \in Process : \A X \in SUBSET Process :
     /\ heap \in X \cup {NULL}
     /\ \A q \in X : {left[q], right[q]} \subseteq X \cup {NULL}
     => p \in X}

(* The heap holds every process that is ready, once, and no other: no two  *)
(* members have a child in common.  skew_heap_remove finds its parent.     *)
HeapExact ==
  /\ TypeOK
  /\ Members = {p \in Process : state[p] = "ready"}
  /\ heap # NULL => parent[heap] = NULL
  /\ \A p \in Members : /\ \A c \in {left[p], right[p]} \ {NULL} : parent[c] = p
                         /\ left[p] = right[p] => left[p] = NULL
  /\ \A p \in Process : state[p] = "run" <=> current = p

Window == Active # {} => InWindow

(* The ready processes that no other is before.  Strides too far apart may *)
(* each be less than the next in a cycle: then there is none.              *)
Least == {m \in Members : \A p \in Members : ~Less(stride[p], stride[m])}

(* Whoever came late, and whatever the order of the others has become.     *)
MinimumFirst == Least # {} => heap \in Least

(* stride_pick_next picks "the minimum value of stride", as the comment at *)
(* default_sched.c:96 says, when there is one.  BIG_STRIDE is large enough *)
(* for that: until somebody joins late, the strides stay within half of    *)
(* the integers, although they wrap around, and there is a minimum.        *)
LeastFirst ==
  /\ MinimumFirst
  /\ ~late => Window /\ (heap # NULL => heap \in Least)

(* Whatever priorities are set and whoever came late before, p runs in the *)
(* end when it is ready, if from some time on nobody is forked and no      *)
(* sleeper wakes up late.                                                  *)
ServedInTurn(p) ==
  <>[][\A q \in Process :
         /\ state[q] = "unused" => state'[q] = "unused"
         /\ state[q] = "sleep" /\ state'[q] = "ready" => InWindow']_vars =>
    (state[p] = "ready" ~> state[p] = "run")
=============================================================================
