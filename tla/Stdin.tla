------------------------------- MODULE Stdin --------------------------------
(***************************************************************************)
(* The standard input of the ucore kernel, kern/fs/devs/dev_stdin.c: a     *)
(* ring of characters between the keyboard interrupt and the processes     *)
(* that read, which sleep on a wait queue when it is empty.                *)
(*                                                                         *)
(* Both sides work with interrupts off, and a reader only lets go in       *)
(* schedule(); so from there to its return or its next schedule() is one   *)
(* step.  A character or a kill may come while it is runnable again and    *)
(* has not run yet.                                                        *)
(***************************************************************************)
EXTENDS Naturals, Sequences, FiniteSets, SequencesExt

CONSTANTS Reader,          \* processes that have stdin open
          Char,            \* what can be typed
          STDIN_BUFSIZE,
          MaxLen,          \* bound: the longest read
          MaxTyped         \* bound: the characters that are stored

ASSUME StdinAssumption ==
  /\ Char # {}
  /\ STDIN_BUFSIZE \in Nat \ {0}
  /\ MaxLen \in Nat \ {0}
  /\ MaxTyped \in Nat

VARIABLES stdin_buffer, p_rpos, p_wpos,
          wait_queue,      \* the readers whose wait_t is linked, in order
          wakeup_flags,    \* of the reader's wait_t
          state,           \* "user", "waiting" in dev_stdin_read, "gone"
          runnable,
          exiting,         \* PF_EXITING
          len, got         \* of the reader's latest read: ret = Len(got)

ring == <<stdin_buffer, p_rpos, p_wpos>>
procs == <<state, runnable, exiting>>
vars == <<ring, wait_queue, wakeup_flags, procs, len, got>>

(* stdin_device_init.                                                      *)
Init ==
  /\ stdin_buffer = [i \in 0..STDIN_BUFSIZE-1 |-> CHOOSE c \in Char : TRUE]
  /\ p_rpos = 0 /\ p_wpos = 0
  /\ wait_queue = <<>>
  /\ wakeup_flags = [r \in Reader |-> "WT_INTERRUPTED"]
  /\ state = [r \in Reader |-> "user"]
  /\ runnable = [r \in Reader |-> TRUE]
  /\ exiting = [r \in Reader |-> FALSE]
  /\ len = [r \in Reader |-> 0]
  /\ got = [r \in Reader |-> <<>>]
-----------------------------------------------------------------------------
(* dev_stdin_write, from the interrupt: a full ring takes the character,   *)
(* but not into account.  wakeup_queue wakes and unlinks everybody.        *)
NextPosMutant == p_wpos + 1

NextPos == IF p_wpos - p_rpos < STDIN_BUFSIZE THEN p_wpos + 1 ELSE p_wpos

WokenFirst == IF wait_queue = <<>> THEN 0 ELSE 1

WokenNone == 0

(* How many it wakes, from the front.                                      *)
Woken == Len(wait_queue)

Write(c) ==
  /\ p_wpos < MaxTyped
  /\ stdin_buffer' = [stdin_buffer EXCEPT ![p_wpos % STDIN_BUFSIZE] = c]
  /\ p_wpos' = NextPos
  /\ wait_queue' = SubSeq(wait_queue, Woken + 1, Len(wait_queue))
  /\ LET awake == {wait_queue[i] : i \in 1..Woken}
     IN /\ wakeup_flags' =
             [r \in Reader |-> IF r \in awake THEN "WT_KBD" ELSE wakeup_flags[r]]
        /\ runnable' = [r \in Reader |-> runnable[r] \/ r \in awake]
  /\ UNCHANGED <<p_rpos, state, exiting, len, got>>

(* dev_stdin_read by r, which has the characters had of the n it wants, to *)
(* its end or to schedule(); queue is the wait queue without r.            *)
ReadOn(r, had, n, queue) ==
  LET left == n - Len(had)
      avail == p_wpos - p_rpos
      k == IF left <= avail THEN left ELSE avail
  IN /\ got' = [got EXCEPT ![r] =
                  had \o [i \in 1..k |-> stdin_buffer[(p_rpos + i - 1) % STDIN_BUFSIZE]]]
     /\ p_rpos' = p_rpos + k
     /\ IF k = left
          THEN /\ state' = [state EXCEPT ![r] = "user"]
               /\ wait_queue' = queue
               /\ UNCHANGED <<wakeup_flags, runnable>>
          ELSE /\ state' = [state EXCEPT ![r] = "waiting"]
               /\ wait_queue' = Append(queue, r)
               /\ wakeup_flags' = [wakeup_flags EXCEPT ![r] = "WT_INTERRUPTED"]
               /\ runnable' = [runnable EXCEPT ![r] = FALSE]

(* A system call; a killed process may still make one, as trap() looks at  *)
(* PF_EXITING only when it leaves for user mode.                           *)
Read(r, n) ==
  /\ state[r] = "user"
  /\ len' = [len EXCEPT ![r] = n]
  /\ ReadOn(r, <<>>, n, wait_queue)
  /\ UNCHANGED <<stdin_buffer, p_wpos, exiting>>

(* r runs again after schedule(): wait_current_del, and then one more try, *)
(* or the end of the read when no character has woken it.                  *)
Unlinked(r) ==
  IF r \in Range(wait_queue)
    THEN RemoveAt(wait_queue, CHOOSE i \in DOMAIN wait_queue : wait_queue[i] = r)
    ELSE wait_queue

Resume(r) ==
  /\ state[r] = "waiting" /\ runnable[r]
  /\ IF wakeup_flags[r] = "WT_KBD"
       THEN ReadOn(r, got[r], len[r], Unlinked(r))
       ELSE /\ state' = [state EXCEPT ![r] = "user"]
            /\ wait_queue' = Unlinked(r)
            /\ UNCHANGED <<p_rpos, wakeup_flags, runnable, got>>
  /\ UNCHANGED <<stdin_buffer, p_wpos, exiting, len>>

(* do_kill: WT_KBD has WT_INTERRUPTED, so r is woken, and stays linked.    *)
Kill(r) ==
  /\ state[r] # "gone" /\ ~exiting[r]
  /\ exiting' = [exiting EXCEPT ![r] = TRUE]
  /\ runnable' = [runnable EXCEPT ![r] = TRUE]
  /\ UNCHANGED <<ring, wait_queue, wakeup_flags, state, len, got>>

(* trap(), on the way to user mode.                                        *)
Exit(r) ==
  /\ state[r] = "user" /\ exiting[r]
  /\ state' = [state EXCEPT ![r] = "gone"]
  /\ UNCHANGED <<ring, wait_queue, wakeup_flags, runnable, exiting, len, got>>

Next ==
  \/ \E c \in Char : Write(c)
  \/ \E r \in Reader : \/ Resume(r) \/ Kill(r) \/ Exit(r)
                       \/ \E n \in 1..MaxLen : Read(r, n)

Spec == Init /\ [][Next]_vars

(* The scheduler runs every runnable process again.                        *)
FairSpec == Spec /\ \A r \in Reader : WF_vars(Resume(r))
-----------------------------------------------------------------------------
TypeOK ==
  /\ stdin_buffer \in [0..STDIN_BUFSIZE-1 -> Char]
  /\ p_rpos \in Nat /\ p_wpos \in Nat
  /\ wait_queue \in Seq(Reader)
  /\ wakeup_flags \in [Reader -> {"WT_INTERRUPTED", "WT_KBD"}]
  /\ state \in [Reader -> {"user", "waiting", "gone"}]
  /\ runnable \in [Reader -> BOOLEAN]
  /\ exiting \in [Reader -> BOOLEAN]
  /\ len \in [Reader -> 0..MaxLen]
  /\ got \in [Reader -> Seq(Char)]

(* A wait_t is on the stack of its reader's call: the wait queue has only  *)
(* readers that are inside it, each once, whatever mix of characters and   *)
(* kills wakes them; and who sleeps is linked, or no key could wake it.    *)
QueueExact ==
  /\ IsInjective(wait_queue)
  /\ \A r \in Range(wait_queue) : state[r] = "waiting"
  /\ \A r \in Reader : ~runnable[r] => r \in Range(wait_queue)
  /\ \A r \in Reader :
       state[r] = "waiting" => (r \in Range(wait_queue) <=> wakeup_flags[r] = "WT_INTERRUPTED")

(* No reader sleeps while a character is unread, although others may read  *)
(* only some of those that woke it.                                        *)
NoSleepOnInput ==
  p_rpos < p_wpos => \A r \in Reader : runnable[r]

(* The two, of every reader's wait_t and sleep.                            *)
ReadersOK == TypeOK /\ QueueExact /\ NoSleepOnInput

(* The ring is the queue of TypeAhead, whatever p_rpos and p_wpos are      *)
(* modulo its size, full or not, and however many readers share it.        *)
Input == INSTANCE TypeAhead WITH
  unread <- [i \in 1..p_wpos - p_rpos |-> stdin_buffer[(p_rpos + i - 1) % STDIN_BUFSIZE]]

InputSpec == Input!Spec

(* While somebody is in a read, what has been typed is read.               *)
TypedIsRead ==
  (p_rpos < p_wpos /\ \E r \in Reader : state[r] = "waiting")
    ~> (p_rpos = p_wpos \/ \A r \in Reader : state[r] # "waiting")
=============================================================================
