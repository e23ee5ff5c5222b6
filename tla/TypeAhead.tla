----------------------------- MODULE TypeAhead ------------------------------
(***************************************************************************)
(* What the keyboard promises the readers of stdin: the characters typed   *)
(* and not read yet are a queue of at most STDIN_BUFSIZE, which readers    *)
(* take from the front.  A full queue has its oldest character replaced by *)
(* the newest.                                                             *)
(***************************************************************************)
EXTENDS Naturals, Sequences

CONSTANTS Reader, Char,
          STDIN_BUFSIZE

VARIABLES unread,
          got       \* got[r]: what r's latest read has returned so far

vars == <<unread, got>>

Init == unread = <<>> /\ got = [r \in Reader |-> <<>>]

Type(c) ==
  /\ unread' = IF Len(unread) < STDIN_BUFSIZE THEN Append(unread, c)
                                              ELSE <<c>> \o Tail(unread)
  /\ UNCHANGED got

(* r goes on with its read, or begins one, and takes n characters.         *)
Take(r, before, n) ==
  /\ before \in {got[r], <<>>}
  /\ got' = [got EXCEPT ![r] = before \o SubSeq(unread, 1, n)]
  /\ unread' = SubSeq(unread, n + 1, Len(unread))

Next ==
  \/ \E c \in Char : Type(c)
  \/ \E r \in Reader, n \in 0..Len(unread) :
       Take(r, got[r], n) \/ Take(r, <<>>, n)

Spec == Init /\ [][Next]_vars
=============================================================================
