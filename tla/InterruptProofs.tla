---------------------------- MODULE InterruptProofs -----------------------------
(***************************************************************************)
(* What the interrupt handlers of trap.c drive, for any instance: the ring *)
(* of stdin, which the keyboard fills, the list of timers, which the clock *)
(* counts down, and the run pool of the stride class, from which the clock *)
(* has the next process picked.  They share no state.                      *)
(*                                                                         *)
(* Stdin.  Who sleeps is linked and has nothing to read, whoever comes,    *)
(* and the positions of the ring are at most a round apart, so that it is  *)
(* the queue of TypeAhead (ReadersInv).                                    *)
(*                                                                         *)
(* Timers.  ListOK is inductive.  What a list tells of a timer is the sum  *)
(* of the differences up to its place; the facts about the lists that the  *)
(* three operations make (Inserted, Deleted, Nearer and Rest) give the sum *)
(* for every place of the new list, and so the countdown it stands for.    *)
(*                                                                         *)
(* Stride.  The links of the pool make a tree of those who are ready       *)
(* (Tree), and no child is before its parent (Sorted).  A merge of two     *)
(* trees is one (MergeFacts): each call passes on two trees that are one   *)
(* process smaller, and puts what becomes of them back under its root.     *)
(* The order of the strides is one only while they are within BIG_STRIDE   *)
(* of one of them; a choice keeps them so, since it advances the first     *)
(* (ChoiceKeeps).                                                          *)
(***************************************************************************)
EXTENDS Stdin, SequenceFacts, FiniteSetTheorems

USE StdinAssumption

-----------------------------------------------------------------------------
(* The ring *)

(* Positions less than a round apart are different entries,                *)
LEMMA Apart ==
  ASSUME NEW n \in Nat \ {0}, NEW x \in Nat, NEW y \in Nat, x < y, y < x + n
  PROVE  x % n # y % n
<1> DEFINE p == x \div n
           q == y \div n
           r == x % n
           s == y % n
<1>1. /\ p \in Nat /\ r \in 0..n-1 /\ x = n * p + r
      /\ q \in Nat /\ s \in 0..n-1 /\ y = n * q + s
  OBVIOUS
<1> HIDE DEF p, q, r, s
<1>2. ASSUME r = s PROVE FALSE
  <2>1. n * q - n * p > 0 /\ n * q - n * p < n
    BY <1>1, <1>2
  <2>2. CASE q <= p
    <3>1. n * q <= n * p
      BY <1>1, <2>2
    <3>2. QED
      BY <2>1, <3>1, <1>1
  <2>3. CASE q >= p + 1
    <3>1. n * q >= n * (p + 1) /\ n * (p + 1) = n * p + n
      BY <1>1, <2>3
    <3>2. QED
      BY <2>1, <3>1, <1>1
  <2>4. QED
    BY <2>2, <2>3, <1>1
<1>3. QED
  BY <1>2 DEF r, s

(* and those a round apart the same.                                       *)
LEMMA Round ==
  ASSUME NEW n \in Nat \ {0}, NEW x \in Nat
  PROVE  (x + n) % n = x % n
<1> DEFINE p == x \div n
           q == (x + n) \div n
           r == x % n
           s == (x + n) % n
<1>1. /\ p \in Nat /\ r \in 0..n-1 /\ x = n * p + r
      /\ q \in Nat /\ s \in 0..n-1 /\ x + n = n * q + s
  OBVIOUS
<1> HIDE DEF p, q, r, s
<1>2. n * (p + 1) = n * p + n /\ n * (p + 2) = n * p + n + n
  BY <1>1
<1>3. CASE q <= p
  <2>1. n * q <= n * p
    BY <1>1, <1>3
  <2>2. QED
    BY <2>1, <1>1
<1>4. CASE q >= p + 2
  <2>1. n * q >= n * (p + 2)
    BY <1>1, <1>4
  <2>2. QED
    BY <2>1, <1>1, <1>2
<1>5. CASE q = p + 1
  <2>1. r = s
    BY <1>1, <1>2, <1>5
  <2>2. QED
    BY <2>1 DEF r, s
<1>6. QED
  BY <1>3, <1>4, <1>5, <1>1

(* The characters between two positions, in a ring b.                      *)
Between(b, h, w) == [i \in 1..w - h |-> b[(h + i - 1) % STDIN_BUFSIZE]]

Unread == Between(stdin_buffer, p_rpos, p_wpos)

Contents(b, h, w) ==
  /\ Between(b, h, w) \in Seq(Char) /\ Len(Between(b, h, w)) = w - h
  /\ \A i \in 1..w - h : Between(b, h, w)[i] = b[(h + i - 1) % STDIN_BUFSIZE]

(* They are characters.                                                    *)
LEMMA BetweenFacts ==
  ASSUME NEW b \in [0..STDIN_BUFSIZE-1 -> Char], NEW h \in Nat, NEW w \in Nat, h <= w
  PROVE  Contents(b, h, w)
<1> DEFINE u == Between(b, h, w)
<1>1. w - h \in Nat
  OBVIOUS
<1>2. ASSUME NEW i \in 1..w - h PROVE b[(h + i - 1) % STDIN_BUFSIZE] \in Char
  <2>1. (h + i - 1) \in Nat
    OBVIOUS
  <2> DEFINE x == h + i - 1
             y == x % STDIN_BUFSIZE
  <2>2. y \in 0..STDIN_BUFSIZE-1
    <3>1. x \in Nat
      BY <2>1
    <3> HIDE DEF x
    <3>2. QED
      BY <3>1
  <2> HIDE DEF y
  <2>3. b[y] \in Char
    BY <2>2
  <2>4. QED
    BY <2>3 DEF y
<1>3. u \in [1..w - h -> Char] /\ \A i \in 1..w - h : u[i] = b[(h + i - 1) % STDIN_BUFSIZE]
  BY <1>2 DEF Between
<1> HIDE DEF u
<1>4. u \in Seq(Char) /\ Len(u) = w - h
  BY <1>1, <1>3
<1>5. QED
  BY <1>3, <1>4 DEF u, Contents

(* Reading k characters.                                                   *)
LEMMA BetweenTake ==
  ASSUME NEW b \in [0..STDIN_BUFSIZE-1 -> Char], NEW h \in Nat, NEW w \in Nat, h <= w,
         NEW k \in 0..w - h
  PROVE  /\ Between(b, h, h + k) = SubSeq(Between(b, h, w), 1, k)
         /\ Between(b, h + k, w) = SubSeq(Between(b, h, w), k + 1, Len(Between(b, h, w)))
<1> DEFINE u == Between(b, h, w)
           v == Between(b, h, h + k)
           z == Between(b, h + k, w)
<1>1. /\ u \in Seq(Char) /\ Len(u) = w - h
      /\ \A i \in 1..w - h : u[i] = b[(h + i - 1) % STDIN_BUFSIZE]
  BY BetweenFacts DEF Contents
<1>2. h + k \in Nat /\ h + k <= w /\ h <= h + k /\ (h + k) - h = k /\ w - (h + k) = (w - h) - k
  OBVIOUS
<1>3. /\ v \in Seq(Char) /\ Len(v) = k
      /\ \A i \in 1..k : v[i] = b[(h + i - 1) % STDIN_BUFSIZE]
  <2>1. Contents(b, h, h + k)
    BY <1>2, BetweenFacts
  <2>2. QED
    BY <2>1, <1>2 DEF Contents
<1>4. /\ z \in Seq(Char) /\ Len(z) = (w - h) - k
      /\ \A i \in 1..(w - h) - k : z[i] = b[((h + k) + i - 1) % STDIN_BUFSIZE]
  <2>1. Contents(b, h + k, w)
    BY <1>2, BetweenFacts
  <2>2. QED
    BY <2>1, <1>2 DEF Contents
<1>5. \A i \in 1..(w - h) - k : z[i] = u[k + i]
  <2> SUFFICES ASSUME NEW i \in 1..(w - h) - k PROVE z[i] = u[k + i]
    OBVIOUS
  <2>1. k + i \in 1..w - h /\ h + (k + i) - 1 = (h + k) + i - 1
    OBVIOUS
  <2> HIDE DEF z, u
  <2>2. QED
    BY <2>1, <1>1, <1>4
<1> HIDE DEF u, v, z
<1>6. v = SubSeq(u, 1, k)
  BY <1>1, <1>3
<1>7. z = SubSeq(u, k + 1, Len(u))
  BY <1>1, <1>4, <1>5
<1>8. QED
  BY <1>6, <1>7 DEF u, v, z

(* Typing a character where there is room,                                 *)
LEMMA BetweenPut ==
  ASSUME NEW b \in [0..STDIN_BUFSIZE-1 -> Char], NEW h \in Nat, NEW w \in Nat, h <= w,
         w - h < STDIN_BUFSIZE, NEW c \in Char
  PROVE  Between([b EXCEPT ![w % STDIN_BUFSIZE] = c], h, w + 1) = Append(Between(b, h, w), c)
<1> DEFINE n == STDIN_BUFSIZE
           a == [b EXCEPT ![w % n] = c]
           u == Between(b, h, w)
           v == Between(a, h, w + 1)
<1>1. a \in [0..n-1 -> Char] /\ a[w % n] = c /\ \A x \in 0..n-1 : x # w % n => a[x] = b[x]
  OBVIOUS
<1>2. /\ u \in Seq(Char) /\ Len(u) = w - h
      /\ \A i \in 1..w - h : u[i] = b[(h + i - 1) % n]
  BY BetweenFacts DEF Contents
<1>3. /\ v \in Seq(Char) /\ Len(v) = (w + 1) - h
      /\ \A i \in 1..(w + 1) - h : v[i] = a[(h + i - 1) % n]
  <2>1. Contents(a, h, w + 1)
    <3> HIDE DEF a
    <3>1. w + 1 \in Nat /\ h <= w + 1
      OBVIOUS
    <3>2. QED
      BY <1>1, <3>1, BetweenFacts
  <2>2. QED
    BY <2>1 DEF Contents
<1>4. v[(w - h) + 1] = c
  <2>1. (w - h) + 1 \in 1..(w + 1) - h /\ h + ((w - h) + 1) - 1 = w
    OBVIOUS
  <2> HIDE DEF v, a
  <2>2. QED
    BY <2>1, <1>3, <1>1
<1>5. \A i \in 1..w - h : v[i] = u[i]
  <2> SUFFICES ASSUME NEW i \in 1..w - h PROVE v[i] = u[i]
    OBVIOUS
  <2> DEFINE x == h + i - 1
  <2>1. x \in Nat /\ x < w /\ w < x + n /\ i \in 1..(w + 1) - h
    OBVIOUS
  <2>2. v[i] = a[x % n] /\ u[i] = b[x % n]
    <3> HIDE DEF u, v, a
    <3> QED BY <2>1, <1>2, <1>3
  <2> HIDE DEF x
  <2>3. x % n # w % n
    BY <2>1, Apart
  <2>4. x % n \in 0..n-1
    BY <2>1
  <2> HIDE DEF u, v, a
  <2>5. QED
    BY <2>2, <2>3, <2>4, <1>1
<1> HIDE DEF u, v
<1>6. v = Append(u, c)
  <2>1. (w + 1) - h = (w - h) + 1 /\ w - h \in Nat
    OBVIOUS
  <2>2. QED
    BY <1>2, <1>3, <1>4, <1>5, <2>1
<1>7. QED
  BY <1>6 DEF u, v

(* and where there is none: it replaces the oldest.                        *)
Replaced(b, h, w, c) ==
  Between([b EXCEPT ![w % STDIN_BUFSIZE] = c], h, w) = <<c>> \o Tail(Between(b, h, w))

(* The entry overwritten is the first one unread, and no other.            *)
LEMMA BetweenFull ==
  ASSUME NEW b \in [0..STDIN_BUFSIZE-1 -> Char], NEW h \in Nat, NEW w \in Nat, h <= w,
         w - h = STDIN_BUFSIZE, NEW c \in Char
  PROVE  Replaced(b, h, w, c)
<1> DEFINE n == STDIN_BUFSIZE
           a == [b EXCEPT ![w % n] = c]
           u == Between(b, h, w)
           v == Between(a, h, w)
<1>1. a \in [0..n-1 -> Char] /\ a[w % n] = c /\ \A x \in 0..n-1 : x # w % n => a[x] = b[x]
  OBVIOUS
<1>2. /\ u \in Seq(Char) /\ Len(u) = n
      /\ \A i \in 1..n : u[i] = b[(h + i - 1) % n]
  BY BetweenFacts DEF Contents
<1>3. /\ v \in Seq(Char) /\ Len(v) = n
      /\ \A i \in 1..n : v[i] = a[(h + i - 1) % n]
  <2>1. Contents(a, h, w)
    <3> HIDE DEF a
    <3>1. QED
      BY <1>1, BetweenFacts
  <2>2. QED
    BY <2>1 DEF Contents
<1>4. v[1] = c
  <2>1. 1 \in 1..n /\ h + 1 - 1 = h /\ w = h + n
    OBVIOUS
  <2>2. w % n = h % n
    BY <2>1, Round
  <2> HIDE DEF v, a
  <2>3. QED
    BY <2>1, <2>2, <1>3, <1>1
<1>5. \A i \in 2..n : v[i] = u[i]
  <2> SUFFICES ASSUME NEW i \in 2..n PROVE v[i] = u[i]
    OBVIOUS
  <2> DEFINE x == h + i - 1
  <2>1. x \in Nat /\ x < w /\ w < x + n /\ i \in 1..n
    OBVIOUS
  <2>2. v[i] = a[x % n] /\ u[i] = b[x % n]
    <3> HIDE DEF u, v, a
    <3> QED BY <2>1, <1>2, <1>3
  <2> HIDE DEF x
  <2>3. x % n # w % n
    BY <2>1, Apart
  <2>4. x % n \in 0..n-1
    BY <2>1
  <2> HIDE DEF u, v, a
  <2>5. QED
    BY <2>2, <2>3, <2>4, <1>1
<1> HIDE DEF u, v
<1>6. v = <<c>> \o Tail(u)
  BY <1>2, <1>3, <1>4, <1>5
<1>7. QED
  BY <1>6 DEF u, v, Replaced
-----------------------------------------------------------------------------
(* The readers *)

(* A queue without the entry of r.                                         *)
Without(q, p, r) ==
  p \in Seq(Reader) /\ IsInjective(p) /\ Range(p) = Range(q) \ {r}

(* Removing one entry of a queue without repetition.                       *)
LEMMA RemoveFacts ==
  ASSUME NEW q \in Seq(Reader), IsInjective(q), NEW i \in DOMAIN q
  PROVE  Without(q, RemoveAt(q, i), q[i])
<1> DEFINE n == Len(q) - 1
           p == RemoveAt(q, i)
<1>1. /\ n \in Nat /\ Len(q) = n + 1 /\ DOMAIN q = 1..n+1 /\ i \in 1..n+1
      /\ \A j \in 1..n+1 : q[j] \in Reader
  OBVIOUS
<1>2. /\ p \in Seq(Reader) /\ Len(p) = n /\ DOMAIN p = 1..n
      /\ \A j \in 1..n : p[j] = IF j < i THEN q[j] ELSE q[j + 1]
  <2> DEFINE u == SubSeq(q, 1, i - 1)
             v == SubSeq(q, i + 1, Len(q))
  <2>1. /\ u \in Seq(Reader) /\ Len(u) = i - 1
        /\ \A j \in 1..i-1 : u[j] = q[j]
    BY <1>1
  <2>2. /\ v \in Seq(Reader) /\ Len(v) = Len(q) - i
        /\ \A j \in 1..Len(q)-i : v[j] = q[i + j]
    BY <1>1
  <2>3. p = u \o v
    BY DEF RemoveAt
  <2> HIDE DEF u, v, p, n
  <2>4. /\ p \in Seq(Reader) /\ Len(p) = Len(u) + Len(v)
        /\ \A j \in 1..Len(u) + Len(v) : p[j] = IF j <= Len(u) THEN u[j] ELSE v[j - Len(u)]
    BY <2>1, <2>2, <2>3
  <2>5. Len(p) = n
    BY <2>1, <2>2, <2>4, <1>1
  <2>6. ASSUME NEW j \in 1..n PROVE p[j] = IF j < i THEN q[j] ELSE q[j + 1]
    <3>1. j \in 1..Len(u) + Len(v) /\ (j <= Len(u) <=> j < i)
      BY <2>4, <2>5, <2>1, <1>1
    <3>2. CASE j < i
      BY <3>1, <3>2, <2>4, <2>1, <1>1
    <3>3. CASE ~(j < i)
      <4>1. j - Len(u) \in 1..Len(q)-i /\ i + (j - Len(u)) = j + 1
        BY <3>3, <2>1, <1>1
      <4>2. QED
        BY <4>1, <3>1, <3>3, <2>4, <2>2
    <3>4. QED
      BY <3>2, <3>3
  <2>7. QED
    BY <2>4, <2>5, <2>6
<1> HIDE DEF n, p
<1>3. \A j, k \in 1..n+1 : q[j] = q[k] => j = k
  BY <1>1, Zenon DEF IsInjective
<1>4. IsInjective(p)
  <2>1. \A j, k \in 1..n : p[j] = p[k] => j = k
    BY <1>1, <1>2, <1>3
  <2>2. QED
    BY <2>1, <1>2, Zenon DEF IsInjective
<1>5. Range(q) = {q[j] : j \in 1..n+1} /\ Range(p) = {p[j] : j \in 1..n}
  BY <1>1, <1>2, Zenon DEF Range
<1>6. ASSUME NEW j \in 1..n PROVE p[j] \in Range(q) /\ p[j] # q[i]
  <2>1. j \in 1..n+1 /\ j + 1 \in 1..n+1
    BY <1>1
  <2>2. CASE j < i
    BY <2>1, <2>2, <1>1, <1>2, <1>3, <1>5
  <2>3. CASE j >= i
    BY <2>1, <2>3, <1>1, <1>2, <1>3, <1>5
  <2>4. QED
    BY <2>2, <2>3, <1>1
<1>7. ASSUME NEW j \in 1..n+1, q[j] # q[i] PROVE q[j] \in Range(p)
  <2>1. j # i
    BY <1>7
  <2>2. CASE j < i
    <3>1. j \in 1..n /\ p[j] = q[j]
      BY <2>2, <1>1, <1>2
    <3>2. QED
      BY <3>1, <1>5
  <2>3. CASE j > i
    <3>1. j - 1 \in 1..n /\ p[j - 1] = q[j]
      BY <2>3, <1>1, <1>2
    <3>2. QED
      BY <3>1, <1>5
  <2>4. QED
    BY <2>1, <2>2, <2>3, <1>1
<1>8. Range(p) = Range(q) \ {q[i]}
  BY <1>5, <1>6, <1>7
<1>9. QED
  BY <1>2, <1>4, <1>8 DEF p, Without

(* wait_current_del leaves the queue without r.                            *)
LEMMA UnlinkedFacts ==
  ASSUME TypeOK, QueueExact, NEW r \in Reader
  PROVE  Without(wait_queue, Unlinked(r), r)
<1>1. wait_queue \in Seq(Reader) /\ IsInjective(wait_queue)
  BY DEF TypeOK, QueueExact
<1>2. CASE r \in Range(wait_queue)
  <2> DEFINE i == CHOOSE i \in DOMAIN wait_queue : wait_queue[i] = r
  <2>1. i \in DOMAIN wait_queue /\ wait_queue[i] = r
    BY <1>2 DEF Range
  <2>2. Unlinked(r) = RemoveAt(wait_queue, i)
    BY <1>2, Zenon DEF Unlinked
  <2> HIDE DEF i
  <2>3. QED
    BY <2>1, <2>2, <1>1, RemoveFacts
<1>3. CASE r \notin Range(wait_queue)
  BY <1>1, <1>3, Zenon DEF Unlinked, Without
<1>4. QED
  BY <1>2, <1>3

(* What makes ReadersOK inductive: the positions are at most a round apart,*)
(* and a read that sleeps has not got all it wants.                        *)
ReadersInv ==
  /\ ReadersOK
  /\ p_rpos <= p_wpos /\ p_wpos - p_rpos <= STDIN_BUFSIZE
  /\ \A r \in Reader : state[r] = "waiting" => Len(got[r]) < len[r]

(* Before the first key.                                                   *)
LEMMA StdinInit == Init => ReadersInv /\ Input!Init
<1> SUFFICES ASSUME Init PROVE ReadersInv /\ Input!Init
  OBVIOUS
<1>1. (CHOOSE c \in Char : TRUE) \in Char
  OBVIOUS
<1>2. TypeOK
  BY <1>1 DEF Init, TypeOK
<1>3. Range(wait_queue) = {} /\ IsInjective(wait_queue)
  BY EmptyFacts DEF Init
<1>4. QueueExact
  BY <1>3 DEF Init, QueueExact
<1>5. NoSleepOnInput /\ p_rpos <= p_wpos /\ p_wpos - p_rpos <= STDIN_BUFSIZE
  BY DEF Init, NoSleepOnInput
<1>6. \A r \in Reader : state[r] # "waiting"
  BY DEF Init
<1>7. Input!Init
  BY DEF Init, Input!Init
<1>8. QED
  BY <1>2, <1>4, <1>5, <1>6, <1>7 DEF ReadersInv, ReadersOK

(* Characters.                                                             *)
LEMMA WriteMaps ==
  ASSUME ReadersInv, NEW c \in Char, Write(c)
  PROVE  ReadersInv' /\ Input!Type(c)
<1>1. /\ TypeOK /\ QueueExact /\ NoSleepOnInput
      /\ p_rpos <= p_wpos /\ p_wpos - p_rpos <= STDIN_BUFSIZE
      /\ \A r \in Reader : state[r] = "waiting" => Len(got[r]) < len[r]
  BY Zenon DEF ReadersInv, ReadersOK
<1>2. wait_queue \in Seq(Reader)
  BY <1>1 DEF TypeOK
<1>3. wait_queue' = <<>> /\ {wait_queue[i] : i \in 1..Woken} = Range(wait_queue)
  BY <1>2 DEF Write, Woken, Range
<1>4. /\ wakeup_flags' = [r \in Reader |-> IF r \in Range(wait_queue) THEN "WT_KBD" ELSE wakeup_flags[r]]
      /\ runnable' = [r \in Reader |-> runnable[r] \/ r \in Range(wait_queue)]
      /\ stdin_buffer' = [stdin_buffer EXCEPT ![p_wpos % STDIN_BUFSIZE] = c]
      /\ p_wpos' = NextPos
      /\ UNCHANGED <<p_rpos, state, exiting, len, got>>
  BY <1>3, Zenon DEF Write
<1>5. /\ stdin_buffer \in [0..STDIN_BUFSIZE-1 -> Char] /\ p_rpos \in Nat /\ p_wpos \in Nat
      /\ p_wpos' \in Nat /\ p_rpos <= p_wpos' /\ p_wpos' - p_rpos <= STDIN_BUFSIZE
  BY <1>1, <1>4 DEF TypeOK, NextPos
<1>6. \A r \in Reader : runnable'[r] = TRUE
  BY <1>1, <1>4 DEF QueueExact, TypeOK
<1>7. TypeOK'
  <2>1. stdin_buffer' \in [0..STDIN_BUFSIZE-1 -> Char]
    BY <1>4, <1>5
  <2>2. wait_queue' \in Seq(Reader)
    BY <1>3
  <2>3. /\ wakeup_flags' \in [Reader -> {"WT_INTERRUPTED", "WT_KBD"}]
        /\ runnable' \in [Reader -> BOOLEAN]
    BY <1>1, <1>4 DEF TypeOK
  <2>4. QED
    BY <2>1, <2>2, <2>3, <1>1, <1>4, <1>5 DEF TypeOK
<1>8. QueueExact'
  <2>1. IsInjective(wait_queue') /\ Range(wait_queue') = {}
    BY <1>3, EmptyFacts
  <2>2. ASSUME NEW r \in Reader, state'[r] = "waiting" PROVE wakeup_flags'[r] # "WT_INTERRUPTED"
    BY <2>2, <1>1, <1>4 DEF QueueExact
  <2>3. QED
    BY <2>1, <2>2, <1>6 DEF QueueExact
<1>9. NoSleepOnInput'
  BY <1>6 DEF NoSleepOnInput
<1>10. ReadersInv'
  BY <1>1, <1>4, <1>5, <1>7, <1>8, <1>9 DEF ReadersInv, ReadersOK
<1>11. Unread' = IF Len(Unread) < STDIN_BUFSIZE THEN Append(Unread, c) ELSE <<c>> \o Tail(Unread)
  <2>1. Len(Unread) = p_wpos - p_rpos
    BY <1>1, <1>5, BetweenFacts DEF Contents, Unread
  <2>2. Unread' = Between([stdin_buffer EXCEPT ![p_wpos % STDIN_BUFSIZE] = c], p_rpos, NextPos)
    BY <1>4 DEF Unread, Between
  <2>3. CASE p_wpos - p_rpos < STDIN_BUFSIZE
    <3>1. NextPos = p_wpos + 1
      BY <2>3, <1>5 DEF NextPos
    <3>2. Between([stdin_buffer EXCEPT ![p_wpos % STDIN_BUFSIZE] = c], p_rpos, NextPos)
            = Append(Unread, c)
      BY <3>1, <2>3, <1>1, <1>5, BetweenPut DEF Unread
    <3>3. QED
      BY <2>1, <2>2, <2>3, <3>2, <1>1
  <2>4. CASE p_wpos - p_rpos = STDIN_BUFSIZE
    <3>1. NextPos = p_wpos
      BY <2>4, <1>5 DEF NextPos
    <3>2. Between([stdin_buffer EXCEPT ![p_wpos % STDIN_BUFSIZE] = c], p_rpos, p_wpos)
            = <<c>> \o Tail(Between(stdin_buffer, p_rpos, p_wpos))
      <4>1. Replaced(stdin_buffer, p_rpos, p_wpos, c)
        BY <2>4, <1>1, <1>5, BetweenFull
      <4>2. QED
        BY <4>1 DEF Replaced
    <3>3. Unread' = <<c>> \o Tail(Unread)
      BY <2>2, <3>1, <3>2, Zenon DEF Unread
    <3>4. ~(Len(Unread) < STDIN_BUFSIZE)
      BY <2>1, <2>4
    <3>5. QED
      BY <3>3, <3>4
  <2>5. QED
    BY <2>1, <2>3, <2>4, <1>1, <1>5
<1>12. Input!Type(c)
  BY <1>4, <1>11 DEF Input!Type, Unread, Between
<1>13. QED
  BY <1>10, <1>12

(* dev_stdin_read from a place where r runs and is not linked: it takes    *)
(* all it wants, or all there is and sleeps.                               *)
Begins(r, had, n, p) ==
  /\ had \in Seq(Char) /\ had \in {got[r], <<>>} /\ Len(had) < n
  /\ n \in 1..MaxLen /\ len' \in [Reader -> 0..MaxLen] /\ len'[r] = n
  /\ \A x \in Reader : x # r => len'[x] = len[x]
  /\ Without(wait_queue, p, r)
  /\ runnable[r] = TRUE
  /\ UNCHANGED <<stdin_buffer, p_wpos, exiting>>

(* Either way the characters taken are the first ones unread.              *)
LEMMA ReadOnMaps ==
  ASSUME ReadersInv, NEW r \in Reader, NEW had, NEW n, NEW p,
         Begins(r, had, n, p), ReadOn(r, had, n, p)
  PROVE  ReadersInv' /\ \E k \in 0..Len(Unread) : Input!Take(r, had, k)
<1> DEFINE left == n - Len(had)
           avail == p_wpos - p_rpos
           k == IF left <= avail THEN left ELSE avail
           taken == Between(stdin_buffer, p_rpos, p_rpos + k)
<1>1. /\ TypeOK /\ QueueExact /\ NoSleepOnInput
      /\ p_rpos <= p_wpos /\ p_wpos - p_rpos <= STDIN_BUFSIZE
      /\ \A x \in Reader : state[x] = "waiting" => Len(got[x]) < len[x]
  BY Zenon DEF ReadersInv, ReadersOK
<1>2. /\ stdin_buffer \in [0..STDIN_BUFSIZE-1 -> Char] /\ p_rpos \in Nat /\ p_wpos \in Nat
      /\ got \in [Reader -> Seq(Char)] /\ runnable \in [Reader -> BOOLEAN]
      /\ state \in [Reader -> {"user", "waiting", "gone"}]
      /\ wakeup_flags \in [Reader -> {"WT_INTERRUPTED", "WT_KBD"}]
  BY <1>1 DEF TypeOK
<1>3. /\ had \in Seq(Char) /\ had \in {got[r], <<>>} /\ Len(had) < n /\ n \in 1..MaxLen
      /\ len' \in [Reader -> 0..MaxLen] /\ len'[r] = n
      /\ \A x \in Reader : x # r => len'[x] = len[x]
      /\ p \in Seq(Reader) /\ IsInjective(p) /\ Range(p) = Range(wait_queue) \ {r}
      /\ runnable[r] = TRUE
      /\ UNCHANGED <<stdin_buffer, p_wpos, exiting>>
  BY DEF Begins, Without
<1>4. Len(had) \in Nat
  BY <1>3
<1>5. /\ left \in Nat /\ left > 0 /\ avail \in Nat /\ k \in 0..avail /\ k <= left
      /\ (k # left => k = avail) /\ n = Len(had) + left
  BY <1>1, <1>2, <1>3, <1>4
<1>6. /\ got' = [got EXCEPT ![r] =
                    had \o [i \in 1..k |-> stdin_buffer[(p_rpos + i - 1) % STDIN_BUFSIZE]]]
      /\ p_rpos' = p_rpos + k
      /\ k = left => /\ state' = [state EXCEPT ![r] = "user"] /\ wait_queue' = p
                     /\ UNCHANGED <<wakeup_flags, runnable>>
      /\ k # left => /\ state' = [state EXCEPT ![r] = "waiting"]
                     /\ wait_queue' = Append(p, r)
                     /\ wakeup_flags' = [wakeup_flags EXCEPT ![r] = "WT_INTERRUPTED"]
                     /\ runnable' = [runnable EXCEPT ![r] = FALSE]
  BY DEF ReadOn
<1> HIDE DEF left, avail, k
<1>7. p_rpos + k \in Nat /\ (p_rpos + k) - p_rpos = k /\ p_rpos <= p_rpos + k
  BY <1>2, <1>5
<1>8. got' = [got EXCEPT ![r] = had \o taken] /\ taken \in Seq(Char) /\ Len(taken) = k
  <2>1. Contents(stdin_buffer, p_rpos, p_rpos + k)
    BY <1>2, <1>7, BetweenFacts
  <2>2. taken = [i \in 1..k |-> stdin_buffer[(p_rpos + i - 1) % STDIN_BUFSIZE]]
    BY <1>7 DEF Between
  <2>3. got' = [got EXCEPT ![r] = had \o taken]
    BY <1>6, <2>2
  <2>4. QED
    BY <2>1, <2>3, <1>7 DEF Contents
<1> HIDE DEF taken
<1>9. had \o taken \in Seq(Char) /\ Len(had \o taken) = Len(had) + k
  <2>1. had \in Seq(Char) /\ taken \in Seq(Char) /\ Len(taken) = k
    BY <1>3, <1>8
  <2>2. QED
    BY <2>1
<1>10. /\ got' \in [Reader -> Seq(Char)] /\ Len(got'[r]) = Len(had) + k
       /\ \A x \in Reader : x # r => got'[x] = got[x]
  BY <1>2, <1>8, <1>9
<1>11. /\ p_rpos' \in Nat /\ p_wpos' \in Nat /\ p_rpos' <= p_wpos' /\ p_wpos' - p_rpos' <= STDIN_BUFSIZE
       /\ (p_rpos' < p_wpos' => p_rpos < p_wpos)
       /\ (k # left => p_rpos' = p_wpos')
  BY <1>1, <1>2, <1>3, <1>5, <1>6 DEF avail
<1>12. ASSUME k = left PROVE ReadersInv'
  <2>1. /\ state' = [state EXCEPT ![r] = "user"] /\ wait_queue' = p
        /\ wakeup_flags' = wakeup_flags /\ runnable' = runnable
    BY <1>6, <1>12
  <2>2. TypeOK'
    BY <2>1, <1>1, <1>2, <1>3, <1>10, <1>11 DEF TypeOK
  <2>3. state'[r] = "user" /\ \A x \in Reader : x # r => state'[x] = state[x]
    BY <2>1, <1>2
  <2>4. QueueExact'
    <3>1. IsInjective(wait_queue') /\ Range(wait_queue') = Range(wait_queue) \ {r}
      BY <2>1, <1>3
    <3>2. Range(wait_queue) \subseteq Reader
      BY <1>1, RangeFacts DEF TypeOK
    <3>3. QED
      BY <2>1, <2>3, <3>1, <3>2, <1>1, <1>3 DEF QueueExact
  <2>5. NoSleepOnInput'
    BY <2>1, <1>1, <1>11 DEF NoSleepOnInput
  <2>6. \A x \in Reader : state'[x] = "waiting" => Len(got'[x]) < len'[x]
    BY <2>3, <1>1, <1>3, <1>10
  <2>7. QED
    BY <2>2, <2>4, <2>5, <2>6, <1>11 DEF ReadersInv, ReadersOK
<1>13. ASSUME k # left PROVE ReadersInv'
  <2>1. /\ state' = [state EXCEPT ![r] = "waiting"] /\ wait_queue' = Append(p, r)
        /\ wakeup_flags' = [wakeup_flags EXCEPT ![r] = "WT_INTERRUPTED"]
        /\ runnable' = [runnable EXCEPT ![r] = FALSE]
    BY <1>6, <1>13
  <2>2. /\ wait_queue' \in Seq(Reader) /\ IsInjective(wait_queue')
        /\ Range(wait_queue') = Range(wait_queue) \cup {r}
    <3>1. r \notin Range(p)
      BY <1>3
    <3>2. /\ Append(p, r) \in Seq(Reader) /\ IsInjective(Append(p, r))
          /\ Range(Append(p, r)) = Range(p) \cup {r}
      BY <3>1, <1>3, AppendFacts
    <3>3. QED
      BY <2>1, <3>2, <1>3
  <2>3. TypeOK'
    BY <2>1, <2>2, <1>1, <1>2, <1>3, <1>10, <1>11 DEF TypeOK
  <2>4. /\ state'[r] = "waiting" /\ wakeup_flags'[r] = "WT_INTERRUPTED"
        /\ \A x \in Reader : x # r => /\ state'[x] = state[x]
                                     /\ wakeup_flags'[x] = wakeup_flags[x]
                                     /\ runnable'[x] = runnable[x]
    BY <2>1, <1>2
  <2>5. QueueExact'
    <3>1. Range(wait_queue) \subseteq Reader
      BY <1>1, RangeFacts DEF TypeOK
    <3>2. QED
      BY <2>2, <2>4, <3>1, <1>1 DEF QueueExact
  <2>6. NoSleepOnInput'
    BY <1>11, <1>13 DEF NoSleepOnInput
  <2>7. \A x \in Reader : state'[x] = "waiting" => Len(got'[x]) < len'[x]
    <3>1. Len(got'[r]) < len'[r]
      BY <1>3, <1>4, <1>5, <1>10, <1>13
    <3>2. QED
      BY <2>4, <3>1, <1>1, <1>3, <1>10
  <2>8. QED
    BY <2>3, <2>5, <2>6, <2>7, <1>11 DEF ReadersInv, ReadersOK
<1>14. \E j \in 0..Len(Unread) : Input!Take(r, had, j)
  <2>1. Len(Unread) = avail
    BY <1>1, <1>2, BetweenFacts DEF Contents, Unread, avail
  <2>2. k \in 0..p_wpos - p_rpos
    BY <1>5 DEF avail
  <2>3. /\ taken = SubSeq(Unread, 1, k)
        /\ Between(stdin_buffer, p_rpos + k, p_wpos) = SubSeq(Unread, k + 1, Len(Unread))
    BY <2>2, <1>1, <1>2, BetweenTake DEF taken, Unread
  <2>4. Unread' = Between(stdin_buffer, p_rpos + k, p_wpos)
    BY <1>3, <1>6 DEF Unread, Between
  <2>5. /\ had \in {got[r], <<>>}
        /\ got' = [got EXCEPT ![r] = had \o SubSeq(Unread, 1, k)]
        /\ Unread' = SubSeq(Unread, k + 1, Len(Unread))
    BY <2>3, <2>4, <1>3, <1>8
  <2>6. PICK j \in 0..Len(Unread) : j = k
    BY <2>1, <1>5
  <2>7. Input!Take(r, had, j)
    BY <2>5, <2>6, Zenon DEF Input!Take, Unread, Between
  <2>8. QED
    BY <2>7, Zenon
<1>15. QED
  BY <1>12, <1>13, <1>14

(* The calls of a reader.                                                  *)
LEMMA ReadMaps ==
  ASSUME ReadersInv, NEW r \in Reader, NEW n \in 1..MaxLen, Read(r, n)
  PROVE  ReadersInv' /\ \E k \in 0..Len(Unread) : Input!Take(r, <<>>, k)
<1>1. TypeOK /\ QueueExact
  BY Zenon DEF ReadersInv, ReadersOK
<1>2. state[r] = "user" /\ runnable[r] = TRUE /\ r \notin Range(wait_queue)
  BY <1>1 DEF Read, QueueExact, TypeOK
<1>3. Begins(r, <<>>, n, wait_queue)
  <2>1. Without(wait_queue, wait_queue, r)
    BY <1>1, <1>2 DEF Without, TypeOK, QueueExact
  <2>2. /\ len' \in [Reader -> 0..MaxLen] /\ len'[r] = n
        /\ \A x \in Reader : x # r => len'[x] = len[x]
    BY <1>1 DEF Read, TypeOK
  <2>3. <<>> \in Seq(Char) /\ Len(<<>>) < n
    OBVIOUS
  <2>4. QED
    BY <1>2, <2>1, <2>2, <2>3 DEF Begins, Read
<1>4. ReadOn(r, <<>>, n, wait_queue)
  BY DEF Read
<1>5. QED
  BY <1>3, <1>4, ReadOnMaps

(* Woken by a key it reads on; woken by a kill it ends.                    *)
LEMMA ResumeMaps ==
  ASSUME ReadersInv, NEW r \in Reader, Resume(r)
  PROVE  ReadersInv' /\ (\/ \E k \in 0..Len(Unread) : Input!Take(r, got[r], k)
                         \/ UNCHANGED <<ring, got>>)
<1>1. TypeOK /\ QueueExact /\ NoSleepOnInput
  BY Zenon DEF ReadersInv, ReadersOK
<1>2. /\ \A x \in Reader : state[x] = "waiting" => Len(got[x]) < len[x]
      /\ p_rpos <= p_wpos /\ p_wpos - p_rpos <= STDIN_BUFSIZE
  BY Zenon DEF ReadersInv
<1>3. state[r] = "waiting" /\ runnable[r] = TRUE
  BY <1>1 DEF Resume, TypeOK
<1>4. Without(wait_queue, Unlinked(r), r)
  BY <1>1, UnlinkedFacts
<1>5. CASE wakeup_flags[r] = "WT_KBD"
  <2>1. ReadOn(r, got[r], len[r], Unlinked(r)) /\ UNCHANGED <<stdin_buffer, p_wpos, exiting, len>>
    BY <1>5 DEF Resume
  <2>2. /\ got[r] \in Seq(Char) /\ Len(got[r]) < len[r] /\ len[r] \in 1..MaxLen
        /\ len' \in [Reader -> 0..MaxLen]
    <3>1. got[r] \in Seq(Char) /\ len[r] \in 0..MaxLen /\ len' \in [Reader -> 0..MaxLen]
      BY <2>1, <1>1 DEF TypeOK
    <3>2. Len(got[r]) < len[r] /\ Len(got[r]) \in Nat
      BY <3>1, <1>2, <1>3
    <3>3. QED
      BY <3>1, <3>2
  <2>3. Begins(r, got[r], len[r], Unlinked(r))
    BY <2>1, <2>2, <1>3, <1>4 DEF Begins
  <2>4. QED
    BY <2>1, <2>3, ReadOnMaps
<1>6. CASE wakeup_flags[r] # "WT_KBD"
  <2>1. /\ state' = [state EXCEPT ![r] = "user"] /\ wait_queue' = Unlinked(r)
        /\ UNCHANGED <<p_rpos, wakeup_flags, runnable, got, stdin_buffer, p_wpos, exiting, len>>
    BY <1>6 DEF Resume
  <2>2. /\ wait_queue' \in Seq(Reader) /\ IsInjective(wait_queue')
        /\ Range(wait_queue') = Range(wait_queue) \ {r}
    BY <2>1, <1>4 DEF Without
  <2>3. TypeOK'
    BY <2>1, <2>2, <1>1 DEF TypeOK
  <2>4. state'[r] = "user" /\ \A x \in Reader : x # r => state'[x] = state[x]
    BY <2>1, <1>1 DEF TypeOK
  <2>5. QueueExact'
    <3>1. Range(wait_queue) \subseteq Reader
      BY <1>1, RangeFacts DEF TypeOK
    <3>2. QED
      BY <2>1, <2>2, <2>4, <3>1, <1>1, <1>3 DEF QueueExact
  <2>6. NoSleepOnInput'
    BY <2>1, <1>1 DEF NoSleepOnInput
  <2>7. QED
    BY <2>1, <2>3, <2>4, <2>5, <2>6, <1>2 DEF ReadersInv, ReadersOK, ring
<1>7. QED
  BY <1>5, <1>6

(* do_kill, the end of a killed process, and nothing.                      *)
LEMMA OtherMaps ==
  ASSUME ReadersInv, (\E r \in Reader : Kill(r) \/ Exit(r)) \/ UNCHANGED vars
  PROVE  ReadersInv' /\ UNCHANGED <<ring, got>>
<1>1. /\ TypeOK /\ QueueExact /\ NoSleepOnInput
      /\ p_rpos <= p_wpos /\ p_wpos - p_rpos <= STDIN_BUFSIZE
      /\ \A x \in Reader : state[x] = "waiting" => Len(got[x]) < len[x]
  BY Zenon DEF ReadersInv, ReadersOK
<1>2. UNCHANGED <<stdin_buffer, p_rpos, p_wpos, wait_queue, wakeup_flags, len, got>>
  BY DEF Kill, Exit, vars, ring
<1>3. /\ state' \in [Reader -> {"user", "waiting", "gone"}]
      /\ \A x \in Reader : state'[x] = "waiting" <=> state[x] = "waiting"
  BY <1>1 DEF Kill, Exit, vars, procs, TypeOK
<1>4. /\ runnable' \in [Reader -> BOOLEAN]
      /\ \A x \in Reader : runnable[x] => runnable'[x]
  BY <1>1 DEF Kill, Exit, vars, procs, TypeOK
<1>5. exiting' \in [Reader -> BOOLEAN]
  BY <1>1 DEF Kill, Exit, vars, procs, TypeOK
<1>6. TypeOK'
  BY <1>1, <1>2, <1>3, <1>4, <1>5 DEF TypeOK
<1>7. QueueExact'
  <2>1. Range(wait_queue) \subseteq Reader
    BY <1>1, RangeFacts DEF TypeOK
  <2>2. QED
    BY <2>1, <1>1, <1>2, <1>3, <1>4 DEF QueueExact
<1>8. NoSleepOnInput'
  BY <1>1, <1>2, <1>4 DEF NoSleepOnInput
<1>9. QED
  BY <1>1, <1>2, <1>3, <1>6, <1>7, <1>8 DEF ReadersInv, ReadersOK, ring

(* Every step, concrete and abstract.                                      *)
LEMMA StdinStep ==
  ASSUME ReadersInv, [Next]_vars
  PROVE  ReadersInv' /\ [Input!Next]_Input!vars
<1>1. ASSUME UNCHANGED <<ring, got>> PROVE UNCHANGED Input!vars
  BY <1>1 DEF ring, Input!vars
<1>2. ASSUME NEW c \in Char, Write(c) PROVE ReadersInv' /\ Input!Next
  BY <1>2, WriteMaps DEF Input!Next
<1>3. Len(Unread) = Len([i \in 1..p_wpos - p_rpos |-> stdin_buffer[(p_rpos + i - 1) % STDIN_BUFSIZE]])
  BY DEF Unread, Between
<1>4. ASSUME NEW r \in Reader, NEW n \in 1..MaxLen, Read(r, n) PROVE ReadersInv' /\ Input!Next
  <2>1. ReadersInv' /\ \E k \in 0..Len(Unread) : Input!Take(r, <<>>, k)
    BY <1>4, ReadMaps
  <2>2. QED
    BY <2>1, <1>3, Zenon DEF Input!Next
<1>5. ASSUME NEW r \in Reader, Resume(r) PROVE ReadersInv' /\ [Input!Next]_Input!vars
  <2>1. ReadersInv' /\ (\/ \E k \in 0..Len(Unread) : Input!Take(r, got[r], k)
                        \/ UNCHANGED <<ring, got>>)
    BY <1>5, ResumeMaps
  <2>2. QED
    BY <2>1, <1>1, <1>3, Zenon DEF Input!Next
<1>6. ASSUME (\E r \in Reader : Kill(r) \/ Exit(r)) \/ UNCHANGED vars
      PROVE  ReadersInv' /\ UNCHANGED Input!vars
  BY <1>6, <1>1, OtherMaps
<1>7. QED
  BY <1>2, <1>4, <1>5, <1>6, Zenon DEF Next

(* Who sleeps in dev_stdin_read is linked, once, and has nothing to read,  *)
(* whatever mix of keys, kills and other readers wakes it.                 *)
THEOREM ReadersAlwaysOK == Spec => []ReadersOK
<1>1. ReadersInv => ReadersOK
  BY DEF ReadersInv
<1>2. QED
  BY StdinInit, StdinStep, <1>1, PTL DEF Spec

(* The ring is a bounded queue of characters for all readers together, full*)
(* or not, however often p_rpos and p_wpos go round it.                    *)
THEOREM RingIsTypeAhead == Spec => InputSpec
BY StdinInit, StdinStep, PTL DEF Spec, InputSpec, Input!Spec
-----------------------------------------------------------------------------
(* The timers *)

CONSTANTS Timer, MaxExpires

VARIABLES timer_list, fired

Clock == INSTANCE Timers

HIDE StdinAssumption
USE DEF Clock!TimersAssumption

(* Timers has its Cardinality from the modules that it extends.            *)
LEMMA Counts == ASSUME NEW S PROVE Clock!Cardinality(S) = Cardinality(S)
BY Zenon DEF Clock!Cardinality, Cardinality

Node == [timer : Timer, expires : Nat]
List == Seq(Node)

(* d is the sums of the differences of s.                                  *)
Summing(s, d) ==
  /\ d \in [0..Len(s) -> Nat]
  /\ d[0] = 0
  /\ \A i \in 1..Len(s) : d[i] = d[i - 1] + s[i].expires

(* There are such sums, built up from the front.                           *)
LEMMA SumsExist == ASSUME NEW s \in List PROVE \E d : Summing(s, d)
<1> DEFINE P(n, g) == /\ g \in [0..n -> Nat] /\ g[0] = 0
                      /\ \A i \in 1..n : g[i] = g[i - 1] + s[i].expires
           T == {n \in Nat : n <= Len(s) => \E g : P(n, g)}
<1>1. Len(s) \in Nat /\ \A i \in 1..Len(s) : s[i].expires \in Nat
  <2>1. Len(s) \in Nat /\ \A i \in 1..Len(s) : s[i] \in Node
    BY DEF List
  <2>2. QED
    BY <2>1 DEF Node
<1>2. 0 \in T
  <2>1. P(0, [i \in 0..0 |-> 0])
    OBVIOUS
  <2> HIDE DEF P
  <2>2. QED
    BY <2>1
<1>3. ASSUME NEW n \in T PROVE n + 1 \in T
  <2> SUFFICES ASSUME n + 1 <= Len(s) PROVE \E g : P(n + 1, g)
    <3> HIDE DEF P
    <3> QED BY <1>3
  <2>1. n \in Nat /\ n <= Len(s) /\ n + 1 \in 1..Len(s)
    BY <1>1
  <2>2. PICK g : P(n, g)
    <3> HIDE DEF P
    <3> QED BY <2>1, <1>3
  <2> DEFINE h == [i \in 0..n+1 |-> IF i <= n THEN g[i] ELSE g[n] + s[n + 1].expires]
  <2>3. n \in 0..n /\ g[n] \in Nat /\ s[n + 1].expires \in Nat
    BY <2>1, <2>2, <1>1
  <2>4. h \in [0..n+1 -> Nat]
    BY <2>1, <2>2, <2>3
  <2>5. h[0] = 0
    BY <2>1, <2>2
  <2>6. ASSUME NEW i \in 1..n+1 PROVE h[i] = h[i - 1] + s[i].expires
    <3>1. i \in 0..n+1 /\ i - 1 \in 0..n+1 /\ i - 1 <= n /\ i - 1 \in Nat
      BY <2>1
    <3>2. h[i - 1] = g[i - 1]
      BY <3>1
    <3>3. CASE i <= n
      <4>1. i \in 1..n /\ h[i] = g[i]
        BY <3>1, <3>3, <2>1
      <4>2. g[i] = g[i - 1] + s[i].expires
        BY <4>1, <2>2
      <4>3. QED
        BY <4>1, <4>2, <3>2
    <3>4. CASE i = n + 1
      <4>1. h[i] = g[n] + s[n + 1].expires /\ i - 1 = n
        BY <3>1, <3>4, <2>1
      <4>2. QED
        BY <4>1, <3>2, <3>4
    <3>5. QED
      BY <3>3, <3>4, <2>1
  <2>7. P(n + 1, h)
    <3> HIDE DEF h
    <3> QED BY <2>4, <2>5, <2>6
  <2> HIDE DEF P, h
  <2>8. QED
    BY <2>7
<1>4. T = Nat
  <2> HIDE DEF T
  <2>1. T \in SUBSET Nat
    BY DEF T
  <2>2. QED
    BY <2>1, <1>2, <1>3, Induction
<1>5. \E g : P(Len(s), g)
  <2> HIDE DEF P
  <2> QED BY <1>1, <1>4
<1>6. QED
  BY <1>5 DEF Summing

(* There are no others,                                                    *)
LEMMA SumsUnique ==
  ASSUME NEW s \in List, NEW d, Summing(s, d), NEW e, DOMAIN e = 0..Len(s),
         e[0] = 0, \A i \in 1..Len(s) : e[i] = e[i - 1] + s[i].expires
  PROVE  \A i \in 0..Len(s) : e[i] = d[i]
<1> DEFINE T == {n \in Nat : n <= Len(s) => e[n] = d[n]}
<1>1. Len(s) \in Nat
  BY DEF List
<1>2. 0 \in T
  BY DEF Summing
<1>3. ASSUME NEW n \in T PROVE n + 1 \in T
  <2> SUFFICES ASSUME n + 1 <= Len(s) PROVE e[n + 1] = d[n + 1]
    BY <1>3
  <2>1. n \in Nat /\ n <= Len(s) /\ n + 1 \in 1..Len(s) /\ (n + 1) - 1 = n
    BY <1>1
  <2>2. e[n] = d[n]
    BY <1>3, <2>1
  <2>3. e[n + 1] = e[n] + s[n + 1].expires /\ d[n + 1] = d[n] + s[n + 1].expires
    BY <2>1 DEF Summing
  <2>4. QED
    BY <2>2, <2>3
<1>4. T = Nat
  <2> HIDE DEF T
  <2>1. T \in SUBSET Nat
    BY DEF T
  <2>2. QED
    BY <2>1, <1>2, <1>3, Induction
<1>5. QED
  BY <1>1, <1>4

(* so Due is them.                                                         *)
LEMMA SumsFacts == ASSUME NEW s \in List PROVE Summing(s, Clock!Sums(s))
<1> DEFINE F(f) == [i \in 0..Len(s) |-> IF i = 0 THEN 0 ELSE f[i - 1] + s[i].expires]
<1>1. Len(s) \in Nat
  BY DEF List
<1>2. PICK d : Summing(s, d)
  BY SumsExist
<1>3. d = F(d)
  BY <1>1, <1>2 DEF Summing
<1>4. Clock!Sums(s) = CHOOSE f : f = F(f)
  BY Zenon DEF Clock!Sums
<1>5. Clock!Sums(s) = F(Clock!Sums(s))
  <2> HIDE DEF F
  <2>1. QED
    BY <1>3, <1>4, Zenon
<1> DEFINE e == Clock!Sums(s)
<1>6. /\ DOMAIN e = 0..Len(s) /\ e[0] = 0
      /\ \A i \in 1..Len(s) : e[i] = e[i - 1] + s[i].expires
  <2> HIDE DEF e
  <2>1. e = F(e)
    BY <1>5 DEF e
  <2>2. QED
    BY <2>1, <1>1
<1>7. \A i \in 0..Len(s) : e[i] = d[i]
  <2> HIDE DEF e
  <2> QED BY <1>2, <1>6, SumsUnique
<1>8. e \in [0..Len(s) -> Nat]
  <2>1. e = F(e)
    BY <1>5
  <2> HIDE DEF e
  <2>2. DOMAIN e = 0..Len(s) /\ e = [i \in 0..Len(s) |-> e[i]]
    BY <2>1
  <2>3. QED
    BY <2>2, <1>7, <1>2 DEF Summing
<1>9. QED
  BY <1>6, <1>8 DEF Summing

(* What the sums of r are, if e are sums of it.                            *)
LEMMA SumsAre ==
  ASSUME NEW r \in List, NEW e, Summing(r, e)
  PROVE  \A i \in 0..Len(r) : Clock!Sums(r)[i] = e[i]
<1> DEFINE f == Clock!Sums(r)
<1>1. /\ DOMAIN f = 0..Len(r) /\ f[0] = 0
      /\ \A i \in 1..Len(r) : f[i] = f[i - 1] + r[i].expires
  <2>1. Summing(r, f)
    BY SumsFacts
  <2> HIDE DEF f
  <2> QED BY <2>1 DEF Summing
<1> HIDE DEF f
<1>2. \A i \in 0..Len(r) : f[i] = e[i]
  BY <1>1, SumsUnique
<1>3. QED
  BY <1>2 DEF f

(* What can be told of a list s from outside: when each timer is due.      *)
In(s, t) == \E i \in DOMAIN s : s[i].timer = t

LeftOf(s) ==
  [t \in Timer |-> IF In(s, t) THEN Clock!Sums(s)[CHOOSE i \in DOMAIN s : s[i].timer = t] ELSE 0]

(* A list as ListOK wants it.                                              *)
Fine(s) ==
  /\ s \in List
  /\ \A i, j \in 1..Len(s) : s[i].timer = s[j].timer => i = j
  /\ \A i \in 1..Len(s) : Clock!Sums(s)[i] \in 1..MaxExpires

LEMMA ListFacts ==
  ASSUME NEW s \in List
  PROVE  /\ Len(s) \in Nat /\ DOMAIN s = 1..Len(s)
         /\ \A i \in 1..Len(s) : s[i].timer \in Timer /\ s[i].expires \in Nat /\ s[i] \in Node
<1>1. Len(s) \in Nat /\ DOMAIN s = 1..Len(s) /\ \A i \in 1..Len(s) : s[i] \in Node
  BY DEF List
<1>2. QED
  BY <1>1 DEF Node

(* A timer of the list has the time of its place, another one none.        *)
LEMMA LeftFacts ==
  ASSUME NEW s, Fine(s)
  PROVE  /\ \A i \in 1..Len(s) : LeftOf(s)[s[i].timer] = Clock!Sums(s)[i]
         /\ \A t \in Timer : ~In(s, t) => LeftOf(s)[t] = 0
         /\ \A t \in Timer : In(s, t) <=> \E i \in 1..Len(s) : s[i].timer = t
<1>1. s \in List /\ DOMAIN s = 1..Len(s)
  BY ListFacts DEF Fine
<1>2. ASSUME NEW i \in 1..Len(s) PROVE LeftOf(s)[s[i].timer] = Clock!Sums(s)[i]
  <2> DEFINE t == s[i].timer
             k == CHOOSE j \in DOMAIN s : s[j].timer = t
  <2>1. t \in Timer
    BY <1>1, ListFacts
  <2>2. In(s, t)
    BY <1>1 DEF In
  <2>3. k \in 1..Len(s) /\ s[k].timer = t
    BY <1>1
  <2>4. k = i
    <3> HIDE DEF k
    <3> QED BY <2>3 DEF Fine
  <2>5. LeftOf(s)[t] = Clock!Sums(s)[k]
    BY <2>1, <2>2, Zenon DEF LeftOf
  <2>6. QED
    BY <2>4, <2>5, Zenon
<1>3. \A t \in Timer : ~In(s, t) => LeftOf(s)[t] = 0
  BY DEF LeftOf
<1>4. QED
  BY <1>1, <1>2, <1>3, Zenon DEF In

(* Later places are due no earlier.                                        *)
LEMMA Grows ==
  ASSUME NEW s \in List, NEW i \in 0..Len(s), NEW j \in 0..Len(s), i <= j
  PROVE  Clock!Sums(s)[i] <= Clock!Sums(s)[j]
<1> DEFINE d == Clock!Sums(s)
           T == {n \in Nat : i + n <= Len(s) => d[i] <= d[i + n]}
<1>1. Summing(s, d) /\ Len(s) \in Nat
  BY SumsFacts, ListFacts
<1>2. d[i] \in Nat
  BY <1>1 DEF Summing
<1> HIDE DEF d
<1>3. 0 \in T
  BY <1>2
<1>4. ASSUME NEW n \in T PROVE n + 1 \in T
  <2> SUFFICES ASSUME i + (n + 1) <= Len(s) PROVE d[i] <= d[i + (n + 1)]
    BY <1>4
  <2> DEFINE k == i + (n + 1)
  <2>1. n \in Nat /\ i + n <= Len(s) /\ k \in 1..Len(s) /\ k - 1 = i + n /\ i + n \in 0..Len(s)
    BY <1>1
  <2>2. d[i] <= d[i + n]
    BY <1>4, <2>1
  <2>3. d[k] = d[k - 1] + s[k].expires
    <3> HIDE DEF k
    <3> QED BY <1>1, <2>1 DEF Summing
  <2>4. d[i + n] \in Nat /\ s[k].expires \in Nat
    <3>1. s[k].expires \in Nat
      <4> HIDE DEF k
      <4> QED BY <2>1, ListFacts
    <3>2. QED
      BY <3>1, <1>1, <2>1 DEF Summing
  <2>5. d[k] >= d[i]
    <3> HIDE DEF k
    <3>1. d[k] = d[i + n] + s[k].expires
      BY <2>1, <2>3
    <3>2. QED
      BY <3>1, <2>2, <2>4, <1>2
  <2>6. QED
    BY <2>5
<1>5. T = Nat
  <2> HIDE DEF T
  <2>1. T \in SUBSET Nat
    BY DEF T
  <2>2. QED
    BY <2>1, <1>3, <1>4, Induction
<1>6. j - i \in T /\ i + (j - i) = j
  <2>1. j - i \in Nat /\ i + (j - i) = j
    BY <1>1
  <2> HIDE DEF T
  <2>2. QED
    BY <2>1, <1>5
<1>7. QED
  BY <1>6, <1>1 DEF d

(* ListOK is Fine of the list.                                             *)
LEMMA ListIsFine == ASSUME MaxExpires \in Nat, Clock!ListOK PROVE Fine(timer_list)
<1> DEFINE s == timer_list
<1>1. s \in List
  <2>1. s \in Seq(Clock!Entry)
    BY DEF Clock!ListOK, Clock!TypeOK
  <2>2. Clock!Entry \subseteq Node
    BY DEF Clock!Entry, Node
  <2> HIDE DEF s
  <2>3. Seq(Clock!Entry) \subseteq Seq(Node)
    BY <2>2
  <2>4. QED
    BY <2>1, <2>3 DEF List
<1>2. Len(s) \in Nat /\ DOMAIN s = 1..Len(s) /\ Summing(s, Clock!Sums(s))
  BY <1>1, ListFacts, SumsFacts
<1>3. ASSUME NEW i \in 1..Len(s) PROVE Clock!Sums(s)[i] \in 1..MaxExpires
  <2>1. 1 \in 1..Len(s) /\ 1 \in 0..Len(s) /\ 0 \in 0..Len(s) /\ 1 <= i /\ i \in 0..Len(s)
    BY <1>2
  <2>2. Clock!Sums(s)[1] = s[1].expires
    <3>1. Clock!Sums(s)[1] = Clock!Sums(s)[1 - 1] + s[1].expires /\ 1 - 1 = 0 /\ Clock!Sums(s)[0] = 0
      BY <1>2, <2>1 DEF Summing
    <3>2. s[1].expires \in Nat
      BY <1>1, <2>1, ListFacts
    <3>3. QED
      BY <3>1, <3>2
  <2>3. s[1].expires > 0
    <3>1. s # <<>> /\ Head(s) = s[1]
      BY <1>1, <2>1 DEF List
    <3>2. QED
      BY <3>1 DEF Clock!ListOK
  <2>4. Clock!Sums(s)[1] <= Clock!Sums(s)[i]
    BY <1>1, <2>1, Grows
  <2>5. Clock!Sums(s)[i] <= MaxExpires
    BY <1>2 DEF Clock!ListOK, Clock!Due
  <2>6. Clock!Sums(s)[i] \in Nat
    BY <1>2, <2>1 DEF Summing
  <2>7. s[1].expires \in Nat
    BY <1>1, <2>1, ListFacts
  <2> HIDE DEF s
  <2>8. QED
    BY <2>2, <2>3, <2>4, <2>5, <2>6, <2>7
<1>4. QED
  BY <1>1, <1>2, <1>3, Zenon DEF Clock!ListOK, Fine

(* and back, in this state or the next.                                    *)
Listed(s, f) ==
  /\ s \in Seq(Clock!Entry) /\ f \in Seq(Timer)
  /\ s # <<>> => Head(s).expires > 0
  /\ \A i, j \in DOMAIN s : s[i].timer = s[j].timer => i = j
  /\ \A i \in DOMAIN s : Clock!Sums(s)[i] <= MaxExpires

LEMMA FineIsListed == ASSUME MaxExpires \in Nat, NEW f \in Seq(Timer), NEW s, Fine(s) PROVE Listed(s, f)
<1>1. s \in List
  BY DEF Fine
<1>2. Len(s) \in Nat /\ DOMAIN s = 1..Len(s) /\ Summing(s, Clock!Sums(s))
  BY <1>1, ListFacts, SumsFacts
<1>3. ASSUME NEW i \in 1..Len(s) PROVE s[i] \in Clock!Entry /\ Clock!Sums(s)[i] <= MaxExpires /\ Clock!Sums(s)[i] > 0
  <2>1. i - 1 \in 0..Len(s) /\ s[i] \in Node /\ s[i].expires \in Nat /\ s[i].timer \in Timer
    BY <1>1, <1>2, ListFacts
  <2>2. Clock!Sums(s)[i] = Clock!Sums(s)[i - 1] + s[i].expires /\ Clock!Sums(s)[i - 1] \in Nat
    BY <2>1, <1>2 DEF Summing
  <2>3. Clock!Sums(s)[i] \in 1..MaxExpires
    BY DEF Fine
  <2>4. s[i].expires \in 0..MaxExpires
    BY <2>1, <2>2, <2>3
  <2>5. s[i] = [timer |-> s[i].timer, expires |-> s[i].expires]
    BY <2>1 DEF Node
  <2>6. QED
    BY <2>1, <2>3, <2>4, <2>5 DEF Clock!Entry
<1>4. s \in Seq(Clock!Entry)
  <2>1. s \in Seq(Node)
    BY <1>1 DEF List
  <2>2. QED
    BY <2>1, <1>2, <1>3
<1>5. s # <<>> => Head(s).expires > 0
  <2> SUFFICES ASSUME s # <<>> PROVE Head(s).expires > 0
    OBVIOUS
  <2>1. 1 \in 1..Len(s) /\ Head(s) = s[1]
    BY <1>1 DEF List
  <2>2. Clock!Sums(s)[1] = Clock!Sums(s)[1 - 1] + s[1].expires /\ 1 - 1 = 0 /\ Clock!Sums(s)[0] = 0
    BY <1>2, <2>1 DEF Summing
  <2>3. s[1].expires \in Nat /\ Clock!Sums(s)[1] > 0
    BY <1>1, <1>3, <2>1, ListFacts
  <2>4. QED
    BY <2>1, <2>2, <2>3
<1>6. QED
  BY <1>2, <1>3, <1>4, <1>5 DEF Listed, Fine

LEMMA FineIsOK ==
  ASSUME MaxExpires \in Nat
  PROVE  /\ fired \in Seq(Timer) /\ Fine(timer_list) => Clock!ListOK
         /\ fired' \in Seq(Timer) /\ Fine(timer_list') => Clock!ListOK'
<1>1. Listed(timer_list, fired) => Clock!ListOK
  BY Zenon DEF Listed, Clock!ListOK, Clock!TypeOK, Clock!Due
<1>2. Listed(timer_list', fired') => Clock!ListOK'
  BY Zenon DEF Listed, Clock!ListOK, Clock!TypeOK, Clock!Due
<1>3. QED
  BY <1>1, <1>2, FineIsListed

(* A set of places that has all before each of its own is an interval, as  *)
(* far as its cardinality.                                                 *)
LEMMA Initial ==
  ASSUME NEW n \in Nat, NEW S \in SUBSET (1..n), \A i \in S : \A j \in 1..i : j \in S
  PROVE  Cardinality(S) \in 0..n /\ S = 1..Cardinality(S)
<1> DEFINE C == {m \in Nat : m + 1 \notin S}
<1>1. n \in C
  OBVIOUS
<1>2. PICK m \in C : \A k \in C : m <= k
  <2>1. C \in SUBSET Nat /\ C # {}
    BY <1>1
  <2> HIDE DEF C
  <2>2. QED
    BY <2>1, Least
<1>3. m \in 0..n
  BY <1>1, <1>2
<1>4. \A j \in 1..m : j \in S
  <2> SUFFICES ASSUME NEW j \in 1..m PROVE j \in S
    OBVIOUS
  <2>1. j - 1 \in Nat /\ j - 1 < m /\ (j - 1) + 1 = j
    BY <1>3
  <2>2. j - 1 \notin C
    BY <2>1, <1>2, <1>3
  <2>3. QED
    BY <2>1, <2>2
<1>5. \A j \in S : j \in 1..m
  <2> SUFFICES ASSUME NEW j \in S, ~(j <= m) PROVE FALSE
    BY <1>3
  <2>1. m + 1 \in 1..j
    BY <1>3
  <2>2. QED
    BY <2>1, <1>2
<1>6. S = 1..m
  BY <1>4, <1>5
<1>7. Cardinality(1..m) = m
  BY <1>3, FS_Interval
<1>8. QED
  BY <1>3, <1>6, <1>7

-----------------------------------------------------------------------------
(* The three operations, on lists *)

(* r is s with t, due after n ticks, in place m + 1.                       *)
Inserted(s, r, t, n, m) ==
  /\ r \in List /\ Len(r) = Len(s) + 1
  /\ \A i \in 1..m : r[i] = s[i]
  /\ r[m + 1].timer = t /\ r[m + 1].expires = n - Clock!Sums(s)[m]
  /\ \A i \in m+1..Len(s) :
       /\ r[i + 1].timer = s[i].timer
       /\ r[i + 1].expires = IF i = m + 1 THEN s[i].expires - (n - Clock!Sums(s)[m]) ELSE s[i].expires

LEMMA InsertFacts ==
  ASSUME MaxExpires \in Nat, NEW s, Fine(s), NEW t \in Timer, ~In(s, t), NEW n \in 1..MaxExpires,
         NEW m \in 0..Len(s), \A i \in 1..Len(s) : Clock!Sums(s)[i] <= n <=> i <= m,
         NEW r, Inserted(s, r, t, n, m)
  PROVE  Fine(r) /\ LeftOf(r) = [LeftOf(s) EXCEPT ![t] = n]
<1> DEFINE L == Len(s)
           d == Clock!Sums(s)
           e == [i \in 0..L+1 |-> IF i <= m THEN d[i] ELSE IF i = m + 1 THEN n ELSE d[i - 1]]
<1>1. /\ s \in List /\ L \in Nat /\ Summing(s, d)
      /\ \A i \in 1..L : s[i].timer \in Timer /\ s[i].expires \in Nat /\ d[i] \in 1..MaxExpires
  BY ListFacts, SumsFacts DEF Fine
<1>2. /\ r \in List /\ Len(r) = L + 1
      /\ \A i \in 1..m : r[i] = s[i]
      /\ r[m + 1].timer = t /\ r[m + 1].expires = n - d[m]
      /\ \A i \in m+1..L :
           /\ r[i + 1].timer = s[i].timer
           /\ r[i + 1].expires = IF i = m + 1 THEN s[i].expires - (n - d[m]) ELSE s[i].expires
  BY DEF Inserted
<1>3. d \in [0..L -> Nat] /\ d[0] = 0 /\ \A i \in 1..L : d[i] = d[i - 1] + s[i].expires
  BY <1>1 DEF Summing
<1>4. d[m] \in Nat /\ d[m] <= n
  <2>1. \A i \in 1..L : d[i] <= n <=> i <= m
    OBVIOUS
  <2>2. m \in 0..L /\ L \in Nat
    BY <1>1
  <2> HIDE DEF d, L
  <2>3. CASE m = 0
    BY <2>3, <1>3
  <2>4. CASE m # 0
    <3>1. m \in 1..L /\ m \in 0..L
      BY <2>2, <2>4
    <3>2. QED
      BY <3>1, <2>1, <1>3
  <2>5. QED
    BY <2>3, <2>4
<1> HIDE DEF d, L
<1>5. /\ \A i \in 0..m : e[i] = d[i]
      /\ e[m + 1] = n
      /\ \A i \in m+1..L : e[i + 1] = d[i]
      /\ DOMAIN e = 0..L+1
  <2>1. m \in 0..L /\ \A i \in m+1..L : i + 1 \in 0..L+1 /\ ~(i + 1 <= m) /\ i + 1 # m + 1 /\ (i + 1) - 1 = i
    BY <1>1 DEF L
  <2>2. \A i \in 0..m : i \in 0..L+1
    BY <1>1, <2>1
  <2>3. m + 1 \in 0..L+1 /\ ~(m + 1 <= m)
    BY <1>1, <2>1
  <2>4. QED
    BY <2>1, <2>2, <2>3
<1> HIDE DEF e
<1>6. m \in 0..L
  BY DEF L
<1>7. \A i \in 0..L+1 : e[i] \in Nat
  <2> SUFFICES ASSUME NEW i \in 0..L+1 PROVE e[i] \in Nat
    OBVIOUS
  <2>1. CASE i \in 0..m
    <3>1. i \in 0..L /\ e[i] = d[i]
      BY <2>1, <1>5, <1>6, <1>1
    <3>2. QED
      BY <3>1, <1>3
  <2>2. CASE i = m + 1
    BY <2>2, <1>5
  <2>3. CASE i - 1 \in m+1..L
    <3>1. e[(i - 1) + 1] = d[i - 1] /\ (i - 1) + 1 = i /\ i - 1 \in 0..L
      BY <2>3, <1>5, <1>1, <1>6
    <3>2. QED
      BY <3>1, <1>3
  <2>4. QED
    BY <2>1, <2>2, <2>3, <1>1, <1>6
<1>8. \A i \in 1..L+1 : e[i] = e[i - 1] + r[i].expires
  <2> SUFFICES ASSUME NEW i \in 1..L+1 PROVE e[i] = e[i - 1] + r[i].expires
    OBVIOUS
  <2>1. CASE i \in 1..m
    <3>1. i \in 0..m /\ i - 1 \in 0..m /\ i \in 1..L
      BY <2>1, <1>1, <1>6
    <3>2. QED
      BY <2>1, <3>1, <1>2, <1>3, <1>5
  <2>2. CASE i = m + 1
    <3>1. i - 1 = m /\ m \in 0..m
      BY <2>2, <1>6
    <3>2. e[i] = n /\ e[i - 1] = d[m] /\ r[i].expires = n - d[m]
      BY <2>2, <3>1, <1>2, <1>5
    <3>3. QED
      BY <3>2, <1>4
  <2>3. CASE i - 1 = m + 1
    <3>1. i - 1 \in m+1..L /\ (i - 1) + 1 = i /\ i - 1 \in 1..L /\ (i - 1) - 1 = m
      BY <2>3, <1>1, <1>6
    <3>2. e[i] = d[i - 1] /\ e[i - 1] = n
      BY <3>1, <2>3, <1>5
    <3>3. r[i].expires = s[i - 1].expires - (n - d[m])
      BY <3>1, <2>3, <1>2
    <3>4. d[i - 1] = d[m] + s[i - 1].expires /\ s[i - 1].expires \in Nat
      BY <3>1, <1>3, <1>1
    <3>5. QED
      BY <3>2, <3>3, <3>4, <1>4
  <2>4. CASE i - 1 \in m+2..L
    <3>1. /\ i - 1 \in m+1..L /\ (i - 1) + 1 = i /\ i - 1 \in 1..L /\ i - 1 # m + 1
          /\ i - 2 \in m+1..L /\ (i - 2) + 1 = i - 1 /\ (i - 1) - 1 = i - 2
      BY <2>4, <1>1, <1>6
    <3>2. e[(i - 1) + 1] = d[i - 1] /\ e[(i - 2) + 1] = d[i - 2]
      BY <3>1, <1>5
    <3>3. r[(i - 1) + 1].expires = s[i - 1].expires
      BY <3>1, <1>2
    <3>4. d[i - 1] = d[(i - 1) - 1] + s[i - 1].expires
      BY <3>1, <1>3
    <3>5. QED
      BY <3>1, <3>2, <3>3, <3>4
  <2>5. QED
    BY <2>1, <2>2, <2>3, <2>4, <1>1, <1>6
<1>9. \A i \in 0..L+1 : Clock!Sums(r)[i] = e[i]
  <2>1. Summing(r, e)
    <3>1. e \in [0..L+1 -> Nat]
      <4>1. e = [i \in 0..L+1 |-> e[i]]
        BY DEF e
      <4>2. QED
        BY <4>1, <1>7
    <3>2. e[0] = 0
      BY <1>3, <1>5, <1>6
    <3>3. QED
      BY <3>1, <3>2, <1>2, <1>8 DEF Summing
  <2> HIDE DEF e
  <2>2. QED
    BY <2>1, <1>2, SumsAre
<1>10. \A i \in 1..L+1 : Clock!Sums(r)[i] \in 1..MaxExpires
  <2> SUFFICES ASSUME NEW i \in 1..L+1 PROVE e[i] \in 1..MaxExpires
    BY <1>9
  <2>1. CASE i \in 1..m
    <3>1. i \in 0..m /\ i \in 1..L
      BY <2>1, <1>1, <1>6
    <3>2. e[i] = d[i]
      BY <3>1, <1>5
    <3>3. QED
      BY <3>1, <3>2, <1>1
  <2>2. CASE i = m + 1
    BY <2>2, <1>5
  <2>3. CASE i - 1 \in m+1..L
    <3>1. e[(i - 1) + 1] = d[i - 1] /\ (i - 1) + 1 = i /\ i - 1 \in 1..L
      BY <2>3, <1>5, <1>1, <1>6
    <3>2. QED
      BY <3>1, <1>1
  <2>4. QED
    BY <2>1, <2>2, <2>3, <1>1, <1>6
(* Where each place of r comes from.                                       *)
<1> DEFINE From(i) == IF i <= m THEN i ELSE i - 1
<1>11. /\ \A i \in 1..L+1 : i # m + 1 => From(i) \in 1..L /\ r[i].timer = s[From(i)].timer
       /\ \A i \in 1..L+1 : i # m + 1 => e[i] = d[From(i)]
       /\ \A i, j \in 1..L+1 : i # m + 1 /\ j # m + 1 /\ From(i) = From(j) => i = j
       /\ \A i \in 1..L : \E j \in 1..L+1 : j # m + 1 /\ From(j) = i
  <2>1. ASSUME NEW i \in 1..L+1, i # m + 1
        PROVE  From(i) \in 1..L /\ r[i].timer = s[From(i)].timer /\ e[i] = d[From(i)]
    <3>1. CASE i <= m
      <4>1. i \in 1..m /\ i \in 0..m /\ i \in 1..L
        BY <3>1, <1>1, <1>6
      <4>2. QED
        BY <4>1, <3>1, <1>2, <1>5
    <3>2. CASE ~(i <= m)
      <4>1. i - 1 \in m+1..L /\ (i - 1) + 1 = i /\ i - 1 \in 1..L
        BY <2>1, <3>2, <1>1, <1>6
      <4>2. r[(i - 1) + 1].timer = s[i - 1].timer /\ e[(i - 1) + 1] = d[i - 1]
        BY <4>1, <1>2, <1>5
      <4>3. QED
        BY <4>1, <4>2, <3>2
    <3>3. QED
      BY <3>1, <3>2
  <2>2. \A i, j \in 1..L+1 : i # m + 1 /\ j # m + 1 /\ From(i) = From(j) => i = j
    BY <1>1, <1>6
  <2>3. ASSUME NEW i \in 1..L PROVE \E j \in 1..L+1 : j # m + 1 /\ From(j) = i
    <3>1. CASE i <= m
      BY <3>1, <1>1, <1>6
    <3>2. CASE i > m
      <4>1. i + 1 \in 1..L+1 /\ i + 1 # m + 1 /\ From(i + 1) = i
        BY <3>2, <1>1, <1>6
      <4> HIDE DEF From
      <4>2. QED
        BY <4>1
    <3>3. QED
      BY <3>1, <3>2, <1>1, <1>6
  <2>4. QED
    BY <2>1, <2>2, <2>3
<1> HIDE DEF From
<1>12. \A i \in 1..L : s[i].timer # t
  BY <1>1, ListFacts DEF In, L
<1>13. Fine(r)
  <2>1. ASSUME NEW i \in 1..L+1, NEW j \in 1..L+1, r[i].timer = r[j].timer PROVE i = j
    <3>1. CASE i = m + 1 /\ j # m + 1
      BY <3>1, <2>1, <1>2, <1>11, <1>12
    <3>2. CASE i # m + 1 /\ j = m + 1
      BY <3>2, <2>1, <1>2, <1>11, <1>12
    <3>3. CASE i # m + 1 /\ j # m + 1
      <4>1. From(i) = From(j)
        BY <3>3, <2>1, <1>11 DEF Fine, L
      <4>2. QED
        BY <4>1, <3>3, <1>11
    <3>4. QED
      BY <3>1, <3>2, <3>3
  <2>2. QED
    BY <2>1, <1>2, <1>10 DEF Fine
<1>14. ASSUME NEW x \in Timer PROVE LeftOf(r)[x] = IF x = t THEN n ELSE LeftOf(s)[x]
  <2>1. CASE x = t
    <3>1. m + 1 \in 1..L+1 /\ m + 1 \in 0..L+1
      BY <1>1, <1>6
    <3>2. LeftOf(r)[r[m + 1].timer] = Clock!Sums(r)[m + 1]
      BY <3>1, <1>13, <1>2, LeftFacts
    <3>3. QED
      BY <2>1, <3>1, <3>2, <1>2, <1>5, <1>9
  <2>2. CASE x # t /\ In(s, x)
    <3>1. PICK i \in 1..L : s[i].timer = x
      BY <2>2, LeftFacts DEF L
    <3>2. PICK j \in 1..L+1 : j # m + 1 /\ From(j) = i
      BY <1>11
    <3>3. r[j].timer = x /\ Clock!Sums(r)[j] = d[i]
      BY <3>1, <3>2, <1>9, <1>11
    <3>4. LeftOf(s)[x] = d[i]
      BY <3>1, LeftFacts DEF L, d
    <3>5. LeftOf(r)[r[j].timer] = Clock!Sums(r)[j]
      BY <3>2, <1>13, <1>2, LeftFacts
    <3>6. QED
      BY <2>2, <3>3, <3>4, <3>5
  <2>3. CASE x # t /\ ~In(s, x)
    <3>1. \A i \in 1..L : s[i].timer # x
      BY <2>3, LeftFacts DEF L
    <3>2. \A i \in 1..L+1 : r[i].timer # x
      BY <2>3, <3>1, <1>2, <1>11
    <3>3. ~In(r, x)
      BY <3>2, <1>13, <1>2, LeftFacts
    <3>4. LeftOf(r)[x] = 0 /\ LeftOf(s)[x] = 0
      BY <2>3, <3>3, <1>13, LeftFacts
    <3>5. QED
      BY <2>3, <3>4
  <2>4. QED
    BY <2>1, <2>2, <2>3
<1>15. LeftOf(r) = [LeftOf(s) EXCEPT ![t] = n]
  <2>1. /\ LeftOf(r) = [x \in Timer |-> LeftOf(r)[x]]
        /\ DOMAIN LeftOf(s) = Timer
    BY DEF LeftOf
  <2>2. QED
    BY <2>1, <1>14
<1>16. QED
  BY <1>13, <1>15

(* r has timers of s only, each sooner by c; the others are not set.       *)
Keeps(s, r, c, from) ==
  /\ from \in [1..Len(r) -> 1..Len(s)]
  /\ \A i, j \in 1..Len(r) : from[i] = from[j] => i = j
  /\ \A i \in 1..Len(r) : /\ r[i].timer = s[from[i]].timer
                           /\ Clock!Sums(r)[i] = Clock!Sums(s)[from[i]] - c
                           /\ Clock!Sums(s)[from[i]] > c

LEMMA Kept ==
  ASSUME MaxExpires \in Nat, NEW s, Fine(s), NEW r \in List, NEW c \in Nat, NEW from, Keeps(s, r, c, from)
  PROVE  /\ Fine(r)
         /\ \A i \in 1..Len(r) : LeftOf(r)[s[from[i]].timer] = LeftOf(s)[s[from[i]].timer] - c
         /\ \A x \in Timer : (\A i \in 1..Len(r) : s[from[i]].timer # x) => LeftOf(r)[x] = 0
<1> DEFINE d == Clock!Sums(s)
           e == Clock!Sums(r)
<1> USE DEF Keeps
<1>1. \A i, j \in 1..Len(s) : s[i].timer = s[j].timer => i = j
  BY DEF Fine
<1>2. \A i \in 1..Len(s) : d[i] \in 1..MaxExpires
  BY DEF Fine
<1>3. \A i \in 1..Len(r) : e[i] = d[from[i]] - c /\ d[from[i]] > c
  OBVIOUS
<1>4. ASSUME NEW i \in 1..Len(r), NEW j \in 1..Len(r), r[i].timer = r[j].timer PROVE i = j
  <2>1. from[i] \in 1..Len(s) /\ from[j] \in 1..Len(s)
    OBVIOUS
  <2>2. s[from[i]].timer = s[from[j]].timer
    BY <1>4
  <2>3. from[i] = from[j]
    BY <2>1, <2>2, <1>1
  <2>4. QED
    BY <2>3
<1>5. \A i \in 1..Len(r) : e[i] \in 1..MaxExpires
  <2> HIDE DEF d, e
  <2> SUFFICES ASSUME NEW i \in 1..Len(r) PROVE e[i] \in 1..MaxExpires
    OBVIOUS
  <2>1. d[from[i]] \in 1..MaxExpires
    BY <1>2
  <2>2. QED
    BY <2>1, <1>3
<1>6. Fine(r)
  BY <1>4, <1>5 DEF Fine
<1>7. ASSUME NEW i \in 1..Len(r)
      PROVE  LeftOf(r)[s[from[i]].timer] = LeftOf(s)[s[from[i]].timer] - c
  <2>1. LeftOf(s)[s[from[i]].timer] = d[from[i]]
    BY LeftFacts
  <2>2. LeftOf(r)[r[i].timer] = e[i]
    BY <1>6, LeftFacts
  <2> HIDE DEF d, e
  <2>3. QED
    BY <2>1, <2>2, <1>3
<1>8. ASSUME NEW x \in Timer, \A i \in 1..Len(r) : s[from[i]].timer # x PROVE LeftOf(r)[x] = 0
  <2>1. ~In(r, x)
    BY <1>6, <1>8, LeftFacts
  <2>2. QED
    BY <2>1, <1>6, LeftFacts
<1>9. QED
  BY <1>6, <1>7, <1>8

(* r is s without its k-th entry.                                          *)
Deleted(s, r, k) ==
  /\ r \in List /\ Len(r) = Len(s) - 1
  /\ \A i \in 1..k-1 : r[i] = s[i]
  /\ \A i \in k..Len(s)-1 :
       /\ r[i].timer = s[i + 1].timer
       /\ r[i].expires = IF i = k THEN s[i + 1].expires + s[k].expires ELSE s[i + 1].expires

LEMMA DeleteFacts ==
  ASSUME MaxExpires \in Nat, NEW s, Fine(s), NEW k \in 1..Len(s), NEW r, Deleted(s, r, k)
  PROVE  Fine(r) /\ LeftOf(r) = [LeftOf(s) EXCEPT ![s[k].timer] = 0]
<1> DEFINE L == Len(s)
           d == Clock!Sums(s)
           from == [i \in 1..L-1 |-> IF i < k THEN i ELSE i + 1]
           e == [i \in 0..L-1 |-> IF i < k THEN d[i] ELSE d[i + 1]]
<1>1. /\ s \in List /\ L \in Nat /\ Summing(s, d)
      /\ \A i \in 1..L : s[i].timer \in Timer /\ s[i].expires \in Nat /\ d[i] \in 1..MaxExpires
  BY ListFacts, SumsFacts DEF Fine
<1>2. /\ r \in List /\ Len(r) = L - 1
      /\ \A i \in 1..k-1 : r[i] = s[i]
      /\ \A i \in k..L-1 :
           /\ r[i].timer = s[i + 1].timer
           /\ r[i].expires = IF i = k THEN s[i + 1].expires + s[k].expires ELSE s[i + 1].expires
  BY DEF Deleted
<1>3. d \in [0..L -> Nat] /\ d[0] = 0 /\ \A i \in 1..L : d[i] = d[i - 1] + s[i].expires
  BY <1>1 DEF Summing
<1>4. k \in 1..L
  OBVIOUS
<1>5. \A i, j \in 1..L : s[i].timer = s[j].timer => i = j
  BY DEF Fine
<1> HIDE DEF d, L
<1>6. from \in [1..Len(r) -> 1..L] /\ \A i, j \in 1..Len(r) : from[i] = from[j] => i = j
  <2>1. \A i \in 1..L-1 : (IF i < k THEN i ELSE i + 1) \in 1..L
    BY <1>1, <1>4
  <2>2. from \in [1..L-1 -> 1..L]
    BY <2>1
  <2>3. \A i, j \in 1..L-1 : from[i] = from[j] => i = j
    BY <1>1, <1>4
  <2> HIDE DEF from
  <2>4. QED
    BY <2>2, <2>3, <1>2
<1>7. \A i \in 1..Len(r) : r[i].timer = s[from[i]].timer
  BY <1>1, <1>2, <1>4
<1>8. Summing(r, e)
  <2>1. e \in [0..L-1 -> Nat] /\ e[0] = 0
    BY <1>1, <1>3, <1>4
  <2>2. ASSUME NEW i \in 1..L-1 PROVE e[i] = e[i - 1] + r[i].expires
    <3>1. i \in 0..L-1 /\ i - 1 \in 0..L-1 /\ i \in 1..L /\ i + 1 \in 1..L /\ (i + 1) - 1 = i /\ i - 1 \in 0..L
      BY <1>1
    <3>2. /\ d[i] = d[i - 1] + s[i].expires /\ d[i + 1] = d[i] + s[i + 1].expires
          /\ d[i - 1] \in Nat /\ s[i].expires \in Nat /\ s[i + 1].expires \in Nat
      BY <3>1, <1>1, <1>3
    <3>3. CASE i < k
      <4>1. i \in 1..k-1 /\ i - 1 < k
        BY <3>3, <1>4, <3>1
      <4>2. e[i] = d[i] /\ e[i - 1] = d[i - 1] /\ r[i] = s[i]
        BY <4>1, <3>1, <3>3, <1>2
      <4>3. QED
        BY <4>2, <3>2
    <3>4. CASE i = k
      <4>1. i \in k..L-1 /\ i - 1 < k
        BY <3>4, <1>4, <3>1
      <4>2. e[i] = d[i + 1] /\ e[i - 1] = d[i - 1] /\ r[i].expires = s[i + 1].expires + s[i].expires
        BY <4>1, <3>1, <3>4, <1>2
      <4>3. QED
        BY <4>2, <3>2
    <3>5. CASE i > k
      <4>1. i \in k..L-1 /\ ~(i - 1 < k) /\ (i - 1) + 1 = i /\ ~(i < k) /\ i # k
        BY <3>5, <1>4, <3>1
      <4>2. e[i] = d[i + 1] /\ e[i - 1] = d[i] /\ r[i].expires = s[i + 1].expires
        BY <4>1, <3>1, <1>2
      <4>3. QED
        BY <4>2, <3>2
    <3>6. QED
      BY <3>3, <3>4, <3>5, <1>4
  <2>3. QED
    BY <2>1, <2>2, <1>2 DEF Summing
<1>9. ASSUME NEW i \in 1..Len(r) PROVE Clock!Sums(r)[i] = d[from[i]] - 0 /\ d[from[i]] > 0
  <2>1. i \in 0..Len(r) /\ i \in 0..L-1 /\ i \in 1..L-1
    BY <1>1, <1>2
  <2>2. Clock!Sums(r)[i] = e[i]
    <3> HIDE DEF e
    <3> QED BY <2>1, <1>2, <1>8, SumsAre
  <2>3. e[i] = d[from[i]]
    BY <2>1
  <2>4. from[i] \in 1..L
    BY <1>6
  <2>5. d[from[i]] \in 1..MaxExpires
    <3> HIDE DEF from
    <3> QED BY <2>4, <1>1
  <2> HIDE DEF from, e
  <2>6. QED
    BY <2>2, <2>3, <2>5
<1>10. /\ Fine(r)
       /\ \A i \in 1..Len(r) : LeftOf(r)[s[from[i]].timer] = LeftOf(s)[s[from[i]].timer] - 0
       /\ \A x \in Timer : (\A i \in 1..Len(r) : s[from[i]].timer # x) => LeftOf(r)[x] = 0
  <2>1. \A i \in 1..Len(r) : /\ r[i].timer = s[from[i]].timer
                             /\ Clock!Sums(r)[i] = Clock!Sums(s)[from[i]] - 0
                             /\ Clock!Sums(s)[from[i]] > 0
    <3> HIDE DEF from
    <3> QED BY <1>7, <1>9 DEF d
  <2> HIDE DEF from
  <2>2. from \in [1..Len(r) -> 1..Len(s)]
    BY <1>6 DEF L
  <2>3. Keeps(s, r, 0, from)
    BY <2>1, <2>2, <1>6 DEF Keeps
  <2>4. QED
    BY <2>3, <1>2, Kept
<1>11. ASSUME NEW x \in Timer PROVE LeftOf(r)[x] = IF x = s[k].timer THEN 0 ELSE LeftOf(s)[x]
  <2>1. CASE x = s[k].timer
    <3>1. \A i \in 1..Len(r) : from[i] # k /\ from[i] \in 1..L
      BY <1>1, <1>2, <1>4, <1>6
    <3> HIDE DEF from
    <3>2. \A i \in 1..Len(r) : s[from[i]].timer # x
      BY <2>1, <3>1, <1>4, <1>5
    <3>3. QED
      BY <2>1, <3>2, <1>10
  <2>2. CASE x # s[k].timer /\ In(s, x)
    <3>1. PICK i \in 1..L : s[i].timer = x
      BY <2>2, LeftFacts DEF L
    <3>2. i # k
      BY <2>2, <3>1
    <3>3. PICK j \in 1..Len(r) : from[j] = i
      <4>1. CASE i < k
        <5>1. i \in 1..Len(r) /\ from[i] = i
          BY <4>1, <1>1, <1>2, <1>4
        <5>2. QED
          BY <5>1
      <4>2. CASE i > k
        <5>1. i - 1 \in 1..Len(r) /\ from[i - 1] = i
          BY <4>2, <1>1, <1>2, <1>4
        <5>2. QED
          BY <5>1
      <4>3. QED
        BY <3>2, <4>1, <4>2, <1>4
    <3>4. LeftOf(s)[x] \in Nat
      BY <3>1, <1>1, LeftFacts DEF L, d
    <3> HIDE DEF from
    <3>5. LeftOf(r)[x] = LeftOf(s)[x] - 0
      BY <3>1, <3>3, <1>10
    <3>6. QED
      BY <2>2, <3>4, <3>5
  <2>3. CASE x # s[k].timer /\ ~In(s, x)
    <3>1. \A i \in 1..Len(r) : s[from[i]].timer # x
      <4>1. \A i \in 1..L : s[i].timer # x
        BY <2>3, LeftFacts DEF L
      <4> HIDE DEF from
      <4>2. QED
        BY <4>1, <1>6
    <3>2. LeftOf(r)[x] = 0
      <4> HIDE DEF from
      <4> QED BY <3>1, <1>10
    <3>3. LeftOf(s)[x] = 0
      BY <2>3, LeftFacts
    <3>4. QED
      BY <2>3, <3>2, <3>3
  <2>4. QED
    BY <2>1, <2>2, <2>3
<1>12. QED
  <2>1. /\ LeftOf(r) = [x \in Timer |-> LeftOf(r)[x]]
        /\ DOMAIN LeftOf(s) = Timer
    BY DEF LeftOf
  <2>2. LeftOf(r) = [LeftOf(s) EXCEPT ![s[k].timer] = 0]
    BY <2>1, <1>11
  <2>3. QED
    BY <2>2, <1>10

(* now is s after its first timer counted down by one.                     *)
Nearer(s, now) ==
  /\ now \in List /\ Len(now) = Len(s)
  /\ \A i \in 1..Len(s) :
       /\ now[i].timer = s[i].timer
       /\ now[i].expires = IF i = 1 THEN s[i].expires - 1 ELSE s[i].expires

LEMMA NearerSums ==
  ASSUME MaxExpires \in Nat, NEW s, Fine(s), NEW now, Nearer(s, now), Len(s) > 0
  PROVE  \A i \in 1..Len(s) : Clock!Sums(now)[i] = Clock!Sums(s)[i] - 1
<1> DEFINE L == Len(s)
           d == Clock!Sums(s)
           e == [i \in 0..L |-> IF i = 0 THEN 0 ELSE d[i] - 1]
<1>1. /\ s \in List /\ L \in Nat /\ Summing(s, d)
      /\ \A i \in 1..L : s[i].expires \in Nat /\ d[i] \in 1..MaxExpires
  BY ListFacts, SumsFacts DEF Fine
<1>2. /\ now \in List /\ Len(now) = L
      /\ \A i \in 1..L : now[i].expires = IF i = 1 THEN s[i].expires - 1 ELSE s[i].expires
  BY DEF Nearer
<1>3. d \in [0..L -> Nat] /\ d[0] = 0 /\ \A i \in 1..L : d[i] = d[i - 1] + s[i].expires
  BY <1>1 DEF Summing
<1>4. L > 0
  OBVIOUS
<1> HIDE DEF d, L
<1>5. e \in [0..L -> Nat] /\ e[0] = 0
  BY <1>1, <1>3
<1>6. ASSUME NEW i \in 1..L PROVE e[i] = e[i - 1] + now[i].expires
  <2>1. i \in 0..L /\ i - 1 \in 0..L /\ e[i] = d[i] - 1
    BY <1>1
  <2>2. d[i] = d[i - 1] + s[i].expires /\ d[i - 1] \in Nat /\ s[i].expires \in Nat
    BY <2>1, <1>1, <1>3
  <2>3. CASE i = 1
    <3>1. i - 1 = 0 /\ e[i - 1] = 0 /\ now[i].expires = s[i].expires - 1
      BY <2>3, <1>2, <1>5
    <3>2. QED
      BY <3>1, <2>1, <2>2, <1>3
  <2>4. CASE i # 1
    <3>1. e[i - 1] = d[i - 1] - 1 /\ now[i].expires = s[i].expires
      BY <2>1, <2>4, <1>2
    <3>2. QED
      BY <3>1, <2>1, <2>2
  <2>5. QED
    BY <2>3, <2>4
<1>7. Summing(now, e)
  <2> HIDE DEF e
  <2> QED BY <1>2, <1>5, <1>6 DEF Summing
<1>8. \A i \in 0..Len(now) : Clock!Sums(now)[i] = e[i]
  <2> HIDE DEF e
  <2> QED BY <1>2, <1>7, SumsAre
<1>9. QED
  <2>1. \A i \in 1..L : i \in 0..L /\ e[i] = d[i] - 1
    BY <1>1
  <2> HIDE DEF e
  <2>2. QED
    BY <2>1, <1>2, <1>8 DEF d, L

(* The timers due are those at the front with nothing left before them.    *)
LEMMA DueAre ==
  ASSUME NEW now \in List, NEW i \in 1..Len(now)
  PROVE  (\A j \in 1..i : now[j].expires = 0) <=> Clock!Sums(now)[i] = 0
<1> DEFINE d == Clock!Sums(now)
           L == Len(now)
           T == {n \in Nat : n <= i => d[n] = 0}
<1>1. /\ L \in Nat /\ d \in [0..L -> Nat] /\ d[0] = 0
      /\ \A j \in 1..L : d[j] = d[j - 1] + now[j].expires
      /\ \A j \in 1..L : now[j].expires \in Nat
  BY SumsFacts, ListFacts DEF Summing
<1>2. i \in 1..L
  OBVIOUS
<1>3. ASSUME NEW j \in 0..L, j <= i PROVE d[j] <= d[i]
  <2>1. i \in 0..Len(now)
    BY <1>1, <1>2
  <2>2. QED
    BY <2>1, <1>3, Grows
<1> HIDE DEF d, L
<1>4. ASSUME \A j \in 1..i : now[j].expires = 0 PROVE d[i] = 0
  <2>1. 0 \in T
    BY <1>1
  <2>2. ASSUME NEW n \in T PROVE n + 1 \in T
    <3> SUFFICES ASSUME n + 1 <= i PROVE d[n + 1] = 0
      BY <2>2
    <3>1. n \in Nat /\ n + 1 \in 1..i /\ n + 1 \in 1..L /\ (n + 1) - 1 = n /\ d[n] = 0
      BY <1>1, <1>2
    <3>2. d[n + 1] = d[(n + 1) - 1] + now[n + 1].expires /\ now[n + 1].expires = 0
      BY <3>1, <1>1, <1>4
    <3>3. QED
      BY <3>1, <3>2
  <2>3. T = Nat
    <3>1. T \in SUBSET Nat
      OBVIOUS
    <3> HIDE DEF T
    <3>2. QED
      BY <3>1, <2>1, <2>2, Induction
  <2>4. i \in Nat
    BY <1>2
  <2>5. QED
    BY <2>3, <2>4
<1>5. ASSUME d[i] = 0, NEW j \in 1..i PROVE now[j].expires = 0
  <2>1. j \in 1..L /\ j \in 0..L /\ j - 1 \in 0..L /\ j <= i /\ j - 1 <= i
    BY <1>1, <1>2
  <2>2. d[j] <= 0 /\ d[j - 1] <= 0 /\ d[j] \in Nat /\ d[j - 1] \in Nat
    BY <2>1, <1>1, <1>3, <1>5
  <2>3. d[j] = d[j - 1] + now[j].expires /\ now[j].expires \in Nat
    BY <2>1, <1>1
  <2>4. QED
    BY <2>2, <2>3
<1>6. QED
  BY <1>4, <1>5 DEF d

(* r is now without its first k timers, all that are due.                  *)
Rest(now, r, k) ==
  /\ r \in List /\ Len(r) = Len(now) - k
  /\ \A i \in 1..Len(now)-k : r[i] = now[i + k]

LEMMA CountFacts ==
  ASSUME MaxExpires \in Nat, NEW s, Fine(s), Len(s) > 0, NEW now, Nearer(s, now), NEW k \in 0..Len(s),
         \A i \in 1..Len(s) : Clock!Sums(now)[i] = 0 <=> i <= k, NEW r, Rest(now, r, k)
  PROVE  /\ Fine(r)
         /\ LeftOf(r) = [t \in Timer |-> IF LeftOf(s)[t] > 0 THEN LeftOf(s)[t] - 1 ELSE 0]
         /\ {now[i].timer : i \in 1..k} = {t \in Timer : LeftOf(s)[t] = 1}
<1> DEFINE L == Len(s)
           d == Clock!Sums(s)
           f == Clock!Sums(now)
           from == [i \in 1..L-k |-> i + k]
           e == [i \in 0..L-k |-> f[i + k]]
<1>1. /\ s \in List /\ L \in Nat /\ L > 0
      /\ \A i \in 1..L : s[i].timer \in Timer /\ d[i] \in 1..MaxExpires
  BY ListFacts, SumsFacts DEF Fine
<1>2. /\ now \in List /\ Len(now) = L
      /\ \A i \in 1..L : now[i].timer = s[i].timer
  BY DEF Nearer
<1>3. \A i \in 1..L : f[i] = d[i] - 1
  BY NearerSums
<1>4. k \in 0..L /\ \A i \in 1..L : f[i] = 0 <=> i <= k
  OBVIOUS
<1>5. r \in List /\ Len(r) = L - k /\ \A i \in 1..L-k : r[i] = now[i + k]
  BY <1>2 DEF Rest
<1>6. f \in [0..L -> Nat] /\ f[0] = 0 /\ \A i \in 1..L : f[i] = f[i - 1] + now[i].expires
  BY <1>2, SumsFacts DEF Summing
<1>7. f[k] = 0
  <2> HIDE DEF f
  <2>1. CASE k = 0
    BY <2>1, <1>6
  <2>2. CASE k # 0
    BY <2>2, <1>1, <1>4
  <2>3. QED
    BY <2>1, <2>2
<1> HIDE DEF L, d, f
<1>8. Summing(r, e)
  <2>1. \A i \in 0..L-k : i + k \in 0..L
    BY <1>1, <1>4
  <2>2. e \in [0..L-k -> Nat]
    BY <2>1, <1>6
  <2>3. e[0] = 0
    BY <1>1, <1>4, <1>7
  <2>4. ASSUME NEW i \in 1..L-k PROVE e[i] = e[i - 1] + r[i].expires
    <3>1. i \in 0..L-k /\ i - 1 \in 0..L-k /\ i + k \in 1..L /\ (i - 1) + k = (i + k) - 1
      BY <1>1, <1>4
    <3>2. e[i] = f[i + k] /\ e[i - 1] = f[(i + k) - 1]
      BY <3>1
    <3>3. QED
      BY <3>1, <3>2, <1>5, <1>6
  <2> HIDE DEF e
  <2>5. QED
    BY <2>2, <2>3, <2>4, <1>5 DEF Summing
<1>9. \A i \in 1..L-k : i + k \in 1..L /\ from[i] = i + k /\ e[i] = f[i + k] /\ ~(i + k <= k)
  BY <1>1, <1>4
<1>10. Keeps(s, r, 1, from)
  <2>1. from \in [1..L-k -> 1..L]
    BY <1>9
  <2>2. \A i, j \in 1..L-k : from[i] = from[j] => i = j
    BY <1>9, <1>4
  <2>3. ASSUME NEW i \in 1..L-k
        PROVE  r[i].timer = s[from[i]].timer /\ Clock!Sums(r)[i] = d[from[i]] - 1 /\ d[from[i]] > 1
    <3> HIDE DEF from, e
    <3>1. i + k \in 1..L /\ from[i] = i + k /\ e[i] = f[i + k] /\ ~(i + k <= k)
      BY <1>9
    <3>2. i \in 0..Len(r)
      BY <1>5
    <3>3. Clock!Sums(r)[i] = e[i]
      BY <3>2, <1>5, <1>8, SumsAre
    <3>4. f[i + k] = d[i + k] - 1 /\ f[i + k] # 0 /\ d[i + k] \in 1..MaxExpires
      BY <3>1, <1>1, <1>3, <1>4
    <3>5. r[i].timer = s[i + k].timer
      BY <3>1, <1>2, <1>5
    <3>6. QED
      BY <3>1, <3>3, <3>4, <3>5
  <2> HIDE DEF from
  <2>4. QED
    BY <2>1, <2>2, <2>3, <1>5 DEF Keeps, L, d
<1> HIDE DEF e
<1>11. /\ Fine(r)
       /\ \A i \in 1..Len(r) : LeftOf(r)[s[from[i]].timer] = LeftOf(s)[s[from[i]].timer] - 1
       /\ \A x \in Timer : (\A i \in 1..Len(r) : s[from[i]].timer # x) => LeftOf(r)[x] = 0
  <2> HIDE DEF from
  <2>1. 1 \in Nat /\ Keeps(s, r, 1, from) /\ Fine(s) /\ r \in List
    BY <1>5, <1>10
  <2> QED BY <2>1, Kept
<1>12. /\ \A i \in 1..L : LeftOf(s)[s[i].timer] = d[i]
       /\ \A t \in Timer : ~In(s, t) => LeftOf(s)[t] = 0
       /\ \A t \in Timer : In(s, t) <=> \E i \in 1..L : s[i].timer = t
  BY LeftFacts DEF L, d
<1>13. \A i, j \in 1..L : s[i].timer = s[j].timer => i = j
  BY DEF Fine, L
(* A timer of the list goes on or is due, and the others stay unset.       *)
<1>14. ASSUME NEW i \in 1..L
       PROVE  /\ i <= k <=> d[i] = 1
              /\ i > k => LeftOf(r)[s[i].timer] = d[i] - 1
              /\ i <= k => LeftOf(r)[s[i].timer] = 0
  <2>1. i <= k <=> d[i] = 1
    BY <1>1, <1>3, <1>4
  <2>2. ASSUME i > k PROVE LeftOf(r)[s[i].timer] = d[i] - 1
    <3>1. i - k \in 1..L-k /\ from[i - k] = i
      BY <2>2, <1>1, <1>4
    <3> HIDE DEF from
    <3>2. LeftOf(r)[s[i].timer] = LeftOf(s)[s[i].timer] - 1
      BY <3>1, <1>5, <1>11
    <3>3. QED
      BY <3>2, <1>12
  <2>3. ASSUME i <= k PROVE LeftOf(r)[s[i].timer] = 0
    <3>1. \A j \in 1..L-k : from[j] \in 1..L /\ from[j] # i
      BY <2>3, <1>9, <1>4
    <3> HIDE DEF from
    <3>2. \A j \in 1..Len(r) : s[from[j]].timer # s[i].timer
      BY <3>1, <1>5, <1>13
    <3>3. QED
      BY <3>2, <1>1, <1>11
  <2>4. QED
    BY <2>1, <2>2, <2>3
<1>15. ASSUME NEW t \in Timer, ~In(s, t) PROVE LeftOf(r)[t] = 0
  <2> HIDE DEF from
  <2>1. \A j \in 1..Len(r) : from[j] \in 1..L
    BY <1>10 DEF Keeps, L
  <2>2. QED
    BY <2>1, <1>11, <1>12, <1>15
<1>16. ASSUME NEW t \in Timer
       PROVE  LeftOf(r)[t] = IF LeftOf(s)[t] > 0 THEN LeftOf(s)[t] - 1 ELSE 0
  <2>1. CASE In(s, t)
    <3>1. PICK i \in 1..L : s[i].timer = t
      BY <2>1, <1>12
    <3>2. LeftOf(s)[t] = d[i] /\ d[i] \in 1..MaxExpires
      BY <3>1, <1>12, <1>1
    <3>3. LeftOf(r)[t] = d[i] - 1
      BY <3>1, <3>2, <1>14, <1>4
    <3>4. QED
      BY <3>2, <3>3
  <2>2. CASE ~In(s, t)
    BY <2>2, <1>12, <1>15
  <2>3. QED
    BY <2>1, <2>2
<1>17. LeftOf(r) = [t \in Timer |-> IF LeftOf(s)[t] > 0 THEN LeftOf(s)[t] - 1 ELSE 0]
  <2>1. LeftOf(r) = [t \in Timer |-> LeftOf(r)[t]]
    BY DEF LeftOf
  <2>2. QED
    BY <2>1, <1>16
<1>18. {now[i].timer : i \in 1..k} = {t \in Timer : LeftOf(s)[t] = 1}
  <2>1. ASSUME NEW i \in 1..k PROVE now[i].timer \in Timer /\ LeftOf(s)[now[i].timer] = 1
    <3>1. i \in 1..L /\ i <= k
      BY <1>1, <1>4
    <3>2. now[i].timer = s[i].timer /\ s[i].timer \in Timer /\ d[i] = 1
      BY <3>1, <1>1, <1>2, <1>14
    <3>3. QED
      BY <3>1, <3>2, <1>12
  <2>2. ASSUME NEW t \in Timer, LeftOf(s)[t] = 1 PROVE \E i \in 1..k : now[i].timer = t
    <3>1. In(s, t)
      BY <2>2, <1>12
    <3>2. PICK i \in 1..L : s[i].timer = t
      BY <3>1, <1>12
    <3>3. d[i] = 1 /\ i <= k
      BY <2>2, <3>2, <1>12, <1>14
    <3>4. QED
      BY <3>2, <3>3, <1>2, <1>4
  <2>3. QED
    BY <2>1, <2>2
<1>19. QED
  BY <1>11, <1>17, <1>18

-----------------------------------------------------------------------------
(* The operations do to timer_list what the facts above want.              *)

(* Two parts of a list put together.                                       *)
LEMMA Joined ==
  ASSUME NEW a \in List, NEW b \in List
  PROVE  /\ a \o b \in List /\ Len(a \o b) = Len(a) + Len(b)
         /\ \A i \in 1..Len(a) : (a \o b)[i] = a[i]
         /\ \A i \in 1..Len(b) : (a \o b)[Len(a) + i] = b[i]
BY DEF List

(* The part of the list after a place, with another first timer.           *)
Headed(s, m, h) ==
  IF SubSeq(s, m + 1, Len(s)) = <<>> THEN <<>>
  ELSE <<h>> \o Tail(SubSeq(s, m + 1, Len(s)))

LEMMA Changed ==
  ASSUME NEW s \in List, NEW m \in 0..Len(s), NEW h, m < Len(s) => h \in Node
  PROVE  /\ Headed(s, m, h) \in List /\ Len(Headed(s, m, h)) = Len(s) - m
         /\ \A i \in 1..Len(s)-m : Headed(s, m, h)[i] = IF i = 1 THEN h ELSE s[m + i]
<1> DEFINE L == Len(s)
           q == SubSeq(s, m + 1, L)
           c == Headed(s, m, h)
<1>1. L \in Nat /\ \A i \in 1..L : s[i] \in Node
  BY ListFacts
<1>2. q \in Seq(Node) /\ Len(q) = L - m /\ \A i \in 1..L-m : q[i] = s[m + i]
  BY <1>1 DEF List
<1> HIDE DEF q, L
<1>3. CASE q = <<>>
  <2>1. c = <<>> /\ L - m = 0
    BY <1>2, <1>3 DEF q, L, Headed
  <2>2. QED
    BY <2>1 DEF List, L
<1>4. CASE q # <<>>
  <2>1. Len(q) > 0 /\ m < L /\ h \in Node
    BY <1>1, <1>2, <1>4 DEF L
  <2>2. /\ Tail(q) \in Seq(Node) /\ Len(Tail(q)) = L - m - 1
        /\ \A i \in 1..L-m-1 : Tail(q)[i] = q[i + 1]
    BY <1>1, <1>2, <1>4, <2>1
  <2>3. c = <<h>> \o Tail(q)
    BY <1>4 DEF q, L, Headed
  <2> HIDE DEF c
  <2>4. /\ c \in Seq(Node) /\ Len(c) = 1 + (L - m - 1) /\ c[1] = h
        /\ \A i \in 1..L-m-1 : c[i + 1] = Tail(q)[i]
    <3>1. <<h>> \in List /\ Len(<<h>>) = 1 /\ <<h>>[1] = h
      BY <2>1 DEF List
    <3>2. Tail(q) \in List /\ Len(Tail(q)) = L - m - 1
      BY <2>2 DEF List
    <3> DEFINE x == <<h>>
               y == Tail(q)
    <3> HIDE DEF x, y
    <3>3. /\ x \o y \in List /\ Len(x \o y) = Len(x) + Len(y)
          /\ \A i \in 1..Len(x) : (x \o y)[i] = x[i]
          /\ \A i \in 1..Len(y) : (x \o y)[Len(x) + i] = y[i]
      BY <3>1, <3>2, Joined DEF x, y
    <3>4. c = x \o y
      BY <2>3 DEF x, y
    <3>5. Len(x) = 1 /\ x[1] = h /\ Len(y) = L - m - 1
      BY <3>1, <3>2 DEF x, y
    <3>6. \A i \in 1..L-m-1 : c[1 + i] = y[i] /\ 1 + i = i + 1
      BY <3>3, <3>4, <3>5
    <3>7. \A i \in 1..L-m-1 : c[i + 1] = y[i]
      BY <3>6
    <3>8. c[1] = h /\ Len(c) = 1 + (L - m - 1) /\ c \in List
      BY <3>3, <3>4, <3>5
    <3>9. QED
      BY <3>7, <3>8, Zenon DEF List, y
  <2>5. ASSUME NEW i \in 1..L-m, i # 1 PROVE c[i] = s[m + i]
    <3>1. i - 1 \in 1..L-m-1 /\ (i - 1) + 1 = i
      BY <2>5, <1>1
    <3>2. QED
      BY <3>1, <2>2, <2>4, <1>2
  <2>6. QED
    BY <2>1, <2>4, <2>5, <1>1 DEF List, L, c
<1>5. QED
  BY <1>3, <1>4

LEMMA AddInserts ==
  ASSUME MaxExpires \in Nat, Fine(timer_list), NEW t \in Timer, NEW n \in 1..MaxExpires, Clock!AddTimer(t, n)
  PROVE  /\ Fine(timer_list') /\ fired' = <<>> /\ ~In(timer_list, t)
         /\ LeftOf(timer_list') = [LeftOf(timer_list) EXCEPT ![t] = n]
<1> DEFINE s == timer_list
           L == Len(s)
           d == Clock!Sums(s)
           m == Cardinality(Clock!Passed(n))
           new == [timer |-> t, expires |-> n - d[m]]
           h == Clock!Sooner(Head(SubSeq(s, m + 1, L)), n - d[m])
           a == SubSeq(s, 1, m)
           c == Headed(s, m, h)
<1>1. /\ s \in List /\ L \in Nat /\ Summing(s, d) /\ DOMAIN s = 1..L
      /\ \A i \in 1..L : s[i] \in Node /\ s[i].timer \in Timer /\ s[i].expires \in Nat
      /\ \A i \in 1..L : d[i] \in 1..MaxExpires
  BY ListFacts, SumsFacts DEF Fine
<1>2. d \in [0..L -> Nat] /\ d[0] = 0 /\ \A i \in 1..L : d[i] = d[i - 1] + s[i].expires
  BY <1>1 DEF Summing
<1>3. n \in 1..MaxExpires
  OBVIOUS
<1>4. Clock!Passed(n) = {i \in 1..L : d[i] <= n}
  BY <1>1 DEF Clock!Passed, Clock!Due
<1>5. \A i \in 1..L : \A j \in 1..i : d[j] <= d[i]
  BY <1>1, Grows
<1>6. fired' = <<>> /\ ~Clock!Linked(t) /\ timer_list' = a \o <<new>> \o c
  BY Counts DEF Clock!AddTimer, Clock!Due, Headed
<1> HIDE DEF d, L, s
<1>7. m \in 0..L /\ \A i \in 1..L : d[i] <= n <=> i <= m
  <2> DEFINE S == {i \in 1..L : d[i] <= n}
  <2>1. S \in SUBSET (1..L) /\ \A i \in S : \A j \in 1..i : j \in S
    <3>1. ASSUME NEW i \in S, NEW j \in 1..i PROVE j \in S
      <4>1. i \in 1..L /\ j \in 1..L /\ d[i] <= n /\ d[j] <= d[i]
        BY <1>1, <1>5
      <4>2. d[i] \in Nat /\ d[j] \in Nat
        BY <4>1, <1>1
      <4>3. QED
        BY <4>1, <4>2, <1>3
    <3>2. QED
      BY <3>1
  <2>2. Cardinality(S) \in 0..L /\ S = 1..Cardinality(S)
    <3> HIDE DEF S
    <3> QED BY <2>1, <1>1, Initial
  <2>3. m = Cardinality(S)
    BY <1>4
  <2> HIDE DEF m
  <2>4. \A i \in 1..L : i \in S <=> i <= m
    <3>1. S = 1..m /\ m \in 0..L
      BY <2>2, <2>3
    <3> HIDE DEF S
    <3>2. QED
      BY <3>1, <1>1
  <2>5. QED
    BY <2>2, <2>3, <2>4
<1> HIDE DEF m
<1>8. d[m] \in Nat /\ n - d[m] \in Nat
  <2>1. CASE m = 0
    BY <2>1, <1>2, <1>3
  <2>2. CASE m # 0
    <3>1. m \in 1..L /\ d[m] <= n /\ d[m] \in Nat
      BY <2>2, <1>7, <1>1
    <3>2. QED
      BY <3>1, <1>3
  <2>3. QED
    BY <2>1, <2>2
<1>9. new \in Node /\ new.timer = t /\ new.expires = n - d[m]
  BY <1>8 DEF Node
<1>10. m < L => /\ h \in Node /\ h.timer = s[m + 1].timer
                /\ h.expires = s[m + 1].expires - (n - d[m])
  <2> SUFFICES ASSUME m < L
               PROVE  /\ h \in Node /\ h.timer = s[m + 1].timer
                      /\ h.expires = s[m + 1].expires - (n - d[m])
    OBVIOUS
  <2>1. m + 1 \in 1..L /\ (m + 1) - 1 = m /\ ~(m + 1 <= m)
    BY <1>1, <1>7
  <2>2. d[m + 1] = d[m] + s[m + 1].expires /\ d[m + 1] > n
    <3>1. d[m + 1] \in Nat /\ ~(d[m + 1] <= n)
      BY <2>1, <1>1, <1>7
    <3>2. QED
      BY <2>1, <3>1, <1>2, <1>3
  <2>3. s[m + 1] \in Node /\ s[m + 1].timer \in Timer /\ s[m + 1].expires \in Nat
    BY <2>1, <1>1
  <2>4. Head(SubSeq(s, m + 1, L)) = s[m + 1]
    BY <1>1, <1>7, <2>1 DEF List, L
  <2>5. s[m + 1].expires - (n - d[m]) \in Nat
    BY <2>2, <2>3, <1>3, <1>8
  <2>6. h = [s[m + 1] EXCEPT !.expires = @ - (n - d[m])]
    BY <2>4 DEF Clock!Sooner
  <2> HIDE DEF h
  <2>7. QED
    BY <2>3, <2>5, <2>6 DEF Node
<1> HIDE DEF new, h
<1>11. c \in List /\ Len(c) = L - m /\ \A i \in 1..L-m : c[i] = IF i = 1 THEN h ELSE s[m + i]
  <2>1. m \in 0..Len(s) /\ (m < Len(s) => h \in Node)
    BY <1>7, <1>10 DEF L
  <2>2. /\ Headed(s, m, h) \in List /\ Len(Headed(s, m, h)) = Len(s) - m
        /\ \A i \in 1..Len(s)-m : Headed(s, m, h)[i] = IF i = 1 THEN h ELSE s[m + i]
    <3>1. s \in List
      BY <1>1
    <3> HIDE DEF Headed, Node
    <3>2. QED
      BY <2>1, <3>1, Changed
  <2>3. QED
    BY <2>2 DEF L
<1>12. a \in List /\ Len(a) = m /\ \A i \in 1..m : a[i] = s[i]
  BY <1>1, <1>7 DEF List, L
<1> HIDE DEF a, c
<1>13. <<new>> \in List /\ Len(<<new>>) = 1 /\ <<new>>[1] = new
  BY <1>9 DEF List
<1>14. Inserted(s, timer_list', t, n, m)
  <2> DEFINE b == a \o <<new>>
             r == b \o c
  <2>1. /\ b \in List /\ Len(b) = m + 1 /\ b[m + 1] = new
        /\ \A i \in 1..m : b[i] = s[i]
    BY <1>12, <1>13, <1>7, Joined
  <2> HIDE DEF b
  <2>2. /\ r \in List /\ Len(r) = (m + 1) + (L - m)
        /\ \A i \in 1..m+1 : r[i] = b[i]
        /\ \A i \in 1..L-m : r[(m + 1) + i] = c[i]
    <3>1. /\ b \o c \in List /\ Len(b \o c) = Len(b) + Len(c)
          /\ \A i \in 1..Len(b) : (b \o c)[i] = b[i]
          /\ \A i \in 1..Len(c) : (b \o c)[Len(b) + i] = c[i]
      BY <2>1, <1>11, Joined
    <3>2. QED
      BY <3>1, <2>1, <1>11
  <2>3. timer_list' = r
    BY <1>6 DEF b
  <2> HIDE DEF r
  <2>4. \A i \in 1..m : r[i] = s[i]
    BY <2>1, <2>2, <1>7
  <2>5. r[m + 1] = new
    BY <2>1, <2>2, <1>7
  <2>6. ASSUME NEW i \in m+1..L
        PROVE  /\ r[i + 1].timer = s[i].timer
               /\ r[i + 1].expires = IF i = m + 1 THEN s[i].expires - (n - d[m]) ELSE s[i].expires
    <3>1. i - m \in 1..L-m /\ (m + 1) + (i - m) = i + 1 /\ m + (i - m) = i /\ m < L
      <4>1. m \in Nat /\ i \in Nat /\ L \in Nat /\ m + 1 <= i /\ i <= L
        BY <1>1, <1>7
      <4>2. QED
        BY <4>1
    <3>2. r[i + 1] = IF i - m = 1 THEN h ELSE s[i]
      BY <3>1, <2>2, <1>11
    <3>3. QED
      BY <3>1, <3>2, <1>7, <1>10
  <2>7. Len(r) = L + 1
    BY <2>2, <1>1, <1>7
  <2>8. QED
    BY <2>2, <2>3, <2>4, <2>5, <2>6, <2>7, <1>9 DEF Inserted, L, d
<1>15. ~In(s, t)
  BY <1>6 DEF Clock!Linked, In, s
<1>16. Fine(timer_list') /\ LeftOf(timer_list') = [LeftOf(s) EXCEPT ![t] = n]
  BY <1>7, <1>14, <1>15, InsertFacts DEF s, L, d
<1>17. QED
  BY <1>6, <1>15, <1>16 DEF s

LEMMA DelDeletes ==
  ASSUME MaxExpires \in Nat, Fine(timer_list), NEW t \in Timer, Clock!DelTimer(t)
  PROVE  /\ Fine(timer_list') /\ fired' = <<>>
         /\ LeftOf(timer_list') = [LeftOf(timer_list) EXCEPT ![t] = 0]
<1> DEFINE s == timer_list
           L == Len(s)
           k == Clock!Index(t)
           h == Clock!Later(Head(SubSeq(s, k + 1, L)), s[k].expires)
           a == SubSeq(s, 1, k - 1)
           c == Headed(s, k, h)
<1>1. /\ s \in List /\ L \in Nat /\ DOMAIN s = 1..L
      /\ \A i \in 1..L : s[i] \in Node /\ s[i].timer \in Timer /\ s[i].expires \in Nat
  BY ListFacts DEF Fine
<1>2. fired' = <<>>
  BY DEF Clock!DelTimer
<1>3. CASE ~Clock!Linked(t)
  <2>1. timer_list' = timer_list
    BY <1>3 DEF Clock!DelTimer
  <2>2. ~In(timer_list, t)
    BY <1>3 DEF Clock!Linked, In
  <2>3. LeftOf(timer_list)[t] = 0
    BY <2>2, LeftFacts
  <2>4. LeftOf(timer_list) = [LeftOf(timer_list) EXCEPT ![t] = 0]
    BY <2>3 DEF LeftOf
  <2>5. QED
    BY <1>2, <2>1, <2>4
<1>4. CASE Clock!Linked(t)
  <2>1. k \in 1..L /\ s[k].timer = t
    BY <1>1, <1>4 DEF Clock!Linked, Clock!Index
  <2>2. timer_list' = a \o c
    BY <1>4 DEF Clock!DelTimer, Headed
  <2> HIDE DEF k, s
  <2>3. s[k] \in Node /\ s[k].expires \in Nat
    BY <1>1, <2>1
  <2>4. k < L => /\ h \in Node /\ h.timer = s[k + 1].timer
                 /\ h.expires = s[k + 1].expires + s[k].expires
    <3> SUFFICES ASSUME k < L
                 PROVE  /\ h \in Node /\ h.timer = s[k + 1].timer
                        /\ h.expires = s[k + 1].expires + s[k].expires
      OBVIOUS
    <3>1. k + 1 \in 1..L
      BY <1>1, <2>1
    <3>2. s[k + 1] \in Node /\ s[k + 1].timer \in Timer /\ s[k + 1].expires \in Nat
      BY <3>1, <1>1
    <3>3. Head(SubSeq(s, k + 1, L)) = s[k + 1]
      BY <1>1, <2>1, <3>1 DEF List
    <3>4. h = [s[k + 1] EXCEPT !.expires = @ + s[k].expires]
      BY <3>3 DEF Clock!Later
    <3>5. s[k + 1].expires + s[k].expires \in Nat
      BY <3>2, <2>3
    <3> HIDE DEF h
    <3>6. QED
      BY <3>2, <3>4, <3>5 DEF Node
  <2> HIDE DEF h, L
  <2>5. c \in List /\ Len(c) = L - k /\ \A i \in 1..L-k : c[i] = IF i = 1 THEN h ELSE s[k + i]
    <3>1. k \in 0..Len(s) /\ (k < Len(s) => h \in Node)
      BY <1>1, <2>1, <2>4 DEF L
    <3>2. /\ Headed(s, k, h) \in List /\ Len(Headed(s, k, h)) = Len(s) - k
          /\ \A i \in 1..Len(s)-k : Headed(s, k, h)[i] = IF i = 1 THEN h ELSE s[k + i]
      <4>1. s \in List
        BY <1>1
      <4> HIDE DEF Headed, Node
      <4>2. QED
        BY <3>1, <4>1, Changed
    <3>3. QED
      BY <3>2 DEF L
  <2>6. a \in List /\ Len(a) = k - 1 /\ \A i \in 1..k-1 : a[i] = s[i]
    BY <1>1, <2>1 DEF List, L
  <2> HIDE DEF a, c
  <2>7. Deleted(s, timer_list', k)
    <3> DEFINE r == a \o c
    <3>1. /\ r \in List /\ Len(r) = (k - 1) + (L - k)
          /\ \A i \in 1..k-1 : r[i] = a[i]
          /\ \A i \in 1..L-k : r[(k - 1) + i] = c[i]
      <4>1. /\ a \o c \in List /\ Len(a \o c) = Len(a) + Len(c)
            /\ \A i \in 1..Len(a) : (a \o c)[i] = a[i]
            /\ \A i \in 1..Len(c) : (a \o c)[Len(a) + i] = c[i]
        BY <2>5, <2>6, Joined
      <4>2. QED
        BY <4>1, <2>5, <2>6
    <3> HIDE DEF r
    <3>2. timer_list' = r
      BY <2>2 DEF r
    <3>3. Len(r) = L - 1 /\ \A i \in 1..k-1 : r[i] = s[i]
      BY <3>1, <2>6, <2>1, <1>1
    <3>4. ASSUME NEW i \in k..L-1
          PROVE  /\ r[i].timer = s[i + 1].timer
                 /\ r[i].expires = IF i = k THEN s[i + 1].expires + s[k].expires
                                   ELSE s[i + 1].expires
      <4>1. (i + 1) - k \in 1..L-k /\ (k - 1) + ((i + 1) - k) = i /\ k + ((i + 1) - k) = i + 1 /\ k < L
        BY <1>1, <2>1
      <4>2. r[i] = IF (i + 1) - k = 1 THEN h ELSE s[i + 1]
        BY <4>1, <3>1, <2>5
      <4>3. QED
        BY <4>1, <4>2, <2>1, <2>4
    <3>5. QED
      BY <3>1, <3>2, <3>3, <3>4 DEF Deleted, L
  <2>8. Fine(timer_list') /\ LeftOf(timer_list') = [LeftOf(s) EXCEPT ![s[k].timer] = 0]
    BY <2>1, <2>7, DeleteFacts DEF s, L
  <2>9. QED
    BY <1>2, <2>1, <2>8 DEF s
<1>5. QED
  BY <1>3, <1>4

LEMMA RunCounts ==
  ASSUME MaxExpires \in Nat, Fine(timer_list), Clock!RunTimerList
  PROVE  /\ Fine(timer_list') /\ fired' \in Seq(Timer)
         /\ LeftOf(timer_list') = [t \in Timer |-> IF LeftOf(timer_list)[t] > 0
                                                   THEN LeftOf(timer_list)[t] - 1 ELSE 0]
         /\ Clock!ToSet(fired') = {t \in Timer : LeftOf(timer_list)[t] = 1}
<1> DEFINE s == timer_list
           L == Len(s)
           h == Clock!Sooner(Head(s), 1)
           now == <<h>> \o Tail(s)
           due == {i \in DOMAIN now : \A j \in 1..i : now[j].expires = 0}
           k == Cardinality(due)
<1>1. /\ s \in List /\ L \in Nat /\ DOMAIN s = 1..L
      /\ \A i \in 1..L : s[i] \in Node /\ s[i].timer \in Timer /\ s[i].expires \in Nat
      /\ Summing(s, Clock!Sums(s)) /\ \A i \in 1..L : Clock!Sums(s)[i] \in 1..MaxExpires
  BY ListFacts, SumsFacts DEF Fine
<1>2. CASE s = <<>>
  <2>1. timer_list' = timer_list /\ fired' = <<>> /\ DOMAIN s = {}
    BY <1>2 DEF Clock!RunTimerList
  <2>2. \A t \in Timer : LeftOf(s)[t] = 0
    BY <2>1 DEF LeftOf, In
  <2>3. Clock!ToSet(fired') = {} /\ fired' \in Seq(Timer)
    BY <2>1 DEF Clock!ToSet
  <2>4. LeftOf(s) = [t \in Timer |-> IF LeftOf(s)[t] > 0 THEN LeftOf(s)[t] - 1 ELSE 0]
    <3>1. LeftOf(s) = [t \in Timer |-> LeftOf(s)[t]]
      BY DEF LeftOf
    <3>2. QED
      BY <2>2, <3>1
  <2>5. QED
    BY <2>1, <2>2, <2>3, <2>4
<1>3. CASE s # <<>>
  <2>1. timer_list' = SubSeq(now, k + 1, Len(now)) /\ fired' = [i \in 1..k |-> now[i].timer]
    BY <1>3, Counts DEF Clock!RunTimerList
  <2>2. L > 0 /\ Head(s) = s[1] /\ 1 \in 1..L
    BY <1>1, <1>3 DEF List
  <2>3. Tail(s) \in List /\ Len(Tail(s)) = L - 1 /\ \A i \in 1..L-1 : Tail(s)[i] = s[i + 1]
    BY <1>1, <1>3, <2>2 DEF List
  <2> HIDE DEF L, s
  <2>4. s[1].expires > 0
    <3>1. 1 \in 1..Len(s) /\ 0 \in 0..Len(s) /\ 1 - 1 = 0
      BY <2>2 DEF L
    <3>2. Clock!Sums(s)[1] = Clock!Sums(s)[1 - 1] + s[1].expires /\ Clock!Sums(s)[0] = 0
      BY <1>1, <3>1 DEF Summing
    <3>3. Clock!Sums(s)[1] \in 1..MaxExpires /\ s[1].expires \in Nat
      BY <1>1, <2>2
    <3>4. QED
      BY <3>1, <3>2, <3>3
  <2>5. h \in Node /\ h.timer = s[1].timer /\ h.expires = s[1].expires - 1
    <3>1. s[1] \in Node /\ s[1].timer \in Timer /\ s[1].expires \in Nat
      BY <1>1, <2>2
    <3>2. h = [s[1] EXCEPT !.expires = @ - 1]
      BY <2>2 DEF Clock!Sooner
    <3>3. s[1].expires - 1 \in Nat
      BY <3>1, <2>4
    <3> HIDE DEF h
    <3>4. QED
      BY <3>1, <3>2, <3>3 DEF Node
  <2> HIDE DEF h
  <2>6. now \in List /\ Len(now) = L /\ now[1] = h /\ \A i \in 2..L : now[i] = s[i]
    <3> DEFINE x == <<h>>
               y == Tail(s)
    <3>1. x \in List /\ Len(x) = 1 /\ x[1] = h
      BY <2>5 DEF List
    <3> HIDE DEF x, y
    <3>2. y \in List /\ Len(y) = L - 1 /\ \A i \in 1..L-1 : y[i] = s[i + 1]
      BY <2>3 DEF y
    <3>3. /\ x \o y \in List /\ Len(x \o y) = Len(x) + Len(y)
          /\ \A i \in 1..Len(x) : (x \o y)[i] = x[i]
          /\ \A i \in 1..Len(y) : (x \o y)[Len(x) + i] = y[i]
      BY <3>1, <3>2, Joined
    <3>4. now = x \o y
      BY DEF x, y
    <3> HIDE DEF now
    <3>5. ASSUME NEW i \in 2..L PROVE now[i] = s[i]
      <4>1. i - 1 \in 1..L-1 /\ 1 + (i - 1) = i /\ (i - 1) + 1 = i
        BY <1>1
      <4>2. QED
        BY <4>1, <3>1, <3>2, <3>3, <3>4
    <3>6. Len(x) + Len(y) = L /\ 1 \in 1..Len(x)
      BY <3>1, <3>2, <1>1
    <3>7. now \in List /\ Len(now) = L /\ now[1] = h
      BY <3>1, <3>3, <3>4, <3>6
    <3>8. QED
      BY <3>5, <3>7
  <2> HIDE DEF now
  <2>7. Nearer(s, now)
    <3>1. \A i \in 1..L : i # 1 => i \in 2..L
      BY <1>1
    <3>2. QED
      BY <3>1, <2>5, <2>6 DEF Nearer, L
  <2>8. due = {i \in 1..L : Clock!Sums(now)[i] = 0}
    <3>1. DOMAIN now = 1..L
      BY <2>6, ListFacts
    <3>2. \A i \in 1..Len(now) : (\A j \in 1..i : now[j].expires = 0) <=> Clock!Sums(now)[i] = 0
      BY <2>6, DueAre
    <3>3. QED
      BY <3>1, <3>2, <2>6
  <2>9. k \in 0..L /\ \A i \in 1..L : Clock!Sums(now)[i] = 0 <=> i <= k
    <3>1. due \in SUBSET (1..L) /\ \A i \in due : \A j \in 1..i : j \in due
      <4>1. DOMAIN now = 1..L
        BY <2>6, ListFacts
      <4>2. due \in SUBSET (1..L)
        BY <4>1
      <4>3. ASSUME NEW i \in due, NEW j \in 1..i PROVE j \in due
        <5>1. i \in 1..L /\ j \in 1..L
          BY <4>2, <1>1
        <5>2. \A l \in 1..i : now[l].expires = 0
          OBVIOUS
        <5>3. \A l \in 1..j : l \in 1..i
          BY <5>1
        <5>4. QED
          BY <5>1, <5>2, <5>3, <4>1
      <4>4. QED
        BY <4>2, <4>3
    <3> HIDE DEF due
    <3>2. k \in 0..L /\ due = 1..k
      BY <3>1, <1>1, Initial
    <3> HIDE DEF k
    <3>3. \A i \in 1..L : i \in due <=> i <= k
      BY <3>2, <1>1
    <3>4. QED
      BY <3>2, <3>3, <2>8
  <2> HIDE DEF due, k
  <2>10. Rest(now, timer_list', k)
    <3> DEFINE r == SubSeq(now, k + 1, Len(now))
    <3>1. now \in Seq(Node) /\ Len(now) \in Nat /\ k \in 0..Len(now)
      BY <2>6, <2>9, <1>1 DEF List
    <3>2. r \in Seq(Node) /\ Len(r) = Len(now) - k /\ \A i \in 1..Len(now)-k : r[i] = now[k + i]
      BY <3>1
    <3>3. timer_list' = r
      BY <2>1
    <3> HIDE DEF r
    <3>4. \A i \in 1..Len(now)-k : k + i = i + k
      BY <3>1
    <3>5. QED
      BY <3>2, <3>3, <3>4 DEF Rest, List
  <2>11. Fine(s) /\ Len(s) > 0 /\ k \in 0..Len(s)
         /\ \A i \in 1..Len(s) : Clock!Sums(now)[i] = 0 <=> i <= k
    BY <2>2, <2>9 DEF s, L
  <2>12. /\ Fine(timer_list')
         /\ LeftOf(timer_list') = [t \in Timer |-> IF LeftOf(s)[t] > 0 THEN LeftOf(s)[t] - 1 ELSE 0]
         /\ {now[i].timer : i \in 1..k} = {t \in Timer : LeftOf(s)[t] = 1}
    BY <2>7, <2>10, <2>11, CountFacts
  <2>13. fired' \in Seq(Timer) /\ Clock!ToSet(fired') = {now[i].timer : i \in 1..k}
    <3>1. \A i \in 1..k : now[i].timer \in Timer
      BY <2>6, <2>9, <1>1, ListFacts
    <3>2. fired' \in [1..k -> Timer] /\ k \in Nat
      BY <2>1, <2>9, <3>1
    <3>3. fired' \in Seq(Timer) /\ DOMAIN fired' = 1..k
      BY <3>2
    <3>4. Clock!ToSet(fired') = {fired'[i] : i \in 1..k}
      BY <3>3, Zenon DEF Clock!ToSet
    <3>5. \A i \in 1..k : fired'[i] = now[i].timer
      BY <2>1
    <3>6. QED
      BY <3>3, <3>4, <3>5
  <2>14. QED
    BY <2>12, <2>13 DEF s
<1>4. QED
  BY <1>2, <1>3

-----------------------------------------------------------------------------
(* The invariant, and one step.                                            *)
LEMMA StepCounts ==
  ASSUME MaxExpires \in Nat, Clock!ListOK, Clock!Next
  PROVE  /\ Clock!ListOK'
         /\ \/ /\ LeftOf(timer_list') = [t \in Timer |-> IF LeftOf(timer_list)[t] > 0
                                                         THEN LeftOf(timer_list)[t] - 1 ELSE 0]
               /\ Clock!ToSet(fired') = {t \in Timer : LeftOf(timer_list)[t] = 1}
            \/ /\ fired' = <<>>
               /\ \E t \in Timer : LeftOf(timer_list') = [LeftOf(timer_list) EXCEPT ![t] = 0]
            \/ /\ fired' = <<>>
               /\ \E t \in Timer, n \in 1..MaxExpires :
                    /\ ~In(timer_list, t)
                    /\ LeftOf(timer_list') = [LeftOf(timer_list) EXCEPT ![t] = n]
<1>1. Fine(timer_list) /\ <<>> \in Seq(Timer)
  BY ListIsFine
<1>2. ASSUME fired' \in Seq(Timer), Fine(timer_list') PROVE Clock!ListOK'
  BY <1>2, FineIsOK
<1>3. CASE Clock!RunTimerList
  BY <1>1, <1>2, <1>3, RunCounts
<1>4. ASSUME NEW t \in Timer, Clock!DelTimer(t) PROVE
        Clock!ListOK' /\ fired' = <<>> /\ LeftOf(timer_list') = [LeftOf(timer_list) EXCEPT ![t] = 0]
  BY <1>1, <1>2, <1>4, DelDeletes
<1>5. ASSUME NEW t \in Timer, NEW n \in 1..MaxExpires, Clock!AddTimer(t, n) PROVE
        /\ Clock!ListOK' /\ fired' = <<>> /\ ~In(timer_list, t)
        /\ LeftOf(timer_list') = [LeftOf(timer_list) EXCEPT ![t] = n]
  BY <1>1, <1>2, <1>5, AddInserts
<1>6. QED
  BY <1>3, <1>4, <1>5 DEF Clock!Next

(* The list of kern/schedule/sched.c is never in a state its assertions    *)
(* refuse: the first timer has ticks to go, none is linked twice, and none *)
(* is due later than any time that was asked for.                          *)
THEOREM ListAlwaysOK ==
  ASSUME Clock!TimersAssumption
  PROVE  Clock!Spec => []Clock!ListOK
<1>1. Clock!Init => Clock!ListOK
  <2> SUFFICES ASSUME Clock!Init PROVE Clock!ListOK
    OBVIOUS
  <2>1. timer_list = <<>> /\ fired \in Seq(Timer)
    BY DEF Clock!Init
  <2>2. Fine(timer_list)
    BY <2>1 DEF Fine, List
  <2>3. QED
    BY <2>1, <2>2, FineIsOK
<1>2. Clock!ListOK /\ [Clock!Next]_(Clock!vars) => Clock!ListOK'
  <2>1. ASSUME Clock!ListOK, UNCHANGED Clock!vars PROVE Clock!ListOK'
    BY <2>1 DEF Clock!vars, Clock!ListOK, Clock!TypeOK, Clock!Due
  <2>2. QED
    BY <2>1, StepCounts
<1>3. QED
  BY <1>1, <1>2, PTL DEF Clock!Spec

(* add_timer, del_timer and run_timer_list keep the differences between    *)
(* the timers so that each one fires at the tick it was set for: the list  *)
(* implements a countdown of every timer on its own.                       *)
THEOREM ListCounts ==
  ASSUME Clock!TimersAssumption
  PROVE  Clock!Spec => Clock!CountdownSpec
<1>1. Clock!Left = LeftOf(timer_list) /\ Clock!Left' = LeftOf(timer_list')
  BY Zenon DEF Clock!Left, LeftOf, Clock!Linked, In, Clock!Due, Clock!Index
<1>2. Clock!Init => Clock!Count!Init
  <2> SUFFICES ASSUME Clock!Init PROVE Clock!Count!Init
    OBVIOUS
  <2>1. DOMAIN timer_list = {} /\ Clock!ToSet(fired) = {}
    BY DEF Clock!Init, Clock!ToSet
  <2>2. LeftOf(timer_list) = [t \in Timer |-> 0]
    BY <2>1 DEF LeftOf, In
  <2>3. QED
    BY <1>1, <2>1, <2>2 DEF Clock!Count!Init
<1>3. Clock!ListOK /\ [Clock!Next]_(Clock!vars) => [Clock!Count!Next]_(Clock!Count!vars)
  <2> SUFFICES ASSUME Clock!ListOK, [Clock!Next]_(Clock!vars) PROVE [Clock!Count!Next]_(Clock!Count!vars)
    OBVIOUS
  <2>1. CASE UNCHANGED Clock!vars
    <3>1. timer_list' = timer_list /\ fired' = fired
      BY <2>1 DEF Clock!vars
    <3>2. QED
      BY <1>1, <3>1 DEF Clock!Count!vars
  <2>2. CASE Clock!Next
    <3>1. CASE /\ LeftOf(timer_list') = [t \in Timer |-> IF LeftOf(timer_list)[t] > 0
                                                         THEN LeftOf(timer_list)[t] - 1 ELSE 0]
               /\ Clock!ToSet(fired') = {t \in Timer : LeftOf(timer_list)[t] = 1}
      BY <1>1, <3>1 DEF Clock!Count!Next, Clock!Count!Tick
    <3>2. ASSUME fired' = <<>> PROVE Clock!ToSet(fired') = {}
      BY <3>2 DEF Clock!ToSet
    <3>3. ASSUME fired' = <<>>, NEW t \in Timer,
                 LeftOf(timer_list') = [LeftOf(timer_list) EXCEPT ![t] = 0]
          PROVE  Clock!Count!Next
      BY <1>1, <3>2, <3>3 DEF Clock!Count!Next, Clock!Count!Del
    <3>4. ASSUME fired' = <<>>, NEW t \in Timer, NEW n \in 1..MaxExpires, ~In(timer_list, t),
                 LeftOf(timer_list') = [LeftOf(timer_list) EXCEPT ![t] = n]
          PROVE  Clock!Count!Next
      <4>1. LeftOf(timer_list)[t] = 0
        BY <3>4 DEF LeftOf
      <4>2. QED
        BY <1>1, <3>2, <3>4, <4>1 DEF Clock!Count!Next, Clock!Count!Add
    <3>5. QED
      BY <2>2, <3>1, <3>3, <3>4, StepCounts
  <2>3. QED
    BY <2>1, <2>2
<1>4. QED
  BY <1>2, <1>3, ListAlwaysOK, PTL DEF Clock!Spec, Clock!CountdownSpec, Clock!Count!Spec
-----------------------------------------------------------------------------
(* The stride class *)

HIDE DEF Clock!TimersAssumption

CONSTANTS Process, BIG_STRIDE, Priority, NULL

VARIABLES heap, left, right, parent, phase, stride, priority, current, late

Sched == INSTANCE Stride WITH state <- phase

USE DEF Sched!StrideAssumption

(* Stride has IsFiniteSet and Cardinality from the modules that it extends. *)
LEMMA SameCounts ==
  ASSUME NEW S
  PROVE  Sched!Cardinality(S) = Cardinality(S) /\ (Sched!IsFiniteSet(S) <=> IsFiniteSet(S))
BY Zenon DEF Sched!Cardinality, Cardinality, Sched!IsFiniteSet, IsFiniteSet

Entry == Process \cup {NULL}

(* The links l, r and u make a tree of the processes in A, with x at its   *)
(* root: who is below x is found from x, by one way.  u[x] may be anything.*)
Closed(l, r, X) == \A q \in X : l[q] \in X \cup {NULL} /\ r[q] \in X \cup {NULL}

Parents(l, r, u, x, A) ==
  \A q \in A : \A c \in {l[q], r[q]} : c # NULL => c # x /\ u[c] = q

Tree(l, r, u, x, A) ==
  /\ A \subseteq Process
  /\ IF A = {} THEN x = NULL ELSE x \in A
  /\ Closed(l, r, A)
  /\ Parents(l, r, u, x, A)
  /\ \A q \in A : l[q] = r[q] => l[q] = NULL
  /\ \A X \in SUBSET A : x \in X /\ Closed(l, r, X) => X = A

(* Everybody but the root has a parent in the tree.                        *)
LEMMA HasParent ==
  ASSUME NULL \notin Process, NEW l, NEW r, NEW u, NEW x, NEW A, Tree(l, r, u, x, A),
         NEW c \in A, c # x
  PROVE  u[c] \in A /\ c \in {l[u[c]], r[u[c]]}
<1>1. ASSUME \A q \in A : l[q] # c /\ r[q] # c PROVE FALSE
  <2>1. Closed(l, r, A \ {c})
    BY <1>1 DEF Tree, Closed
  <2>2. x \in A \ {c}
    BY DEF Tree
  <2>3. A \ {c} = A
    BY <2>1, <2>2, Zenon DEF Tree
  <2>4. QED
    BY <2>3
<1>2. PICK q \in A : l[q] = c \/ r[q] = c
  BY <1>1
<1>3. c # NULL
  BY DEF Tree
<1>4. u[c] = q
  BY <1>2, <1>3 DEF Tree, Parents
<1>5. QED
  BY <1>2, <1>4

(* Who is found from y.                                                    *)
Below(l, r, A, y) ==
  {p \in A : y # NULL /\ \A X \in SUBSET A : y \in X /\ Closed(l, r, X) => p \in X}

(* What is found from a child of the root is a tree,                       *)
LEMMA ChildTree ==
  ASSUME NULL \notin Process, NEW l, NEW r, NEW u, NEW x, NEW A, Tree(l, r, u, x, A), x # NULL,
         NEW y \in {l[x], r[x]}
  PROVE  Tree(l, r, u, y, Below(l, r, A, y)) /\ x \notin Below(l, r, A, y)
<1> DEFINE B == Below(l, r, A, y)
<1>0. x \in A /\ A \subseteq Process /\ B \subseteq A
  BY Zenon DEF Tree, Below
<1>1. CASE y = NULL
  <2>1. B = {}
    BY <1>1 DEF Below
  <2>2. QED
    BY <2>1, <1>1 DEF Tree, Closed, Parents
<1>2. CASE y # NULL
  <2>1. y \in A /\ y # x /\ u[y] = x
    BY <1>0, <1>2 DEF Tree, Closed, Parents
  <2>2. x \notin B
    <3>1. Closed(l, r, A \ {x})
      BY <1>0 DEF Tree, Closed, Parents
    <3>2. y \in A \ {x} /\ A \ {x} \in SUBSET A
      BY <2>1
    <3>3. QED
      BY <3>1, <3>2, Zenon DEF Below
  <2>3. y \in B
    BY <1>2, <2>1 DEF Below
  <2>4. ASSUME NEW q \in B, NEW c \in {l[q], r[q]}, c # NULL PROVE c \in B
    <3>1. c \in A
      BY <2>4, <1>0 DEF Tree, Closed
    <3>2. ASSUME NEW X \in SUBSET A, y \in X, Closed(l, r, X) PROVE c \in X
      <4>1. q \in X
        BY <3>2, Zenon DEF Below
      <4>2. QED
        BY <4>1, <3>2, <2>4 DEF Closed
    <3>3. QED
      BY <3>1, <3>2, <1>2 DEF Below
  <2>5. Closed(l, r, B)
    BY <2>4 DEF Closed
  <2>6. Parents(l, r, u, y, B)
    BY <1>0, <2>1, <2>2 DEF Parents, Tree
  <2>7. ASSUME NEW X \in SUBSET B, y \in X, Closed(l, r, X) PROVE X = B
    <3>1. X \in SUBSET A
      BY <1>0
    <3>2. B \subseteq X
      BY <3>1, <2>7, Zenon DEF Below
    <3>3. QED
      BY <3>2
  <2>8. \A q \in B : l[q] = r[q] => l[q] = NULL
    BY <1>0 DEF Tree
  <2> HIDE DEF B
  <2>9. QED
    BY <1>0, <2>2, <2>3, <2>5, <2>6, <2>7, <2>8, Zenon DEF Tree, B
<1>3. QED
  BY <1>1, <1>2

(* the trees of both children have nobody in common, and are all but the   *)
(* root.                                                                   *)
Splits(l, r, u, x, A, L, R) ==
  /\ Tree(l, r, u, l[x], L) /\ Tree(l, r, u, r[x], R)
  /\ x \notin L /\ x \notin R /\ L \cap R = {} /\ A = {x} \cup L \cup R

LEMMA Split ==
  ASSUME NULL \notin Process, NEW l, NEW r, NEW u, NEW x, NEW A, Tree(l, r, u, x, A), x # NULL
  PROVE  \E L, R : Splits(l, r, u, x, A, L, R)
<1> DEFINE L == Below(l, r, A, l[x])
           R == Below(l, r, A, r[x])
<1>1. Tree(l, r, u, l[x], L) /\ x \notin L /\ Tree(l, r, u, r[x], R) /\ x \notin R
  BY ChildTree
<1>2. x \in A /\ L \subseteq A /\ R \subseteq A
  BY Zenon DEF Tree, Below
<1> HIDE DEF L, R
<1>3. A = {x} \cup L \cup R
  <2> DEFINE X == {x} \cup L \cup R
  <2>1. l[x] \in L \cup {NULL} /\ r[x] \in R \cup {NULL}
    BY <1>1 DEF Tree
  <2>2. Closed(l, r, L) /\ Closed(l, r, R)
    BY <1>1, Zenon DEF Tree
  <2>3. Closed(l, r, X)
    BY <2>1, <2>2 DEF Closed
  <2>4. x \in X /\ X \in SUBSET A
    BY <1>2
  <2> HIDE DEF X
  <2>5. X = A
    BY <2>3, <2>4, Zenon DEF Tree
  <2>6. QED
    BY <2>5 DEF X
<1>4. ASSUME l[x] \in L PROVE l[x] \notin R
  <2>1. SUFFICES ASSUME l[x] \in R PROVE FALSE
    OBVIOUS
  <2>2. l[x] # NULL /\ u[l[x]] = x
    BY <1>1, <1>2, <1>4 DEF Tree, Parents
  <2>3. l[x] # r[x]
    BY <2>2, <1>2 DEF Tree
  <2>4. u[l[x]] \in R
    BY <1>1, <2>1, <2>3, HasParent
  <2>5. QED
    BY <2>2, <2>4, <1>1
<1>5. ASSUME NEW q \in L, q \notin R, NEW c \in {l[q], r[q]}, c # NULL PROVE c \in L /\ c \notin R
  <2>1. c \in L
    BY <1>1, <1>5 DEF Tree, Closed
  <2>2. u[c] = q
    BY <1>2, <1>5 DEF Tree, Parents
  <2>3. ASSUME c \in R PROVE FALSE
    <3>1. c # r[x]
      <4>1. u[r[x]] = x \/ r[x] = NULL
        BY <1>2 DEF Tree, Parents
      <4>2. QED
        BY <4>1, <2>2, <1>1, <1>5
    <3>2. u[c] \in R
      BY <1>1, <2>3, <3>1, HasParent
    <3>3. QED
      BY <3>2, <2>2, <1>5
  <2>4. QED
    BY <2>1, <2>3
<1>6. L \cap R = {}
  <2>1. Closed(l, r, L \ R)
    BY <1>5 DEF Closed
  <2>2. CASE l[x] \in L
    <3>1. l[x] \in L \ R /\ L \ R \in SUBSET L
      BY <2>2, <1>4
    <3>2. L \ R = L
      BY <3>1, <2>1, <1>1, Zenon DEF Tree
    <3>3. QED
      BY <3>2
  <2>3. CASE l[x] \notin L
    <3>1. L = {}
      BY <2>3, <1>1 DEF Tree
    <3>2. QED
      BY <3>1
  <2>4. QED
    BY <2>2, <2>3
<1>7. QED
  BY <1>1, <1>3, <1>6 DEF Splits

(* Two trees with nobody in common under a new root are a tree.            *)
LEMMA Join ==
  ASSUME NULL \notin Process, NEW l, NEW r, NEW u, NEW L, NEW R, NEW m \in Process,
         Tree(l, r, u, l[m], L), Tree(l, r, u, r[m], R),
         L \cap R = {}, m \notin L, m \notin R,
         \A c \in {l[m], r[m]} : c # NULL => u[c] = m
  PROVE  Tree(l, r, u, m, {m} \cup L \cup R)
<1> DEFINE A == {m} \cup L \cup R
<1>1. A \subseteq Process /\ m \in A
  BY DEF Tree
<1>2. l[m] \in L \cup {NULL} /\ r[m] \in R \cup {NULL}
  BY DEF Tree
<1>3. Closed(l, r, A)
  BY <1>2 DEF Tree, Closed
<1>4. Parents(l, r, u, m, A)
  <2> SUFFICES ASSUME NEW q \in A, NEW c \in {l[q], r[q]}, c # NULL PROVE c # m /\ u[c] = q
    BY Zenon DEF Parents
  <2>1. CASE q = m
    BY <2>1, <1>2
  <2>2. CASE q \in L
    BY <2>2 DEF Tree, Closed, Parents
  <2>3. CASE q \in R
    BY <2>3 DEF Tree, Closed, Parents
  <2>4. QED
    BY <2>1, <2>2, <2>3
<1>5. \A q \in A : l[q] = r[q] => l[q] = NULL
  BY <1>2 DEF Tree
<1>6. ASSUME NEW X \in SUBSET A, m \in X, Closed(l, r, X) PROVE X = A
  <2>1. ASSUME NEW B \in {L, R}, NEW y, y \in X \cup {NULL}, Tree(l, r, u, y, B) PROVE B \subseteq X
    <3>1. CASE B = {}
      BY <3>1
    <3>2. CASE B # {}
      <4>1. y \in B /\ NULL \notin B
        BY <3>2, <2>1 DEF Tree
      <4>2. y \in X \cap B /\ X \cap B \in SUBSET B
        BY <4>1, <2>1
      <4>3. Closed(l, r, B)
        BY <2>1, Zenon DEF Tree
      <4>4. Closed(l, r, X \cap B)
        BY <4>3, <1>6 DEF Closed
      <4>5. X \cap B = B
        BY <4>2, <4>4, <2>1, Zenon DEF Tree
      <4>6. QED
        BY <4>5
    <3>3. QED
      BY <3>1, <3>2
  <2>2. l[m] \in X \cup {NULL} /\ r[m] \in X \cup {NULL}
    BY <1>6, Zenon DEF Closed
  <2>3. L \subseteq X /\ R \subseteq X
    BY <2>1, <2>2
  <2>4. QED
    BY <2>3, <1>6
<1> HIDE DEF A
<1>7. A # {}
  BY <1>1
<1>8. QED
  BY <1>1, <1>3, <1>4, <1>5, <1>6, <1>7, Zenon DEF Tree, A

(* A tree stays one when nothing below its root changes.                   *)
LEMMA SameTree ==
  ASSUME NEW l, NEW r, NEW u, NEW x, NEW A, Tree(l, r, u, x, A), NULL \notin Process,
         NEW l2, NEW r2, NEW u2,
         \A q \in A : l2[q] = l[q] /\ r2[q] = r[q] /\ (q # x => u2[q] = u[q])
  PROVE  Tree(l2, r2, u2, x, A)
<1>1. Closed(l, r, A) /\ Parents(l, r, u, x, A) /\ A \subseteq Process
  BY Zenon DEF Tree
<1>2. Closed(l2, r2, A)
  BY <1>1 DEF Closed
<1>3. Parents(l2, r2, u2, x, A)
  BY <1>1 DEF Closed, Parents
<1>4. ASSUME NEW X \in SUBSET A, x \in X, Closed(l2, r2, X) PROVE X = A
  <2>1. Closed(l, r, X)
    BY <1>4 DEF Closed
  <2>2. QED
    BY <2>1, <1>4, Zenon DEF Tree
<1>5. \A q \in A : l2[q] = r2[q] => l2[q] = NULL
  BY DEF Tree
<1>6. IF A = {} THEN x = NULL ELSE x \in A
  BY Zenon DEF Tree
<1>7. QED
  BY <1>1, <1>2, <1>3, <1>4, <1>5, <1>6, Zenon DEF Tree

(* A child of q is not before it, or they are each before the other.       *)
Above(s, q, c) == Sched!Less(s[q], s[c]) \/ ~Sched!Less(s[c], s[q])

Sorted(l, r, s, A) ==
  \A q \in A : \A c \in {l[q], r[q]} : c # NULL => Above(s, q, c)

Calls == [left : Sched!Links, right : Sched!Links, parent : Sched!Links, a : Entry, b : Entry]

(* What a call of skew_heap_merge does before it calls itself.             *)
LEMMA DescendIs ==
  ASSUME NULL \notin Process, NEW s, NEW x \in Calls
  PROVE  /\ Sched!Descend(s)[x] \in Calls
         /\ x.a = NULL \/ x.b = NULL => Sched!Descend(s)[x] = x
         /\ x.a # NULL /\ x.b # NULL =>
              Sched!Descend(s)[x] =
                IF Sched!Less(s[x.a], s[x.b])
                  THEN Sched!Keep(x, x.a, x.right[x.a], x.b, s)
                  ELSE Sched!Keep(x, x.b, x.a, x.right[x.b], s)
<1> DEFINE y == IF x.a = NULL \/ x.b = NULL THEN x
                ELSE IF Sched!Less(s[x.a], s[x.b])
                       THEN Sched!Keep(x, x.a, x.right[x.a], x.b, s)
                       ELSE Sched!Keep(x, x.b, x.a, x.right[x.b], s)
<1>1. Sched!Descend(s)[x] = y
  BY Zenon DEF Sched!Descend, Calls, Entry
<1>2. /\ x.left \in [Process -> Entry] /\ x.right \in [Process -> Entry]
      /\ x.parent \in [Process -> Entry] /\ x.a \in Entry /\ x.b \in Entry
  BY DEF Calls, Sched!Links, Entry
<1>3. ASSUME NEW m \in Process, NEW a \in Entry, NEW b \in Entry
      PROVE  Sched!Keep(x, m, a, b, s) \in Calls
  <2>1. Sched!Top(a, b, s) \in Entry
    BY DEF Sched!Top
  <2>2. /\ [x.left EXCEPT ![m] = Sched!Top(a, b, s)] \in [Process -> Entry]
        /\ [x.right EXCEPT ![m] = x.left[m]] \in [Process -> Entry]
        /\ [x.parent EXCEPT ![Sched!Top(a, b, s)] = m] \in [Process -> Entry]
    BY <1>2, <2>1 DEF Entry
  <2>3. QED
    BY <2>2 DEF Calls, Sched!Links, Entry, Sched!Keep
<1>4. y \in Calls
  <2>1. CASE x.a = NULL \/ x.b = NULL
    BY <2>1
  <2>2. CASE x.a # NULL /\ x.b # NULL
    <3>1. x.a \in Process /\ x.b \in Process /\ x.right[x.a] \in Entry /\ x.right[x.b] \in Entry
      BY <1>2, <2>2 DEF Entry
    <3>2. QED
      BY <3>1, <2>2, <1>2, <1>3
  <2>3. QED
    BY <2>1, <2>2
<1>5. QED
  BY <1>1, <1>4, Zenon

(* The calls of a merge, one after the other.                              *)
MergeCalls(call, t, a, b, s) ==
  LET n == Cardinality(Process)
  IN /\ n \in Nat /\ call \in [0..n -> Calls]
     /\ call[0] = [left |-> t.left, right |-> t.right, parent |-> t.parent, a |-> a, b |-> b]
     /\ \A i \in 1..n : call[i] = Sched!Descend(s)[call[i - 1]]
     /\ Sched!Merge(t, a, b, s) =
          [root |-> Sched!Top(a, b, s),
           left |-> call[n].left, right |-> call[n].right, parent |-> call[n].parent]

LEMMA MergeRuns ==
  ASSUME Sched!StrideAssumption, NEW t, t.left \in Sched!Links, t.right \in Sched!Links,
         t.parent \in Sched!Links, NEW a \in Entry, NEW b \in Entry, NEW s
  PROVE  \E call : MergeCalls(call, t, a, b, s)
<1> DEFINE n == Cardinality(Process)
           start == [left |-> t.left, right |-> t.right, parent |-> t.parent, a |-> a, b |-> b]
           step == Sched!Descend(s)
           F == [z \in (1..n) \X Calls |-> step[z[2]]]
           G(f) == [i \in 0..n |-> IF i = 0 THEN start ELSE step[f[i - 1]]]
<1>1. n \in Nat /\ Sched!Cardinality(Process) = n
  BY SameCounts, FS_CardinalityType
<1>2. start \in Calls
  BY DEF Calls
<1> HIDE DEF start, n
<1>3. \A x \in Calls : step[x] \in Calls
  BY DescendIs
<1> HIDE DEF step
<1>4. StepOf(F, n, Calls) /\ \A i \in 1..n : \A x \in Calls : F[<<i, x>>] = step[x]
  BY <1>3 DEF StepOf
<1> HIDE DEF F
<1>5. PICK f : Iterates(f, F, n, Calls, start)
  BY <1>1, <1>2, <1>4, Recursion
<1>6. /\ f \in [0..n -> Calls] /\ f[0] = start
      /\ \A i \in 1..n : f[i] = step[f[i - 1]]
  <2>1. f \in [0..n -> Calls] /\ f[0] = start /\ \A i \in 1..n : f[i] = F[<<i, f[i-1]>>]
    BY <1>5 DEF Iterates
  <2>2. \A i \in 1..n : f[i - 1] \in Calls
    BY <2>1, <1>1
  <2>3. QED
    BY <2>1, <2>2, <1>4
<1>7. f = G(f)
  BY <1>1, <1>6
<1> DEFINE call == CHOOSE g : g = G(g)
<1>8. Sched!Merge(t, a, b, s) =
        [root |-> Sched!Top(a, b, s),
         left |-> call[n].left, right |-> call[n].right, parent |-> call[n].parent]
  BY <1>1, Zenon DEF Sched!Merge, start, step
<1>9. call = G(call)
  <2> HIDE DEF G
  <2> QED BY <1>7, Zenon
<1> HIDE DEF call
<1>10. call[0] = start /\ \A i \in 1..n : call[i] = step[call[i - 1]]
  BY <1>1, <1>9
<1>11. \A i \in 0..n : call[i] = f[i]
  <2> DEFINE T == {i \in Nat : i <= n => call[i] = f[i]}
  <2>1. 0 \in T
    BY <1>10, <1>6
  <2>2. ASSUME NEW i \in T PROVE i + 1 \in T
    <3> SUFFICES ASSUME i + 1 <= n PROVE call[i + 1] = f[i + 1]
      BY <2>2
    <3>1. i \in Nat /\ i <= n /\ i + 1 \in 1..n /\ (i + 1) - 1 = i
      BY <1>1
    <3>2. QED
      BY <3>1, <2>2, <1>10, <1>6
  <2>3. T = Nat
    <3> HIDE DEF T
    <3>1. T \in SUBSET Nat
      BY DEF T
    <3>2. QED
      BY <2>1, <2>2, <3>1, Induction
  <2>4. QED
    BY <2>3, <1>1
<1>12. call \in [0..n -> Calls]
  <2>1. call = [i \in 0..n |-> call[i]]
    BY <1>9
  <2>2. QED
    BY <2>1, <1>11, <1>6
<1>13. QED
  BY <1>1, <1>8, <1>10, <1>12, Zenon DEF MergeCalls, start, step, n

(* A call has two trees with nobody in common to merge,                    *)
Pair(x, A, B) ==
  /\ Tree(x.left, x.right, x.parent, x.a, A)
  /\ Tree(x.left, x.right, x.parent, x.b, B)
  /\ A \cap B = {}

(* and the calls that follow make one tree of them, under the one on top,  *)
(* whose parent they leave to the caller, and touch no other process.      *)
MergedTo(x, e, s, A, B) ==
  LET top == Sched!Top(x.a, x.b, s)
  IN /\ Tree(e.left, e.right, e.parent, top, A \cup B)
     /\ \A q \in Process \ (A \cup B) :
          e.left[q] = x.left[q] /\ e.right[q] = x.right[q] /\ e.parent[q] = x.parent[q]
     /\ top # NULL => e.parent[top] = x.parent[top]
     /\ Sorted(x.left, x.right, s, A) /\ Sorted(x.left, x.right, s, B)
          => Sorted(e.left, e.right, s, A \cup B)

(* With an empty tree there is nothing to do.                              *)
LEMMA NothingToMerge ==
  ASSUME NULL \notin Process, NEW x \in Calls, NEW s, NEW A, NEW B, Pair(x, A, B),
         x.a = NULL \/ x.b = NULL
  PROVE  MergedTo(x, x, s, A, B)
<1>1. CASE x.a = NULL
  <2>1. A = {} /\ A \cup B = B
    BY <1>1 DEF Pair, Tree
  <2>2. Sched!Top(x.a, x.b, s) = x.b
    BY <1>1 DEF Sched!Top
  <2>3. QED
    BY <2>1, <2>2 DEF MergedTo, Pair
<1>2. CASE x.a # NULL /\ x.b = NULL
  <2>1. B = {} /\ A \cup B = A
    BY <1>2 DEF Pair, Tree
  <2>2. Sched!Top(x.a, x.b, s) = x.a
    BY <1>2 DEF Sched!Top
  <2>3. QED
    BY <2>1, <2>2 DEF MergedTo, Pair
<1>3. QED
  BY <1>1, <1>2

(* m stays on top of its tree M = {m} \cup L \cup R; its right tree and the *)
(* other tree O are merged, as C and D, and become its left tree.          *)
OnTop(x, m, o, M, O, L, R) ==
  /\ m \in M /\ M = {m} \cup L \cup R /\ M \cap O = {} /\ L \cap R = {} /\ m \notin L \cup R
  /\ Tree(x.left, x.right, x.parent, m, M) /\ Tree(x.left, x.right, x.parent, o, O)
  /\ Tree(x.left, x.right, x.parent, x.left[m], L)
  /\ Tree(x.left, x.right, x.parent, x.right[m], R)

Passed(x, m, o, R, O, a, b, C, D) ==
  \/ a = x.right[m] /\ b = o /\ C = R /\ D = O
  \/ a = o /\ b = x.right[m] /\ C = O /\ D = R

Keeping(x, y, m, o, M, O, L, R, s, a, b, C, D) ==
  /\ x \in Calls /\ m \in Process /\ o \in Entry
  /\ OnTop(x, m, o, M, O, L, R) /\ Passed(x, m, o, R, O, a, b, C, D)
  /\ y = Sched!Keep(x, m, a, b, s)

(* What the first call, y, is given and what it finds.                     *)
Handed(x, y, m, a, b, s, C, D) ==
  LET top == Sched!Top(a, b, s)
  IN /\ Pair(y, C, D) /\ y.a = a /\ y.b = b /\ top \in C \cup D \cup {NULL}
     /\ y.left[m] = top /\ y.right[m] = x.left[m] /\ (top # NULL => y.parent[top] = m)
     /\ \A q \in Process \ {m} : y.left[q] = x.left[q] /\ y.right[q] = x.right[q]
     /\ \A q \in Process \ {top} : y.parent[q] = x.parent[q]

LEMMA KeepPair ==
  ASSUME NULL \notin Process, NEW x, NEW y, NEW m, NEW o, NEW M, NEW O, NEW L, NEW R, NEW s,
         NEW a, NEW b, NEW C, NEW D, Keeping(x, y, m, o, M, O, L, R, s, a, b, C, D)
  PROVE  Handed(x, y, m, a, b, s, C, D) /\ C \cup D = R \cup O
<1> DEFINE top == Sched!Top(a, b, s)
<1>0. /\ x \in Calls /\ m \in Process /\ o \in Entry
      /\ OnTop(x, m, o, M, O, L, R) /\ Passed(x, m, o, R, O, a, b, C, D)
      /\ y = Sched!Keep(x, m, a, b, s)
  BY Zenon DEF Keeping
<1>1. /\ x.left \in [Process -> Entry] /\ x.right \in [Process -> Entry]
      /\ x.parent \in [Process -> Entry]
  BY <1>0 DEF Calls, Sched!Links, Entry
<1>2. Tree(x.left, x.right, x.parent, a, C) /\ Tree(x.left, x.right, x.parent, b, D)
  BY <1>0, Zenon DEF OnTop, Passed
<1>3. a \in C \cup {NULL} /\ b \in D \cup {NULL} /\ C \subseteq Process /\ D \subseteq Process
  BY <1>2 DEF Tree
<1>4. C \cap D = {} /\ m \notin C /\ m \notin D /\ C \cup D = R \cup O
  BY <1>0 DEF OnTop, Passed
<1>5. top \in {a, b}
  BY DEF Sched!Top
<1>6. /\ y.left = [x.left EXCEPT ![m] = top] /\ y.right = [x.right EXCEPT ![m] = x.left[m]]
      /\ y.parent = [x.parent EXCEPT ![top] = m] /\ y.a = a /\ y.b = b
  BY <1>0 DEF Sched!Keep
<1> HIDE DEF top
<1>7. /\ y.left[m] = top /\ y.right[m] = x.left[m]
      /\ \A q \in Process \ {m} : y.left[q] = x.left[q] /\ y.right[q] = x.right[q]
      /\ \A q \in Process \ {top} : y.parent[q] = x.parent[q]
      /\ top # NULL => y.parent[top] = m
  BY <1>0, <1>1, <1>3, <1>5, <1>6
<1>8. Tree(y.left, y.right, y.parent, a, C)
  <2>1. \A q \in C : q # m /\ (q = top => q = a)
    BY <1>3, <1>4, <1>5
  <2>2. \A q \in C : y.left[q] = x.left[q] /\ y.right[q] = x.right[q] /\ (q # a => y.parent[q] = x.parent[q])
    BY <2>1, <1>3, <1>7
  <2>3. QED
    BY <2>2, <1>2, SameTree
<1>9. Tree(y.left, y.right, y.parent, b, D)
  <2>1. \A q \in D : q # m /\ (q = top => q = b)
    BY <1>3, <1>4, <1>5
  <2>2. \A q \in D : y.left[q] = x.left[q] /\ y.right[q] = x.right[q] /\ (q # b => y.parent[q] = x.parent[q])
    BY <2>1, <1>3, <1>7
  <2>3. QED
    BY <2>2, <1>2, SameTree
<1>10. QED
  BY <1>3, <1>4, <1>5, <1>6, <1>7, <1>8, <1>9 DEF Pair, Handed, top

(* What the last call leaves, e.                                           *)
KeptMerged(x, e, m, o, M, O, s) ==
  /\ Tree(e.left, e.right, e.parent, m, M \cup O)
  /\ \A q \in Process \ (M \cup O) :
       e.left[q] = x.left[q] /\ e.right[q] = x.right[q] /\ e.parent[q] = x.parent[q]
  /\ e.parent[m] = x.parent[m]
  /\ /\ o # NULL => Above(s, m, o)
     /\ Sorted(x.left, x.right, s, M) /\ Sorted(x.left, x.right, s, O)
     => Sorted(e.left, e.right, s, M \cup O)

LEMMA KeepMerges ==
  ASSUME NULL \notin Process, NEW x, NEW y, NEW m, NEW o, NEW M, NEW O, NEW L, NEW R, NEW s,
         NEW a, NEW b, NEW C, NEW D, Keeping(x, y, m, o, M, O, L, R, s, a, b, C, D), NEW e, MergedTo(y, e, s, C, D)
  PROVE  KeptMerged(x, e, m, o, M, O, s)
<1> DEFINE top == Sched!Top(a, b, s)
           T == C \cup D
<1>0. /\ x \in Calls /\ m \in Process /\ o \in Entry
      /\ OnTop(x, m, o, M, O, L, R) /\ Passed(x, m, o, R, O, a, b, C, D)
      /\ y = Sched!Keep(x, m, a, b, s)
  BY Zenon DEF Keeping
<1>1. /\ Pair(y, C, D) /\ y.a = a /\ y.b = b /\ T = R \cup O /\ top \in T \cup {NULL}
      /\ y.left[m] = top /\ y.right[m] = x.left[m] /\ (top # NULL => y.parent[top] = m)
      /\ \A q \in Process \ {m} : y.left[q] = x.left[q] /\ y.right[q] = x.right[q]
      /\ \A q \in Process \ {top} : y.parent[q] = x.parent[q]
  <2>1. Handed(x, y, m, a, b, s, C, D) /\ C \cup D = R \cup O
    BY KeepPair
  <2>2. QED
    BY <2>1 DEF Handed
<1>2. /\ Tree(e.left, e.right, e.parent, top, T)
      /\ \A q \in Process \ T :
           e.left[q] = y.left[q] /\ e.right[q] = y.right[q] /\ e.parent[q] = y.parent[q]
      /\ top # NULL => e.parent[top] = y.parent[top]
  BY <1>1, Zenon DEF MergedTo
<1>3. top \in {x.right[m], o}
  BY <1>0 DEF Sched!Top, Passed
<1>4. /\ Sorted(y.left, y.right, s, R) /\ Sorted(y.left, y.right, s, O)
           => Sorted(e.left, e.right, s, T)
  BY <1>0, Zenon DEF MergedTo, Passed
<1> HIDE DEF top, T
<1>5. /\ M = {m} \cup L \cup R /\ M \cap O = {} /\ L \cap R = {} /\ m \notin L \cup R
      /\ L \subseteq Process /\ R \subseteq Process /\ O \subseteq Process /\ m \in Process
  BY <1>0 DEF OnTop, Tree
<1>6. m \notin T /\ L \cap T = {} /\ T \subseteq Process
  BY <1>1, <1>5
<1>7. /\ e.left[m] = top /\ e.right[m] = x.left[m] /\ e.parent[m] = x.parent[m]
      /\ top # NULL => e.parent[top] = m
  BY <1>1, <1>2, <1>5, <1>6
<1>8. \A q \in Process \ (T \cup {m}) :
        e.left[q] = x.left[q] /\ e.right[q] = x.right[q] /\ e.parent[q] = x.parent[q]
  BY <1>1, <1>2
<1>9. Tree(e.left, e.right, e.parent, x.left[m], L)
  <2>1. \A q \in L : e.left[q] = x.left[q] /\ e.right[q] = x.right[q] /\ e.parent[q] = x.parent[q]
    BY <1>5, <1>6, <1>8
  <2>2. Tree(x.left, x.right, x.parent, x.left[m], L)
    BY <1>0, Zenon DEF OnTop
  <2>3. QED
    BY <2>1, <2>2, SameTree
<1>10. x.left[m] # NULL => e.parent[x.left[m]] = m
  <2>1. SUFFICES ASSUME x.left[m] # NULL PROVE e.parent[x.left[m]] = m
    OBVIOUS
  <2>2. x.left[m] \in L
    <3>1. Tree(x.left, x.right, x.parent, x.left[m], L)
      BY <1>0, Zenon DEF OnTop
    <3>2. QED
      BY <3>1, <2>1 DEF Tree
  <2>3. x.parent[x.left[m]] = m
    <3>1. Tree(x.left, x.right, x.parent, m, M)
      BY <1>0, Zenon DEF OnTop
    <3>2. QED
      BY <3>1, <2>1, <1>5 DEF Tree, Parents
  <2>4. QED
    BY <2>2, <2>3, <1>5, <1>6, <1>8
<1>11. Tree(e.left, e.right, e.parent, m, M \cup O)
  <2>1. Tree(e.left, e.right, e.parent, m, {m} \cup T \cup L)
    <3>1. T \cap L = {} /\ m \notin T /\ m \notin L
      BY <1>5, <1>6
    <3>2. \A c \in {e.left[m], e.right[m]} : c # NULL => e.parent[c] = m
      BY <1>7, <1>10
    <3>3. Tree(e.left, e.right, e.parent, e.left[m], T) /\ Tree(e.left, e.right, e.parent, e.right[m], L)
      BY <1>2, <1>7, <1>9
    <3>4. QED
      BY <3>1, <3>2, <3>3, <1>5, Join
  <2>2. {m} \cup T \cup L = M \cup O
    BY <1>1, <1>5
  <2>3. QED
    BY <2>1, <2>2
<1>12. \A q \in Process \ (M \cup O) :
        e.left[q] = x.left[q] /\ e.right[q] = x.right[q] /\ e.parent[q] = x.parent[q]
  BY <1>1, <1>5, <1>8
<1>13. ASSUME o # NULL => Above(s, m, o),
              Sorted(x.left, x.right, s, M), Sorted(x.left, x.right, s, O)
       PROVE  Sorted(e.left, e.right, s, M \cup O)
  <2>3. \A q \in R \cup O : y.left[q] = x.left[q] /\ y.right[q] = x.right[q]
    BY <1>1, <1>5
  <2>4. Sorted(y.left, y.right, s, R) /\ Sorted(y.left, y.right, s, O)
    BY <2>3, <1>5, <1>13 DEF Sorted
  <2>5. Sorted(e.left, e.right, s, T)
    BY <2>4, <1>4
  <2>6. top # NULL => Above(s, m, top)
    <3>1. x.right[m] # NULL => Above(s, m, x.right[m])
      BY <1>5, <1>13 DEF Sorted
    <3>2. QED
      BY <3>1, <1>3, <1>13
  <2>7. x.left[m] # NULL => Above(s, m, x.left[m])
    BY <1>5, <1>13 DEF Sorted
  <2>8. \A q \in L : e.left[q] = x.left[q] /\ e.right[q] = x.right[q]
    BY <1>5, <1>6, <1>8
  <2>9. \A q \in L : \A c \in {e.left[q], e.right[q]} : c # NULL => Above(s, q, c)
    BY <2>8, <1>5, <1>13 DEF Sorted
  <2>10. \A c \in {e.left[m], e.right[m]} : c # NULL => Above(s, m, c)
    BY <2>6, <2>7, <1>7
  <2>11. M \cup O = T \cup L \cup {m}
    BY <1>1, <1>5
  <2>12. QED
    BY <2>5, <2>9, <2>10, <2>11, Zenon DEF Sorted
<1>14. QED
  BY <1>7, <1>11, <1>12, <1>13 DEF KeptMerged

(* A call of skew_heap_merge with two trees passes two trees on, one       *)
(* process smaller; what becomes of them is what becomes of its own.       *)
LEMMA CallMerges ==
  ASSUME NULL \notin Process, NEW x \in Calls, NEW s, NEW A, NEW B, Pair(x, A, B),
         x.a # NULL, x.b # NULL, NEW y, y = Sched!Descend(s)[x]
  PROVE  \E C, D : /\ Pair(y, C, D)
                   /\ C \cup D \subseteq (A \cup B) \ {Sched!Top(x.a, x.b, s)}
                   /\ Sched!Top(x.a, x.b, s) \in A \cup B
                   /\ \A e : MergedTo(y, e, s, C, D) => MergedTo(x, e, s, A, B)
<1>1. /\ Tree(x.left, x.right, x.parent, x.a, A) /\ Tree(x.left, x.right, x.parent, x.b, B)
      /\ A \cap B = {} /\ x.a \in A /\ x.b \in B /\ A \subseteq Process /\ B \subseteq Process
  BY DEF Pair, Tree
<1>2. x.a \in Process /\ x.b \in Process /\ x.a \in Entry /\ x.b \in Entry
  BY <1>1 DEF Entry
<1>3. CASE Sched!Less(s[x.a], s[x.b])
  <2>0. PICK L, R : Splits(x.left, x.right, x.parent, x.a, A, L, R)
    BY <1>1, Split
  <2>1. /\ Tree(x.left, x.right, x.parent, x.left[x.a], L)
        /\ Tree(x.left, x.right, x.parent, x.right[x.a], R)
        /\ x.a \notin L /\ x.a \notin R /\ L \cap R = {} /\ A = {x.a} \cup L \cup R
    BY <2>0, Zenon DEF Splits
  <2>2. y = Sched!Keep(x, x.a, x.right[x.a], x.b, s)
    BY <1>3, DescendIs
  <2>3. Sched!Top(x.a, x.b, s) = x.a
    BY <1>3 DEF Sched!Top
  <2>4. Keeping(x, y, x.a, x.b, A, B, L, R, s, x.right[x.a], x.b, R, B)
    <3>1. OnTop(x, x.a, x.b, A, B, L, R)
      BY <1>1, <2>1 DEF OnTop
    <3>2. Passed(x, x.a, x.b, R, B, x.right[x.a], x.b, R, B)
      BY DEF Passed
    <3>3. QED
      BY <3>1, <3>2, <1>2, <2>2 DEF Keeping
  <2>5. Pair(y, R, B) /\ R \cup B \subseteq (A \cup B) \ {x.a}
    <3>1. Handed(x, y, x.a, x.right[x.a], x.b, s, R, B)
      BY <2>4, KeepPair, Zenon
    <3>2. Pair(y, R, B)
      BY <3>1, Zenon DEF Handed
    <3>3. R \cup B \subseteq (A \cup B) \ {x.a}
      BY <1>1, <2>1
    <3>4. QED
      BY <3>2, <3>3
  <2>6. ASSUME NEW e, MergedTo(y, e, s, R, B) PROVE MergedTo(x, e, s, A, B)
    <3>1. KeptMerged(x, e, x.a, x.b, A, B, s)
      BY <2>4, <2>6, KeepMerges
    <3>2. Above(s, x.a, x.b)
      BY <1>3 DEF Above
    <3>3. QED
      BY <3>1, <3>2, <2>3 DEF MergedTo, KeptMerged
  <2>7. QED
    BY <2>3, <2>5, <2>6, <1>1
<1>4. CASE ~Sched!Less(s[x.a], s[x.b])
  <2>0. PICK L, R : Splits(x.left, x.right, x.parent, x.b, B, L, R)
    BY <1>1, Split
  <2>1. /\ Tree(x.left, x.right, x.parent, x.left[x.b], L)
        /\ Tree(x.left, x.right, x.parent, x.right[x.b], R)
        /\ x.b \notin L /\ x.b \notin R /\ L \cap R = {} /\ B = {x.b} \cup L \cup R
    BY <2>0, Zenon DEF Splits
  <2>2. y = Sched!Keep(x, x.b, x.a, x.right[x.b], s)
    BY <1>4, DescendIs
  <2>3. Sched!Top(x.a, x.b, s) = x.b
    BY <1>4 DEF Sched!Top
  <2>4. Keeping(x, y, x.b, x.a, B, A, L, R, s, x.a, x.right[x.b], A, R)
    <3>1. OnTop(x, x.b, x.a, B, A, L, R)
      BY <1>1, <2>1 DEF OnTop
    <3>2. Passed(x, x.b, x.a, R, A, x.a, x.right[x.b], A, R)
      BY DEF Passed
    <3>3. QED
      BY <3>1, <3>2, <1>2, <2>2 DEF Keeping
  <2>5. Pair(y, A, R) /\ A \cup R \subseteq (A \cup B) \ {x.b}
    <3>1. Handed(x, y, x.b, x.a, x.right[x.b], s, A, R)
      BY <2>4, KeepPair, Zenon
    <3>2. Pair(y, A, R)
      BY <3>1, Zenon DEF Handed
    <3>3. A \cup R \subseteq (A \cup B) \ {x.b}
      BY <1>1, <2>1
    <3>4. QED
      BY <3>2, <3>3
  <2>6. ASSUME NEW e, MergedTo(y, e, s, A, R) PROVE MergedTo(x, e, s, A, B)
    <3>1. KeptMerged(x, e, x.b, x.a, B, A, s)
      BY <2>4, <2>6, KeepMerges
    <3>2. B \cup A = A \cup B /\ Above(s, x.b, x.a)
      BY <1>4 DEF Above
    <3>3. QED
      BY <3>1, <3>2, <2>3 DEF MergedTo, KeptMerged
  <2>7. QED
    BY <2>3, <2>5, <2>6, <1>1
<1>5. QED
  BY <1>3, <1>4

(* k calls before the last, with trees that k calls can merge, what is     *)
(* left at the end is the merge of the two trees.                          *)
LEMMA CallsMerge ==
  ASSUME Sched!StrideAssumption, NEW t, NEW a, NEW b, NEW s, NEW call, MergeCalls(call, t, a, b, s),
         NEW k \in Nat, k <= Cardinality(Process), NEW A, NEW B,
         Pair(call[Cardinality(Process) - k], A, B),
         \/ call[Cardinality(Process) - k].a = NULL
         \/ call[Cardinality(Process) - k].b = NULL
         \/ Cardinality(A \cup B) <= k
  PROVE  MergedTo(call[Cardinality(Process) - k], call[Cardinality(Process)], s, A, B)
<1> DEFINE n == Cardinality(Process)
           Small(x, C, D, j) == x.a = NULL \/ x.b = NULL \/ Cardinality(C \cup D) <= j
           P(j) == \A C, D : Pair(call[n - j], C, D) /\ Small(call[n - j], C, D, j) =>
                               MergedTo(call[n - j], call[n], s, C, D)
           T == {j \in Nat : j <= n => P(j)}
<1>0. NULL \notin Process /\ IsFiniteSet(Process)
  BY SameCounts
<1>1. /\ n \in Nat /\ call \in [0..n -> Calls]
      /\ \A i \in 1..n : call[i] = Sched!Descend(s)[call[i - 1]]
  BY DEF MergeCalls
<1> HIDE DEF n
<1>2. 0 \in T
  <2> SUFFICES ASSUME NEW C, NEW D, Pair(call[n - 0], C, D), Small(call[n - 0], C, D, 0)
               PROVE  MergedTo(call[n - 0], call[n], s, C, D)
    BY Zenon
  <2>1. n - 0 = n /\ call[n] \in Calls
    BY <1>1
  <2>2. ASSUME Cardinality(C \cup D) <= 0 PROVE call[n].a = NULL
    <3>1. C \cup D \subseteq Process
      BY DEF Pair, Tree
    <3>2. IsFiniteSet(C \cup D)
      BY <3>1, <1>0, FS_Subset
    <3>3. C \cup D = {}
      BY <3>2, <2>2, FS_CardinalityType, FS_EmptySet
    <3>4. QED
      BY <3>3, <2>1 DEF Pair, Tree
  <2>3. call[n].a = NULL \/ call[n].b = NULL
    BY <2>1, <2>2
  <2>4. QED
    BY <2>1, <2>3, <1>0, NothingToMerge
<1>3. ASSUME NEW j \in T PROVE j + 1 \in T
  <2> SUFFICES ASSUME j + 1 <= n, NEW C, NEW D,
                      Pair(call[n - (j + 1)], C, D), Small(call[n - (j + 1)], C, D, j + 1)
               PROVE  MergedTo(call[n - (j + 1)], call[n], s, C, D)
    <3> HIDE DEF Small
    <3> QED OBVIOUS
  <2> DEFINE x == call[n - (j + 1)]
             y == call[n - j]
  <2>1. /\ j \in Nat /\ j <= n /\ n - j \in 1..n /\ (n - j) - 1 = n - (j + 1)
        /\ n - (j + 1) \in 0..n
    BY <1>1
  <2>2. P(j)
    <3> HIDE DEF P
    <3> QED BY <2>1
  <2>3. x \in Calls /\ y = Sched!Descend(s)[x] /\ Pair(x, C, D) /\ Small(x, C, D, j + 1)
    BY <1>1, <2>1
  <2> HIDE DEF x, y
  <2>4. ASSUME NEW E, NEW F, Pair(y, E, F), Small(y, E, F, j) PROVE MergedTo(y, call[n], s, E, F)
    <3> HIDE DEF Small
    <3> QED BY <2>2, <2>4 DEF y
  <2>5. CASE x.a = NULL \/ x.b = NULL
    <3>1. y = x
      BY <2>3, <2>5, <1>0, DescendIs
    <3>2. MergedTo(y, call[n], s, C, D)
      BY <2>3, <2>4, <2>5, <3>1
    <3>3. QED
      BY <3>1, <3>2 DEF x
  <2>6. CASE x.a # NULL /\ x.b # NULL
    <3> DEFINE top == Sched!Top(x.a, x.b, s)
    <3>1. PICK E, F : /\ Pair(y, E, F) /\ E \cup F \subseteq (C \cup D) \ {top} /\ top \in C \cup D
                      /\ \A e : MergedTo(y, e, s, E, F) => MergedTo(x, e, s, C, D)
      BY <2>3, <2>6, <1>0, CallMerges
    <3> HIDE DEF top
    <3>2. Cardinality(E \cup F) <= j
      <4>1. IsFiniteSet(C \cup D)
        <5>1. C \cup D \subseteq Process
          BY <2>3 DEF Pair, Tree
        <5>2. QED
          BY <5>1, <1>0, FS_Subset
      <4>2. Cardinality(C \cup D) <= j + 1
        BY <2>3, <2>6
      <4>3. Cardinality((C \cup D) \ {top}) = Cardinality(C \cup D) - 1
        BY <4>1, <3>1, FS_RemoveElement
      <4>4. Cardinality(C \cup D) \in Nat
        BY <4>1, FS_CardinalityType
      <4>5. IsFiniteSet((C \cup D) \ {top})
        BY <4>1, FS_Subset
      <4>6. Cardinality(E \cup F) \in Nat /\ Cardinality(E \cup F) <= Cardinality((C \cup D) \ {top})
        BY <4>5, <3>1, FS_Subset, FS_CardinalityType
      <4>7. QED
        BY <4>2, <4>3, <4>4, <4>6, <2>1
    <3>3. MergedTo(y, call[n], s, E, F)
      BY <3>1, <3>2, <2>4
    <3>4. QED
      BY <3>1, <3>3 DEF x
  <2>7. QED
    BY <2>5, <2>6
<1>4. T = Nat
  <2> HIDE DEF T
  <2>1. T \in SUBSET Nat
    BY DEF T
  <2>2. QED
    BY <1>2, <1>3, <2>1, Induction
<1>5. P(k)
  <2> HIDE DEF P
  <2> QED BY <1>4 DEF n
<1>6. QED
  BY <1>5 DEF n

(* What skew_heap_merge returns.                                           *)
Merges(t, m, a, b, s, A, B) ==
  /\ m.root = Sched!Top(a, b, s)
  /\ m.left \in Sched!Links /\ m.right \in Sched!Links /\ m.parent \in Sched!Links
  /\ Tree(m.left, m.right, m.parent, m.root, A \cup B)
  /\ m.root # NULL => m.parent[m.root] = t.parent[m.root]
  /\ Sorted(t.left, t.right, s, A) /\ Sorted(t.left, t.right, s, B)
     => Sorted(m.left, m.right, s, A \cup B)

LEMMA MergeFacts ==
  ASSUME Sched!StrideAssumption, NEW t, t.left \in Sched!Links, t.right \in Sched!Links,
         t.parent \in Sched!Links, NEW a, NEW b, NEW s, NEW A, NEW B,
         Tree(t.left, t.right, t.parent, a, A), Tree(t.left, t.right, t.parent, b, B),
         A \cap B = {}, NEW m, m = Sched!Merge(t, a, b, s)
  PROVE  Merges(t, m, a, b, s, A, B)
<1> DEFINE n == Cardinality(Process)
<1>1. a \in Entry /\ b \in Entry
  BY DEF Tree, Entry
<1>2. PICK call : MergeCalls(call, t, a, b, s)
  BY <1>1, MergeRuns
<1>3. /\ n \in Nat /\ call \in [0..n -> Calls]
      /\ call[0] = [left |-> t.left, right |-> t.right, parent |-> t.parent, a |-> a, b |-> b]
      /\ m = [root |-> Sched!Top(a, b, s),
              left |-> call[n].left, right |-> call[n].right, parent |-> call[n].parent]
  BY <1>2 DEF MergeCalls
<1> DEFINE x == call[0]
           e == call[n]
<1>4. /\ x.left = t.left /\ x.right = t.right /\ x.parent = t.parent /\ x.a = a /\ x.b = b
      /\ m.left = e.left /\ m.right = e.right /\ m.parent = e.parent /\ m.root = Sched!Top(a, b, s)
  BY <1>3
<1>5. e \in Calls
  BY <1>3
<1>6. Pair(x, A, B)
  BY <1>4 DEF Pair
<1>7. Cardinality(A \cup B) <= n
  <2>1. A \cup B \subseteq Process
    BY DEF Tree
  <2>2. QED
    BY <2>1, SameCounts, FS_Subset
<1>8. n - n = 0 /\ n <= n
  BY <1>3
<1>9. MergedTo(x, e, s, A, B)
  BY <1>2, <1>3, <1>6, <1>7, <1>8, CallsMerge
<1> HIDE DEF x, e
<1>10. QED
  BY <1>4, <1>5, <1>9 DEF MergedTo, Calls, Merges

-----------------------------------------------------------------------------
(* The order of strides *)

Strides == 0..Sched!Modulus - 1

LEMMA ModulusIs ==
  ASSUME Sched!StrideAssumption
  PROVE  /\ BIG_STRIDE \in Nat /\ BIG_STRIDE > 0
         /\ Sched!Modulus \in Nat /\ Sched!Modulus = BIG_STRIDE + BIG_STRIDE + 2
BY DEF Sched!Modulus

LEMMA AheadIs ==
  ASSUME Sched!StrideAssumption, NEW x \in Strides, NEW y \in Strides
  PROVE  /\ Sched!Ahead(x, y) = IF x < y THEN x - y + Sched!Modulus ELSE x - y
         /\ Sched!Ahead(x, y) \in Strides
<1> DEFINE n == Sched!Modulus
           z == x + n - y
<1>1. n \in Nat /\ n > 0 /\ z \in Nat /\ z < n + n /\ x \in 0..n-1 /\ y \in 0..n-1
  BY ModulusIs DEF Strides
<1>2. z % n = IF z < n THEN z ELSE IF z < n + n THEN z - n ELSE 0
  <2> HIDE DEF z, n
  <2> QED BY <1>1, Wrap
<1>3. Sched!Ahead(x, y) = z % n
  BY DEF Sched!Ahead
<1> HIDE DEF n
<1>4. QED
  BY <1>1, <1>2, <1>3 DEF Strides, n

(* As long as both are at most BIG_STRIDE ahead of some w, the order of    *)
(* proc_stride_comp_f is the one in which they come after it.              *)
LEMMA LessIs ==
  ASSUME Sched!StrideAssumption, NEW w \in Strides, NEW x \in Strides, NEW y \in Strides,
         Sched!Ahead(x, w) <= BIG_STRIDE, Sched!Ahead(y, w) <= BIG_STRIDE
  PROVE  /\ Sched!Less(x, y) <=> Sched!Ahead(x, w) < Sched!Ahead(y, w)
         /\ Sched!Ahead(y, w) <= Sched!Ahead(x, w) => Sched!Ahead(x, y) <= BIG_STRIDE
<1> DEFINE n == Sched!Modulus
<1>1. /\ Sched!Ahead(x, w) = IF x < w THEN x - w + n ELSE x - w
      /\ Sched!Ahead(y, w) = IF y < w THEN y - w + n ELSE y - w
      /\ Sched!Ahead(x, y) = IF x < y THEN x - y + n ELSE x - y
  BY AheadIs
<1>2. n = BIG_STRIDE + BIG_STRIDE + 2 /\ BIG_STRIDE \in Nat
  BY ModulusIs
<1>3. x \in 0..n-1 /\ y \in 0..n-1 /\ w \in 0..n-1
  BY DEF Strides
<1> HIDE DEF n
<1>4. QED
  BY <1>1, <1>2, <1>3 DEF Sched!Less

(* w is at most BIG_STRIDE behind everybody in A.                          *)
From(w, s, A) == w \in Strides /\ \A q \in A : Sched!Ahead(s[q], w) <= BIG_STRIDE

(* Of two different strides one is before the other, or each is.           *)
LEMMA NeitherLess ==
  ASSUME Sched!StrideAssumption, NEW x \in Strides, NEW y \in Strides,
         ~Sched!Less(x, y), ~Sched!Less(y, x)
  PROVE  x = y
<1> DEFINE n == Sched!Modulus
<1>1. /\ Sched!Ahead(x, y) = IF x < y THEN x - y + n ELSE x - y
      /\ Sched!Ahead(y, x) = IF y < x THEN y - x + n ELSE y - x
  BY AheadIs
<1>2. n = BIG_STRIDE + BIG_STRIDE + 2 /\ BIG_STRIDE \in Nat
  BY ModulusIs
<1>3. x \in 0..n-1 /\ y \in 0..n-1
  BY DEF Strides
<1> HIDE DEF n
<1>4. QED
  BY <1>1, <1>2, <1>3 DEF Sched!Less

(* One of them has the others at most BIG_STRIDE ahead.                    *)
LEMMA SomeoneFirst ==
  ASSUME Sched!StrideAssumption, NEW s \in [Process -> Strides], NEW A \in SUBSET Process, A # {},
         NEW w, From(w, s, A)
  PROVE  \E p \in A : \A q \in A : Sched!Ahead(s[q], s[p]) <= BIG_STRIDE
<1> DEFINE T == {Sched!Ahead(s[q], w) : q \in A}
<1>1. w \in Strides /\ \A q \in A : s[q] \in Strides /\ Sched!Ahead(s[q], w) <= BIG_STRIDE
  BY DEF From
<1>2. \A q \in A : Sched!Ahead(s[q], w) \in Strides
  BY <1>1, AheadIs
<1>3. T \in SUBSET Nat /\ T # {}
  BY <1>2, ModulusIs DEF Strides
<1>4. PICK k \in T : \A n \in T : k <= n
  <2> HIDE DEF T
  <2> QED BY <1>3, Least
<1>5. PICK p \in A : k = Sched!Ahead(s[p], w)
  BY <1>4
<1>6. \A q \in A : Sched!Ahead(s[p], w) <= Sched!Ahead(s[q], w)
  BY <1>4, <1>5
<1>7. QED
  BY <1>1, <1>6, LessIs

(* The root of a tree in order is the first.                               *)
LEMMA RootFirst ==
  ASSUME Sched!StrideAssumption, NEW s \in [Process -> Strides], NEW A \in SUBSET Process,
         NEW l, NEW r, NEW u, NEW x \in A, Tree(l, r, u, x, A), Sorted(l, r, s, A),
         NEW w, From(w, s, A)
  PROVE  \A q \in A : ~Sched!Less(s[q], s[x]) /\ Sched!Ahead(s[q], s[x]) <= BIG_STRIDE
<1> DEFINE k(q) == Sched!Ahead(s[q], w)
           X == {q \in A : k(x) <= k(q)}
<1>1. w \in Strides /\ \A q \in A : s[q] \in Strides /\ k(q) <= BIG_STRIDE
  BY DEF From
<1>2. \A q \in A : k(q) \in Int
  <2>1. \A q \in A : k(q) \in Strides
    BY <1>1, AheadIs
  <2>2. QED
    BY <2>1, ModulusIs DEF Strides
<1>3. \A p, q \in A : Sched!Less(s[p], s[q]) <=> k(p) < k(q)
  BY <1>1, LessIs
<1>4. \A p, q \in A : k(q) <= k(p) => Sched!Ahead(s[p], s[q]) <= BIG_STRIDE
  BY <1>1, LessIs
<1> HIDE DEF k
<1>5. Closed(l, r, X)
  <2> SUFFICES ASSUME NEW q \in X, NEW c \in {l[q], r[q]}, c # NULL PROVE c \in X
    BY DEF Closed
  <2>1. c \in A
    BY DEF Tree, Closed
  <2>2. Above(s, q, c)
    BY DEF Sorted
  <2>3. k(x) \in Int /\ k(q) \in Int /\ k(c) \in Int /\ k(x) <= k(q)
    BY <2>1, <1>2
  <2>4. k(x) <= k(c)
    BY <2>1, <2>2, <2>3, <1>3 DEF Above
  <2>5. QED
    BY <2>1, <2>4
<1>6. x \in X /\ X \in SUBSET A
  BY <1>2
<1>7. X = A
  <2> HIDE DEF X
  <2> QED BY <1>5, <1>6, Zenon DEF Tree
<1>8. \A q \in A : k(x) <= k(q) /\ ~(k(q) < k(x))
  BY <1>2, <1>7
<1>9. QED
  BY <1>3, <1>4, <1>8

(* A pass is at most BIG_STRIDE, and a stride is that much further after it.*)
LEMMA PassIs ==
  ASSUME Sched!StrideAssumption, Sched!TypeOK, NEW p \in Process
  PROVE  Sched!Pass(p) \in 0..BIG_STRIDE
<1> DEFINE d == priority[p]
           q == BIG_STRIDE \div d
<1>1. d \in {0, 1} \cup Priority
  BY DEF Sched!TypeOK
<1> HIDE DEF d
<1>2. d \in Nat /\ BIG_STRIDE \in Nat
  <2>1. BIG_STRIDE \in Nat /\ Priority \subseteq 0..BIG_STRIDE
    OBVIOUS
  <2>2. Priority \subseteq Nat
    BY <2>1
  <2>3. QED
    BY <1>1, <2>1, <2>2
<1>3. ASSUME d # 0 PROVE q \in 0..BIG_STRIDE
  <2>1. q \in Nat /\ BIG_STRIDE % d \in 0..d-1 /\ BIG_STRIDE = d * q + (BIG_STRIDE % d)
    BY <1>2, <1>3
  <2>2. d * q >= q
    <3> HIDE DEF q
    <3>1. d * q = (d - 1) * q + q /\ (d - 1) * q >= 0
      BY <1>2, <1>3, <2>1
    <3>2. (d - 1) * q \in Nat
      BY <1>2, <1>3, <2>1
    <3>3. QED
      BY <3>1, <3>2, <2>1
  <2>3. d * q \in Nat
    BY <2>1, <1>2
  <2> HIDE DEF q
  <2>4. QED
    BY <2>1, <2>2, <2>3
<1>4. QED
  BY <1>2, <1>3 DEF Sched!Pass, d

LEMMA AheadOfItself ==
  ASSUME Sched!StrideAssumption, NEW x \in Strides, NEW d \in 0..BIG_STRIDE
  PROVE  /\ (x + d) % Sched!Modulus \in Strides
         /\ Sched!Ahead((x + d) % Sched!Modulus, x) = d
<1> DEFINE n == Sched!Modulus
           z == x + d
           y == z % n
<1>1. /\ n \in Nat /\ n > 0 /\ z \in Nat /\ z < n + n /\ x \in 0..n-1 /\ d \in 0..n-1
      /\ d \in 0..BIG_STRIDE /\ BIG_STRIDE \in Nat
  BY ModulusIs DEF Strides
<1>2. y = IF z < n THEN z ELSE IF z < n + n THEN z - n ELSE 0
  <2> HIDE DEF z, n
  <2> QED BY <1>1, Wrap
<1> HIDE DEF n, y
<1>3. y \in 0..n-1
  BY <1>1, <1>2
<1>4. Sched!Ahead(y, x) = IF y < x THEN y - x + n ELSE y - x
  BY <1>3, AheadIs DEF Strides, n
<1>5. Sched!Ahead(y, x) = d
  BY <1>1, <1>2, <1>4
<1>6. QED
  BY <1>3, <1>5 DEF Strides, n, y

-----------------------------------------------------------------------------
(* The heap *)

Heaps == [root : Entry, left : Sched!Links, right : Sched!Links, parent : Sched!Links]

(* t holds the processes in A.                                             *)
Holds(t, A) ==
  /\ t \in Heaps
  /\ Tree(t.left, t.right, t.parent, t.root, A)
  /\ t.root # NULL => t.parent[t.root] = NULL

Ordered(t, s, A) == Sorted(t.left, t.right, s, A)

(* The links of somebody who is not there do not matter.                   *)
LEMMA PoolClear ==
  ASSUME NULL \notin Process, NEW t, NEW A, Holds(t, A), NEW b \in Process, b \notin A,
         NEW c, c = Sched!Clear(t, b)
  PROVE  /\ Holds(c, A) /\ c.root = t.root
         /\ c.left[b] = NULL /\ c.right[b] = NULL /\ c.parent[b] = NULL
         /\ \A s : Ordered(t, s, A) => Ordered(c, s, A)
<1>1. /\ t.left \in [Process -> Entry] /\ t.right \in [Process -> Entry]
      /\ t.parent \in [Process -> Entry] /\ t.root \in Entry /\ t \in Heaps
  BY DEF Holds, Heaps, Sched!Links, Entry
<1>2. /\ c.root = t.root /\ c.left = [t.left EXCEPT ![b] = NULL]
      /\ c.right = [t.right EXCEPT ![b] = NULL] /\ c.parent = [t.parent EXCEPT ![b] = NULL]
      /\ c = [root |-> t.root, left |-> [t.left EXCEPT ![b] = NULL],
              right |-> [t.right EXCEPT ![b] = NULL], parent |-> [t.parent EXCEPT ![b] = NULL]]
  BY DEF Sched!Clear, Holds, Heaps
<1>3. /\ c.left \in [Process -> Entry] /\ c.right \in [Process -> Entry]
      /\ c.parent \in [Process -> Entry]
      /\ c.left[b] = NULL /\ c.right[b] = NULL /\ c.parent[b] = NULL
      /\ \A q \in Process \ {b} : c.left[q] = t.left[q] /\ c.right[q] = t.right[q] /\ c.parent[q] = t.parent[q]
  BY <1>1, <1>2 DEF Entry
<1>4. c \in Heaps
  BY <1>1, <1>2, <1>3 DEF Heaps, Sched!Links, Entry
<1>5. Tree(t.left, t.right, t.parent, t.root, A) /\ A \subseteq Process
  BY DEF Holds, Tree
<1>6. \A q \in A : c.left[q] = t.left[q] /\ c.right[q] = t.right[q] /\ c.parent[q] = t.parent[q]
  BY <1>3, <1>5
<1>7. Tree(c.left, c.right, c.parent, c.root, A)
  <2>1. \A q \in A : c.left[q] = t.left[q] /\ c.right[q] = t.right[q]
                    /\ (q # t.root => c.parent[q] = t.parent[q])
    BY <1>6
  <2>2. Tree(c.left, c.right, c.parent, t.root, A)
    BY <2>1, <1>5, SameTree
  <2>3. QED
    BY <2>2, <1>2
<1>8. c.root # NULL => c.parent[c.root] = NULL
  <2>1. c.root # NULL => t.root \in A
    BY <1>2, <1>5 DEF Tree
  <2>2. QED
    BY <2>1, <1>2, <1>6 DEF Holds
<1>9. \A s : Ordered(t, s, A) => Ordered(c, s, A)
  BY <1>6 DEF Ordered, Sorted
<1>10. QED
  BY <1>2, <1>3, <1>4, <1>7, <1>8, <1>9 DEF Holds

(* skew_heap_insert                                                        *)
LEMMA PoolInsert ==
  ASSUME Sched!StrideAssumption, NEW t, NEW A, Holds(t, A), NEW b \in Process, b \notin A, NEW s,
         NEW m, m = Sched!Insert(t, b, s)
  PROVE  /\ Holds(m, A \cup {b}) /\ m.root # NULL
         /\ Ordered(t, s, A) => Ordered(m, s, A \cup {b})
<1> DEFINE c == Sched!Clear(t, b)
<1>1. /\ Holds(c, A) /\ c.root = t.root
      /\ c.left[b] = NULL /\ c.right[b] = NULL /\ c.parent[b] = NULL
      /\ \A z : Ordered(t, z, A) => Ordered(c, z, A)
  BY PoolClear
<1>2. m = Sched!Merge(c, c.root, b, s)
  BY <1>1 DEF Sched!Insert
<1> HIDE DEF c
<1>3. c.left \in Sched!Links /\ c.right \in Sched!Links /\ c.parent \in Sched!Links
  BY <1>1 DEF Holds, Heaps
<1>4. Tree(c.left, c.right, c.parent, c.root, A) /\ (c.root # NULL => c.parent[c.root] = NULL)
  BY <1>1 DEF Holds
<1>5. Tree(c.left, c.right, c.parent, b, {b})
  BY <1>1 DEF Tree, Closed, Parents
<1>6. A \cap {b} = {} /\ b # NULL
  OBVIOUS
<1>7. /\ m.root = Sched!Top(c.root, b, s)
      /\ m.left \in Sched!Links /\ m.right \in Sched!Links /\ m.parent \in Sched!Links
      /\ Tree(m.left, m.right, m.parent, m.root, A \cup {b})
      /\ m.root # NULL => m.parent[m.root] = c.parent[m.root]
      /\ Sorted(c.left, c.right, s, A) /\ Sorted(c.left, c.right, s, {b})
         => Sorted(m.left, m.right, s, A \cup {b})
  <2>1. Merges(c, m, c.root, b, s, A, {b})
    BY <1>2, <1>3, <1>4, <1>5, <1>6, MergeFacts
  <2>2. QED
    BY <2>1 DEF Merges
<1>8. m.root \in {c.root, b} /\ m.root # NULL
  BY <1>6, <1>7 DEF Sched!Top
<1>9. m \in Heaps
  <2>1. m.root \in Entry
    BY <1>7 DEF Tree, Entry
  <2>2. m = [root |-> m.root, left |-> m.left, right |-> m.right, parent |-> m.parent]
    BY <1>2 DEF Sched!Merge
  <2>3. QED
    BY <2>1, <2>2, <1>7 DEF Heaps
<1>10. m.parent[m.root] = NULL
  BY <1>1, <1>4, <1>7, <1>8
<1>11. Sorted(c.left, c.right, s, {b})
  BY <1>1 DEF Sorted
<1>12. QED
  BY <1>1, <1>7, <1>8, <1>9, <1>10, <1>11 DEF Holds, Ordered

(* The heap and the strides after a choice from t, which holds A.          *)
Chosen(t, A, sd, st) ==
  IF A = {}
    THEN heap' = NULL /\ current' = NULL /\ stride' = sd /\ phase' = st /\ Holds(Sched!Pool', {})
    ELSE /\ t.root \in A /\ current' = t.root
         /\ phase' = [st EXCEPT ![t.root] = "run"]
         /\ stride' = [sd EXCEPT ![t.root] = (@ + Sched!Pass(t.root)) % Sched!Modulus]
         /\ Holds(Sched!Pool', A \ {t.root})
         /\ Ordered(t, sd, A) => Ordered(Sched!Pool', stride', A \ {t.root})

LEMMA DispatchFacts ==
  ASSUME Sched!StrideAssumption, NEW t, NEW A, Holds(t, A), NEW sd \in [Process -> Strides], NEW st,
         Sched!Dispatch(t, sd, st)
  PROVE  Chosen(t, A, sd, st)
<1>1. /\ Tree(t.left, t.right, t.parent, t.root, A) /\ t \in Heaps /\ A \subseteq Process
      /\ t.left \in Sched!Links /\ t.right \in Sched!Links /\ t.parent \in Sched!Links
  BY DEF Holds, Heaps, Tree
<1>2. Sched!Pool' = [root |-> heap', left |-> left', right |-> right', parent |-> parent']
  BY DEF Sched!Pool
<1>3. CASE t.root = NULL
  <2>1. A = {}
    BY <1>1, <1>3 DEF Tree
  <2>2. Sched!SetPool(t) /\ current' = NULL /\ stride' = sd /\ phase' = st
    BY <1>3 DEF Sched!Dispatch
  <2>3. Sched!Pool' = t
    BY <1>1, <1>2, <2>2 DEF Sched!SetPool, Heaps
  <2>4. Holds(Sched!Pool', {})
    BY <2>1, <2>3
  <2>5. QED
    BY <2>1, <2>2, <2>4, <1>3 DEF Chosen, Sched!SetPool
<1>4. CASE t.root # NULL
  <2> DEFINE x == t.root
  <2>1. x \in A /\ A # {} /\ t.parent[x] = NULL
    BY <1>1, <1>4 DEF Tree, Holds
  <2>2. /\ stride' = [sd EXCEPT ![x] = (@ + Sched!Pass(x)) % Sched!Modulus]
        /\ Sched!Remove(t, x, stride')
        /\ current' = x /\ phase' = [st EXCEPT ![x] = "run"]
    BY <1>4 DEF Sched!Dispatch
  <2> HIDE DEF x
  <2>3. PICK L, R : Splits(t.left, t.right, t.parent, x, A, L, R)
    BY <1>1, <1>4, Split DEF x
  <2>4. /\ Tree(t.left, t.right, t.parent, t.left[x], L) /\ Tree(t.left, t.right, t.parent, t.right[x], R)
        /\ x \notin L /\ x \notin R /\ L \cap R = {} /\ A = {x} \cup L \cup R
    BY <2>3 DEF Splits
  <2> DEFINE m == Sched!Merge(t, t.left[x], t.right[x], stride')
  <2>5. /\ m.left \in Sched!Links /\ m.right \in Sched!Links /\ m.parent \in Sched!Links
        /\ Tree(m.left, m.right, m.parent, m.root, L \cup R)
        /\ Sorted(t.left, t.right, stride', L) /\ Sorted(t.left, t.right, stride', R)
           => Sorted(m.left, m.right, stride', L \cup R)
    <3>1. Merges(t, m, t.left[x], t.right[x], stride', L, R)
      BY <1>1, <2>4, MergeFacts
    <3>2. QED
      BY <3>1 DEF Merges
  <2>6. /\ heap' = m.root
        /\ left' = [q \in Process |-> IF q = NULL /\ m.left[q] = x THEN m.root ELSE m.left[q]]
        /\ right' = [q \in Process |-> IF q = NULL /\ m.left[q] # x THEN m.root ELSE m.right[q]]
        /\ parent' = [q \in Process |-> IF q = m.root THEN NULL ELSE m.parent[q]]
    BY <2>1, <2>2 DEF Sched!Remove
  <2> HIDE DEF m
  <2>7. L \cup R = A \ {x}
    BY <2>4
  <2>8. /\ left' \in Sched!Links /\ right' \in Sched!Links /\ parent' \in Sched!Links
        /\ left' = m.left /\ right' = m.right
        /\ \A q \in Process : q # m.root => parent'[q] = m.parent[q]
        /\ m.root \in Process => parent'[m.root] = NULL
    BY <2>5, <2>6 DEF Sched!Links
  <2>9. Tree(left', right', parent', heap', A \ {x})
    <3>1. Tree(m.left, m.right, m.parent, m.root, A \ {x})
      BY <2>5, <2>7
    <3>2. A \ {x} \subseteq Process
      BY <1>1
    <3>3. \A q \in A \ {x} : left'[q] = m.left[q] /\ right'[q] = m.right[q]
                            /\ (q # m.root => parent'[q] = m.parent[q])
      BY <3>2, <2>8
    <3>4. Tree(left', right', parent', m.root, A \ {x})
      BY <3>1, <3>3, SameTree
    <3>5. QED
      BY <3>4, <2>6
  <2>10. heap' \in Entry /\ (heap' # NULL => parent'[heap'] = NULL)
    BY <2>6, <2>8, <2>9, <1>1 DEF Tree, Entry
  <2>11. Holds(Sched!Pool', A \ {x})
    BY <1>2, <2>8, <2>9, <2>10 DEF Holds, Heaps
  <2>12. ASSUME Ordered(t, sd, A)
         PROVE  Ordered(Sched!Pool', stride', A \ {x})
    <3>1. \A q \in A \ {x} : stride'[q] = sd[q]
      BY <1>1, <2>2
    <3>2. \A q \in L \cup R : \A c \in {t.left[q], t.right[q]} : c # NULL => c \in L \cup R
      BY <2>4 DEF Tree, Closed
    <3>3. \A q \in L \cup R : \A c \in {t.left[q], t.right[q]} :
             c # NULL => Above(stride', q, c)
      BY <3>1, <3>2, <2>7, <2>12 DEF Ordered, Sorted, Above
    <3>4. Sorted(t.left, t.right, stride', L) /\ Sorted(t.left, t.right, stride', R)
      BY <3>3 DEF Sorted
    <3>5. Sorted(m.left, m.right, stride', A \ {x})
      BY <3>4, <2>5, <2>7
    <3>6. QED
      BY <3>5, <1>2, <2>8 DEF Ordered
  <2>13. QED
    BY <2>1, <2>2, <2>11, <2>12 DEF Chosen, x
<1>5. QED
  BY <1>3, <1>4

-----------------------------------------------------------------------------
(* The invariant *)

Ready == {p \in Process : phase[p] = "ready"}

HeapInv ==
  /\ Sched!TypeOK
  /\ Holds(Sched!Pool, Ready)
  /\ \A p \in Process : phase[p] = "run" <=> current = p

OrderInv == Ordered(Sched!Pool, stride, Ready) /\ (~late => Sched!Window)

StrideInv == HeapInv /\ OrderInv

(* Whoever takes part, A, is within BIG_STRIDE of one of them.             *)
Near(s, A) == A # {} => \E w : From(w, s, A)

LEMMA WindowNear ==
  ASSUME Sched!StrideAssumption, Sched!TypeOK, Sched!Window
  PROVE  Near(stride, Sched!Active)
<1> SUFFICES ASSUME Sched!Active # {} PROVE \E w : From(w, stride, Sched!Active)
  BY DEF Near
<1>1. PICK p \in Sched!Active : \A q \in Sched!Active : Sched!Ahead(stride[q], stride[p]) <= BIG_STRIDE
  BY Zenon DEF Sched!Window, Sched!InWindow
<1>2. stride[p] \in Strides
  BY DEF Sched!TypeOK, Strides, Sched!Active
<1>3. From(stride[p], stride, Sched!Active)
  BY <1>1, <1>2 DEF From
<1>4. QED
  BY <1>3

(* Members are the processes of the tree.                                  *)
LEMMA MembersAre ==
  ASSUME Sched!StrideAssumption, NEW A, Holds(Sched!Pool, A)
  PROVE  Sched!Members = A
<1>1. Tree(left, right, parent, heap, A)
  BY DEF Holds, Sched!Pool
<1>2. A \subseteq Process /\ Closed(left, right, A) /\ heap \in A \cup {NULL}
  BY <1>1 DEF Tree
<1>3. ASSUME NEW p \in Sched!Members PROVE p \in A
  <2>1. \A q \in A : {left[q], right[q]} \subseteq A \cup {NULL}
    BY <1>2 DEF Closed
  <2>2. A \in SUBSET Process /\ heap \in A \cup {NULL}
    BY <1>2
  <2>3. QED
    BY <1>3, <2>1, <2>2, Zenon DEF Sched!Members
<1>4. ASSUME NEW p \in A, NEW X \in SUBSET Process, heap \in X \cup {NULL},
             \A q \in X : {left[q], right[q]} \subseteq X \cup {NULL}
      PROVE  p \in X
  <2>1. heap \in A /\ heap # NULL
    BY <1>1, <1>2 DEF Tree
  <2>2. heap \in X \cap A /\ X \cap A \in SUBSET A
    BY <2>1, <1>4
  <2>3. Closed(left, right, X \cap A)
    <3>1. \A q \in X : left[q] \in X \cup {NULL} /\ right[q] \in X \cup {NULL}
      BY <1>4
    <3>2. QED
      BY <3>1, <1>2 DEF Closed
  <2>4. X \cap A = A
    BY <1>1, <2>2, <2>3, Zenon DEF Tree
  <2>5. QED
    BY <2>4
<1>5. A \subseteq Sched!Members
  BY <1>2, <1>4 DEF Sched!Members
<1>6. QED
  BY <1>3, <1>5

LEMMA HeapInvExact ==
  ASSUME Sched!StrideAssumption, HeapInv
  PROVE  Sched!HeapExact
<1>1. Sched!Members = Ready
  BY MembersAre DEF HeapInv
<1>2. Tree(left, right, parent, heap, Ready) /\ (heap # NULL => parent[heap] = NULL)
  BY DEF HeapInv, Holds, Sched!Pool
<1>3. \A p \in Ready : /\ \A c \in {left[p], right[p]} \ {NULL} : parent[c] = p
                       /\ left[p] = right[p] => left[p] = NULL
  BY <1>2 DEF Tree, Parents
<1>4. QED
  BY <1>1, <1>2, <1>3 DEF HeapInv, Sched!HeapExact, Ready

(* Who is least in a tree in order has the stride of its root.             *)
LEMMA RootLeast ==
  ASSUME Sched!StrideAssumption, NEW s \in [Process -> Strides], NEW A \in SUBSET Process,
         NEW l, NEW r, NEW u, NEW x \in A, Tree(l, r, u, x, A), Sorted(l, r, s, A),
         NEW m \in A, \A p \in A : ~Sched!Less(s[p], s[m])
  PROVE  s[x] = s[m]
<1> DEFINE X == {q \in A : s[q] # s[m]}
<1>1. ASSUME NEW q \in X, NEW c \in {l[q], r[q]}, c # NULL, c \notin X PROVE FALSE
  <2>1. c \in A /\ s[c] = s[m]
    BY <1>1 DEF Tree, Closed
  <2>2. Above(s, q, c)
    BY <1>1 DEF Sorted
  <2>3. ~Sched!Less(s[q], s[m]) /\ ~Sched!Less(s[m], s[q])
    BY <2>1, <2>2 DEF Above
  <2>4. s[q] \in Strides /\ s[m] \in Strides
    OBVIOUS
  <2>5. s[q] = s[m]
    BY <2>3, <2>4, NeitherLess
  <2>6. QED
    BY <2>5
<1>2. SUFFICES ASSUME x \in X PROVE FALSE
  OBVIOUS
<1>3. Closed(l, r, X)
  BY <1>1 DEF Closed
<1>4. X \in SUBSET A /\ m \notin X
  OBVIOUS
<1> HIDE DEF X
<1>5. X = A
  BY <1>2, <1>3, <1>4, Zenon DEF Tree
<1>6. QED
  BY <1>4, <1>5

LEMMA StrideInvMinimum ==
  ASSUME Sched!StrideAssumption, StrideInv
  PROVE  Sched!MinimumFirst
<1> SUFFICES ASSUME NEW m \in Sched!Least PROVE heap \in Sched!Least
  BY DEF Sched!MinimumFirst
<1>1. Sched!TypeOK /\ Ordered(Sched!Pool, stride, Ready) /\ Holds(Sched!Pool, Ready)
  BY DEF StrideInv, OrderInv, HeapInv
<1>2. Sched!Members = Ready
  BY <1>1, MembersAre
<1>3. m \in Ready /\ \A p \in Ready : ~Sched!Less(stride[p], stride[m])
  BY <1>2 DEF Sched!Least
<1>4. Tree(left, right, parent, heap, Ready) /\ Sorted(left, right, stride, Ready)
  BY <1>1 DEF Holds, Ordered, Sched!Pool
<1>5. heap \in Ready /\ Ready \in SUBSET Process
  BY <1>3, <1>4 DEF Tree, Ready
<1>6. stride \in [Process -> Strides]
  BY <1>1 DEF Sched!TypeOK, Strides
<1>7. stride[heap] = stride[m]
  BY <1>3, <1>4, <1>5, <1>6, RootLeast
<1>8. QED
  BY <1>2, <1>3, <1>5, <1>7 DEF Sched!Least

LEMMA StrideInvLeast ==
  ASSUME Sched!StrideAssumption, StrideInv
  PROVE  Sched!LeastFirst
<1> SUFFICES ASSUME ~late PROVE Sched!Window /\ (heap # NULL => heap \in Sched!Least)
  BY StrideInvMinimum DEF Sched!LeastFirst
<1>1. Sched!Window /\ Ordered(Sched!Pool, stride, Ready) /\ Sched!TypeOK /\ Holds(Sched!Pool, Ready)
  BY DEF StrideInv, OrderInv, HeapInv
<1>2. Sched!Members = Ready
  BY <1>1, MembersAre
<1>3. ASSUME heap # NULL PROVE heap \in Ready /\ \A p \in Ready : ~Sched!Less(stride[p], stride[heap])
  <2>1. Tree(left, right, parent, heap, Ready) /\ Sorted(left, right, stride, Ready)
    BY <1>1 DEF Holds, Ordered, Sched!Pool
  <2>2. heap \in Ready /\ Ready \in SUBSET Process /\ Ready \subseteq Sched!Active
    BY <1>3, <2>1 DEF Tree, Ready, Sched!Active
  <2>3. PICK w : From(w, stride, Sched!Active)
    BY <1>1, <2>2, WindowNear DEF Near
  <2>4. From(w, stride, Ready)
    BY <2>2, <2>3 DEF From
  <2>5. stride \in [Process -> Strides]
    BY <1>1 DEF Sched!TypeOK, Strides
  <2>6. QED
    BY <2>1, <2>2, <2>4, <2>5, RootFirst
<1>4. QED
  BY <1>1, <1>2, <1>3 DEF Sched!Least

LEMMA StrideInit ==
  ASSUME Sched!StrideAssumption, Sched!Init
  PROVE  StrideInv
<1>1. /\ heap = NULL /\ left \in [Process -> Entry] /\ right \in [Process -> Entry]
      /\ parent \in [Process -> Entry] /\ phase = [p \in Process |-> "unused"]
      /\ current = NULL /\ late = FALSE
  BY DEF Sched!Init, Entry
<1>2. stride \in [Process -> Strides] /\ priority \in [Process -> {0, 1} \cup Priority]
  <2>1. 0 \in Strides
    BY ModulusIs DEF Strides
  <2>2. QED
    BY <2>1 DEF Sched!Init
<1>3. Sched!TypeOK
  BY <1>1, <1>2 DEF Sched!TypeOK, Strides, Entry
<1>4. Ready = {} /\ Sched!Active = {}
  BY <1>1 DEF Ready, Sched!Active
<1>5. Holds(Sched!Pool, {})
  BY <1>1 DEF Holds, Heaps, Sched!Pool, Sched!Links, Entry, Tree, Closed, Parents
<1>6. Ordered(Sched!Pool, stride, {})
  BY DEF Ordered, Sorted
<1>7. QED
  BY <1>1, <1>3, <1>4, <1>5, <1>6 DEF StrideInv, HeapInv, OrderInv, Sched!Window

(* A choice keeps the invariant.                                           *)
LEMMA ChoiceKeeps ==
  ASSUME Sched!StrideAssumption, Sched!TypeOK, NEW t, NEW A, Holds(t, A),
         NEW sd \in [Process -> Strides],
         NEW st \in [Process -> {"unused", "ready", "run", "sleep"}],
         A = {p \in Process : st[p] = "ready"}, \A p \in Process : st[p] # "run",
         Ordered(t, sd, A), ~late => Near(sd, A),
         Sched!Dispatch(t, sd, st),
         priority' \in [Process -> {0, 1} \cup Priority], late' = late
  PROVE  StrideInv'
<1> DEFINE x == t.root
<1>1. Chosen(t, A, sd, st)
  BY DispatchFacts
<1>2. A \subseteq Process /\ late \in BOOLEAN
  BY DEF Sched!TypeOK
<1>3. /\ left' \in [Process -> Entry] /\ right' \in [Process -> Entry]
      /\ parent' \in [Process -> Entry] /\ heap' \in Entry
  <2>1. \E B : Holds(Sched!Pool', B)
    BY <1>1 DEF Chosen
  <2>2. Sched!Pool' \in Heaps
    BY <2>1 DEF Holds
  <2>3. QED
    BY <2>2 DEF Heaps, Sched!Pool, Sched!Links, Entry
<1>4. CASE A = {}
  <2>1. /\ heap' = NULL /\ current' = NULL /\ stride' = sd /\ phase' = st
        /\ Holds(Sched!Pool', {})
    BY <1>1, <1>4, Zenon DEF Chosen
  <2>2. Ready' = {} /\ Sched!Active' = {}
    BY <2>1, <1>4 DEF Ready, Sched!Active
  <2>3. Sched!TypeOK'
    BY <2>1, <1>2, <1>3 DEF Sched!TypeOK, Strides, Entry
  <2>4. Ordered(Sched!Pool', stride', {})
    BY DEF Ordered, Sorted
  <2>5. QED
    BY <2>1, <2>2, <2>3, <2>4 DEF StrideInv, HeapInv, OrderInv, Sched!Window
<1>5. CASE A # {}
  <2>1. /\ x \in A /\ current' = x /\ phase' = [st EXCEPT ![x] = "run"]
        /\ stride' = [sd EXCEPT ![x] = (@ + Sched!Pass(x)) % Sched!Modulus]
        /\ Holds(Sched!Pool', A \ {x})
        /\ Ordered(Sched!Pool', stride', A \ {x})
    BY <1>1, <1>5, Zenon DEF Chosen
  <2> HIDE DEF x
  <2>2. x \in Process /\ Sched!Pass(x) \in 0..BIG_STRIDE
    BY <2>1, <1>2, PassIs
  <2>3. /\ (sd[x] + Sched!Pass(x)) % Sched!Modulus \in Strides
        /\ Sched!Ahead((sd[x] + Sched!Pass(x)) % Sched!Modulus, sd[x]) = Sched!Pass(x)
    BY <2>2, AheadOfItself
  <2>4. /\ stride' \in [Process -> Strides] /\ Sched!Ahead(stride'[x], sd[x]) <= BIG_STRIDE
        /\ \A q \in Process \ {x} : stride'[q] = sd[q]
    BY <2>1, <2>2, <2>3
  <2>5. /\ phase' \in [Process -> {"unused", "ready", "run", "sleep"}]
        /\ phase'[x] = "run" /\ \A q \in Process \ {x} : phase'[q] = st[q]
    BY <2>1, <2>2
  <2>6. Sched!TypeOK'
    BY <2>1, <2>2, <2>4, <2>5, <1>2, <1>3 DEF Sched!TypeOK, Strides, Entry
  <2>7. Ready' = A \ {x} /\ Sched!Active' = A
    BY <2>1, <2>2, <2>5 DEF Ready, Sched!Active
  <2>8. \A p \in Process : phase'[p] = "run" <=> current' = p
    BY <2>1, <2>2, <2>5
  <2>9. HeapInv'
    BY <2>1, <2>6, <2>7, <2>8 DEF HeapInv
  <2>10. ASSUME ~late PROVE Sched!Window'
    <3>1. PICK w : From(w, sd, A)
      BY <2>10, <1>5 DEF Near
    <3>2. Tree(t.left, t.right, t.parent, x, A) /\ Sorted(t.left, t.right, sd, A)
      BY DEF Holds, Ordered, x
    <3>3. \A q \in A : Sched!Ahead(sd[q], sd[x]) <= BIG_STRIDE
      BY <3>1, <3>2, <2>1, <1>2, RootFirst
    <3>4. From(sd[x], stride', A)
      BY <3>3, <2>2, <2>4, <1>2 DEF From
    <3>5. \E p \in A : \A q \in A : Sched!Ahead(stride'[q], stride'[p]) <= BIG_STRIDE
      BY <3>4, <2>4, <1>2, <1>5, SomeoneFirst
    <3>6. QED
      BY <3>5, <2>7 DEF Sched!Window, Sched!InWindow
  <2>11. OrderInv'
    BY <2>1, <2>7, <2>10 DEF OrderInv
  <2>12. QED
    BY <2>9, <2>11 DEF StrideInv
<1>6. QED
  BY <1>4, <1>5

(* Somebody joins.                                                         *)
LEMMA JoinKeeps ==
  ASSUME Sched!StrideAssumption, StrideInv, NEW p \in Process, phase[p] \in {"unused", "sleep"},
         UNCHANGED <<stride, priority>>,
         NEW t, t = Sched!Insert(Sched!Pool, p, stride), Sched!SetPool(t), Sched!Join(p)
  PROVE  StrideInv'
<1>1. Sched!TypeOK /\ Holds(Sched!Pool, Ready) /\ Ordered(Sched!Pool, stride, Ready)
      /\ \A q \in Process : phase[q] = "run" <=> current = q
  BY DEF StrideInv, HeapInv, OrderInv
<1>2. p \notin Ready
  BY DEF Ready
<1>3. /\ Holds(t, Ready \cup {p})
      /\ Ordered(t, stride, Ready \cup {p})
  BY <1>1, <1>2, PoolInsert
<1>4. t \in Heaps /\ Sched!Pool' = t
  <2>1. t \in Heaps
    BY <1>3 DEF Holds
  <2>2. QED
    BY <2>1 DEF Sched!Pool, Sched!SetPool, Heaps
<1>5. /\ phase' = [phase EXCEPT ![p] = "ready"] /\ late' = (late \/ ~Sched!InWindow')
      /\ current' = current
  BY DEF Sched!Join
<1>6. Ready' = Ready \cup {p}
  BY <1>1, <1>5 DEF Ready, Sched!TypeOK
<1>7. Sched!TypeOK'
  <2>1. late' \in BOOLEAN
    <3>1. Sched!InWindow' \in BOOLEAN
      BY DEF Sched!InWindow
    <3>2. QED
      BY <3>1, <1>1, <1>5, Zenon DEF Sched!TypeOK
  <2>2. /\ left' \in [Process -> Entry] /\ right' \in [Process -> Entry]
        /\ parent' \in [Process -> Entry] /\ heap' \in Entry
    BY <1>4 DEF Heaps, Sched!Pool, Sched!Links, Entry
  <2>3. phase' \in [Process -> {"unused", "ready", "run", "sleep"}]
    BY <1>1, <1>5 DEF Sched!TypeOK
  <2>4. QED
    BY <2>1, <2>2, <2>3, <1>1, <1>5 DEF Sched!TypeOK, Entry
<1>8. \A q \in Process : phase'[q] = "run" <=> current' = q
  BY <1>1, <1>5 DEF Sched!TypeOK
<1>9. HeapInv'
  BY <1>3, <1>4, <1>6, <1>7, <1>8 DEF HeapInv
<1>10. OrderInv'
  BY <1>3, <1>4, <1>5, <1>6 DEF OrderInv, Sched!Window
<1>11. QED
  BY <1>9, <1>10 DEF StrideInv

(* Of those who take part some are near to each other too.                 *)
LEMMA NearFewer ==
  ASSUME NEW s, NEW A, NEW B \in SUBSET A, Near(s, A), NEW z, \A q \in B : z[q] = s[q]
  PROVE  Near(z, B)
BY DEF Near, From

LEMMA StrideStep ==
  ASSUME Sched!StrideAssumption, StrideInv, [Sched!Next]_(Sched!vars)
  PROVE  StrideInv'
<1>1. /\ Sched!TypeOK /\ Holds(Sched!Pool, Ready)
      /\ \A q \in Process : phase[q] = "run" <=> current = q
      /\ Ordered(Sched!Pool, stride, Ready) /\ (~late => Near(stride, Sched!Active))
  BY WindowNear DEF StrideInv, HeapInv, OrderInv
<1>2. /\ stride \in [Process -> Strides] /\ phase \in [Process -> {"unused", "ready", "run", "sleep"}]
      /\ priority \in [Process -> {0, 1} \cup Priority] /\ current \in Process \cup {NULL}
  BY <1>1 DEF Sched!TypeOK, Strides
<1>3. Ready \subseteq Sched!Active /\ Ready \subseteq Process
  BY DEF Ready, Sched!Active
<1>4. ASSUME ~late PROVE Near(stride, Ready)
  BY <1>1, <1>3, <1>4, NearFewer
<1>5. ASSUME Sched!Reschedule PROVE StrideInv'
  <2>1. priority' = priority /\ late' = late
    BY <1>5 DEF Sched!Reschedule
  <2>2. CASE current = NULL
    <3>1. Sched!Dispatch(Sched!Pool, stride, phase)
      BY <1>5, <2>2 DEF Sched!Reschedule
    <3>2. \A p \in Process : phase[p] # "run"
      BY <1>1, <2>2
    <3>3. Ready = {p \in Process : phase[p] = "ready"}
      BY DEF Ready
    <3>4. QED
      BY <3>1, <3>2, <3>3, <2>1, <1>1, <1>2, <1>4, ChoiceKeeps
  <2>3. CASE current # NULL
    <3> DEFINE t == Sched!Insert(Sched!Pool, current, stride)
               st == [phase EXCEPT ![current] = "ready"]
               A == Ready \cup {current}
    <3>1. Sched!Dispatch(t, stride, st)
      BY <1>5, <2>3 DEF Sched!Reschedule
    <3>2. current \in Process /\ phase[current] = "run" /\ current \notin Ready
      BY <1>1, <1>2, <2>3 DEF Ready
    <3>3. Holds(t, A) /\ Ordered(t, stride, A)
      BY <1>1, <3>2, PoolInsert
    <3>4. /\ st \in [Process -> {"unused", "ready", "run", "sleep"}] /\ st[current] = "ready"
          /\ \A q \in Process \ {current} : st[q] = phase[q]
      BY <1>2, <3>2
    <3> HIDE DEF t, st
    <3>5. A = {p \in Process : st[p] = "ready"} /\ \A p \in Process : st[p] # "run"
      BY <3>2, <3>4, <1>1 DEF Ready
    <3>6. A \subseteq Sched!Active /\ A \in SUBSET Process /\ A # {}
      BY <3>2, <1>3 DEF Sched!Active
    <3> HIDE DEF A
    <3>7. ASSUME ~late PROVE Near(stride, A)
      BY <1>1, <3>6, <3>7, NearFewer
    <3>8. QED
      BY <3>1, <3>3, <3>4, <3>5, <3>7, <2>1, <1>1, <1>2, ChoiceKeeps
  <2>4. QED
    BY <2>2, <2>3
<1>6. ASSUME Sched!Block PROVE StrideInv'
  <2> DEFINE st == [phase EXCEPT ![current] = "sleep"]
  <2>1. /\ current # NULL /\ Sched!Dispatch(Sched!Pool, stride, st)
        /\ priority' = priority /\ late' = late
    BY <1>6 DEF Sched!Block
  <2>2. current \in Process /\ phase[current] = "run" /\ current \notin Ready
    BY <1>1, <1>2, <2>1 DEF Ready
  <2>3. /\ st \in [Process -> {"unused", "ready", "run", "sleep"}] /\ st[current] = "sleep"
        /\ \A q \in Process \ {current} : st[q] = phase[q]
    BY <1>2, <2>2
  <2> HIDE DEF st
  <2>4. Ready = {p \in Process : st[p] = "ready"} /\ \A p \in Process : st[p] # "run"
    BY <2>2, <2>3, <1>1 DEF Ready
  <2>5. QED
    BY <2>1, <2>3, <2>4, <1>1, <1>2, <1>4, ChoiceKeeps
<1>7. ASSUME Sched!Exit PROVE StrideInv'
  <2> DEFINE st == [phase EXCEPT ![current] = "unused"]
             sd == [stride EXCEPT ![current] = 0]
             t == Sched!Clear(Sched!Pool, current)
  <2>1. /\ current # NULL /\ Sched!Dispatch(t, sd, st)
        /\ priority' = [priority EXCEPT ![current] = 0] /\ late' = late
    BY <1>7 DEF Sched!Exit
  <2>2. current \in Process /\ phase[current] = "run" /\ current \notin Ready
    BY <1>1, <1>2, <2>1 DEF Ready
  <2>3. /\ st \in [Process -> {"unused", "ready", "run", "sleep"}] /\ st[current] = "unused"
        /\ \A q \in Process \ {current} : st[q] = phase[q]
    BY <1>2, <2>2
  <2>4. sd \in [Process -> Strides] /\ \A q \in Ready : sd[q] = stride[q]
    <3>1. 0 \in Strides
      BY ModulusIs DEF Strides
    <3>2. QED
      BY <3>1, <1>2, <1>3, <2>2
  <2>5. priority' \in [Process -> {0, 1} \cup Priority]
    BY <1>2, <2>1
  <2>6. Holds(t, Ready) /\ \A s : Ordered(Sched!Pool, s, Ready) => Ordered(t, s, Ready)
    BY <1>1, <2>2, PoolClear
  <2> HIDE DEF st, sd, t
  <2>7. Ready = {p \in Process : st[p] = "ready"} /\ \A p \in Process : st[p] # "run"
    BY <2>2, <2>3, <1>1 DEF Ready
  <2>8. ASSUME ~late PROVE Near(sd, Ready)
    BY <2>4, <2>8, <1>4, NearFewer
  <2>9. Ordered(t, sd, Ready)
    <3>1. Ordered(t, stride, Ready)
      BY <2>6, <1>1
    <3>2. Closed(t.left, t.right, Ready)
      BY <2>6 DEF Holds, Tree
    <3>3. QED
      BY <3>1, <3>2, <2>4 DEF Ordered, Sorted, Closed, Above
  <2>10. QED
    BY <2>1, <2>3, <2>4, <2>5, <2>6, <2>7, <2>8, <2>9, <1>1, ChoiceKeeps
<1>8. ASSUME NEW p \in Process, Sched!Fork(p) \/ Sched!Wake(p) PROVE StrideInv'
  <2>1. /\ phase[p] \in {"unused", "sleep"} /\ UNCHANGED <<stride, priority>> /\ Sched!Join(p)
        /\ \E t \in {Sched!Insert(Sched!Pool, p, stride)} : Sched!SetPool(t)
    BY <1>8 DEF Sched!Fork, Sched!Wake
  <2>2. QED
    BY <2>1, JoinKeeps
<1>9. ASSUME NEW x \in Priority, Sched!SetPriority(x) PROVE StrideInv'
  <2>1. /\ priority' = [priority EXCEPT ![current] = IF x = 0 THEN 1 ELSE x]
        /\ UNCHANGED <<heap, left, right, parent, phase, stride, current, late>>
    BY <1>9 DEF Sched!SetPriority, Sched!links
  <2>2. priority' \in [Process -> {0, 1} \cup Priority]
    BY <1>2, <2>1
  <2>3. Sched!TypeOK'
    BY <1>1, <2>1, <2>2 DEF Sched!TypeOK
  <2>4. Ready' = Ready /\ Sched!Pool' = Sched!Pool /\ (Sched!Window' <=> Sched!Window)
    BY <2>1 DEF Ready, Sched!Pool, Sched!Window, Sched!InWindow, Sched!Active
  <2>5. QED
    BY <2>1, <2>3, <2>4 DEF StrideInv, HeapInv, OrderInv
<1>10. CASE UNCHANGED Sched!vars
  <2>1. UNCHANGED <<heap, left, right, parent, phase, stride, priority, current, late>>
    BY <1>10 DEF Sched!vars, Sched!links
  <2>2. /\ Ready' = Ready /\ Sched!Pool' = Sched!Pool /\ (Sched!Window' <=> Sched!Window)
        /\ Sched!TypeOK'
    BY <2>1, <1>1 DEF Ready, Sched!Pool, Sched!Window, Sched!InWindow, Sched!Active, Sched!TypeOK
  <2>3. QED
    BY <2>1, <2>2 DEF StrideInv, HeapInv, OrderInv
<1>11. QED
  BY <1>5, <1>6, <1>7, <1>8, <1>9, <1>10 DEF Sched!Next

(* The run pool of the stride class holds every process that is ready,     *)
(* once, and no other, for any number of processes.                        *)
THEOREM HeapIsExact ==
  ASSUME Sched!StrideAssumption
  PROVE  Sched!Spec => []Sched!HeapExact
<1>1. Sched!Init => StrideInv
  BY StrideInit
<1>2. StrideInv /\ [Sched!Next]_(Sched!vars) => StrideInv'
  BY StrideStep
<1>3. StrideInv => Sched!HeapExact
  BY HeapInvExact DEF StrideInv
<1>4. QED
  BY <1>1, <1>2, <1>3, PTL DEF Sched!Spec

(* The process that is picked next has the least stride of those who are  *)
(* ready, whenever there is one; and there is one until somebody joins     *)
(* late.  For any width of the integers and any weights.                   *)
THEOREM LeastIsFirst ==
  ASSUME Sched!StrideAssumption
  PROVE  Sched!Spec => []Sched!LeastFirst
<1>1. Sched!Init => StrideInv
  BY StrideInit
<1>2. StrideInv /\ [Sched!Next]_(Sched!vars) => StrideInv'
  BY StrideStep
<1>3. StrideInv => Sched!LeastFirst
  BY StrideInvLeast
<1>4. QED
  BY <1>1, <1>2, <1>3, PTL DEF Sched!Spec
=============================================================================
