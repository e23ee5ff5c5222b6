--------------------------- MODULE MonitorProofs ----------------------------
(***************************************************************************)
(* One thread is inside the monitor and the counters are exact, for any    *)
(* threads, condition variables and routines; and Monitor implements       *)
(* Hoare.                                                                  *)
(*                                                                         *)
(* The invariant says of each thread what it sleeps on (Queues, Place), of *)
(* the semaphores that the permit of mutex is with the one owner (Permits),*)
(* and of the counters that they count those asleep and those between a    *)
(* counter and a down() (Counts).                                          *)
(***************************************************************************)
EXTENDS Monitor, SequenceFacts, FiniteSetTheorems

USE MonitorAssumption

SleepsOn(t, x) ==
  /\ tstate[t] = "ksem"
  /\ \/ at[t] = "in" /\ x = mutex
     \/ at[t] = "sigged" /\ x = next
     \/ at[t] = "waited" /\ x = sem(on[t])

Queues ==
  \A x \in Semaphores :
    /\ IsInjective(wait_queue[x])
    /\ \A t \in Thread : t \in Range(wait_queue[x]) <=> SleepsOn(t, x)

Place(t) ==
  /\ tstate[t] = "ksem" => at[t] \in {"in", "sigged", "waited"}
  /\ tstate[t] = "timer" => at[t] \in {"in", "out"}
  /\ tstate[t] = "gone" => at[t] = "out"
  /\ at[t] \in {"sig", "wait"} => running = t
  /\ running = t => tstate[t] = "ready"
  /\ IF at[t] \in {"wait", "waited"} THEN on[t] \in CV ELSE on[t] = NULL

Permits ==
  /\ \A t, u \in Thread : Owns(t) /\ Owns(u) => t = u
  /\ value[mutex] = IF \E t \in Thread : Owns(t) THEN 0 ELSE 1
  /\ value[mutex] = 1 => wait_queue[mutex] = <<>>
  /\ \A x \in Semaphores \ {mutex} : value[x] = 0

One(b) == IF b THEN 1 ELSE 0

Signaller == \E t \in Thread : at[t] = "sig"
Signalled == \E t \in Thread : Owns(t) /\ at[t] = "sigged"
Waiter(c) == \E t \in Thread : at[t] = "wait" /\ on[t] = c
Woken(c) == \E t \in Thread : Owns(t) /\ at[t] = "waited" /\ on[t] = c

Counts ==
  /\ next_count = Len(wait_queue[next]) + One(Signaller) + One(Signalled)
  /\ \A c \in CV : count[c] = Len(wait_queue[sem(c)]) + One(Waiter(c)) + One(Woken(c))

MonInv ==
  /\ TypeOK /\ Queues
  /\ \A t \in Thread : Place(t)
  /\ Permits /\ Counts
-----------------------------------------------------------------------------
(* The semaphores of the monitor are different ones.                       *)
LEMMA Names ==
  /\ mutex \in Semaphores /\ next \in Semaphores
  /\ \A c \in CV : sem(c) \in Semaphores /\ sem(c) # mutex /\ sem(c) # next
  /\ \A c, d \in CV : sem(c) = sem(d) => c = d
  /\ mutex # next
  /\ \A x \in Semaphores : x = mutex \/ x = next \/ \E c \in CV : x = sem(c)
BY DEF Semaphores, mutex, next, sem

(* The invariant holds at first: all are outside and mutex is free.        *)
LEMMA MonInit == Init => MonInv
<1> SUFFICES ASSUME Init PROVE MonInv
  OBVIOUS
<1>1. TypeOK
  BY DEF Init, SemInit, TypeOK, SemTypeOK
<1>2. \A x \in Semaphores : Range(wait_queue[x]) = {} /\ IsInjective(wait_queue[x])
  BY EmptyFacts DEF Init, SemInit
<1>3. \A t \in Thread : tstate[t] = "ready" /\ at[t] = "out" /\ on[t] = NULL /\ running # t
  BY DEF Init, SemInit
<1>4. Queues
  BY <1>2, <1>3 DEF Queues, SleepsOn
<1>5. \A t \in Thread : Place(t)
  BY <1>3 DEF Place
<1>6. \A t \in Thread : ~Owns(t)
  BY <1>3 DEF Owns
<1>7. Permits
  BY <1>6, Names DEF Permits, Init, SemInit
<1>8. Counts
  BY <1>3, <1>6, Names DEF Counts, One, Signaller, Signalled, Waiter, Woken, Init, SemInit
<1>9. QED
  BY <1>1, <1>4, <1>5, <1>7, <1>8 DEF MonInv
-----------------------------------------------------------------------------
(* x is handed to u, the first that sleeps on it.                          *)
Handed(u, x) ==
  /\ SleepsOn(u, x) /\ u = Head(wait_queue[x]) /\ wait_queue[x] # <<>>
  /\ SemTypeOK' /\ value' = value /\ running' = running
  /\ tstate' = [tstate EXCEPT ![u] = "ready"]
  /\ wait_queue' = [wait_queue EXCEPT ![x] = Tail(@)]
  /\ Len(wait_queue[x]) > 0 /\ Len(wait_queue'[x]) = Len(wait_queue[x]) - 1
  /\ \A y \in Semaphores \ {x} : wait_queue'[y] = wait_queue[y]
  /\ \A y \in Semaphores :
       /\ IsInjective(wait_queue'[y])
       /\ \A v \in Thread : v \in Range(wait_queue'[y]) <=> SleepsOn(v, y) /\ v # u

(* A thread sleeps on one semaphore.                                       *)
LEMMA SleepsOnOne ==
  ASSUME MonInv, NEW t \in Thread, NEW x \in Semaphores, NEW y \in Semaphores,
         SleepsOn(t, x), SleepsOn(t, y)
  PROVE  x = y
BY Names DEF SleepsOn, MonInv

(* up() of a semaphore that somebody waits for.                            *)
LEMMA UpHands ==
  ASSUME MonInv, NEW x \in Semaphores, wait_queue[x] # <<>>, Up(x)
  PROVE  \E u \in Thread : Handed(u, x)
<1> DEFINE u == Head(wait_queue[x])
<1>1. /\ wait_queue' = [wait_queue EXCEPT ![x] = Tail(@)]
      /\ tstate' = [tstate EXCEPT ![u] = "ready"]
      /\ value' = value /\ running' = running
  BY DEF Up
<1>2. /\ wait_queue \in [Semaphores -> Seq(Thread)] /\ IsInjective(wait_queue[x])
      /\ \A y \in Semaphores : IsInjective(wait_queue[y])
      /\ \A y \in Semaphores, v \in Thread : v \in Range(wait_queue[y]) <=> SleepsOn(v, y)
  BY DEF MonInv, TypeOK, SemTypeOK, Queues
<1>3. /\ wait_queue' \in [Semaphores -> Seq(Thread)] /\ IsInjective(wait_queue'[x])
      /\ Len(wait_queue[x]) > 0 /\ Len(wait_queue'[x]) = Len(wait_queue[x]) - 1
      /\ u \in Thread /\ u \in Range(wait_queue[x])
      /\ \A y \in Semaphores : y # x => wait_queue'[y] = wait_queue[y]
      /\ \A y \in Semaphores : Range(wait_queue'[y]) = IF y = x THEN Range(wait_queue[y]) \ {u}
                                                               ELSE Range(wait_queue[y])
  <2>1. Popped(Thread, Semaphores, wait_queue, wait_queue', x)
    BY <1>1, <1>2, QueueTail, Zenon
  <2>2. QED
    BY <2>1, Zenon DEF Popped
<1> HIDE DEF u
<1>4. SleepsOn(u, x)
  BY <1>2, <1>3
<1>5. SemTypeOK'
  BY <1>1, <1>3 DEF MonInv, TypeOK, SemTypeOK
<1>6. ASSUME NEW y \in Semaphores, NEW v \in Thread
      PROVE  v \in Range(wait_queue'[y]) <=> SleepsOn(v, y) /\ v # u
  BY <1>2, <1>3, <1>4, SleepsOnOne
<1>7. \A y \in Semaphores : IsInjective(wait_queue'[y])
  BY <1>2, <1>3
<1>8. QED
  BY <1>1, <1>3, <1>4, <1>5, <1>6, <1>7 DEF Handed, u

(* t goes to sleep on x.                                                   *)
Slept(t, x) ==
  /\ SemTypeOK' /\ value' = value /\ running' = NULL
  /\ tstate' = [tstate EXCEPT ![t] = "ksem"]
  /\ wait_queue' = [wait_queue EXCEPT ![x] = Append(@, t)]
  /\ Len(wait_queue'[x]) = Len(wait_queue[x]) + 1
  /\ \A y \in Semaphores \ {x} : wait_queue'[y] = wait_queue[y]
  /\ \A y \in Semaphores :
       /\ IsInjective(wait_queue'[y])
       /\ \A v \in Thread : v \in Range(wait_queue'[y]) <=> SleepsOn(v, y) \/ (v = t /\ y = x)

(* down() of a semaphore that is 0.                                        *)
LEMMA DownSleeps ==
  ASSUME MonInv, NEW t \in Thread, running = t, NEW x \in Semaphores, value[x] = 0, Down(t, x)
  PROVE  Slept(t, x)
<1>1. /\ wait_queue' = [wait_queue EXCEPT ![x] = Append(@, t)]
      /\ tstate' = [tstate EXCEPT ![t] = "ksem"]
      /\ value' = value /\ running' = NULL
  BY DEF Down
<1>2. /\ wait_queue \in [Semaphores -> Seq(Thread)]
      /\ \A y \in Semaphores : IsInjective(wait_queue[y])
      /\ \A y \in Semaphores, v \in Thread : v \in Range(wait_queue[y]) <=> SleepsOn(v, y)
  BY DEF MonInv, TypeOK, SemTypeOK, Queues
<1>3. t \notin Range(wait_queue[x])
  BY <1>2 DEF MonInv, Place, SleepsOn
<1>4. /\ wait_queue' \in [Semaphores -> Seq(Thread)]
      /\ Len(wait_queue'[x]) = Len(wait_queue[x]) + 1
      /\ \A y \in Semaphores : y # x => wait_queue'[y] = wait_queue[y]
      /\ \A y \in Semaphores : Range(wait_queue'[y]) = Range(wait_queue[y]) \cup (IF y = x THEN {t} ELSE {})
      /\ IsInjective(wait_queue'[x])
  <2>1. Pushed(Thread, Semaphores, wait_queue, wait_queue', x, t)
    BY <1>1, <1>2, QueueAppend, Zenon
  <2>2. QED
    BY <2>1, <1>2, <1>3, Zenon DEF Pushed
<1>5. SemTypeOK'
  BY <1>1, <1>4 DEF MonInv, TypeOK, SemTypeOK
<1>6. \A y \in Semaphores : IsInjective(wait_queue'[y])
  BY <1>2, <1>4
<1>7. \A y \in Semaphores, v \in Thread :
        v \in Range(wait_queue'[y]) <=> SleepsOn(v, y) \/ (v = t /\ y = x)
  BY <1>2, <1>4
<1>8. QED
  BY <1>1, <1>4, <1>5, <1>6, <1>7 DEF Slept
-----------------------------------------------------------------------------
(* The thread in the monitor has its permit, and counts nothing in between.*)
LEMMA Inside1 ==
  ASSUME MonInv, NEW t \in Thread, running = t, at[t] = "in"
  PROVE  /\ Owns(t) /\ \A u \in Thread : Owns(u) => u = t
         /\ value[mutex] = 0 /\ ~Signaller /\ ~Signalled
         /\ next_count = Len(wait_queue[next])
         /\ \A c \in CV : ~Waiter(c) /\ ~Woken(c) /\ count[c] = Len(wait_queue[sem(c)])
<1>1. Owns(t) /\ \A u \in Thread : Owns(u) => u = t
  BY DEF MonInv, Place, Owns, Permits
<1>2. \A u \in Thread : at[u] \notin {"sig", "wait"}
  BY DEF MonInv, Place
<1>3. ~Signaller /\ ~Signalled /\ \A c \in CV : ~Waiter(c) /\ ~Woken(c)
  BY <1>1, <1>2 DEF Signaller, Signalled, Waiter, Woken
<1>4. \A x \in Semaphores : Len(wait_queue[x]) \in Nat
  BY DEF MonInv, TypeOK, SemTypeOK
<1>5. next_count = Len(wait_queue[next])
  BY <1>3, <1>4, Names DEF MonInv, Counts, One
<1>6. ASSUME NEW c \in CV PROVE count[c] = Len(wait_queue[sem(c)])
  <2>1. count[c] = Len(wait_queue[sem(c)]) + One(Waiter(c)) + One(Woken(c))
    BY DEF MonInv, Counts
  <2>2. One(Waiter(c)) = 0 /\ One(Woken(c)) = 0
    BY <1>3 DEF One
  <2>3. Len(wait_queue[sem(c)]) \in Nat
    BY <1>4, Names
  <2>4. QED
    BY <2>1, <2>2, <2>3
<1>7. QED
  BY <1>1, <1>3, <1>5, <1>6 DEF MonInv, Permits

(* mutex is free again.                                                    *)
Freed ==
  /\ wait_queue[mutex] = <<>> /\ wait_queue[next] = <<>>
  /\ value' = [value EXCEPT ![mutex] = 1]
  /\ UNCHANGED <<wait_queue, tstate, running>>

(* The thread in the monitor lets the next one in.                         *)
LEMMA Releases ==
  ASSUME MonInv, NEW t \in Thread, running = t, at[t] = "in", Release
  PROVE  \/ Freed
         \/ wait_queue[next] = <<>> /\ \E u \in Thread : Handed(u, mutex)
         \/ wait_queue[next] # <<>> /\ \E u \in Thread : Handed(u, next)
<1>1. /\ wait_queue[next] \in Seq(Thread) /\ next_count = Len(wait_queue[next])
      /\ value[mutex] = 0 /\ value \in [Semaphores -> Nat]
  BY Inside1, Names DEF MonInv, TypeOK, SemTypeOK
<1>2. next_count > 0 <=> wait_queue[next] # <<>>
  BY <1>1
<1>3. CASE wait_queue[next] # <<>>
  BY <1>2, <1>3, UpHands, Names DEF Release
<1>4. CASE wait_queue[next] = <<>> /\ wait_queue[mutex] # <<>>
  BY <1>2, <1>4, UpHands, Names DEF Release
<1>5. CASE wait_queue[next] = <<>> /\ wait_queue[mutex] = <<>>
  BY <1>1, <1>2, <1>5, Names DEF Release, Up, Freed
<1>6. QED
  BY <1>3, <1>4, <1>5
-----------------------------------------------------------------------------
(* A thread enters at once, or waits for mutex.                            *)
LEMMA EnterInv ==
  ASSUME MonInv, NEW t \in Thread, running = t, Enter(t)
  PROVE  MonInv'
<1>1. /\ at[t] = "out" /\ at' = [at EXCEPT ![t] = "in"] /\ tstate[t] = "ready"
      /\ UNCHANGED <<next_count, count, on>> /\ Down(t, mutex)
      /\ at \in [Thread -> {"out", "in", "sig", "sigged", "wait", "waited"}]
      /\ tstate \in [Thread -> {"ready", "ksem", "timer", "gone"}]
      /\ value \in [Semaphores -> Nat] /\ ~Owns(t)
  BY DEF Enter, Move, MonInv, TypeOK, SemTypeOK, Place, Owns
<1>2. /\ \A u \in Thread \ {t} : at'[u] = at[u]
      /\ at'[t] = "in"
  BY <1>1
<1>3. CASE value[mutex] = 0
  <2>1. Slept(t, mutex)
    BY <1>1, <1>3, DownSleeps, Names
  <2>2. tstate'[t] = "ksem" /\ \A u \in Thread \ {t} : tstate'[u] = tstate[u]
    BY <1>1, <2>1 DEF Slept
  <2>3. TypeOK'
    BY <1>1, <2>1 DEF Slept, MonInv, TypeOK
  <2>4. \A u \in Thread, x \in Semaphores : SleepsOn(u, x)' <=> SleepsOn(u, x) \/ (u = t /\ x = mutex)
    BY <1>1, <1>2, <2>2 DEF SleepsOn
  <2>5. Queues'
    BY <2>1, <2>4 DEF Queues, Slept
  <2>6. \A u \in Thread : Place(u)'
    BY <1>1, <1>2, <2>1, <2>2 DEF MonInv, Place, Slept
  <2>7. \A u \in Thread : Owns(u)' <=> Owns(u)
    BY <1>1, <1>2, <2>2 DEF Owns
  <2>8. Permits'
    BY <1>3, <2>1, <2>7, Names DEF MonInv, Permits, Slept
  <2>9. /\ Signaller' <=> Signaller
        /\ Signalled' <=> Signalled
        /\ \A c \in CV : (Waiter(c)' <=> Waiter(c)) /\ (Woken(c)' <=> Woken(c))
    BY <1>1, <1>2, <2>7 DEF Signaller, Signalled, Waiter, Woken
  <2>10. Counts'
    BY <1>1, <2>1, <2>9, Names DEF MonInv, Counts, Slept, One
  <2>11. QED
    BY <2>3, <2>5, <2>6, <2>8, <2>10 DEF MonInv
<1>4. CASE value[mutex] # 0
  <2>1. /\ value' = [value EXCEPT ![mutex] = 0] /\ value[mutex] = 1
        /\ UNCHANGED <<wait_queue, tstate, running>>
    BY <1>1, <1>4, Names DEF Down, MonInv, Permits
  <2>3. TypeOK'
    BY <1>1, <2>1, Names DEF MonInv, TypeOK, SemTypeOK
  <2>4. \A u \in Thread, x \in Semaphores : SleepsOn(u, x)' <=> SleepsOn(u, x)
    BY <1>1, <1>2, <2>1 DEF SleepsOn
  <2>5. Queues'
    BY <2>1, <2>4 DEF Queues, MonInv
  <2>6. \A u \in Thread : Place(u)'
    BY <1>1, <1>2, <2>1 DEF MonInv, Place
  <2>7. \A u \in Thread : ~Owns(u) /\ (Owns(u)' <=> u = t)
    BY <1>1, <1>2, <2>1 DEF Owns, MonInv, Permits
  <2>8. Permits'
    BY <1>1, <2>1, <2>7, Names DEF MonInv, Permits
  <2>9. /\ Signaller' <=> Signaller
        /\ Signalled' <=> Signalled
        /\ \A c \in CV : (Waiter(c)' <=> Waiter(c)) /\ (Woken(c)' <=> Woken(c))
    BY <1>1, <1>2, <2>7 DEF Signaller, Signalled, Waiter, Woken
  <2>10. Counts'
    BY <1>1, <2>1, <2>9, Names DEF MonInv, Counts, One
  <2>11. QED
    BY <2>3, <2>5, <2>6, <2>8, <2>10 DEF MonInv
<1>5. QED
  BY <1>3, <1>4
-----------------------------------------------------------------------------
(* The thread inside goes to "out", "sig" or "wait".                       *)
Goes(t, to) ==
  /\ running = t /\ at[t] = "in" /\ to \in {"out", "sig", "wait"}
  /\ at' = [at EXCEPT ![t] = to]
  /\ on' \in [Thread -> CV \cup {NULL}]
  /\ \A v \in Thread \ {t} : on'[v] = on[v]
  /\ IF to = "wait" THEN on'[t] \in CV ELSE on'[t] = NULL

(* It gives the monitor to u,                                              *)
LEMMA GiveAway ==
  ASSUME MonInv, NEW t \in Thread, NEW to, Goes(t, to),
         NEW x \in Semaphores, NEW u \in Thread, Handed(u, x)
  PROVE  /\ Queues' /\ Permits' /\ \A v \in Thread : Place(v)'
         /\ Signaller' <=> to = "sig"
         /\ Signalled' <=> x = next
         /\ \A c \in CV : /\ Waiter(c)' <=> to = "wait" /\ on'[t] = c
                          /\ Woken(c)' <=> x = sem(c)
<1>1. /\ tstate[t] = "ready" /\ tstate[u] = "ksem" /\ u # t
      /\ tstate' = [tstate EXCEPT ![u] = "ready"]
      /\ tstate \in [Thread -> {"ready", "ksem", "timer", "gone"}]
      /\ at \in [Thread -> {"out", "in", "sig", "sigged", "wait", "waited"}]
      /\ running' = t /\ value' = value
  BY DEF Goes, Handed, SleepsOn, MonInv, Place, TypeOK, SemTypeOK
<1>2. /\ at'[t] = to /\ to \in {"out", "sig", "wait"}
      /\ \A v \in Thread \ {t} : at'[v] = at[v] /\ on'[v] = on[v]
      /\ tstate'[u] = "ready" /\ tstate'[t] = "ready"
      /\ \A v \in Thread \ {u} : tstate'[v] = tstate[v]
  BY <1>1 DEF Goes
<1>3. \A v \in Thread, y \in Semaphores : SleepsOn(v, y)' <=> SleepsOn(v, y) /\ v # u
  BY <1>1, <1>2 DEF SleepsOn
<1>4. Queues'
  BY <1>3 DEF Queues, Handed
<1>5. \A v \in Thread : Place(v)'
  BY <1>1, <1>2 DEF Goes, MonInv, Place
<1>6. at[u] \in {"in", "sigged", "waited"}
  BY <1>1 DEF MonInv, Place
<1>7. \A v \in Thread : Owns(v)' <=> v = u
  BY <1>1, <1>2, <1>6, Inside1 DEF Owns, Goes
<1>8. Permits'
  BY <1>1, <1>7, Inside1 DEF Permits, Goes, MonInv
<1>9. \A v \in Thread : at[v] \notin {"sig", "wait"}
  BY DEF Goes, MonInv, Place
<1>10. /\ Signaller' <=> to = "sig"
       /\ \A c \in CV : Waiter(c)' <=> to = "wait" /\ on'[t] = c
  BY <1>2, <1>9 DEF Signaller, Waiter
<1>11. /\ Signalled' <=> at[u] = "sigged"
       /\ \A c \in CV : Woken(c)' <=> at[u] = "waited" /\ on[u] = c
  BY <1>1, <1>2, <1>7 DEF Signalled, Woken
<1>12. /\ at[u] = "sigged" <=> x = next
       /\ \A c \in CV : at[u] = "waited" /\ on[u] = c <=> x = sem(c)
  BY <1>6, Names DEF Handed, SleepsOn, MonInv, Place
<1>13. QED
  BY <1>4, <1>5, <1>8, <1>10, <1>11, <1>12

(* or to nobody.                                                           *)
LEMMA GiveBack ==
  ASSUME MonInv, NEW t \in Thread, NEW to, Goes(t, to), Freed
  PROVE  /\ SemTypeOK' /\ Queues' /\ Permits' /\ \A v \in Thread : Place(v)'
         /\ Signaller' <=> to = "sig"
         /\ ~Signalled'
         /\ \A c \in CV : /\ Waiter(c)' <=> to = "wait" /\ on'[t] = c
                          /\ ~Woken(c)'
<1>1. /\ tstate[t] = "ready" /\ tstate' = tstate /\ running' = t
      /\ wait_queue' = wait_queue /\ wait_queue[mutex] = <<>>
      /\ value \in [Semaphores -> Nat] /\ value' = [value EXCEPT ![mutex] = 1]
      /\ at \in [Thread -> {"out", "in", "sig", "sigged", "wait", "waited"}]
  BY DEF Goes, Freed, MonInv, Place, TypeOK, SemTypeOK
<1>2. /\ at'[t] = to /\ to \in {"out", "sig", "wait"}
      /\ \A v \in Thread \ {t} : at'[v] = at[v] /\ on'[v] = on[v]
  BY <1>1 DEF Goes
<1>3. \A v \in Thread, y \in Semaphores : SleepsOn(v, y)' <=> SleepsOn(v, y)
  BY <1>1, <1>2 DEF SleepsOn
<1>4. Queues'
  BY <1>1, <1>3 DEF Queues, MonInv
<1>5. \A v \in Thread : Place(v)'
  BY <1>1, <1>2 DEF Goes, MonInv, Place
<1>7. \A v \in Thread : ~Owns(v)'
  BY <1>1, <1>2, Inside1 DEF Owns, Goes
<1>8. Permits'
  BY <1>1, <1>7, Names DEF Permits, MonInv
<1>9. \A v \in Thread : at[v] \notin {"sig", "wait"}
  BY DEF Goes, MonInv, Place
<1>10. /\ Signaller' <=> to = "sig"
       /\ \A c \in CV : Waiter(c)' <=> to = "wait" /\ on'[t] = c
  BY <1>2, <1>9 DEF Signaller, Waiter
<1>11. ~Signalled' /\ \A c \in CV : ~Woken(c)'
  BY <1>7 DEF Signalled, Woken
<1>12. SemTypeOK'
  BY <1>1, Names DEF MonInv, TypeOK, SemTypeOK
<1>13. QED
  BY <1>4, <1>5, <1>8, <1>10, <1>11, <1>12
-----------------------------------------------------------------------------
(* After a release, what the counters have to count.                       *)
LEMMA Released ==
  ASSUME MonInv, NEW t \in Thread, NEW to \in {"out", "wait"}, Goes(t, to), Release
  PROVE  /\ SemTypeOK' /\ Queues' /\ Permits' /\ \A v \in Thread : Place(v)'
         /\ next_count = Len(wait_queue'[next]) + One(Signaller') + One(Signalled')
         /\ \A c \in CV :
              /\ count[c] = Len(wait_queue'[sem(c)]) + One(Woken(c)')
              /\ Waiter(c)' <=> to = "wait" /\ on'[t] = c
<1>1. /\ running = t /\ at[t] = "in"
      /\ \A x \in Semaphores : Len(wait_queue[x]) \in Nat
  BY DEF Goes, MonInv, TypeOK, SemTypeOK
<1>2. /\ next_count = Len(wait_queue[next]) /\ ~Signaller
      /\ \A c \in CV : count[c] = Len(wait_queue[sem(c)])
  BY <1>1, Inside1
<1>3. CASE Freed
  <2>1. /\ SemTypeOK' /\ Queues' /\ Permits' /\ \A v \in Thread : Place(v)'
        /\ ~Signaller' /\ ~Signalled'
        /\ \A c \in CV : /\ Waiter(c)' <=> to = "wait" /\ on'[t] = c
                         /\ ~Woken(c)'
    BY <1>3, GiveBack
  <2>2. wait_queue' = wait_queue
    BY <1>3 DEF Freed
  <2>3. One(Signaller') = 0 /\ One(Signalled') = 0 /\ \A c \in CV : One(Woken(c)') = 0
    BY <2>1 DEF One
  <2>4. QED
    BY <1>1, <1>2, <2>1, <2>2, <2>3, Names
<1>4. ASSUME NEW x \in {mutex, next}, NEW u \in Thread, Handed(u, x),
             x = mutex <=> wait_queue[next] = <<>>
      PROVE  /\ SemTypeOK' /\ Queues' /\ Permits' /\ \A v \in Thread : Place(v)'
             /\ next_count = Len(wait_queue'[next]) + One(Signaller') + One(Signalled')
             /\ \A c \in CV :
                  /\ count[c] = Len(wait_queue'[sem(c)]) + One(Woken(c)')
                  /\ Waiter(c)' <=> to = "wait" /\ on'[t] = c
  <2>1. /\ Queues' /\ Permits' /\ \A v \in Thread : Place(v)'
        /\ ~Signaller'
        /\ Signalled' <=> x = next
        /\ \A c \in CV : /\ Waiter(c)' <=> to = "wait" /\ on'[t] = c
                         /\ ~Woken(c)'
    BY <1>4, GiveAway, Names
  <2>2. /\ SemTypeOK'
        /\ x = next => Len(wait_queue'[next]) = Len(wait_queue[next]) - 1
        /\ x = mutex => wait_queue'[next] = wait_queue[next]
        /\ \A c \in CV : wait_queue'[sem(c)] = wait_queue[sem(c)]
    BY <1>4, Names DEF Handed
  <2>3. /\ One(Signaller') = 0 /\ \A c \in CV : One(Woken(c)') = 0
        /\ One(Signalled') = IF x = next THEN 1 ELSE 0
    BY <2>1 DEF One
  <2>4. next_count = Len(wait_queue'[next]) + One(Signaller') + One(Signalled')
    <3>1. Len(wait_queue[next]) \in Nat /\ mutex # next
      BY <1>1, Names
    <3>2. CASE x = mutex
      BY <1>2, <2>2, <2>3, <3>1, <3>2
    <3>3. CASE x = next
      BY <1>2, <2>2, <2>3, <3>1, <3>3
    <3>4. QED
      BY <3>2, <3>3
  <2>5. \A c \in CV : count[c] = Len(wait_queue'[sem(c)]) + One(Woken(c)')
    BY <1>1, <1>2, <2>2, <2>3, Names
  <2>6. QED
    BY <2>1, <2>2, <2>4, <2>5
<1>5. CASE wait_queue[next] = <<>> /\ \E u \in Thread : Handed(u, mutex)
  BY <1>4, <1>5
<1>6. CASE wait_queue[next] # <<>> /\ \E u \in Thread : Handed(u, next)
  <2>1. PICK u \in Thread : Handed(u, next)
    BY <1>6
  <2>2. next = mutex <=> wait_queue[next] = <<>>
    BY <1>6, Names
  <2>3. QED
    BY <1>4, <2>1, <2>2
<1>7. QED
  BY <1>1, <1>3, <1>5, <1>6, Releases

(* The thread leaves the routine.                                          *)
LEMMA ExitInv ==
  ASSUME MonInv, NEW t \in Thread, running = t, Exit(t)
  PROVE  MonInv'
<1>1. /\ at[t] = "in" /\ at' = [at EXCEPT ![t] = "out"] /\ on' = on /\ Release
      /\ next_count' = next_count /\ count' = count
      /\ at \in [Thread -> {"out", "in", "sig", "sigged", "wait", "waited"}]
      /\ on \in [Thread -> CV \cup {NULL}] /\ on[t] = NULL
  BY DEF Exit, Move, MonInv, TypeOK, Place
<1>2. Goes(t, "out")
  BY <1>1 DEF Goes
<1>3. /\ SemTypeOK' /\ Queues' /\ Permits' /\ \A v \in Thread : Place(v)'
      /\ next_count = Len(wait_queue'[next]) + One(Signaller') + One(Signalled')
      /\ \A c \in CV :
           /\ count[c] = Len(wait_queue'[sem(c)]) + One(Woken(c)')
           /\ ~Waiter(c)'
  BY <1>1, <1>2, Released
<1>4. TypeOK'
  BY <1>1, <1>3 DEF MonInv, TypeOK
<1>5. \A c \in CV : count'[c] = Len(wait_queue'[sem(c)]) + One(Waiter(c)') + One(Woken(c)')
  <2>1. \A c \in CV : One(Waiter(c)') = 0 /\ One(Woken(c)') \in Nat
    BY <1>3 DEF One
  <2>2. \A c \in CV : Len(wait_queue'[sem(c)]) \in Nat
    BY <1>3, Names DEF SemTypeOK
  <2>3. QED
    BY <1>1, <1>3, <2>1, <2>2
<1>6. Counts'
  BY <1>1, <1>3, <1>5 DEF Counts
<1>7. QED
  BY <1>3, <1>4, <1>6 DEF MonInv

(* It waits, and is counted first.                                         *)
LEMMA CondWaitInv ==
  ASSUME MonInv, NEW t \in Thread, running = t, NEW c \in CV, CondWait(t, c)
  PROVE  MonInv'
<1>1. /\ at[t] = "in" /\ at' = [at EXCEPT ![t] = "wait"] /\ on' = [on EXCEPT ![t] = c] /\ Release
      /\ next_count' = next_count /\ count' = [count EXCEPT ![c] = @ + 1]
      /\ at \in [Thread -> {"out", "in", "sig", "sigged", "wait", "waited"}]
      /\ on \in [Thread -> CV \cup {NULL}] /\ count \in [CV -> Nat] /\ next_count \in Nat
  BY DEF CondWait, Move, MonInv, TypeOK
<1>2. Goes(t, "wait") /\ on'[t] = c
  BY <1>1 DEF Goes
<1>3. /\ SemTypeOK' /\ Queues' /\ Permits' /\ \A v \in Thread : Place(v)'
      /\ next_count = Len(wait_queue'[next]) + One(Signaller') + One(Signalled')
      /\ \A d \in CV :
           /\ count[d] = Len(wait_queue'[sem(d)]) + One(Woken(d)')
           /\ Waiter(d)' <=> d = c
  BY <1>1, <1>2, Released
<1>4. TypeOK'
  BY <1>1, <1>3 DEF TypeOK
<1>5. \A d \in CV : count'[d] = Len(wait_queue'[sem(d)]) + One(Waiter(d)') + One(Woken(d)')
  <2>1. \A d \in CV : One(Waiter(d)') = (IF d = c THEN 1 ELSE 0) /\ One(Woken(d)') \in Nat
    BY <1>3 DEF One
  <2>2. \A d \in CV : Len(wait_queue'[sem(d)]) \in Nat
    BY <1>3, Names DEF SemTypeOK
  <2>3. \A d \in CV : count'[d] = count[d] + (IF d = c THEN 1 ELSE 0)
    BY <1>1
  <2>4. QED
    BY <1>3, <2>1, <2>2, <2>3
<1>6. Counts'
  BY <1>1, <1>3, <1>5 DEF Counts
<1>7. QED
  BY <1>3, <1>4, <1>6 DEF MonInv

(* It signals, and is counted first.                                       *)
LEMMA CondSignalInv ==
  ASSUME MonInv, NEW t \in Thread, running = t, NEW c \in CV, CondSignal(t, c)
  PROVE  MonInv' /\ \E u \in Thread : Handed(u, sem(c))
<1>1. /\ at[t] = "in" /\ at' = [at EXCEPT ![t] = "sig"] /\ on' = on /\ Up(sem(c))
      /\ next_count' = next_count + 1 /\ count' = count /\ count[c] > 0
      /\ at \in [Thread -> {"out", "in", "sig", "sigged", "wait", "waited"}]
      /\ on \in [Thread -> CV \cup {NULL}] /\ on[t] = NULL
      /\ count \in [CV -> Nat] /\ next_count \in Nat
  BY DEF CondSignal, Move, MonInv, TypeOK, Place
<1>2. Goes(t, "sig") /\ on'[t] = NULL
  BY <1>1 DEF Goes
<1>3. /\ next_count = Len(wait_queue[next])
      /\ \A d \in CV : count[d] = Len(wait_queue[sem(d)])
  BY <1>1, Inside1
<1>4. \A x \in Semaphores : Len(wait_queue[x]) \in Nat /\ wait_queue[x] \in Seq(Thread)
  BY DEF MonInv, TypeOK, SemTypeOK
<1>5. wait_queue[sem(c)] # <<>>
  BY <1>1, <1>3
<1>6. PICK u \in Thread : Handed(u, sem(c))
  BY <1>1, <1>5, UpHands, Names
<1>7. /\ Queues' /\ Permits' /\ \A v \in Thread : Place(v)'
      /\ Signaller' /\ ~Signalled'
      /\ \A d \in CV : ~Waiter(d)' /\ (Woken(d)' <=> d = c)
  BY <1>2, <1>6, GiveAway, Names
<1>8. /\ SemTypeOK' /\ wait_queue'[next] = wait_queue[next]
      /\ Len(wait_queue'[sem(c)]) = Len(wait_queue[sem(c)]) - 1
      /\ \A d \in CV \ {c} : wait_queue'[sem(d)] = wait_queue[sem(d)]
  BY <1>6, Names DEF Handed
<1>9. TypeOK'
  BY <1>1, <1>8 DEF TypeOK
<1>10. next_count' = Len(wait_queue'[next]) + One(Signaller') + One(Signalled')
  <2>1. One(Signaller') = 1 /\ One(Signalled') = 0
    BY <1>7 DEF One
  <2>2. QED
    BY <1>1, <1>3, <1>8, <2>1
<1>11. \A d \in CV : count'[d] = Len(wait_queue'[sem(d)]) + One(Waiter(d)') + One(Woken(d)')
  <2>1. \A d \in CV : One(Waiter(d)') = 0 /\ One(Woken(d)') = IF d = c THEN 1 ELSE 0
    BY <1>7 DEF One
  <2>2. Len(wait_queue[sem(c)]) \in Nat /\ \A d \in CV : Len(wait_queue[sem(d)]) \in Nat
    BY <1>4, Names
  <2>3. QED
    BY <1>1, <1>3, <1>8, <2>1, <2>2
<1>12. Counts'
  BY <1>10, <1>11 DEF Counts
<1>13. QED
  BY <1>6, <1>7, <1>9, <1>12 DEF MonInv
-----------------------------------------------------------------------------
(* The signaller goes to sleep: nothing is on next to take.                *)
LEMMA SignalDownInv ==
  ASSUME MonInv, NEW t \in Thread, running = t, SignalDown(t)
  PROVE  MonInv' /\ Slept(t, next)
<1>1. /\ at[t] = "sig" /\ at' = [at EXCEPT ![t] = "sigged"] /\ tstate[t] = "ready"
      /\ UNCHANGED <<next_count, count, on>> /\ Down(t, next) /\ value[next] = 0
      /\ at \in [Thread -> {"out", "in", "sig", "sigged", "wait", "waited"}]
      /\ tstate \in [Thread -> {"ready", "ksem", "timer", "gone"}] /\ ~Owns(t)
      /\ \A u \in Thread \ {t} : at[u] \notin {"sig", "wait"}
  BY Names DEF SignalDown, Move, MonInv, TypeOK, SemTypeOK, Place, Owns, Permits
<1>2. Slept(t, next)
  BY <1>1, DownSleeps, Names
<1>3. /\ at'[t] = "sigged" /\ tstate'[t] = "ksem"
      /\ \A u \in Thread \ {t} : at'[u] = at[u] /\ tstate'[u] = tstate[u]
  BY <1>1, <1>2 DEF Slept
<1>4. TypeOK'
  BY <1>1, <1>2 DEF Slept, MonInv, TypeOK
<1>5. \A u \in Thread, x \in Semaphores : SleepsOn(u, x)' <=> SleepsOn(u, x) \/ (u = t /\ x = next)
  BY <1>1, <1>3 DEF SleepsOn
<1>6. Queues'
  BY <1>2, <1>5 DEF Queues, Slept
<1>7. \A u \in Thread : Place(u)'
  BY <1>1, <1>2, <1>3 DEF MonInv, Place, Slept
<1>8. \A u \in Thread : Owns(u)' <=> Owns(u)
  BY <1>1, <1>3 DEF Owns
<1>9. Permits'
  BY <1>2, <1>8, Names DEF MonInv, Permits, Slept
<1>10. /\ Signaller /\ ~Signaller'
       /\ Signalled' <=> Signalled
       /\ \A c \in CV : (Waiter(c)' <=> Waiter(c)) /\ (Woken(c)' <=> Woken(c))
  BY <1>1, <1>3, <1>8 DEF Signaller, Signalled, Waiter, Woken
<1>11. /\ Len(wait_queue'[next]) = Len(wait_queue[next]) + 1 /\ Len(wait_queue[next]) \in Nat
       /\ \A c \in CV : wait_queue'[sem(c)] = wait_queue[sem(c)]
  BY <1>2, Names DEF Slept, MonInv, TypeOK, SemTypeOK
<1>12. Counts'
  <2>1. One(Signaller) = 1 /\ One(Signaller') = 0 /\ One(Signalled') = One(Signalled)
    BY <1>10 DEF One
  <2>2. One(Signalled) \in Nat
    BY DEF One
  <2>3. next_count' = Len(wait_queue'[next]) + One(Signaller') + One(Signalled')
    BY <1>1, <1>11, <2>1, <2>2 DEF MonInv, Counts
  <2>4. \A c \in CV : One(Waiter(c)') = One(Waiter(c)) /\ One(Woken(c)') = One(Woken(c))
    BY <1>10 DEF One
  <2>5. \A c \in CV : count'[c] = Len(wait_queue'[sem(c)]) + One(Waiter(c)') + One(Woken(c)')
    BY <1>1, <1>11, <2>4 DEF MonInv, Counts
  <2>6. QED
    BY <2>3, <2>5 DEF Counts
<1>13. QED
  BY <1>2, <1>4, <1>6, <1>7, <1>9, <1>12 DEF MonInv

(* It returns, the owner again.                                            *)
LEMMA SignalReturnInv ==
  ASSUME MonInv, NEW t \in Thread, running = t, SignalReturn(t)
  PROVE  MonInv'
<1>1. /\ at[t] = "sigged" /\ at' = [at EXCEPT ![t] = "in"] /\ tstate[t] = "ready"
      /\ next_count' = next_count - 1 /\ UNCHANGED <<value, wait_queue, tstate, running, count, on>>
      /\ at \in [Thread -> {"out", "in", "sig", "sigged", "wait", "waited"}]
      /\ next_count \in Nat
  BY DEF SignalReturn, Move, MonInv, TypeOK, Place, semVars
<1>2. at'[t] = "in" /\ \A u \in Thread \ {t} : at'[u] = at[u]
  BY <1>1
<1>3. Owns(t) /\ \A u \in Thread : Owns(u)' <=> Owns(u)
  BY <1>1, <1>2 DEF Owns
<1>4. \A u \in Thread : Owns(u) => u = t
  BY <1>3 DEF MonInv, Permits
<1>5. /\ Signalled /\ ~Signalled'
      /\ Signaller' <=> Signaller
      /\ \A c \in CV : (Waiter(c)' <=> Waiter(c)) /\ (Woken(c)' <=> Woken(c))
  BY <1>1, <1>2, <1>3, <1>4 DEF Signaller, Signalled, Waiter, Woken
<1>6. /\ Len(wait_queue[next]) \in Nat
      /\ One(Signalled) = 1 /\ One(Signalled') = 0 /\ One(Signaller') = One(Signaller)
      /\ \A c \in CV : One(Waiter(c)') = One(Waiter(c)) /\ One(Woken(c)') = One(Woken(c))
  BY <1>5, Names DEF One, MonInv, TypeOK, SemTypeOK
<1>7. One(Signaller) \in Nat
  BY DEF One
<1>8. next_count' = Len(wait_queue'[next]) + One(Signaller') + One(Signalled')
  BY <1>1, <1>6, <1>7 DEF MonInv, Counts
<1>9. Counts'
  BY <1>1, <1>6, <1>8 DEF MonInv, Counts
<1>10. TypeOK'
  <2>1. next_count' \in Nat
    BY <1>1, <1>6, <1>7 DEF MonInv, Counts
  <2>2. QED
    BY <1>1, <2>1 DEF MonInv, TypeOK, SemTypeOK
<1>11. \A u \in Thread, x \in Semaphores : SleepsOn(u, x)' <=> SleepsOn(u, x)
  BY <1>1, <1>2 DEF SleepsOn
<1>12. Queues'
  BY <1>1, <1>11 DEF Queues, MonInv
<1>13. \A u \in Thread : Place(u)'
  BY <1>1, <1>2 DEF MonInv, Place
<1>14. Permits'
  BY <1>1, <1>3 DEF MonInv, Permits
<1>15. QED
  BY <1>9, <1>10, <1>12, <1>13, <1>14 DEF MonInv

(* The waiter goes to sleep: nothing is on its semaphore to take.          *)
LEMMA WaitDownInv ==
  ASSUME MonInv, NEW t \in Thread, running = t, WaitDown(t)
  PROVE  MonInv' /\ on[t] \in CV /\ Slept(t, sem(on[t]))
<1>1. /\ at[t] = "wait" /\ at' = [at EXCEPT ![t] = "waited"] /\ tstate[t] = "ready"
      /\ UNCHANGED <<next_count, count, on>> /\ Down(t, sem(on[t]))
      /\ on[t] \in CV /\ value[sem(on[t])] = 0
      /\ at \in [Thread -> {"out", "in", "sig", "sigged", "wait", "waited"}]
      /\ tstate \in [Thread -> {"ready", "ksem", "timer", "gone"}] /\ ~Owns(t)
      /\ \A u \in Thread \ {t} : at[u] \notin {"sig", "wait"}
  BY Names DEF WaitDown, Move, MonInv, TypeOK, SemTypeOK, Place, Owns, Permits
<1>2. Slept(t, sem(on[t]))
  BY <1>1, DownSleeps, Names
<1>3. /\ at'[t] = "waited" /\ tstate'[t] = "ksem"
      /\ \A u \in Thread \ {t} : at'[u] = at[u] /\ tstate'[u] = tstate[u]
  BY <1>1, <1>2 DEF Slept
<1>4. TypeOK'
  BY <1>1, <1>2 DEF Slept, MonInv, TypeOK
<1>5. \A u \in Thread, x \in Semaphores :
        SleepsOn(u, x)' <=> SleepsOn(u, x) \/ (u = t /\ x = sem(on[t]))
  BY <1>1, <1>3 DEF SleepsOn
<1>6. Queues'
  BY <1>2, <1>5 DEF Queues, Slept
<1>7. \A u \in Thread : Place(u)'
  BY <1>1, <1>2, <1>3 DEF MonInv, Place, Slept
<1>8. \A u \in Thread : Owns(u)' <=> Owns(u)
  BY <1>1, <1>3 DEF Owns
<1>9. Permits'
  BY <1>1, <1>2, <1>8, Names DEF MonInv, Permits, Slept
<1>10. /\ Signaller' <=> Signaller
       /\ Signalled' <=> Signalled
       /\ \A c \in CV : /\ Waiter(c) <=> c = on[t]
                        /\ ~Waiter(c)'
                        /\ Woken(c)' <=> Woken(c)
  BY <1>1, <1>3, <1>8 DEF Signaller, Signalled, Waiter, Woken
<1>11. /\ wait_queue'[next] = wait_queue[next]
       /\ \A c \in CV : /\ Len(wait_queue[sem(c)]) \in Nat
                        /\ Len(wait_queue'[sem(c)]) = Len(wait_queue[sem(c)]) + IF c = on[t] THEN 1 ELSE 0
  <2>1. \A x \in Semaphores : Len(wait_queue[x]) \in Nat
    BY DEF MonInv, TypeOK, SemTypeOK
  <2>2. /\ Len(wait_queue'[sem(on[t])]) = Len(wait_queue[sem(on[t])]) + 1
        /\ \A y \in Semaphores \ {sem(on[t])} : wait_queue'[y] = wait_queue[y]
    BY <1>2 DEF Slept
  <2>3. wait_queue'[next] = wait_queue[next]
    BY <1>1, <2>2, Names
  <2>4. ASSUME NEW c \in CV
        PROVE  Len(wait_queue'[sem(c)]) = Len(wait_queue[sem(c)]) + IF c = on[t] THEN 1 ELSE 0
    <3>1. Len(wait_queue[sem(c)]) \in Nat
      BY <2>1, Names
    <3>2. CASE c = on[t]
      BY <2>2, <3>2
    <3>3. CASE c # on[t]
      <4>1. wait_queue'[sem(c)] = wait_queue[sem(c)]
        BY <1>1, <2>2, <3>3, Names
      <4>2. QED
        BY <3>1, <3>3, <4>1
    <3>4. QED
      BY <3>2, <3>3
  <2>5. QED
    BY <2>1, <2>3, <2>4, Names
<1>12. Counts'
  <2>1. One(Signaller') = One(Signaller) /\ One(Signalled') = One(Signalled)
    BY <1>10 DEF One
  <2>2. next_count' = Len(wait_queue'[next]) + One(Signaller') + One(Signalled')
    BY <1>1, <1>11, <2>1 DEF MonInv, Counts
  <2>3. \A c \in CV : /\ One(Waiter(c)) = IF c = on[t] THEN 1 ELSE 0
                      /\ One(Waiter(c)') = 0
                      /\ One(Woken(c)') = One(Woken(c))
    BY <1>10 DEF One
  <2>4. \A c \in CV : One(Woken(c)) \in Nat
    BY DEF One
  <2>5. ASSUME NEW c \in CV
        PROVE  count'[c] = Len(wait_queue'[sem(c)]) + One(Waiter(c)') + One(Woken(c)')
    <3> DEFINE k == count[c]
               l == Len(wait_queue[sem(c)])
               v == One(Waiter(c))
               w == One(Woken(c))
               k1 == count'[c]
               l1 == Len(wait_queue'[sem(c)])
               v1 == One(Waiter(c)')
               w1 == One(Woken(c)')
    <3>1. k = l + v + w /\ k1 = k
      BY <1>1 DEF MonInv, Counts
    <3>2. v = (IF c = on[t] THEN 1 ELSE 0) /\ v1 = 0 /\ w1 = w /\ w \in Nat
      BY <2>3, <2>4
    <3>3. l \in Nat /\ l1 = l + (IF c = on[t] THEN 1 ELSE 0)
      BY <1>11
    <3> HIDE DEF k, l, v, w, k1, l1, v1, w1
    <3>4. k1 = l1 + v1 + w1
      BY <3>1, <3>2, <3>3
    <3>5. QED
      BY <3>4 DEF k1, l1, v1, w1
  <2>6. QED
    BY <2>2, <2>5 DEF Counts
<1>13. QED
  BY <1>1, <1>2, <1>4, <1>6, <1>7, <1>9, <1>12 DEF MonInv

(* It returns, the owner again.                                            *)
LEMMA WaitReturnInv ==
  ASSUME MonInv, NEW t \in Thread, running = t, WaitReturn(t)
  PROVE  MonInv'
<1>1. /\ at[t] = "waited" /\ at' = [at EXCEPT ![t] = "in"] /\ tstate[t] = "ready"
      /\ count' = [count EXCEPT ![on[t]] = @ - 1] /\ on' = [on EXCEPT ![t] = NULL] /\ on[t] \in CV
      /\ UNCHANGED <<value, wait_queue, tstate, running, next_count>>
      /\ at \in [Thread -> {"out", "in", "sig", "sigged", "wait", "waited"}]
      /\ count \in [CV -> Nat] /\ on \in [Thread -> CV \cup {NULL}]
  BY DEF WaitReturn, Move, MonInv, TypeOK, Place, semVars
<1>2. /\ at'[t] = "in" /\ on'[t] = NULL
      /\ \A u \in Thread \ {t} : at'[u] = at[u] /\ on'[u] = on[u]
  BY <1>1
<1>3. Owns(t) /\ \A u \in Thread : Owns(u)' <=> Owns(u)
  BY <1>1, <1>2 DEF Owns
<1>4. \A u \in Thread : Owns(u) => u = t
  BY <1>3 DEF MonInv, Permits
<1>5. /\ Signalled' <=> Signalled
      /\ Signaller' <=> Signaller
      /\ \A c \in CV : /\ Waiter(c)' <=> Waiter(c)
                       /\ Woken(c) <=> c = on[t]
                       /\ ~Woken(c)'
  BY <1>1, <1>2, <1>3, <1>4 DEF Signaller, Signalled, Waiter, Woken
<1>6. /\ One(Signalled') = One(Signalled) /\ One(Signaller') = One(Signaller)
      /\ \A c \in CV : /\ One(Waiter(c)') = One(Waiter(c))
                       /\ One(Woken(c)) = IF c = on[t] THEN 1 ELSE 0
                       /\ One(Woken(c)') = 0
  BY <1>5 DEF One
<1>7. \A c \in CV : Len(wait_queue[sem(c)]) \in Nat /\ One(Waiter(c)) \in Nat
  BY Names DEF One, MonInv, TypeOK, SemTypeOK
<1>8. \A c \in CV : count[c] = Len(wait_queue[sem(c)]) + One(Waiter(c)) + One(Woken(c))
  BY DEF MonInv, Counts
<1>9. \A c \in CV : count'[c] = Len(wait_queue'[sem(c)]) + One(Waiter(c)') + One(Woken(c)')
  <2> SUFFICES ASSUME NEW c \in CV
               PROVE  count'[c] = Len(wait_queue'[sem(c)]) + One(Waiter(c)') + One(Woken(c)')
    OBVIOUS
  <2>1. CASE c = on[t]
    BY <1>1, <1>6, <1>7, <1>8, <2>1
  <2>2. CASE c # on[t]
    BY <1>1, <1>6, <1>7, <1>8, <2>2
  <2>3. QED
    BY <2>1, <2>2
<1>10. Counts'
  BY <1>1, <1>6, <1>9 DEF MonInv, Counts
<1>11. TypeOK'
  <2>1. \A c \in CV : count'[c] \in Nat
    BY <1>1, <1>6, <1>7, <1>9
  <2>2. count' \in [CV -> Nat]
    BY <1>1, <2>1
  <2>3. QED
    BY <1>1, <2>2 DEF MonInv, TypeOK, SemTypeOK
<1>12. \A u \in Thread, x \in Semaphores : SleepsOn(u, x)' <=> SleepsOn(u, x)
  BY <1>1, <1>2 DEF SleepsOn
<1>13. Queues'
  BY <1>1, <1>12 DEF Queues, MonInv
<1>14. \A u \in Thread : Place(u)'
  BY <1>1, <1>2 DEF MonInv, Place
<1>15. Permits'
  BY <1>1, <1>3 DEF MonInv, Permits
<1>16. QED
  BY <1>10, <1>11, <1>13, <1>14, <1>15 DEF MonInv
-----------------------------------------------------------------------------
(* Sleeps, ends and dispatches happen to threads that wait for nobody.     *)
LEMMA ElsewhereInv ==
  ASSUME MonInv, NEW t \in Thread,
         (running = t /\ (Sleep(t) \/ Quit(t))) \/ Schedule(t) \/ Interrupt(t)
  PROVE  MonInv'
<1>1. /\ UNCHANGED <<value, wait_queue, next_count, count, at, on>>
      /\ \/ /\ running = t /\ running' = NULL
            /\ \E st \in {"timer", "gone"} :
                 /\ tstate' = [tstate EXCEPT ![t] = st]
                 /\ at[t] \in IF st = "gone" THEN {"out"} ELSE {"out", "in"}
         \/ /\ running = NULL /\ running' = t /\ tstate' = tstate /\ tstate[t] = "ready"
         \/ /\ tstate[t] = "timer" /\ tstate' = [tstate EXCEPT ![t] = "ready"] /\ running' = running
  BY DEF Sleep, Quit, Schedule, Interrupt, Leave, Dispatch, Fire
<1>2. /\ tstate \in [Thread -> {"ready", "ksem", "timer", "gone"}]
      /\ running \in Thread \cup {NULL}
      /\ running # NULL => tstate[running] = "ready" /\ \A u \in Thread : running = u => tstate[u] = "ready"
  BY DEF MonInv, TypeOK, SemTypeOK, Place
<1>3. TypeOK'
  BY <1>1, <1>2 DEF MonInv, TypeOK, SemTypeOK
<1>4. /\ tstate[t] # "ksem" /\ tstate'[t] # "ksem"
      /\ \A u \in Thread \ {t} : tstate'[u] = tstate[u]
  BY <1>1, <1>2
<1>5. \A u \in Thread, x \in Semaphores : SleepsOn(u, x)' <=> SleepsOn(u, x)
  BY <1>1, <1>4 DEF SleepsOn
<1>6. Queues'
  BY <1>1, <1>5 DEF Queues, MonInv
<1>7. \A u \in Thread : Owns(u)' <=> Owns(u)
  BY <1>1, <1>4 DEF Owns
<1>8. Permits'
  BY <1>1, <1>7 DEF MonInv, Permits
<1>9. /\ Signalled' <=> Signalled
      /\ Signaller' <=> Signaller
      /\ \A c \in CV : (Waiter(c)' <=> Waiter(c)) /\ (Woken(c)' <=> Woken(c))
  BY <1>1, <1>7 DEF Signaller, Signalled, Waiter, Woken
<1>10. Counts'
  BY <1>1, <1>9 DEF MonInv, Counts, One
<1>11. \A u \in Thread : Place(u)'
  <2> SUFFICES ASSUME NEW u \in Thread PROVE Place(u)'
    OBVIOUS
  <2>1. Place(u) /\ Place(t) /\ at' = at /\ on' = on
    BY <1>1 DEF MonInv
  <2>2. (tstate[u] = "ready" /\ running # u) => at[u] \notin {"sig", "wait"}
    BY <2>1 DEF Place
  <2>3. QED
    BY <1>1, <1>2, <2>1 DEF Place
<1>12. QED
  BY <1>3, <1>6, <1>8, <1>10, <1>11 DEF MonInv

(* Every step keeps the invariant.                                         *)
LEMMA StepInv == MonInv /\ [Next]_vars => MonInv'
<1> SUFFICES ASSUME MonInv, [Next]_vars PROVE MonInv'
  OBVIOUS
<1>1. CASE UNCHANGED vars
  <2>1. UNCHANGED <<value, wait_queue, tstate, running, next_count, count, at, on>>
    BY <1>1 DEF vars, semVars, monVars
  <2>2. TypeOK' /\ Queues' /\ (\A t \in Thread : Place(t)') /\ Permits'
    BY <2>1 DEF MonInv, TypeOK, SemTypeOK, Queues, SleepsOn, Place, Permits, Owns
  <2>3. Counts'
    <3>1. (Signaller' <=> Signaller) /\ (Signalled' <=> Signalled)
      BY <2>1, Zenon DEF Signaller, Signalled, Owns
    <3>2. \A c \in CV : (Waiter(c)' <=> Waiter(c)) /\ (Woken(c)' <=> Woken(c))
      BY <2>1, Zenon DEF Waiter, Woken, Owns
    <3>3. QED
      BY <2>1, <3>1, <3>2 DEF MonInv, Counts, One
  <2>4. QED
    BY <2>2, <2>3 DEF MonInv
<1>2. CASE Next
  <2>1. PICK t \in Thread : Run(t) \/ Schedule(t) \/ Interrupt(t)
    BY <1>2 DEF Next
  <2>2. CASE Run(t)
    BY <2>2, EnterInv, ExitInv, CondWaitInv, CondSignalInv, SignalDownInv, SignalReturnInv,
       WaitDownInv, WaitReturnInv, ElsewhereInv DEF Run, Inside
  <2>3. CASE Schedule(t) \/ Interrupt(t)
    BY <2>3, ElsewhereInv
  <2>4. QED
    BY <2>1, <2>2, <2>3
<1>3. QED
  BY <1>1, <1>2

(* In every reachable state the threads, the semaphores and the counters   *)
(* of the monitor agree.                                                   *)
THEOREM Invariance == Spec => []MonInv
<1>1. QED
  BY MonInit, StepInv, PTL DEF Spec
-----------------------------------------------------------------------------
(* The invariant implies what the runs check: one thread is inside, and    *)
(* the counters it reads there are those of the threads asleep.            *)
LEMMA InvCorrect == MonInv => MonitorOK
<1> SUFFICES ASSUME MonInv PROVE MonitorOK
  OBVIOUS
<1>1. value[mutex] + Cardinality({t \in Thread : Owns(t)}) <= 1
  <2>1. CASE \A t \in Thread : ~Owns(t)
    <3>1. {t \in Thread : Owns(t)} = {}
      BY <2>1
    <3>2. value[mutex] = 1
      BY <2>1 DEF MonInv, Permits
    <3>3. QED
      BY <3>1, <3>2, FS_EmptySet
  <2>2. ASSUME NEW t \in Thread, Owns(t)
        PROVE  value[mutex] + Cardinality({u \in Thread : Owns(u)}) <= 1
    <3>1. {u \in Thread : Owns(u)} = {t}
      BY <2>2 DEF MonInv, Permits
    <3>2. value[mutex] = 0
      BY <2>2 DEF MonInv, Permits
    <3>3. QED
      BY <3>1, <3>2, FS_Singleton
  <2>3. QED
    BY <2>1, <2>2
<1>2. OneInside
  BY <1>1 DEF OneInside, MonInv, Permits
<1>3. CountsExact
  BY Inside1 DEF CountsExact
<1>4. QED
  BY <1>2, <1>3 DEF MonitorOK, MonInv

(* One thread at a time is between Enter and Exit, whoever signals and     *)
(* waits, and a thread there reads exact counters.                         *)
THEOREM MonitorCorrect == Spec => []MonitorOK
<1>1. QED
  BY Invariance, InvCorrect, PTL
-----------------------------------------------------------------------------
(* The abstract monitor in the states of the invariant.                    *)
Then(q, b) == IF b THEN Append(q, running) ELSE q

Mapped ==
  /\ \A t \in Thread : Owns(t) => Owner = t
  /\ (\A t \in Thread : ~Owns(t)) => Owner = NULL
  /\ Urgent = Then(wait_queue[next], Signaller)
  /\ Cond = [c \in CV |-> Then(wait_queue[sem(c)], Waiter(c))]

(* The refinement mapping gives states of the abstract monitor.            *)
LEMMA Mapping == MonInv => Mapped
<1> SUFFICES ASSUME MonInv PROVE Mapped
  OBVIOUS
<1>1. ASSUME NEW t \in Thread, Owns(t) PROVE Owner = t
  BY <1>1 DEF Owner, MonInv, Permits
<1>2. (\A t \in Thread : ~Owns(t)) => Owner = NULL
  BY DEF Owner
<1>3. \A q \in Seq(Thread) : q \o <<>> = q /\ \A t \in Thread : q \o <<t>> = Append(q, t)
  OBVIOUS
<1>4. /\ wait_queue[next] \in Seq(Thread) /\ \A c \in CV : wait_queue[sem(c)] \in Seq(Thread)
      /\ Signaller \/ (\E c \in CV : Waiter(c)) => running \in Thread
  BY Names DEF MonInv, TypeOK, SemTypeOK, Place, Signaller, Waiter
<1>5. /\ Going("sig", NULL) = IF Signaller THEN <<running>> ELSE <<>>
      /\ \A c \in CV : Going("wait", c) = IF Waiter(c) THEN <<running>> ELSE <<>>
  BY DEF Going, Signaller, Waiter, MonInv, Place
<1>6. Urgent = Then(wait_queue[next], Signaller)
  <2>1. CASE Signaller
    <3>1. Urgent = wait_queue[next] \o <<running>>
      BY <1>5, <2>1, Zenon DEF Urgent
    <3>2. QED
      BY <1>3, <1>4, <2>1, <3>1, Zenon DEF Then
  <2>2. CASE ~Signaller
    <3>1. Urgent = wait_queue[next] \o <<>>
      BY <1>5, <2>2, Zenon DEF Urgent
    <3>2. QED
      BY <1>3, <1>4, <2>2, <3>1, Zenon DEF Then
  <2>3. QED
    BY <2>1, <2>2
<1>7. ASSUME NEW c \in CV
      PROVE  wait_queue[sem(c)] \o Going("wait", c) = Then(wait_queue[sem(c)], Waiter(c))
  <2>1. CASE Waiter(c)
    <3>1. Going("wait", c) = <<running>>
      BY <1>5, <2>1, Zenon
    <3>2. QED
      BY <1>3, <1>4, <2>1, <3>1, Zenon DEF Then
  <2>2. CASE ~Waiter(c)
    <3>1. Going("wait", c) = <<>>
      BY <1>5, <2>2, Zenon
    <3>2. QED
      BY <1>3, <1>4, <2>2, <3>1, Zenon DEF Then
  <2>3. QED
    BY <2>1, <2>2
<1>8. QED
  BY <1>1, <1>2, <1>6, <1>7 DEF Cond, Mapped

(* It holds in the next state as well.                                     *)
LEMMA MappingNext == MonInv' => Mapped'
BY Mapping, PTL
-----------------------------------------------------------------------------
(* The mapped state, when no thread is between a counter and its down().   *)
LEMMA Quiet ==
  ASSUME MonInv, NEW t \in Thread, running = t, at[t] \notin {"sig", "wait"}
  PROVE  /\ ~Signaller /\ Urgent = wait_queue[next]
         /\ \A c \in CV : ~Waiter(c)
         /\ Cond = [c \in CV |-> wait_queue[sem(c)]]
<1>1. ~Signaller /\ \A c \in CV : ~Waiter(c)
  BY DEF MonInv, Place, Signaller, Waiter
<1>2. QED
  BY <1>1, Mapping DEF Mapped, Then

(* Enter is Hoare's: at once, or at the end of the entry queue.            *)
LEMMA EnterMaps ==
  ASSUME MonInv, NEW t \in Thread, running = t, Enter(t)
  PROVE  H!Enter(t)
<1>1. /\ at[t] = "out" /\ at' = [at EXCEPT ![t] = "in"] /\ tstate[t] = "ready" /\ on' = on
      /\ at \in [Thread -> {"out", "in", "sig", "sigged", "wait", "waited"}]
      /\ value \in [Semaphores -> Nat] /\ Down(t, mutex) /\ ~Owns(t)
  BY DEF Enter, Move, MonInv, TypeOK, SemTypeOK, Place, Owns
<1>2. /\ Urgent = wait_queue[next] /\ Cond = [c \in CV |-> wait_queue[sem(c)]]
      /\ Mapped /\ Mapped' /\ MonInv'
  BY <1>1, Quiet, Mapping, MappingNext, EnterInv
<1>3. ~H!Busy(t)
  <2>1. \A x \in Semaphores : t \notin Range(wait_queue[x])
    BY <1>1 DEF MonInv, Queues, SleepsOn
  <2>2. \A x \in Semaphores : \A i \in DOMAIN wait_queue[x] : wait_queue[x][i] # t
    BY <2>1 DEF Range
  <2>3. Owner # t
    BY <1>1, <1>2 DEF Owner
  <2>4. QED
    BY <1>2, <2>2, <2>3, Names DEF H!Busy
<1>4. \A u \in Thread : (at'[u] = at[u] \/ u = t) /\ (at'[u] \in {"sig", "wait"} <=> at[u] \in {"sig", "wait"})
  BY <1>1
<1>5. ~Signaller' /\ \A c \in CV : ~Waiter(c)'
  BY <1>1, <1>4, Quiet DEF Signaller, Waiter
<1>6. CASE value[mutex] = 0
  <2>1. Slept(t, mutex)
    BY <1>1, <1>6, DownSleeps, Names
  <2>2. /\ wait_queue' = [wait_queue EXCEPT ![mutex] = Append(@, t)]
        /\ tstate' = [tstate EXCEPT ![t] = "ksem"]
        /\ wait_queue \in [Semaphores -> Seq(Thread)]
        /\ tstate \in [Thread -> {"ready", "ksem", "timer", "gone"}]
    BY <2>1 DEF Slept, MonInv, TypeOK, SemTypeOK
  <2>3. Urgent' = Urgent /\ Cond' = Cond
    BY <1>2, <1>5, <2>2, Names DEF Mapped, Then
  <2>4. PICK u \in Thread : Owns(u)
    BY <1>6 DEF MonInv, Permits
  <2>5. Owns(u)'
    BY <1>1, <2>2, <2>4 DEF Owns
  <2>6. Owner = u /\ Owner' = u /\ u # NULL
    BY <1>2, <2>4, <2>5 DEF Mapped
  <2>7. QED
    BY <1>3, <2>2, <2>3, <2>6, Names DEF H!Enter
<1>7. CASE value[mutex] # 0
  <2>1. wait_queue' = wait_queue /\ tstate' = tstate
    BY <1>1, <1>7, Names DEF Down
  <2>2. Urgent' = Urgent /\ Cond' = Cond
    BY <1>2, <1>5, <2>1 DEF Mapped, Then
  <2>3. Owner = NULL
    BY <1>2, <1>7 DEF MonInv, Permits, Mapped
  <2>4. Owner' = t
    BY <1>1, <1>2, <2>1 DEF Mapped, Owns
  <2>5. QED
    BY <1>3, <2>1, <2>2, <2>3, <2>4 DEF H!Enter
<1>8. QED
  BY <1>6, <1>7

(* Whoever the monitor is released to is the one Hoare passes it on to.    *)
LEMMA ReleaseMaps ==
  ASSUME MonInv, NEW t \in Thread, NEW to \in {"out", "wait"}, Goes(t, to), Release, MonInv'
  PROVE  /\ Owner = t /\ H!PassOn
         /\ Urgent = wait_queue[next] /\ Cond = [c \in CV |-> wait_queue[sem(c)]]
         /\ \A c \in CV : wait_queue'[sem(c)] = wait_queue[sem(c)]
         /\ running' = t
<1>1. /\ running = t /\ at[t] = "in" /\ Owner = t
      /\ Urgent = wait_queue[next] /\ Cond = [c \in CV |-> wait_queue[sem(c)]]
      /\ Mapped /\ Mapped'
      /\ wait_queue \in [Semaphores -> Seq(Thread)]
  BY Quiet, Mapping, MappingNext, Inside1 DEF Goes, Mapped, MonInv, TypeOK, SemTypeOK
<1>2. /\ at' = [at EXCEPT ![t] = to]
      /\ at \in [Thread -> {"out", "in", "sig", "sigged", "wait", "waited"}]
      /\ \A u \in Thread : Owns(u) => u = t
      /\ tstate[t] = "ready"
  BY <1>1, Inside1 DEF Goes, MonInv, TypeOK, Place
<1>3. CASE Freed
  <2>1. /\ wait_queue' = wait_queue /\ tstate' = tstate /\ running' = running
        /\ wait_queue[mutex] = <<>> /\ wait_queue[next] = <<>>
    BY <1>3 DEF Freed
  <2>2. ~Signaller' /\ \A u \in Thread : ~Owns(u)'
    BY <1>1, <1>2, <2>1 DEF Owns, Signaller, MonInv, Place
  <2>3. Owner' = NULL /\ Urgent' = wait_queue'[next]
    BY <1>1, <2>2 DEF Mapped, Then
  <2>4. QED
    BY <1>1, <2>1, <2>3 DEF H!PassOn
<1>4. ASSUME NEW x \in {mutex, next}, NEW u \in Thread, Handed(u, x),
             x = mutex <=> wait_queue[next] = <<>>
      PROVE  H!PassOn /\ running' = t /\ \A c \in CV : wait_queue'[sem(c)] = wait_queue[sem(c)]
  <2>1. ~Signaller' /\ Permits' /\ (Signalled' <=> x = next) /\ \A c \in CV : ~Woken(c)'
    BY <1>4, GiveAway, Names
  <2>2. /\ tstate[u] = "ksem" /\ at[u] \in {"in", "sigged", "waited"}
        /\ tstate' = [tstate EXCEPT ![u] = "ready"] /\ running' = running
        /\ u = Head(wait_queue[x]) /\ wait_queue[x] # <<>>
        /\ wait_queue'[x] = Tail(wait_queue[x])
        /\ \A y \in Semaphores \ {x} : wait_queue'[y] = wait_queue[y]
        /\ tstate \in [Thread -> {"ready", "ksem", "timer", "gone"}]
    BY <1>1, <1>4, Names DEF Handed, SleepsOn, MonInv, TypeOK, SemTypeOK
  <2>3. Owns(u)'
    BY <1>2, <2>2 DEF Owns
  <2>4. Owner' = u /\ Urgent' = wait_queue'[next]
    BY <1>1, <2>1, <2>3 DEF Mapped, Then
  <2>5. CASE x = next
    BY <1>1, <1>4, <2>2, <2>4, <2>5, Names DEF H!PassOn
  <2>6. CASE x = mutex
    BY <1>1, <1>4, <2>2, <2>4, <2>6, Names DEF H!PassOn
  <2>7. QED
    BY <1>1, <2>2, <2>5, <2>6, Names
<1>5. CASE wait_queue[next] = <<>> /\ \E u \in Thread : Handed(u, mutex)
  BY <1>1, <1>4, <1>5
<1>6. CASE wait_queue[next] # <<>> /\ \E u \in Thread : Handed(u, next)
  <2>1. PICK u \in Thread : Handed(u, next)
    BY <1>6
  <2>2. next = mutex <=> wait_queue[next] = <<>>
    BY <1>6, Names
  <2>3. QED
    BY <1>1, <1>4, <2>1, <2>2
<1>7. CASE Freed
  BY <1>1, <1>3, <1>7 DEF Freed
<1>8. QED
  BY <1>1, <1>5, <1>6, <1>7, Releases
(* Exit is Hoare's Leave.                                                  *)
LEMMA ExitMaps ==
  ASSUME MonInv, NEW t \in Thread, running = t, Exit(t)
  PROVE  H!Leave(t)
<1>1. /\ at[t] = "in" /\ at' = [at EXCEPT ![t] = "out"] /\ on' = on /\ Release
      /\ at \in [Thread -> {"out", "in", "sig", "sigged", "wait", "waited"}]
      /\ on \in [Thread -> CV \cup {NULL}] /\ on[t] = NULL /\ MonInv'
  BY ExitInv DEF Exit, Move, MonInv, TypeOK, Place
<1>2. Goes(t, "out")
  BY <1>1 DEF Goes
<1>3. /\ Owner = t /\ H!PassOn /\ Cond = [c \in CV |-> wait_queue[sem(c)]]
      /\ \A c \in CV : wait_queue'[sem(c)] = wait_queue[sem(c)]
  BY <1>1, <1>2, ReleaseMaps
<1>4. \A c \in CV : ~Waiter(c)'
  BY <1>1, <1>2, Released
<1>5. Cond' = Cond
  BY <1>1, <1>3, <1>4, MappingNext DEF Mapped, Then
<1>6. QED
  BY <1>3, <1>5 DEF H!Leave

(* CondWait is Hoare's Wait: t is the last in the queue of c from then on. *)
LEMMA CondWaitMaps ==
  ASSUME MonInv, NEW t \in Thread, running = t, NEW c \in CV, CondWait(t, c)
  PROVE  H!Wait(t, c)
<1>1. /\ at[t] = "in" /\ at' = [at EXCEPT ![t] = "wait"] /\ on' = [on EXCEPT ![t] = c] /\ Release
      /\ at \in [Thread -> {"out", "in", "sig", "sigged", "wait", "waited"}]
      /\ on \in [Thread -> CV \cup {NULL}] /\ MonInv'
  BY CondWaitInv DEF CondWait, Move, MonInv, TypeOK
<1>2. Goes(t, "wait") /\ on'[t] = c
  BY <1>1 DEF Goes
<1>3. /\ Owner = t /\ H!PassOn /\ Cond = [d \in CV |-> wait_queue[sem(d)]] /\ running' = t
      /\ \A d \in CV : wait_queue'[sem(d)] = wait_queue[sem(d)]
  BY <1>1, <1>2, ReleaseMaps
<1>4. \A d \in CV : Waiter(d)' <=> d = c
  BY <1>1, <1>2, Released
<1>5. Cond' = [d \in CV |-> IF d = c THEN Append(wait_queue[sem(d)], t) ELSE wait_queue[sem(d)]]
  <2>1. Cond' = [d \in CV |-> Then(wait_queue[sem(d)], Waiter(d))']
    BY <1>1, MappingNext DEF Mapped
  <2>2. ASSUME NEW d \in CV
        PROVE  Then(wait_queue[sem(d)], Waiter(d))'
                 = IF d = c THEN Append(wait_queue[sem(d)], t) ELSE wait_queue[sem(d)]
    BY <1>3, <1>4 DEF Then
  <2>3. QED
    BY <2>1, <2>2
<1>6. Cond' = [Cond EXCEPT ![c] = Append(@, t)]
  BY <1>3, <1>5
<1>7. QED
  BY <1>3, <1>6 DEF H!Wait

(* CondSignal is Hoare's Signal: the monitor goes to the first waiter, and *)
(* t is the last of those that gave it away.                               *)
LEMMA CondSignalMaps ==
  ASSUME MonInv, NEW t \in Thread, running = t, NEW c \in CV, CondSignal(t, c)
  PROVE  H!Signal(t, c)
<1>1. /\ at[t] = "in" /\ at' = [at EXCEPT ![t] = "sig"] /\ on' = on
      /\ at \in [Thread -> {"out", "in", "sig", "sigged", "wait", "waited"}]
      /\ on \in [Thread -> CV \cup {NULL}] /\ on[t] = NULL /\ MonInv' /\ Owner = t
      /\ Urgent = wait_queue[next] /\ Cond = [d \in CV |-> wait_queue[sem(d)]]
      /\ Mapped'
  BY CondSignalInv, MappingNext, Mapping, Quiet, Inside1 DEF CondSignal, Move, MonInv, TypeOK, Place, Mapped
<1>2. PICK u \in Thread : Handed(u, sem(c))
  BY CondSignalInv
<1>3. Goes(t, "sig") /\ on'[t] = NULL
  BY <1>1 DEF Goes
<1>4. /\ Signaller' /\ \A d \in CV : ~Waiter(d)'
      /\ Woken(c)'
  BY <1>2, <1>3, GiveAway, Names
<1>5. /\ u = Head(wait_queue[sem(c)]) /\ wait_queue[sem(c)] # <<>>
      /\ wait_queue'[sem(c)] = Tail(wait_queue[sem(c)])
      /\ \A y \in Semaphores \ {sem(c)} : wait_queue'[y] = wait_queue[y]
      /\ running' = t
      /\ tstate[u] = "ksem" /\ tstate' = [tstate EXCEPT ![u] = "ready"] /\ at[u] = "waited"
      /\ tstate \in [Thread -> {"ready", "ksem", "timer", "gone"}]
  BY <1>2, Names DEF Handed, MonInv, TypeOK, SemTypeOK, SleepsOn
<1>6. Owns(u)'
  BY <1>1, <1>5 DEF Owns
<1>7. Owner' = u
  BY <1>1, <1>6 DEF Mapped
<1>8. Cond' = [d \in CV |-> wait_queue'[sem(d)]]
  BY <1>1, <1>4 DEF Mapped, Then
<1>9. Cond' = [Cond EXCEPT ![c] = Tail(@)]
  BY <1>1, <1>5, <1>8, Names
<1>10. Urgent' = Append(Urgent, t)
  <2>1. Urgent' = Append(wait_queue'[next], running')
    BY <1>1, <1>4 DEF Mapped, Then
  <2>2. QED
    BY <1>1, <1>5, <2>1, Names
<1>11. wait_queue'[mutex] = wait_queue[mutex] /\ Cond[c] # <<>> /\ Owner' = Head(Cond[c])
  BY <1>1, <1>5, <1>7, Names
<1>12. QED
  BY <1>1, <1>9, <1>10, <1>11 DEF H!Signal

hvars == <<Owner, wait_queue[mutex], Urgent, Cond>>

(* The owner, the queues and who is between a counter and a down() decide  *)
(* the mapped state.                                                       *)
LEMMA Stutters ==
  ASSUME MonInv, MonInv',
         \A t \in Thread : Owns(t)' <=> Owns(t),
         wait_queue'[mutex] = wait_queue[mutex],
         Then(wait_queue[next], Signaller)' = Then(wait_queue[next], Signaller),
         \A c \in CV : Then(wait_queue[sem(c)], Waiter(c))' = Then(wait_queue[sem(c)], Waiter(c))
  PROVE  UNCHANGED hvars
<1>1. Mapped /\ Mapped'
  BY Mapping, MappingNext
<1>2. Urgent' = Urgent /\ Cond' = Cond
  BY <1>1, Zenon DEF Mapped
<1>3. Owner' = Owner
  <2>1. CASE \E t \in Thread : Owns(t)
    BY <1>1, <2>1, Zenon DEF Mapped
  <2>2. CASE \A t \in Thread : ~Owns(t)
    BY <1>1, <2>2, Zenon DEF Mapped
  <2>3. QED
    BY <2>1, <2>2
<1>4. QED
  BY <1>2, <1>3 DEF hvars
(* The steps inside cond_signal and cond_wait are not seen in Hoare.       *)
LEMMA InsideMaps ==
  ASSUME MonInv, NEW t \in Thread, running = t, Inside(t)
  PROVE  UNCHANGED hvars
<1>1. /\ at \in [Thread -> {"out", "in", "sig", "sigged", "wait", "waited"}]
      /\ tstate \in [Thread -> {"ready", "ksem", "timer", "gone"}]
      /\ wait_queue \in [Semaphores -> Seq(Thread)]
      /\ on \in [Thread -> CV \cup {NULL}]
      /\ \A u \in Thread \ {t} : at[u] \notin {"sig", "wait"}
  BY DEF MonInv, TypeOK, SemTypeOK, Place
<1>2. CASE SignalDown(t)
  <2>1. /\ at[t] = "sig" /\ at' = [at EXCEPT ![t] = "sigged"] /\ on' = on /\ MonInv' /\ Slept(t, next)
    BY <1>2, SignalDownInv DEF SignalDown, Move
  <2>2. /\ tstate' = [tstate EXCEPT ![t] = "ksem"]
        /\ wait_queue' = [wait_queue EXCEPT ![next] = Append(@, t)]
    BY <2>1 DEF Slept
  <2>3. \A u \in Thread : Owns(u)' <=> Owns(u)
    BY <1>1, <2>1, <2>2 DEF Owns
  <2>4. /\ Signaller /\ ~Signaller'
        /\ \A c \in CV : ~Waiter(c) /\ ~Waiter(c)'
    BY <1>1, <2>1 DEF Signaller, Waiter
  <2>5. Then(wait_queue[next], Signaller)' = Then(wait_queue[next], Signaller)
    BY <1>1, <2>2, <2>4, Names DEF Then
  <2>6. \A c \in CV : Then(wait_queue[sem(c)], Waiter(c))' = Then(wait_queue[sem(c)], Waiter(c))
    BY <1>1, <2>2, <2>4, Names DEF Then
  <2>7. QED
    BY <1>1, <2>1, <2>2, <2>3, <2>5, <2>6, Stutters, Names
<1>3. CASE WaitDown(t)
  <2>1. /\ at[t] = "wait" /\ at' = [at EXCEPT ![t] = "waited"] /\ on' = on /\ MonInv'
        /\ on[t] \in CV /\ Slept(t, sem(on[t]))
    BY <1>3, WaitDownInv DEF WaitDown, Move
  <2>2. /\ tstate' = [tstate EXCEPT ![t] = "ksem"]
        /\ wait_queue' = [wait_queue EXCEPT ![sem(on[t])] = Append(@, t)]
    BY <2>1 DEF Slept
  <2>3. \A u \in Thread : Owns(u)' <=> Owns(u)
    BY <1>1, <2>1, <2>2 DEF Owns
  <2>4. /\ ~Signaller /\ ~Signaller'
        /\ \A c \in CV : (Waiter(c) <=> c = on[t]) /\ ~Waiter(c)'
    BY <1>1, <2>1 DEF Signaller, Waiter
  <2>5. Then(wait_queue[next], Signaller)' = Then(wait_queue[next], Signaller)
    BY <1>1, <2>1, <2>2, <2>4, Names DEF Then
  <2>6. ASSUME NEW c \in CV
        PROVE  Then(wait_queue[sem(c)], Waiter(c))' = Then(wait_queue[sem(c)], Waiter(c))
    <3>1. Then(wait_queue[sem(c)], Waiter(c))' = wait_queue'[sem(c)]
      BY <2>4 DEF Then
    <3>2. CASE c = on[t]
      BY <1>1, <2>2, <2>4, <3>1, <3>2, Names DEF Then
    <3>3. CASE c # on[t]
      BY <1>1, <2>1, <2>2, <2>4, <3>1, <3>3, Names DEF Then
    <3>4. QED
      BY <3>2, <3>3
  <2>7. QED
    BY <1>1, <2>1, <2>2, <2>3, <2>5, <2>6, Stutters, Names
<1>4. CASE SignalReturn(t) \/ WaitReturn(t)
  <2>1. /\ at[t] \in {"sigged", "waited"} /\ at' = [at EXCEPT ![t] = "in"] /\ MonInv'
        /\ \A u \in Thread \ {t} : on'[u] = on[u]
        /\ UNCHANGED <<wait_queue, tstate, running>>
    BY <1>1, <1>4, SignalReturnInv, WaitReturnInv DEF SignalReturn, WaitReturn, Move, semVars
  <2>2. \A u \in Thread : Owns(u)' <=> Owns(u)
    BY <1>1, <2>1 DEF Owns
  <2>3. ~Signaller /\ ~Signaller' /\ \A c \in CV : ~Waiter(c) /\ ~Waiter(c)'
    BY <1>1, <2>1 DEF Signaller, Waiter
  <2>4. QED
    BY <2>1, <2>2, <2>3, Stutters DEF Then
<1>5. QED
  BY <1>2, <1>3, <1>4 DEF Inside

(* Nor are sleeps, ends and dispatches.                                    *)
LEMMA ElsewhereMaps ==
  ASSUME MonInv, NEW t \in Thread,
         (running = t /\ (Sleep(t) \/ Quit(t))) \/ Schedule(t) \/ Interrupt(t)
  PROVE  UNCHANGED hvars
<1>1. /\ UNCHANGED <<wait_queue, at, on>>
      /\ tstate[t] # "ksem" /\ \E st : st # "ksem" /\ tstate' = [tstate EXCEPT ![t] = st]
      /\ \/ running = t /\ at[t] \in {"out", "in"}
         \/ running = NULL
         \/ running' = running
  <2>1. tstate \in [Thread -> {"ready", "ksem", "timer", "gone"}] /\ Place(t)
    BY DEF MonInv, TypeOK, SemTypeOK
  <2>2. CASE running = t /\ (Sleep(t) \/ Quit(t))
    BY <2>1, <2>2 DEF Sleep, Quit, Leave, Place
  <2>3. CASE Schedule(t)
    <3>1. UNCHANGED <<wait_queue, tstate, at, on>> /\ running = NULL /\ tstate[t] = "ready"
      BY <2>3 DEF Schedule, Dispatch
    <3>2. tstate' = [tstate EXCEPT ![t] = "ready"]
      BY <2>1, <3>1
    <3>3. QED
      BY <3>1, <3>2
  <2>4. CASE Interrupt(t)
    BY <2>1, <2>4 DEF Interrupt, Fire
  <2>5. QED
    BY <2>2, <2>3, <2>4
<1>2. tstate \in [Thread -> {"ready", "ksem", "timer", "gone"}] /\ MonInv'
  BY ElsewhereInv DEF MonInv, TypeOK, SemTypeOK
<1>3. \A u \in Thread : Owns(u)' <=> Owns(u)
  BY <1>1, <1>2 DEF Owns
<1>4. (Signaller' <=> Signaller) /\ \A c \in CV : Waiter(c)' <=> Waiter(c)
  BY <1>1 DEF Signaller, Waiter
<1>5. CASE running' = running
  <2>1. Then(wait_queue[next], Signaller)' = Then(wait_queue[next], Signaller)
    BY <1>1, <1>4, <1>5, Zenon DEF Then
  <2>2. \A c \in CV : Then(wait_queue[sem(c)], Waiter(c))' = Then(wait_queue[sem(c)], Waiter(c))
    BY <1>1, <1>4, <1>5, Zenon DEF Then
  <2>3. QED
    BY <1>1, <1>2, <1>3, <2>1, <2>2, Stutters
<1>6. CASE running = NULL \/ (running = t /\ at[t] \in {"out", "in"})
  <2>1. ~Signaller /\ \A c \in CV : ~Waiter(c)
    BY <1>6 DEF MonInv, Place, Signaller, Waiter
  <2>2. QED
    BY <1>1, <1>2, <1>3, <1>4, <2>1, Stutters DEF Then
<1>7. QED
  BY <1>1, <1>5, <1>6

(* Every step of the monitor is a step of Hoare's, or none.                *)
LEMMA StepMaps == MonInv /\ [Next]_vars => [H!Next]_hvars
<1> SUFFICES ASSUME MonInv, [Next]_vars PROVE [H!Next]_hvars
  OBVIOUS
<1>1. CASE UNCHANGED vars
  <2>1. UNCHANGED <<value, wait_queue, tstate, running, next_count, count, at, on>>
    BY <1>1 DEF vars, semVars, monVars
  <2>2. UNCHANGED hvars
    BY <2>1 DEF hvars, Owner, Owns, Urgent, Cond, Going
  <2>3. QED
    BY <2>2
<1>2. CASE Next
  <2>1. PICK t \in Thread : Run(t) \/ Schedule(t) \/ Interrupt(t)
    BY <1>2 DEF Next
  <2>2. CASE Schedule(t) \/ Interrupt(t) \/ (running = t /\ (Sleep(t) \/ Quit(t)))
    BY <2>2, ElsewhereMaps
  <2>3. CASE running = t /\ Inside(t)
    BY <2>3, InsideMaps
  <2>4. CASE running = t /\ (Enter(t) \/ Exit(t))
    BY <2>4, EnterMaps, ExitMaps DEF H!Next
  <2>5. CASE running = t /\ \E c \in CV : CondSignal(t, c) \/ CondWait(t, c)
    BY <2>5, CondSignalMaps, CondWaitMaps DEF H!Next
  <2>6. QED
    BY <2>1, <2>2, <2>3, <2>4, <2>5 DEF Run
<1>3. QED
  BY <1>1, <1>2

(* The monitor built from semaphores is Hoare's, with signal-and-wait: the *)
(* first waiter of c gets the monitor from cond_signal, and the signaller  *)
(* has it back before the threads at the entry.                            *)
THEOREM MonitorIsHoare == Spec => HoareSpec
<1>1. Init => H!Init
  <2> SUFFICES ASSUME Init PROVE H!Init
    OBVIOUS
  <2>1. /\ \A x \in Semaphores : wait_queue[x] = <<>>
        /\ \A t \in Thread : at[t] = "out"
    BY DEF Init, SemInit
  <2>2. MonInv /\ Mapped
    BY MonInit, Mapping
  <2>3. ~Signaller /\ (\A c \in CV : ~Waiter(c)) /\ \A t \in Thread : ~Owns(t)
    BY <2>1 DEF Signaller, Waiter, Owns
  <2>4. QED
    BY <2>1, <2>2, <2>3, Names DEF Mapped, Then, H!Init
<1>2. MonInv /\ [Next]_vars => [H!Next]_<<Owner, wait_queue[mutex], Urgent, Cond>>
  BY StepMaps DEF hvars
<1>3. QED
  BY <1>1, <1>2, Invariance, PTL DEF Spec, HoareSpec, H!Spec
=============================================================================
