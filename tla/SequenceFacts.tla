--------------------------- MODULE SequenceFacts ----------------------------
(***************************************************************************)
(* What Append and Tail do to the elements of a sequence in which each     *)
(* occurs once, a queue of threads or a list of buffers; induction on the  *)
(* natural numbers as a fact about sets; that a function defined by        *)
(* recursion on 0..N exists, so that its equation may be used; and the     *)
(* remainder of a number that has wrapped around at most once.             *)
(***************************************************************************)
EXTENDS Naturals, Sequences, SequencesExt, WellFoundedInduction, TLAPS

(* b joins at the end.                                                     *)
LEMMA AppendFacts ==
  ASSUME NEW S, NEW s \in Seq(S), NEW b \in S
  PROVE  /\ Append(s, b) \in Seq(S) /\ Append(s, b) # <<>>
         /\ Len(Append(s, b)) = Len(s) + 1
         /\ Range(Append(s, b)) = Range(s) \cup {b}
         /\ (IsInjective(s) /\ b \notin Range(s)) => IsInjective(Append(s, b))
<1> DEFINE n == Len(s) + 1
           a == Append(s, b)
<1>1. /\ Len(s) \in Nat /\ DOMAIN s = 1..Len(s)
      /\ a \in Seq(S) /\ DOMAIN a = 1..n /\ Len(a) = n /\ a[n] = b
      /\ \A i \in 1..Len(s) : a[i] = s[i]
  OBVIOUS
<1>2. a # <<>>
  BY <1>1
<1> HIDE DEF a
<1>3. 1..n = (1..Len(s)) \cup {n} /\ n \notin 1..Len(s)
  BY <1>1
<1>4. Range(a) = Range(s) \cup {b}
  <2>1. Range(a) = {a[i] : i \in (1..Len(s)) \cup {n}}
    BY <1>1, <1>3, Zenon DEF Range
  <2>2. Range(s) = {s[i] : i \in 1..Len(s)}
    BY <1>1, Zenon DEF Range
  <2>3. {a[i] : i \in (1..Len(s)) \cup {n}} = {a[i] : i \in 1..Len(s)} \cup {a[n]}
    OBVIOUS
  <2>4. {a[i] : i \in 1..Len(s)} = {s[i] : i \in 1..Len(s)}
    BY <1>1
  <2>5. QED
    BY <2>1, <2>2, <2>3, <2>4, <1>1, Zenon
<1>5. ASSUME IsInjective(s), b \notin Range(s) PROVE IsInjective(a)
  <2>1. \A i \in 1..Len(s) : s[i] # b
    BY <1>1, <1>5, Zenon DEF Range
  <2>2. \A i, j \in 1..Len(s) : s[i] = s[j] => i = j
    BY <1>1, <1>5, Zenon DEF IsInjective
  <2>3. \A i, j \in 1..n : a[i] = a[j] => i = j
    BY <2>1, <2>2, <1>1, <1>3, Zenon
  <2>4. QED
    BY <2>3, <1>1, Zenon DEF IsInjective
<1>6. QED
  BY <1>1, <1>2, <1>4, <1>5 DEF a

(* The head leaves.                                                        *)
LEMMA TailFacts ==
  ASSUME NEW S, NEW s \in Seq(S), s # <<>>
  PROVE  /\ Head(s) \in S /\ Head(s) \in Range(s) /\ Tail(s) \in Seq(S)
         /\ Len(s) > 0 /\ Len(Tail(s)) = Len(s) - 1
         /\ IsInjective(s) => /\ IsInjective(Tail(s))
                              /\ Range(Tail(s)) = Range(s) \ {Head(s)}
<1> DEFINE n == Len(s) - 1
           t == Tail(s)
<1>1. /\ n \in Nat /\ Len(s) = n + 1 /\ DOMAIN s = 1..Len(s) /\ Head(s) = s[1] /\ s[1] \in S
      /\ t \in Seq(S) /\ DOMAIN t = 1..n /\ \A i \in 1..n : t[i] = s[i + 1]
  OBVIOUS
<1> HIDE DEF t, n
<1>2. Head(s) \in Range(s)
  BY <1>1 DEF Range
<1>3. ASSUME IsInjective(s) PROVE IsInjective(t)
  BY <1>1, <1>3 DEF IsInjective
<1>4. ASSUME IsInjective(s) PROVE Range(t) = Range(s) \ {Head(s)}
  <2>1. Range(t) = {t[i] : i \in 1..n} /\ Range(s) = {s[i] : i \in 1..Len(s)}
    BY <1>1, Zenon DEF Range
  <2>2. ASSUME NEW i \in 1..n PROVE t[i] \in Range(s) /\ t[i] # Head(s)
    <3>1. i + 1 \in 1..Len(s) /\ 1 \in 1..Len(s) /\ i + 1 # 1
      BY <1>1
    <3>2. t[i] = s[i + 1]
      BY <1>1
    <3>3. s[i + 1] # s[1]
      BY <3>1, <1>1, <1>4, Zenon DEF IsInjective
    <3>4. QED
      BY <3>1, <3>2, <3>3, <2>1, <1>1, Zenon
  <2>3. ASSUME NEW i \in 1..Len(s), s[i] # Head(s) PROVE s[i] \in Range(t)
    <3>1. i - 1 \in 1..n /\ i = (i - 1) + 1
      BY <1>1, <2>3
    <3>2. t[i - 1] = s[i]
      BY <3>1, <1>1
    <3>3. QED
      BY <3>1, <3>2, <2>1, Zenon
  <2>4. QED
    BY <2>1, <2>2, <2>3
<1>5. QED
  BY <1>1, <1>2, <1>3, <1>4 DEF t

(* The empty sequence has no elements.                                     *)
LEMMA EmptyFacts ==
  ASSUME NEW S
  PROVE  Range(<<>>) = {} /\ IsInjective(<<>>) /\ <<>> \in Seq(S)
BY DEF Range, IsInjective

(* The elements of a sequence over S are in S.                             *)
LEMMA RangeFacts == ASSUME NEW S, NEW s \in Seq(S) PROVE Range(s) \subseteq S
BY DEF Range

(* One of several queues grows at its end, or loses its head.              *)
Pushed(S, X, q, p, x, b) ==
  /\ p \in [X -> Seq(S)]
  /\ Len(p[x]) = Len(q[x]) + 1
  /\ \A y \in X : y # x => p[y] = q[y]
  /\ \A y \in X : Range(p[y]) = IF y = x THEN Range(q[y]) \cup {b} ELSE Range(q[y])
  /\ IsInjective(q[x]) /\ b \notin Range(q[x]) => IsInjective(p[x])

(* What a queue holds after an element is put at its end,                  *)
LEMMA QueueAppend ==
  ASSUME NEW S, NEW X, NEW q \in [X -> Seq(S)], NEW x \in X, NEW b \in S,
         NEW p, p = [q EXCEPT ![x] = Append(@, b)]
  PROVE  Pushed(S, X, q, p, x, b)
<1>1. /\ p \in [X -> Seq(S)] /\ p[x] = Append(q[x], b)
      /\ \A y \in X : y # x => p[y] = q[y]
  OBVIOUS
<1>2. /\ Len(p[x]) = Len(q[x]) + 1 /\ Range(p[x]) = Range(q[x]) \cup {b}
      /\ IsInjective(q[x]) /\ b \notin Range(q[x]) => IsInjective(p[x])
  BY <1>1, AppendFacts
<1>3. QED
  BY <1>1, <1>2, Zenon DEF Pushed

Popped(S, X, q, p, x) ==
  /\ p \in [X -> Seq(S)] /\ IsInjective(p[x])
  /\ Len(q[x]) > 0 /\ Len(p[x]) = Len(q[x]) - 1
  /\ Head(q[x]) \in S /\ Head(q[x]) \in Range(q[x])
  /\ \A y \in X : y # x => p[y] = q[y]
  /\ \A y \in X : Range(p[y]) = IF y = x THEN Range(q[y]) \ {Head(q[x])} ELSE Range(q[y])

(* and after its first one is taken.                                       *)
LEMMA QueueTail ==
  ASSUME NEW S, NEW X, NEW q \in [X -> Seq(S)], NEW x \in X, q[x] # <<>>, IsInjective(q[x]),
         NEW p, p = [q EXCEPT ![x] = Tail(@)]
  PROVE  Popped(S, X, q, p, x)
<1>1. /\ p[x] = Tail(q[x]) /\ q[x] \in Seq(S)
      /\ \A y \in X : y # x => p[y] = q[y]
  OBVIOUS
<1>2. p[x] \in Seq(S)
  BY <1>1, TailFacts
<1>3. p \in [X -> Seq(S)]
  BY <1>1, <1>2
<1>4. /\ IsInjective(p[x]) /\ Len(q[x]) > 0 /\ Len(p[x]) = Len(q[x]) - 1
      /\ Head(q[x]) \in S /\ Head(q[x]) \in Range(q[x])
      /\ Range(p[x]) = Range(q[x]) \ {Head(q[x])}
  BY <1>1, TailFacts
<1>5. QED
  BY <1>1, <1>3, <1>4, Zenon DEF Popped
-----------------------------------------------------------------------------
(* A set of natural numbers has a least one,                               *)
LEMMA Least ==
  ASSUME NEW T \in SUBSET Nat, T # {}
  PROVE  \E m \in T : \A n \in T : m <= n
<1> DEFINE R == {ss \in Nat \X Nat : ss[1] < ss[2]}
<1>1. IsWellFoundedOn(R, Nat)
  BY NatLessThanWellFounded DEF OpToRel
<1>2. PICK m \in T : \A n \in T : <<n, m>> \notin R
  <2> HIDE DEF R
  <2> QED BY <1>1, WFMin, Zenon
<1>3. \A n \in T : ~(n < m)
  BY <1>2
<1>4. QED
  BY <1>3

(* and one that has 0 and the successor of each of its numbers has all.    *)
LEMMA Induction ==
  ASSUME NEW T \in SUBSET Nat, 0 \in T, \A n \in T : n + 1 \in T
  PROVE  T = Nat
<1>1. ASSUME Nat \ T # {} PROVE FALSE
  <2>1. PICK m \in Nat \ T : \A n \in Nat \ T : m <= n
    BY <1>1, Least
  <2>2. m # 0 /\ m - 1 \in Nat
    BY <2>1
  <2>3. m - 1 \in T
    BY <2>1, <2>2
  <2>4. QED
    BY <2>3, <2>1
<1>2. QED
  BY <1>1
-----------------------------------------------------------------------------
(* A recursive function on 0..N is what its equation says.                 *)
StepOf(F, N, A) == F \in [(1..N) \X A -> A]
Iterates(f, F, N, A, a) ==
  f \in [0..N -> A] /\ f[0] = a /\ \A i \in 1..N : f[i] = F[<<i, f[i-1]>>]

LEMMA Recursion ==
  ASSUME NEW N \in Nat, NEW A, NEW a \in A, NEW F, StepOf(F, N, A)
  PROVE  \E f : Iterates(f, F, N, A, a)
<1> USE DEF StepOf, Iterates
<1> DEFINE Upto(n) == \E f \in [0..n -> A] :
                        f[0] = a /\ \A i \in 1..n : f[i] = F[<<i, f[i-1]>>]
           T == {n \in Nat : n <= N => Upto(n)}
<1>1. 0 \in T
  <2>1. [i \in 0..0 |-> a] \in [0..0 -> A] /\ [i \in 0..0 |-> a][0] = a
    OBVIOUS
  <2>2. \A i \in 1..0 : FALSE
    OBVIOUS
  <2>3. Upto(0)
    BY <2>1, <2>2
  <2>4. QED
    BY <2>3
<1>2. ASSUME NEW n \in T PROVE n + 1 \in T
  <2>1. SUFFICES ASSUME n + 1 <= N PROVE Upto(n + 1)
    OBVIOUS
  <2>2. PICK f \in [0..n -> A] : f[0] = a /\ \A i \in 1..n : f[i] = F[<<i, f[i-1]>>]
    BY <2>1
  <2>3. F[<<n + 1, f[n]>>] \in A
    BY <2>1, <2>2
  <2> DEFINE g == [i \in 0..n+1 |-> IF i <= n THEN f[i] ELSE F[<<n + 1, f[n]>>]]
  <2>4. /\ g \in [0..n+1 -> A] /\ g[0] = a
        /\ \A i \in 0..n : g[i] = f[i]
        /\ g[n+1] = F[<<n + 1, f[n]>>]
    BY <2>2, <2>3
  <2> HIDE DEF g
  <2>5. ASSUME NEW i \in 1..n+1 PROVE g[i] = F[<<i, g[i-1]>>]
    <3>1. CASE i <= n
      <4>1. i \in 1..n /\ i-1 \in 0..n /\ i \in 0..n
        BY <3>1
      <4>2. QED
        BY <4>1, <2>2, <2>4
    <3>2. CASE i = n + 1
      BY <3>2, <2>4
    <3>3. QED
      BY <3>1, <3>2
  <2>6. QED
    BY <2>4, <2>5
<1>3. T = Nat
  <2> HIDE DEF T
  <2>1. T \in SUBSET Nat
    BY DEF T
  <2>2. QED
    BY <1>1, <1>2, <2>1, Induction
<1>4. N \in T
  BY <1>3
<1>5. QED
  BY <1>4
-----------------------------------------------------------------------------
(* The remainder of a number of the first two rounds, and the next.        *)
LEMMA Wrap ==
  ASSUME NEW n \in Nat, n > 0, NEW x \in Nat, x <= n + n
  PROVE  x % n = IF x < n THEN x ELSE IF x < n + n THEN x - n ELSE 0
<1> DEFINE q == x \div n
           r == x % n
<1>1. q \in Nat /\ r \in 0..n-1 /\ x = n * q + r
  OBVIOUS
<1> HIDE DEF q, r
<1>2. CASE q = 0
  <2>1. n * q = 0
    BY <1>2
  <2>2. QED
    BY <1>1, <2>1 DEF r
<1>3. CASE q = 1
  <2>1. n * q = n
    BY <1>3
  <2>2. QED
    BY <1>1, <2>1 DEF r
<1>4. CASE q > 1
  <2>1. n * q >= n * 2
    BY <1>1, <1>4
  <2>2. QED
    BY <1>1, <2>1 DEF r
<1>5. QED
  BY <1>1, <1>2, <1>3, <1>4
=============================================================================
