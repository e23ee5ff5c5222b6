---------------------------- MODULE FilesProofs -----------------------------
(***************************************************************************)
(* Files, for any number of processes, files and descriptors and any       *)
(* geometry of the disk: its invariants OpenExact, SpaceExact, BlocksReach *)
(* and Synced, and the action property RefsKept.                           *)
(***************************************************************************)
EXTENDS Files, SequenceFacts, FiniteSetTheorems

-----------------------------------------------------------------------------
(* Sums of a function over a finite set *)

(* The element that SumFunctionOnSet adds first.                           *)
Pick(s) == CHOOSE x \in s : TRUE

(* What SumFunctionOnSet(f, S) evaluates: h[s] is the sum over s.          *)
Summing(f, S, h) ==
  h = [s \in SUBSET S |-> IF s = {} THEN 0 ELSE f[Pick(s)] + h[s \ {Pick(s)}]]

SumsOf(f, S) == CHOOSE h : Summing(f, S, h)

(* SumFunction unfolds to it.                                              *)
LEMMA SumUnfolds == ASSUME NEW f PROVE SumFunction(f) = SumsOf(f, DOMAIN f)[DOMAIN f]
  BY DEF SumFunction, SumFunctionOnSet, FoldFunctionOnSet, MapThenFoldSet, SumsOf, Summing, Pick

(* The subsets of a finite set, and what is left of them without Pick.     *)
LEMMA SubsetFacts ==
  ASSUME NEW S, IsFiniteSet(S)
  PROVE  /\ Cardinality(S) \in Nat
         /\ \A s \in SUBSET S : /\ IsFiniteSet(s) /\ Cardinality(s) \in Nat
                                /\ Cardinality(s) = 0 <=> s = {}
                                /\ Cardinality(s) <= Cardinality(S)
         /\ \A s \in SUBSET S : s # {} =>
              /\ Pick(s) \in s /\ Pick(s) \in S /\ s \ {Pick(s)} \in SUBSET S
              /\ Cardinality(s \ {Pick(s)}) = Cardinality(s) - 1
<1>1. /\ Cardinality(S) \in Nat
      /\ \A s \in SUBSET S : /\ IsFiniteSet(s) /\ Cardinality(s) \in Nat
                             /\ Cardinality(s) = 0 <=> s = {}
                             /\ Cardinality(s) <= Cardinality(S)
  BY FS_Subset, FS_CardinalityType, FS_EmptySet
<1>2. ASSUME NEW s \in SUBSET S, s # {} PROVE Pick(s) \in s
  BY <1>2 DEF Pick
<1>3. QED
  BY <1>1, <1>2, FS_RemoveElement

(* A property of the subsets of a finite set that holds of the empty one,  *)
(* and of every one that is an element larger than one it holds of, holds  *)
(* of all of them.                                                         *)
LEMMA SubsetInduction ==
  ASSUME NEW S, IsFiniteSet(S), NEW G, {} \in G,
         \A s \in SUBSET S : s # {} /\ s \ {Pick(s)} \in G => s \in G
  PROVE  \A s \in SUBSET S : s \in G
<1> DEFINE T == {n \in Nat : \A s \in SUBSET S : Cardinality(s) = n => s \in G}
<1>1. 0 \in T
  BY SubsetFacts
<1>2. ASSUME NEW n \in T PROVE n + 1 \in T
  <2>1. SUFFICES ASSUME NEW s \in SUBSET S, Cardinality(s) = n + 1 PROVE s \in G
    BY <1>2
  <2>2. s # {}
    BY <2>1, SubsetFacts
  <2>3. s \ {Pick(s)} \in SUBSET S /\ Cardinality(s \ {Pick(s)}) = n
    BY <2>1, <2>2, SubsetFacts
  <2>4. QED
    BY <2>2, <2>3, <1>2
<1>3. T \in SUBSET Nat
  OBVIOUS
<1> HIDE DEF T
<1>4. T = Nat
  BY <1>1, <1>2, <1>3, Induction
<1>5. QED
  BY <1>4, SubsetFacts DEF T

(* A function that satisfies that equation gives integers.                 *)
LEMMA SummingInt ==
  ASSUME NEW S, IsFiniteSet(S), NEW f \in [S -> Int], NEW k, Summing(f, S, k)
  PROVE  /\ k \in [SUBSET S -> Int]
         /\ k[{}] = 0
         /\ \A s \in SUBSET S : s # {} => k[s] = f[Pick(s)] + k[s \ {Pick(s)}]
<1> DEFINE G == {s \in SUBSET S : k[s] \in Int}
<1>1. /\ k[{}] = 0 /\ DOMAIN k = SUBSET S /\ k = [s \in SUBSET S |-> k[s]]
      /\ \A s \in SUBSET S : s # {} => k[s] = f[Pick(s)] + k[s \ {Pick(s)}]
  BY DEF Summing
<1>2. {} \in G
  BY <1>1
<1>3. ASSUME NEW s \in SUBSET S, s # {}, s \ {Pick(s)} \in G PROVE s \in G
  <2>1. f[Pick(s)] \in Int /\ k[s \ {Pick(s)}] \in Int
    BY <1>3, SubsetFacts
  <2>2. k[s] = f[Pick(s)] + k[s \ {Pick(s)}]
    BY <1>1, <1>3
  <2>3. QED
    BY <2>1, <2>2
<1> HIDE DEF G
<1>4. \A s \in SUBSET S : s \in G
  BY <1>2, <1>3, SubsetInduction
<1>5. k \in [SUBSET S -> Int]
  BY <1>1, <1>4 DEF G
<1>6. QED
  BY <1>1, <1>5

(* Such a function exists, so SumsOf is one.                               *)
LEMMA SumsExist ==
  ASSUME NEW S, IsFiniteSet(S), NEW f \in [S -> Int]
  PROVE  Summing(f, S, SumsOf(f, S))
<1> DEFINE Small(n) == {s \in SUBSET S : Cardinality(s) <= n}
           Part(n, h) == \A s \in Small(n) :
                           h[s] = IF s = {} THEN 0 ELSE f[Pick(s)] + h[s \ {Pick(s)}]
           T == {n \in Nat : \E h \in [Small(n) -> Int] : Part(n, h)}
<1>1. 0 \in T
  <2> DEFINE h == [s \in Small(0) |-> 0]
  <2>1. \A s \in Small(0) : s = {}
    BY SubsetFacts
  <2>2. h \in [Small(0) -> Int] /\ Part(0, h)
    BY <2>1
  <2>3. QED
    BY <2>2
<1>2. ASSUME NEW n \in T PROVE n + 1 \in T
  <2>1. PICK h \in [Small(n) -> Int] : Part(n, h)
    BY <1>2
  <2> DEFINE g == [s \in Small(n + 1) |-> IF s = {} THEN 0 ELSE f[Pick(s)] + h[s \ {Pick(s)}]]
  <2>2. \A s \in Small(n + 1) : s # {} =>
          s \ {Pick(s)} \in Small(n) \cap Small(n + 1) /\ f[Pick(s)] \in Int
    BY SubsetFacts, <1>2
  <2>3. \A s \in Small(n) : g[s] = h[s] /\ s \in Small(n + 1)
    BY <2>1, SubsetFacts, <1>2
  <2>4. g \in [Small(n + 1) -> Int]
    BY <2>1, <2>2
  <2>5. Part(n + 1, g)
    BY <2>2, <2>3
  <2>6. n + 1 \in Nat
    BY <1>2
  <2> HIDE DEF g
  <2>7. QED
    BY <2>4, <2>5, <2>6
<1>3. T = Nat
  <2>1. T \in SUBSET Nat
    OBVIOUS
  <2> HIDE DEF T
  <2>2. QED
    BY <2>1, <1>1, <1>2, Induction
<1>4. Small(Cardinality(S)) = SUBSET S
  BY SubsetFacts
<1>5. PICK h \in [SUBSET S -> Int] : Part(Cardinality(S), h)
  <2>1. Cardinality(S) \in T
    BY SubsetFacts, <1>3
  <2>2. QED
    BY <2>1, <1>4
<1>6. Summing(f, S, h)
  BY <1>4, <1>5 DEF Summing
<1>7. QED
  BY <1>6 DEF SumsOf

(* The sum over a set is that over the set without one of its elements and *)
(* the value there.                                                        *)
LEMMA SumsFacts ==
  ASSUME NEW S, IsFiniteSet(S), NEW f \in [S -> Int]
  PROVE  /\ SumsOf(f, S) \in [SUBSET S -> Int]
         /\ SumsOf(f, S)[{}] = 0
         /\ \A s \in SUBSET S : s # {} =>
              SumsOf(f, S)[s] = f[Pick(s)] + SumsOf(f, S)[s \ {Pick(s)}]
<1> DEFINE k == SumsOf(f, S)
<1>1. Summing(f, S, k)
  BY SumsExist
<1> HIDE DEF k
<1>2. /\ k \in [SUBSET S -> Int]
      /\ k[{}] = 0
  BY <1>1, SummingInt
<1>3. \A s \in SUBSET S : s # {} => k[s] = f[Pick(s)] + k[s \ {Pick(s)}]
  BY <1>1 DEF Summing
<1>4. QED
  BY <1>2, <1>3, Zenon DEF k

(* Two functions that differ at i only: so do their sums.                  *)
LEMMA SumsDiffer ==
  ASSUME NEW S, IsFiniteSet(S), NEW f \in [S -> Int], NEW g \in [S -> Int], NEW i \in S,
         \A j \in S \ {i} : g[j] = f[j]
  PROVE  SumsOf(g, S)[S] = SumsOf(f, S)[S] + g[i] - f[i]
<1> DEFINE F == SumsOf(f, S)
           H == SumsOf(g, S)
           G == {s \in SUBSET S : H[s] = F[s] + IF i \in s THEN g[i] - f[i] ELSE 0}
<1> HIDE DEF F, H
<1>1. /\ F \in [SUBSET S -> Int] /\ F[{}] = 0
      /\ \A s \in SUBSET S : s # {} => F[s] = f[Pick(s)] + F[s \ {Pick(s)}]
  BY SumsFacts DEF F
<1>2. /\ H \in [SUBSET S -> Int] /\ H[{}] = 0
      /\ \A s \in SUBSET S : s # {} => H[s] = g[Pick(s)] + H[s \ {Pick(s)}]
  BY SumsFacts DEF H
<1>3. {} \in G
  BY <1>1, <1>2
<1>4. ASSUME NEW s \in SUBSET S, s # {}, s \ {Pick(s)} \in G PROVE s \in G
  <2> DEFINE r == s \ {Pick(s)}
  <2>1. Pick(s) \in s /\ r \in SUBSET S
    BY <1>4, SubsetFacts
  <2>2. /\ F[s] = f[Pick(s)] + F[r] /\ H[s] = g[Pick(s)] + H[r]
        /\ H[r] = F[r] + IF i \in r THEN g[i] - f[i] ELSE 0
    BY <1>1, <1>2, <1>4
  <2>3. F[r] \in Int /\ H[r] \in Int
    BY <2>1, <1>1, <1>2
  <2>4. CASE Pick(s) = i
    BY <2>1, <2>2, <2>3, <2>4
  <2>5. CASE Pick(s) # i
    BY <2>1, <2>2, <2>3, <2>5
  <2>6. QED
    BY <2>4, <2>5
<1> HIDE DEF G
<1>5. \A s \in SUBSET S : s \in G
  BY <1>3, <1>4, SubsetInduction
<1>6. S \in G
  BY <1>5
<1>7. QED
  BY <1>6 DEF G, F, H

(* The sum of natural numbers is one, and 0 if they all are.               *)
LEMMA SumsNat ==
  ASSUME NEW S, IsFiniteSet(S), NEW f \in [S -> Nat]
  PROVE  /\ SumsOf(f, S)[S] \in Nat
         /\ (\A i \in S : f[i] = 0) => SumsOf(f, S)[S] = 0
<1> DEFINE F == SumsOf(f, S)
           zero == \A i \in S : f[i] = 0
           G == {s \in SUBSET S : F[s] \in Nat /\ (zero => F[s] = 0)}
<1> HIDE DEF F
<1>0. f \in [S -> Int]
  OBVIOUS
<1>1. /\ F[{}] = 0
      /\ \A s \in SUBSET S : s # {} => F[s] = f[Pick(s)] + F[s \ {Pick(s)}]
  BY <1>0, SumsFacts DEF F
<1>2. {} \in G
  BY <1>1
<1>3. ASSUME NEW s \in SUBSET S, s # {}, s \ {Pick(s)} \in G PROVE s \in G
  <2>1. Pick(s) \in S
    BY <1>3, SubsetFacts
  <2>2. F[s] = f[Pick(s)] + F[s \ {Pick(s)}]
    BY <1>1, <1>3
  <2>3. QED
    BY <2>1, <2>2, <1>3
<1> HIDE DEF G
<1>4. \A s \in SUBSET S : s \in G
  BY <1>2, <1>3, SubsetInduction
<1>5. S \in G
  BY <1>4
<1>6. QED
  BY <1>5 DEF G, F

-----------------------------------------------------------------------------
(* Numbers *)

(* The smaller of two numbers,                                             *)
LEMMA MinOfTwo ==
  ASSUME NEW a \in Int, NEW b \in Int
  PROVE  Min({a, b}) = IF a <= b THEN a ELSE b
<1> DEFINE m == IF a <= b THEN a ELSE b
<1>1. m \in {a, b} /\ \A y \in {a, b} : m =< y
  OBVIOUS
<1>2. \A x \in {a, b} : (\A y \in {a, b} : x =< y) => x = m
  OBVIOUS
<1> HIDE DEF m
<1>3. Min({a, b}) = m
  BY <1>1, <1>2 DEF Min
<1>4. QED
  BY <1>3 DEF m

(* and the larger one.                                                     *)
LEMMA MaxOfTwo ==
  ASSUME NEW a \in Int, NEW b \in Int
  PROVE  Max({a, b}) = IF a <= b THEN b ELSE a
<1> DEFINE m == IF a <= b THEN b ELSE a
<1>1. m \in {a, b} /\ \A y \in {a, b} : m >= y
  OBVIOUS
<1>2. \A x \in {a, b} : (\A y \in {a, b} : x >= y) => x = m
  OBVIOUS
<1> HIDE DEF m
<1>3. Max({a, b}) = m
  BY <1>1, <1>2 DEF Max
<1>4. QED
  BY <1>3 DEF m

(* A set of natural numbers that are all small has a largest, another one a*)
(* smallest.                                                               *)
LEMMA MaxExists ==
  ASSUME NEW T \in SUBSET Nat, T # {}, NEW b \in Nat, \A n \in T : n <= b
  PROVE  Max(T) \in T /\ \A n \in T : n <= Max(T)
<1> DEFINE D == {b - n : n \in T}
<1>0. \A n \in T : b - n \in Nat /\ b - n \in D
  OBVIOUS
<1>1. D \in SUBSET Nat /\ D # {}
  BY <1>0
<1>2. PICK d \in D : \A e \in D : d <= e
  BY <1>1, Least
<1>3. PICK m \in T : d = b - m
  BY <1>2
<1>4. ASSUME NEW n \in T PROVE m >= n
  <2>1. b - m <= b - n
    BY <1>0, <1>2, <1>3
  <2>2. QED
    BY <2>1
<1>5. QED
  BY <1>4 DEF Max

(* A set of natural numbers has a smallest.                                *)
LEMMA MinExists ==
  ASSUME NEW T \in SUBSET Nat, T # {}
  PROVE  Min(T) \in T
BY Least DEF Min

(* Division by the size of a block.                                        *)
LEMMA DivFacts ==
  ASSUME NEW n \in Nat, NEW d \in Nat, d > 0
  PROVE  /\ n \div d \in Nat
         /\ d * (n \div d) <= n
         /\ n < d * (n \div d) + d
<1>1. n = d * (n \div d) + (n % d)
  OBVIOUS
<1>2. n % d \in 0..d-1
  OBVIOUS
<1>3. n \div d \in Int /\ d * (n \div d) \in Int
  OBVIOUS
<1>4. n \div d \in Nat
  OBVIOUS
<1>5. QED
  BY <1>1, <1>2, <1>3, <1>4

(* A quotient is at most what its multiple shows.                          *)
LEMMA DivAtMost ==
  ASSUME NEW n \in Nat, NEW d \in Nat, d > 0, NEW k \in Nat, n < d * k + d
  PROVE  n \div d <= k
<1> DEFINE q == n \div d
<1>1. q \in Nat /\ d * q <= n
  BY DivFacts
<1> HIDE DEF q
<1>2. ASSUME q >= k + 1 PROVE FALSE
  <2>1. d * q >= d * (k + 1)
    BY <1>1, <1>2
  <2>2. d * (k + 1) = d * k + d
    OBVIOUS
  <2>3. QED
    BY <2>1, <2>2, <1>1
<1>3. q <= k
  BY <1>1, <1>2
<1>4. QED
  BY <1>3 DEF q

-----------------------------------------------------------------------------
(* Sizes of sets *)

(* A bijection keeps the size.                                             *)
LEMMA SameSize ==
  ASSUME NEW S, NEW T, IsFiniteSet(S), NEW f \in [S -> T],
         \A x, y \in S : f[x] = f[y] => x = y,
         \A t \in T : \E x \in S : f[x] = t
  PROVE  IsFiniteSet(T) /\ Cardinality(T) = Cardinality(S)
<1>1. f \in Bijection(S, T)
  BY DEF Bijection, Injection, Surjection, IsInjective
<1>2. ExistsBijection(S, T)
  BY <1>1 DEF ExistsBijection
<1>3. QED
  BY <1>2, FS_Bijection

(* Sets with nothing in common.                                            *)
LEMMA DisjointSize ==
  ASSUME NEW S, NEW T, IsFiniteSet(S), IsFiniteSet(T), S \cap T = {}
  PROVE  /\ IsFiniteSet(S \cup T)
         /\ Cardinality(S \cup T) = Cardinality(S) + Cardinality(T)
<1>1. Cardinality(S) \in Nat /\ Cardinality(T) \in Nat
  BY FS_CardinalityType
<1>2. Cardinality(S \cap T) = 0
  BY FS_EmptySet
<1>3. /\ IsFiniteSet(S \cup T)
      /\ Cardinality(S \cup T) = Cardinality(S) + Cardinality(T) - Cardinality(S \cap T)
  BY FS_Union
<1>4. QED
  BY <1>1, <1>2, <1>3

(* An interval is finite and its size is its length.                       *)
LEMMA IntervalSize ==
  ASSUME NEW a \in Nat, NEW b \in Nat, a <= b
  PROVE  IsFiniteSet(a .. b-1) /\ Cardinality(a .. b-1) = b - a
<1> DEFINE c == b - 1
<1>1. a \in Int /\ c \in Int
  OBVIOUS
<1> HIDE DEF c
<1>2. IsFiniteSet(a..c) /\ Cardinality(a..c) = IF a > c THEN 0 ELSE c - a + 1
  BY <1>1, FS_Interval, Zenon
<1>3. QED
  BY <1>2 DEF c

(* The numbers from b to k that are below d or whose distance from d is in *)
(* G: block numbers, the direct ones and those of entries of the indirect  *)
(* block.                                                                  *)
Below(b, k, d, G) == {x \in b..k-1 : x < d \/ x - d \in G}
Among(b, k, d, G) == {j \in G : j + d \in b..k-1}

(* They are the direct ones and those of the slots.                        *)
LEMMA Span ==
  ASSUME NEW d \in Nat, NEW e \in Nat, NEW b \in 0..d+e, NEW k \in 0..d+e, b <= k,
         NEW G \in SUBSET (0..e-1)
  PROVE  /\ IsFiniteSet(Below(b, k, d, G)) /\ Cardinality(Below(b, k, d, G)) \in Nat
         /\ IsFiniteSet(Among(b, k, d, G))
         /\ Cardinality(Below(b, k, d, G))
               = (IF k <= d THEN k ELSE d) - (IF b <= d THEN b ELSE d)
                   + Cardinality(Among(b, k, d, G))
<1> DEFINE X == {x \in b..k-1 : x < d \/ x - d \in G}
           J == {j \in G : j + d \in b..k-1}
           low == IF b <= d THEN b ELSE d
           high == IF k <= d THEN k ELSE d
           B == {x \in b..k-1 : x >= d /\ x - d \in G}
           f == [j \in J |-> j + d]
<1>1. G \subseteq Int /\ IsFiniteSet(G) /\ IsFiniteSet(b..k-1)
  <2>1. /\ 0 \in Int /\ e-1 \in Int /\ b \in Int /\ k-1 \in Int
        /\ G \in SUBSET (0..e-1) /\ G \subseteq Int
    OBVIOUS
  <2>2. IsFiniteSet(0..e-1) /\ IsFiniteSet(b..k-1)
    BY <2>1, FS_Interval, Zenon
  <2>3. IsFiniteSet(G)
    BY <2>1, <2>2, FS_Subset, Zenon
  <2>4. QED
    BY <2>1, <2>2, <2>3
<1>2. IsFiniteSet(J) /\ IsFiniteSet(X) /\ IsFiniteSet(B)
  BY <1>1, FS_Subset
<1>3. f \in [J -> B]
  <2>1. ASSUME NEW j \in J PROVE j + d \in B
    <3>1. j \in Nat /\ j \in G /\ j + d \in b..k-1 /\ (j + d) - d = j /\ j + d >= d
      BY <2>1
    <3>2. QED
      BY <3>1
  <2>2. QED
    BY <2>1
<1>4. \A x, y \in J : f[x] = f[y] => x = y
  BY <1>1
<1>5. \A t \in B : \E x \in J : f[x] = t
  <2>1. SUFFICES ASSUME NEW t \in B PROVE \E x \in J : f[x] = t
    OBVIOUS
  <2>2. t - d \in J /\ (t - d) + d = t
    BY <2>1
  <2>3. f[t - d] = t
    BY <2>2
  <2>4. QED
    BY <2>2, <2>3
<1>6. Cardinality(B) = Cardinality(J)
  <2> HIDE DEF f, B, J
  <2>1. QED
    BY <1>2, <1>3, <1>4, <1>5, SameSize
<1>7. /\ low \in Nat /\ high \in Nat /\ low <= high
      /\ X = (low .. high-1) \cup B
      /\ (low .. high-1) \cap B = {}
  OBVIOUS
<1> HIDE DEF low, high, B, X, J
<1>8. IsFiniteSet(low .. high-1) /\ Cardinality(low .. high-1) = high - low
  BY <1>7, IntervalSize
<1>9. Cardinality(X) = Cardinality(low .. high-1) + Cardinality(B)
  BY <1>2, <1>7, <1>8, DisjointSize
<1>10. Cardinality(X) = high - low + Cardinality(J) /\ Cardinality(X) \in Nat
  BY <1>2, <1>6, <1>8, <1>9, FS_CardinalityType
<1>11. QED
  BY <1>2, <1>10 DEF low, high, X, J, Below, Among

-----------------------------------------------------------------------------
(* The invariant *)

NBLOCKS == NDIRECT + NENTRY
Inode == [size : 0 .. MAXSIZE, blocks : 0 .. NBLOCKS, ind : BOOLEAN]

StoreTypes ==
  /\ mem \in [Ino -> Inode] /\ disk \in [Ino -> Inode]
  /\ dirty \in [Ino -> BOOLEAN]
  /\ ents \in [Ino -> SUBSET (0 .. NENTRY - 1)]
  /\ unused \in Nat

(* What the disk knows of a clean inode.                                   *)
Clean ==
  \A i \in Ino : ~dirty[i] =>
    /\ mem[i].size = disk[i].size /\ mem[i].ind = disk[i].ind
    /\ Min({mem[i].blocks, NDIRECT}) = Min({disk[i].blocks, NDIRECT})

(* The inodes and their blocks.                                            *)
StoreInv == StoreTypes /\ BlocksReach /\ Clean /\ SpaceExact

Desc == {None} \cup [on : {TRUE}, node : Ino, mode : MODES, pos : 0 .. MAXSIZE]

(* The descriptors and the counts.  A reference that is not a descriptor's *)
(* only ever adds to ref, so the last close is seen by sfs_close no later  *)
(* than by sfs_reclaim.                                                    *)
CountInv ==
  /\ live \subseteq Proc /\ IsFiniteSet(live)
  /\ fd \in [Proc -> [FD -> Desc]]
  /\ ref \in [Ino -> Nat] /\ open \in [Ino -> Nat]
  /\ \A i \in Ino : open[i] = Cardinality(Entries(i))
  /\ \A i \in Ino : open[i] <= ref[i]

FilesInv ==
  /\ StoreInv
  /\ CountInv
  /\ \A i \in Ino : open[i] = 0 => ~dirty[i]
  /\ panic \in {"none", "index", "range", "truncate", "create"}

(* A file's share of the disk.                                             *)
Share(m, e) == (IF m.blocks <= NDIRECT THEN m.blocks ELSE NDIRECT) + Cardinality(e)
                 + (IF m.ind THEN 1 ELSE 0)

(* Taken gives each file its share,                                        *)
LEMMA ShareFacts ==
  ASSUME StoreTypes
  PROVE  /\ Taken \in [Ino -> Nat]
         /\ \A i \in Ino : Taken[i] = Share(mem[i], ents[i])
         /\ \A i \in Ino : IsFiniteSet(ents[i]) /\ Cardinality(ents[i]) \in Nat
<1> USE FilesAssumption
<1>1. ASSUME NEW i \in Ino
      PROVE  IsFiniteSet(ents[i]) /\ Cardinality(ents[i]) \in Nat
  <2>1. /\ IsFiniteSet(0 .. NENTRY - 1)
    BY IntervalSize
  <2>2. ents[i] \in SUBSET (0 .. NENTRY - 1)
    BY DEF StoreTypes
  <2>3. QED
    BY <2>1, <2>2, FS_Subset, FS_CardinalityType
<1>2. ASSUME NEW i \in Ino
      PROVE  Taken[i] = Share(mem[i], ents[i]) /\ Share(mem[i], ents[i]) \in Nat
  <2>1. mem[i].blocks \in Nat
    BY DEF StoreTypes, Inode, NBLOCKS
  <2>2. Min({mem[i].blocks, NDIRECT})
          = IF mem[i].blocks <= NDIRECT THEN mem[i].blocks ELSE NDIRECT
    BY <2>1, MinOfTwo
  <2>3. QED
    BY <2>1, <2>2, <1>1 DEF Taken, Share
<1>3. QED
  BY <1>1, <1>2 DEF Taken

(* also after a step.                                                      *)
LEMMA ShareNext ==
  StoreTypes' => (/\ Taken \in [Ino -> Nat]
                  /\ \A i \in Ino : Taken[i] = Share(mem[i], ents[i]))'
<1>1. StoreTypes => /\ Taken \in [Ino -> Nat]
                    /\ \A i \in Ino : Taken[i] = Share(mem[i], ents[i])
  BY ShareFacts
<1>2. QED
  BY <1>1, PTL

(* The blocks that a change of i's size costs or frees keep SpaceExact.    *)
LEMMA SpaceStep ==
  ASSUME SpaceExact, StoreTypes, StoreTypes', NEW i \in Ino,
         \A j \in Ino \ {i} : mem'[j] = mem[j] /\ ents'[j] = ents[j],
         unused' + Share(mem'[i], ents'[i]) = unused + Share(mem[i], ents[i])
  PROVE  SpaceExact'
<1>1. /\ Taken \in [Ino -> Nat] /\ Taken[i] = Share(mem[i], ents[i])
      /\ Taken \in [Ino -> Int] /\ DOMAIN Taken = Ino
  BY ShareFacts
<1>3. /\ Taken' \in [Ino -> Nat] /\ Taken'[i] = Share(mem'[i], ents'[i])
      /\ Taken' \in [Ino -> Int] /\ DOMAIN Taken' = Ino
  BY ShareNext DEF Share
<1>4. \A j \in Ino \ {i} : Taken'[j] = Taken[j]
  BY DEF Taken
<1>5. /\ SumFunction(Taken) = SumsOf(Taken, Ino)[Ino]
      /\ SumFunction(Taken') = SumsOf(Taken', Ino)[Ino]
  BY <1>1, <1>3, SumUnfolds
<1>6. SumsOf(Taken', Ino)[Ino] = SumsOf(Taken, Ino)[Ino] + Taken'[i] - Taken[i]
  BY <1>1, <1>3, <1>4, FilesAssumption, SumsDiffer
<1>7. SumsOf(Taken, Ino)[Ino] \in Nat
  BY <1>1, FilesAssumption, SumsNat
<1>8. unused \in Nat /\ unused' \in Nat
  BY DEF StoreTypes
<1>9. QED
  BY <1>1, <1>3, <1>5, <1>6, <1>7, <1>8 DEF SpaceExact

-----------------------------------------------------------------------------
(* The blocks of an inode *)

(* What the proofs use of the constants.                                   *)
LEMMA ConstFacts ==
  /\ NDIRECT \in Nat /\ NENTRY \in Nat /\ NBLOCKS \in Nat /\ MAXSIZE \in Nat
  /\ BLK \in Nat /\ BLK > 0 /\ NFD \in Nat /\ KEPT \in 0 .. NFD
  /\ LENS \subseteq Nat /\ SEEKS \subseteq Nat
BY FilesAssumption DEF NBLOCKS

(* The types of an inode in memory.                                        *)
LEMMA InodeFacts ==
  ASSUME StoreTypes, NEW i \in Ino
  PROVE  /\ mem[i].blocks \in 0 .. NDIRECT + NENTRY /\ mem[i].blocks \in Nat
         /\ mem[i].size \in 0 .. MAXSIZE /\ mem[i].ind \in BOOLEAN
         /\ ents[i] \in SUBSET (0 .. NENTRY - 1)
BY ConstFacts DEF StoreTypes, Inode, NBLOCKS

(* A growth costs blocks.                                                  *)
LEMMA CostNat ==
  ASSUME StoreTypes, NEW i \in Ino, NEW n \in Nat
  PROVE  Cost(i, n) \in Nat
<1> DEFINE X == {k \in mem[i].blocks .. n - 1 : k < NDIRECT \/ k - NDIRECT \notin ents[i]}
<1>1. IsFiniteSet(mem[i].blocks .. n - 1)
  <2> DEFINE m == n - 1
  <2>1. m \in Int /\ mem[i].blocks \in Int
    BY InodeFacts
  <2> HIDE DEF m
  <2>2. IsFiniteSet(mem[i].blocks .. m)
    BY <2>1, FS_Interval, Zenon
  <2>3. QED
    BY <2>2 DEF m
<1>2. IsFiniteSet(X) /\ Cardinality(X) \in Nat
  BY <1>1, FS_Subset, FS_CardinalityType
<1> HIDE DEF X
<1>3. Cost(i, n) = Cardinality(X) + (IF n > NDIRECT /\ ~mem[i].ind THEN 1 ELSE 0)
  BY DEF Cost, X
<1>4. QED
  BY <1>2, <1>3

(* Reach is at least what the file has, within an inode, and paid for.     *)
LEMMA ReachFacts ==
  ASSUME StoreTypes, NEW i \in Ino, NEW n \in Nat
  PROVE  /\ Reach(i, n) \in Nat
         /\ mem[i].blocks <= Reach(i, n)
         /\ Reach(i, n) <= NDIRECT + NENTRY
         /\ Reach(i, n) > mem[i].blocks => /\ Cost(i, Reach(i, n)) <= unused
                                           /\ Reach(i, n) <= n
<1> DEFINE old == mem[i].blocks
           T == {old} \cup {k \in old .. n : k <= NDIRECT + NENTRY /\ Cost(i, k) <= unused}
<1>1. old \in Nat /\ old <= NDIRECT + NENTRY /\ NDIRECT + NENTRY \in Nat
  BY InodeFacts, ConstFacts
<1>2. T \in SUBSET Nat /\ T # {} /\ old \in T /\ \A k \in T : k <= NDIRECT + NENTRY
  BY <1>1
<1>3. \A k \in T : k > old => Cost(i, k) <= unused /\ k <= n
  BY <1>1
<1>4. Reach(i, n) = Max(T)
  BY DEF Reach
<1> HIDE DEF T, old
<1>5. Max(T) \in T /\ \A k \in T : k <= Max(T)
  BY <1>1, <1>2, MaxExists
<1>6. QED
  BY <1>2, <1>3, <1>4, <1>5 DEF old

(* The slots of the indirect block for the blocks from a to b.             *)
Slots(a, b) == {j \in 0 .. NENTRY - 1 : j + NDIRECT \in a .. b - 1}

(* A growth to k adds to the file's share what it costs,                   *)
LEMMA GrowShare ==
  ASSUME StoreTypes, NEW i \in Ino, NEW k \in Nat, NEW m,
         mem[i].blocks < k, k <= NDIRECT + NENTRY,
         m.blocks = k, m.ind <=> (mem[i].ind \/ k > NDIRECT)
  PROVE  Share(m, ents[i] \cup Slots(mem[i].blocks, k)) = Share(mem[i], ents[i]) + Cost(i, k)
<1> DEFINE old == mem[i].blocks
           E == ents[i]
           G == (0 .. NENTRY - 1) \ E
           X == {x \in old .. k - 1 : x < NDIRECT \/ x - NDIRECT \in G}
           J == {j \in G : j + NDIRECT \in old .. k - 1}
<1>1. /\ old \in 0 .. NDIRECT + NENTRY /\ k \in 0 .. NDIRECT + NENTRY /\ old <= k
      /\ NDIRECT \in Nat /\ NENTRY \in Nat
      /\ G \in SUBSET (0 .. NENTRY - 1)
  BY InodeFacts, ConstFacts
<1>2. /\ IsFiniteSet(X) /\ Cardinality(X) \in Nat /\ IsFiniteSet(J)
      /\ Cardinality(X) = (IF k <= NDIRECT THEN k ELSE NDIRECT)
                            - (IF old <= NDIRECT THEN old ELSE NDIRECT) + Cardinality(J)
  <2>1. X = Below(old, k, NDIRECT, G) /\ J = Among(old, k, NDIRECT, G)
    BY Zenon DEF Below, Among
  <2> HIDE DEF G, old, X, J
  <2>2. QED
    BY <1>1, <2>1, Span
<1>3. X = {x \in old .. k - 1 : x < NDIRECT \/ x - NDIRECT \notin E}
  BY <1>1
<1>4. Cost(i, k) = Cardinality(X) + (IF k > NDIRECT /\ ~mem[i].ind THEN 1 ELSE 0)
  BY <1>3, Zenon DEF Cost
<1>5. E \cup Slots(old, k) = E \cup J /\ E \cap J = {}
  BY InodeFacts DEF Slots
<1>6. IsFiniteSet(E) /\ Cardinality(E) \in Nat
  BY ShareFacts
<1> HIDE DEF E, J, X, old
<1>7. Cardinality(E \cup Slots(old, k)) = Cardinality(E) + Cardinality(J)
  BY <1>2, <1>5, <1>6, DisjointSize
<1>8. Cardinality(J) \in Nat
  BY <1>2, FS_CardinalityType
<1> DEFINE c == Cardinality(E \cup Slots(old, k))
<1> HIDE DEF c
<1>9. /\ Share(m, E \cup Slots(old, k))
           = (IF k <= NDIRECT THEN k ELSE NDIRECT) + c + (IF m.ind THEN 1 ELSE 0)
      /\ Share(mem[i], E)
           = (IF old <= NDIRECT THEN old ELSE NDIRECT) + Cardinality(E)
               + (IF mem[i].ind THEN 1 ELSE 0)
  BY Zenon DEF Share, old, c
<1>10. mem[i].ind \in BOOLEAN /\ old \in Nat
  BY InodeFacts DEF old
<1>11. (IF m.ind THEN 1 ELSE 0)
          = (IF mem[i].ind THEN 1 ELSE 0) + (IF k > NDIRECT /\ ~mem[i].ind THEN 1 ELSE 0)
  <2>1. CASE mem[i].ind
    BY <2>1
  <2>2. CASE ~mem[i].ind /\ k > NDIRECT
    BY <2>2
  <2>3. CASE ~mem[i].ind /\ ~(k > NDIRECT)
    BY <2>3
  <2>4. QED
    BY <2>1, <2>2, <2>3, Zenon
<1>12. Share(m, E \cup Slots(old, k)) = Share(mem[i], E) + Cost(i, k)
  BY <1>1, <1>2, <1>4, <1>6, <1>7, <1>8, <1>9, <1>10, <1>11 DEF c
<1>13. QED
  BY <1>12 DEF E, old

(* and a shrinking takes from it what it frees.                            *)
LEMMA ShrinkShare ==
  ASSUME StoreTypes, NEW i \in Ino, NEW k \in Nat, NEW m,
         k <= mem[i].blocks, mem[i].blocks > NDIRECT => mem[i].ind,
         m.blocks = k, m.ind <=> (mem[i].ind \/ k > NDIRECT)
  PROVE  /\ Freed(i, k) \in Nat
         /\ Share(m, ents[i] \ Slots(k, mem[i].blocks)) + Freed(i, k)
              = Share(mem[i], ents[i])
<1> DEFINE old == mem[i].blocks
           E == ents[i]
           X == {x \in k .. old - 1 : x < NDIRECT \/ x - NDIRECT \in E}
           J == {j \in E : j + NDIRECT \in k .. old - 1}
<1>1. /\ old \in 0 .. NDIRECT + NENTRY /\ k \in 0 .. NDIRECT + NENTRY /\ k <= old
      /\ NDIRECT \in Nat /\ NENTRY \in Nat
      /\ E \in SUBSET (0 .. NENTRY - 1)
  BY InodeFacts, ConstFacts
<1>2. /\ IsFiniteSet(X) /\ Cardinality(X) \in Nat /\ IsFiniteSet(J)
      /\ Cardinality(X) = (IF old <= NDIRECT THEN old ELSE NDIRECT)
                            - (IF k <= NDIRECT THEN k ELSE NDIRECT) + Cardinality(J)
  <2>1. X = Below(k, old, NDIRECT, E) /\ J = Among(k, old, NDIRECT, E)
    BY Zenon DEF Below, Among
  <2> HIDE DEF E, old, X, J
  <2>2. QED
    BY <1>1, <2>1, Span
<1>3. Freed(i, k) = Cardinality(X)
  BY Zenon DEF Freed
<1>4. E \ Slots(k, old) = E \ J /\ E \cap J = J
  BY <1>1 DEF Slots
<1>5. IsFiniteSet(E) /\ Cardinality(E) \in Nat
  BY ShareFacts
<1> HIDE DEF E, J, X, old
<1>6. Cardinality(E \ Slots(k, old)) = Cardinality(E) - Cardinality(J)
  <2>1. Cardinality(E \ J) = Cardinality(E) - Cardinality(E \cap J)
    BY <1>5, FS_Difference
  <2>2. QED
    BY <1>4, <2>1, Zenon
<1>7. Cardinality(J) \in Nat
  BY <1>2, FS_CardinalityType
<1> DEFINE c == Cardinality(E \ Slots(k, old))
<1> HIDE DEF c
<1>8. /\ Share(m, E \ Slots(k, old))
           = (IF k <= NDIRECT THEN k ELSE NDIRECT) + c + (IF m.ind THEN 1 ELSE 0)
      /\ Share(mem[i], E)
           = (IF old <= NDIRECT THEN old ELSE NDIRECT) + Cardinality(E)
               + (IF mem[i].ind THEN 1 ELSE 0)
  BY Zenon DEF Share, old, c
<1>9. mem[i].ind \in BOOLEAN /\ old \in Nat
  BY InodeFacts DEF old
<1>10. (IF m.ind THEN 1 ELSE 0) = (IF mem[i].ind THEN 1 ELSE 0)
  BY <1>1, <1>9 DEF old
<1>11. Share(m, E \ Slots(k, old)) + Freed(i, k) = Share(mem[i], E)
  BY <1>1, <1>2, <1>3, <1>5, <1>6, <1>7, <1>8, <1>9, <1>10 DEF c
<1>12. QED
  BY <1>2, <1>3, <1>11 DEF E, old

-----------------------------------------------------------------------------
(* A file's size changes *)

(* Resize keeps the store right, when the caller marks the inode dirty if  *)
(* it shrinks or its size changes.                                         *)
LEMMA ResizeInv ==
  ASSUME StoreInv, NEW i \in Ino, NEW k \in Nat, NEW s \in 0 .. MAXSIZE,
         NEW changed \in BOOLEAN, Resize(i, k, s, changed), UNCHANGED disk,
         k <= NDIRECT + NENTRY,
         k > mem[i].blocks => Cost(i, k) <= unused,
         k < mem[i].blocks => changed,
         s # mem[i].size => changed,
         s \div BLK <= k
  PROVE  StoreInv' /\ \A j \in Ino \ {i} : dirty'[j] = dirty[j]
<1> DEFINE old == mem[i].blocks
           new == [size |-> s, blocks |-> k, ind |-> mem[i].ind \/ k > NDIRECT]
<1>0. StoreTypes /\ BlocksReach /\ Clean /\ SpaceExact
  BY DEF StoreInv
<1>1. /\ old \in 0 .. NDIRECT + NENTRY /\ old \in Nat /\ mem[i].size \in 0 .. MAXSIZE
      /\ mem[i].ind \in BOOLEAN /\ ents[i] \in SUBSET (0 .. NENTRY - 1)
  BY <1>0, InodeFacts
<1>2. /\ NDIRECT \in Nat /\ NENTRY \in Nat /\ NDIRECT + NENTRY = NBLOCKS
  BY ConstFacts DEF NBLOCKS
<1>3. /\ mem' = [mem EXCEPT ![i] = new]
      /\ ents' = [ents EXCEPT ![i] = (@ \ Slots(k, old)) \cup Slots(old, k)]
      /\ unused' = unused - (IF k > old THEN Cost(i, k) ELSE 0) + Freed(i, k)
      /\ dirty' = [dirty EXCEPT ![i] = \/ @ \/ changed
                                          \/ (k > old /\ old < NDIRECT)
                                          \/ (k > NDIRECT /\ ~mem[i].ind)]
  BY Zenon DEF Resize, Slots
<1>4. new \in Inode
  BY <1>1, <1>2 DEF Inode
<1>5. /\ mem' \in [Ino -> Inode] /\ mem'[i] = new
      /\ \A j \in Ino \ {i} : mem'[j] = mem[j]
  BY <1>0, <1>3, <1>4 DEF StoreTypes
<1>6. /\ ents' \in [Ino -> SUBSET (0 .. NENTRY - 1)]
      /\ ents'[i] = (ents[i] \ Slots(k, old)) \cup Slots(old, k)
      /\ \A j \in Ino \ {i} : ents'[j] = ents[j]
  BY <1>0, <1>3 DEF StoreTypes, Slots
<1>7. /\ dirty' \in [Ino -> BOOLEAN]
      /\ dirty'[i] <=> \/ dirty[i] \/ changed
                       \/ (k > old /\ old < NDIRECT)
                       \/ (k > NDIRECT /\ ~mem[i].ind)
      /\ \A j \in Ino \ {i} : dirty'[j] = dirty[j]
  BY <1>0, <1>1, <1>3 DEF StoreTypes
<1>8. old > NDIRECT => mem[i].ind
  <2>1. \A x \in NDIRECT .. old - 1 : mem[i].ind
    BY <1>0 DEF BlocksReach
  <2>2. QED
    BY <1>1, <1>2, <2>1
<1>9. /\ new.size = s /\ new.blocks = k /\ (new.ind <=> (mem[i].ind \/ k > NDIRECT))
  OBVIOUS
<1>10. unused \in Nat
  BY <1>0 DEF StoreTypes
<1>11. Share(mem[i], ents[i]) \in Nat
  <2>1. Taken[i] \in Nat /\ Taken[i] = Share(mem[i], ents[i])
    BY <1>0, ShareFacts
  <2>2. QED
    BY <2>1
<1> HIDE DEF new
<1>12. /\ unused' \in Nat
       /\ unused' + Share(new, ents'[i]) = unused + Share(mem[i], ents[i])
  <2>1. CASE k > old
    <3>1. Slots(k, old) = {} /\ ents'[i] = ents[i] \cup Slots(old, k)
      BY <2>1, <1>1, <1>6 DEF Slots
    <3>2. Freed(i, k) = 0
      <4>1. {x \in k .. old - 1 : x < NDIRECT \/ x - NDIRECT \in ents[i]} = {}
        BY <2>1, <1>1
      <4>2. QED
        BY <4>1, FS_EmptySet DEF Freed
    <3>3. Share(new, ents'[i]) = Share(mem[i], ents[i]) + Cost(i, k)
      BY <2>1, <3>1, <1>0, <1>9, GrowShare
    <3>4. Cost(i, k) \in Nat /\ Cost(i, k) <= unused
      BY <2>1, <1>0, CostNat
    <3>5. unused' = unused - Cost(i, k)
      BY <2>1, <3>2, <3>4, <1>3, <1>10
    <3>6. QED
      BY <3>3, <3>4, <3>5, <1>10, <1>11
  <2>2. CASE k <= old
    <3>1. Slots(old, k) = {} /\ ents'[i] = ents[i] \ Slots(k, old)
      BY <2>2, <1>1, <1>6 DEF Slots
    <3>2. Freed(i, k) \in Nat /\ Share(new, ents'[i]) + Freed(i, k) = Share(mem[i], ents[i])
      BY <2>2, <3>1, <1>0, <1>8, <1>9, ShrinkShare
    <3>3. unused' = unused + Freed(i, k)
      BY <2>2, <3>2, <1>1, <1>3, <1>10
    <3>4. Share(new, ents'[i]) \in Int
      <4>1. IsFiniteSet(0 .. NENTRY - 1)
        BY <1>2, IntervalSize
      <4>2. Cardinality(ents'[i]) \in Nat
        BY <4>1, <1>6, FS_Subset, FS_CardinalityType
      <4>3. QED
        BY <4>2, <1>2, <1>9 DEF Share
    <3>5. QED
      BY <3>2, <3>3, <3>4, <1>10, <1>11
  <2>3. QED
    BY <2>1, <2>2, <1>1
<1>13. StoreTypes'
  BY <1>0, <1>5, <1>6, <1>7, <1>12 DEF StoreTypes
<1>14. SpaceExact'
  BY <1>0, <1>5, <1>6, <1>12, <1>13, SpaceStep
<1>15. BlocksReach'
  <2>1. SUFFICES ASSUME NEW j \in Ino,
                        NEW d \in {mem'[j]} \cup (IF dirty'[j] THEN {} ELSE {disk'[j]})
                 PROVE  /\ d.size \div BLK <= d.blocks
                        /\ \A x \in NDIRECT .. d.blocks - 1 : d.ind /\ x - NDIRECT \in ents'[j]
    BY DEF BlocksReach
  <2>2. CASE j # i
    <3>1. d \in {mem[j]} \cup (IF dirty[j] THEN {} ELSE {disk[j]})
      BY <2>2, <1>5, <1>7
    <3>2. ents'[j] = ents[j]
      BY <2>2, <1>6
    <3>3. QED
      BY <3>1, <3>2, <1>0 DEF BlocksReach
  <2>3. CASE j = i /\ d = new
    <3>1. ASSUME NEW x \in NDIRECT .. k - 1
          PROVE  new.ind /\ x - NDIRECT \in ents'[i]
      <4>1. x - NDIRECT \in 0 .. NENTRY - 1 /\ (x - NDIRECT) + NDIRECT = x /\ x \in Nat
        BY <1>2
      <4>2. CASE x < old
        <5>1. x - NDIRECT \in ents[i]
          BY <4>2, <1>0, <1>1 DEF BlocksReach
        <5>2. x - NDIRECT \notin Slots(k, old)
          BY <4>1 DEF Slots
        <5>3. QED
          BY <5>1, <5>2, <1>6, <1>9, <1>2
      <4>3. CASE x >= old
        <5>1. x - NDIRECT \in Slots(old, k)
          BY <4>1, <4>3, <1>1 DEF Slots
        <5>2. QED
          BY <5>1, <1>6, <1>9, <1>2
      <4>4. QED
        BY <4>1, <4>2, <4>3, <1>1
    <3>2. QED
      BY <2>3, <3>1, <1>9
  <2>4. CASE j = i /\ ~dirty'[i] /\ d = disk[i]
    <3>1. ~dirty[i] /\ ~changed /\ k >= old
      BY <2>4, <1>1, <1>7
    <3>2. /\ d.size \div BLK <= d.blocks
          /\ \A x \in NDIRECT .. d.blocks - 1 : d.ind /\ x - NDIRECT \in ents[i]
      BY <2>4, <3>1, <1>0 DEF BlocksReach
    <3>3. Slots(k, old) = {}
      BY <3>1, <1>1 DEF Slots
    <3>4. ents[i] \subseteq ents'[i]
      BY <3>3, <1>6
    <3>5. QED
      BY <2>4, <3>2, <3>4
  <2>5. QED
    BY <2>2, <2>3, <2>4, <1>5
<1>16. Clean'
  <2>1. SUFFICES ASSUME NEW j \in Ino, ~dirty'[j]
                 PROVE  /\ mem'[j].size = disk[j].size /\ mem'[j].ind = disk[j].ind
                        /\ Min({mem'[j].blocks, NDIRECT}) = Min({disk[j].blocks, NDIRECT})
    BY DEF Clean
  <2>2. CASE j # i
    <3>1. mem'[j] = mem[j] /\ ~dirty[j]
      BY <2>1, <2>2, <1>5, <1>7
    <3>2. QED
      BY <3>1, <1>0, Zenon DEF Clean
  <2>3. CASE j = i
    <3>1. ~dirty[i] /\ ~changed /\ k >= old /\ ~(k > old /\ old < NDIRECT)
            /\ ~(k > NDIRECT /\ ~mem[i].ind)
      BY <2>1, <2>3, <1>1, <1>7
    <3>2. /\ mem[i].size = disk[i].size /\ mem[i].ind = disk[i].ind
          /\ Min({mem[i].blocks, NDIRECT}) = Min({disk[i].blocks, NDIRECT})
      BY <3>1, <1>0, Zenon DEF Clean
    <3>3. new.size = mem[i].size /\ new.ind = mem[i].ind
      BY <3>1, <1>1 DEF new
    <3>4. Min({k, NDIRECT}) = Min({old, NDIRECT})
      BY <3>1, <1>1, <1>2, MinOfTwo
    <3>5. QED
      BY <2>3, <3>2, <3>3, <3>4, <1>5, <1>9, Zenon
  <2>4. QED
    BY <2>2, <2>3
<1>17. QED
  BY <1>7, <1>13, <1>14, <1>15, <1>16 DEF StoreInv

(* A step that touches no inode keeps the store right.                     *)
LEMMA StoreSame ==
  ASSUME StoreInv, UNCHANGED <<mem, dirty, disk, ents, unused>>
  PROVE  StoreInv'
BY DEF StoreInv, StoreTypes, BlocksReach, Clean, SpaceExact, Taken

(* A length rounded up to blocks reaches the block it ends in.             *)
LEMMA CeilFacts ==
  ASSUME NEW n \in Nat
  PROVE  CeilDiv(n, BLK) \in Nat /\ n \div BLK <= CeilDiv(n, BLK)
<1> DEFINE m == n + BLK - 1
           q == m \div BLK
<1>1. m \in Nat /\ n <= m /\ BLK \in Nat /\ BLK > 0
  BY ConstFacts
<1>2. q \in Nat /\ BLK * q <= m /\ m < BLK * q + BLK
  <2> HIDE DEF m
  <2>1. QED
    BY <1>1, DivFacts
<1>3. CeilDiv(n, BLK) = q
  BY DEF CeilDiv
<1> HIDE DEF m, q
<1>4. n < BLK * q + BLK
  BY <1>1, <1>2
<1>5. n \div BLK <= q
  BY <1>1, <1>2, <1>4, DivAtMost
<1>6. QED
  BY <1>2, <1>3, <1>5

(* sfs_truncfile, whether or not the disk has the blocks.                  *)
LEMMA TruncateInv ==
  ASSUME StoreInv, NEW i \in Ino, NEW len \in 0 .. MAXSIZE, Truncate(i, len), UNCHANGED disk
  PROVE  StoreInv' /\ \A j \in Ino \ {i} : dirty'[j] = dirty[j]
<1> DEFINE n == CeilDiv(len, BLK)
<1>1. StoreTypes /\ len \in Nat
  BY ConstFacts DEF StoreInv
<1>2. n \in Nat /\ len \div BLK <= n
  BY <1>1, CeilFacts
<1>3. /\ mem[i].blocks \in 0 .. NDIRECT + NENTRY /\ mem[i].size \in 0 .. MAXSIZE
      /\ NDIRECT + NENTRY \in Nat
  BY <1>1, InodeFacts, ConstFacts
<1>4. /\ Reach(i, n) \in Nat /\ mem[i].blocks <= Reach(i, n) /\ Reach(i, n) <= NDIRECT + NENTRY
      /\ Reach(i, n) > mem[i].blocks => Cost(i, Reach(i, n)) <= unused
  <2> HIDE DEF n
  <2>1. QED
    BY <1>1, <1>2, ReachFacts
<1>5. mem[i].size \div BLK <= mem[i].blocks
  BY DEF StoreInv, BlocksReach
<1>6. CASE mem[i].size = len
  BY <1>6, StoreSame DEF Truncate
<1>7. CASE mem[i].size # len /\ TruncateFits(i, len)
  <2>1. Resize(i, n, len, TRUE)
    BY <1>7 DEF Truncate
  <2>2. n <= mem[i].blocks \/ Reach(i, n) = n
    BY <1>7 DEF TruncateFits
  <2> HIDE DEF n
  <2>3. n <= NDIRECT + NENTRY
    BY <2>2, <1>2, <1>3, <1>4
  <2>4. n > mem[i].blocks => Cost(i, n) <= unused
    BY <2>2, <1>2, <1>3, <1>4
  <2>5. QED
    BY <2>1, <2>3, <2>4, <1>2, ResizeInv
<1>8. CASE mem[i].size # len /\ ~TruncateFits(i, len)
  <2>1. Resize(i, Reach(i, n), mem[i].size, FALSE)
    BY <1>8 DEF Truncate
  <2> DEFINE k == Reach(i, n)
             s == mem[i].size
  <2>2. /\ k \in Nat /\ s \in 0 .. MAXSIZE /\ ~(k < mem[i].blocks)
        /\ s \div BLK <= k
    <3>1. s \div BLK \in Nat
      BY <1>3, ConstFacts, DivFacts
    <3>2. QED
      BY <3>1, <1>3, <1>4, <1>5
  <2>3. Resize(i, k, s, FALSE) /\ s = mem[i].size
    BY <2>1
  <2> HIDE DEF k, s, n
  <2>4. QED
    BY <2>2, <2>3, <1>4, ResizeInv DEF k
<1>9. QED
  BY <1>6, <1>7, <1>8

(* sfs_io_nolock from off towards end, when its assertion holds: it stops  *)
(* where the disk has no more blocks.                                      *)
LEMMA TransferInv ==
  ASSUME StoreInv, NEW i \in Ino, NEW off \in 0 .. MAXSIZE, NEW end \in 0 .. MAXSIZE,
         NEW k, k = Reach(i, CeilDiv(end, BLK)),
         NEW top, top = off + Max({0, Min({end, k * BLK}) - off}),
         ~(off \div BLK > mem[i].blocks),
         Resize(i, k, Max({mem[i].size, top}), top > mem[i].size),
         UNCHANGED disk
  PROVE  /\ StoreInv' /\ \A j \in Ino \ {i} : dirty'[j] = dirty[j]
         /\ top \in 0 .. MAXSIZE
<1> DEFINE n == CeilDiv(end, BLK)
           old == mem[i].blocks
           size == mem[i].size
           m == Min({end, k * BLK})
           s == Max({size, top})
<1>1. StoreTypes /\ off \in Nat /\ end \in Nat /\ MAXSIZE \in Nat /\ BLK \in Nat /\ BLK > 0
  BY ConstFacts DEF StoreInv
<1>2. n \in Nat
  BY <1>1, CeilFacts
<1>3. /\ old \in Nat /\ size \in 0 .. MAXSIZE /\ size \in Nat
      /\ NDIRECT + NENTRY \in Nat
  BY <1>1, InodeFacts, ConstFacts
<1>4. /\ k \in Nat /\ old <= k /\ k <= NDIRECT + NENTRY
      /\ k > old => Cost(i, k) <= unused
  <2>1. k = Reach(i, n)
    OBVIOUS
  <2> HIDE DEF n
  <2>2. QED
    BY <1>1, <1>2, <2>1, ReachFacts
<1>5. size \div BLK <= old
  BY DEF StoreInv, BlocksReach
<1>6. k * BLK \in Nat /\ k * BLK = BLK * k
  BY <1>1, <1>4
<1>7. m = IF end <= k * BLK THEN end ELSE k * BLK
  BY <1>1, <1>6, MinOfTwo
<1>8. m \in 0 .. MAXSIZE /\ m <= k * BLK
  BY <1>1, <1>6, <1>7
<1>9. top = IF off <= m THEN m ELSE off
  <2>1. top = off + Max({0, m - off})
    OBVIOUS
  <2> DEFINE z == m - off
  <2>2. z \in Int
    BY <1>1, <1>8
  <2> HIDE DEF m
  <2>3. Max({0, z}) = IF 0 <= z THEN z ELSE 0
    <3> HIDE DEF z
    <3>1. QED
      BY <2>2, MaxOfTwo
  <2>4. QED
    BY <2>1, <2>3, <1>1, <1>8
<1>10. top \in 0 .. MAXSIZE /\ top \in Nat
  BY <1>1, <1>8, <1>9
<1>11. top \div BLK <= k
  <2>1. CASE top = off
    <3>1. off \div BLK \in Nat
      BY <1>1, DivFacts
    <3>2. QED
      BY <2>1, <3>1, <1>3, <1>4
  <2>2. CASE top = m
    <3>1. top < BLK * k + BLK
      BY <2>2, <1>1, <1>6, <1>8, <1>10
    <3>2. QED
      BY <3>1, <1>1, <1>4, <1>10, DivAtMost
  <2>3. QED
    BY <2>1, <2>2, <1>9
<1>12. s = IF size <= top THEN top ELSE size
  <2>1. size \in Int /\ top \in Int
    BY <1>3, <1>10
  <2> HIDE DEF size
  <2>2. Max({size, top}) = IF size <= top THEN top ELSE size
    BY <2>1, MaxOfTwo, Zenon
  <2>3. QED
    BY <2>2
<1>13. s \in 0 .. MAXSIZE /\ (s # size => top > size)
  BY <1>3, <1>10, <1>12
<1>14. s \div BLK <= k
  <2>1. size \div BLK \in Nat
    BY <1>1, <1>3, DivFacts
  <2>2. size \div BLK <= k
    BY <2>1, <1>3, <1>4, <1>5
  <2> HIDE DEF s
  <2>3. QED
    BY <2>2, <1>11, <1>12
<1>15. Resize(i, k, s, top > size)
  OBVIOUS
<1> DEFINE changed == top > size
<1>16. Resize(i, k, s, changed) /\ changed \in BOOLEAN /\ (s # mem[i].size => changed)
       /\ ~(k < mem[i].blocks)
  BY <1>3, <1>4, <1>13, <1>15
<1> HIDE DEF s, changed
<1>17. StoreInv' /\ \A j \in Ino \ {i} : dirty'[j] = dirty[j]
  BY <1>4, <1>13, <1>14, <1>16, ResizeInv
<1>18. QED
  BY <1>10, <1>17

-----------------------------------------------------------------------------
(* Inodes written back or dropped *)

(* vfs_close of n[i] descriptors of every file i: with the last reference  *)
(* goes the last descriptor, so what leaves memory has been written.       *)
LEMMA ReleaseStore ==
  ASSUME StoreInv, NEW n \in [Ino -> Nat], Release(n),
         ref \in [Ino -> Nat], open \in [Ino -> Nat],
         \A i \in Ino : n[i] <= open[i] /\ open[i] <= ref[i]
  PROVE  /\ StoreInv'
         /\ \A i \in Ino : dirty'[i] => dirty[i] /\ ~Flushed(i, n)
<1>0. StoreTypes /\ BlocksReach /\ Clean /\ SpaceExact
  BY DEF StoreInv
<1>1. /\ disk' = [i \in Ino |-> IF Flushed(i, n) THEN mem[i] ELSE disk[i]]
      /\ dirty' = [i \in Ino |-> dirty[i] /\ ~Flushed(i, n)]
      /\ mem' = [i \in Ino |-> IF Gone(i, n) THEN disk'[i] ELSE mem[i]]
      /\ ents' = ents /\ unused' = unused
  BY Zenon DEF Release
<1>2. /\ disk' \in [Ino -> Inode] /\ mem' \in [Ino -> Inode] /\ dirty' \in [Ino -> BOOLEAN]
  <2>1. mem \in [Ino -> Inode] /\ disk \in [Ino -> Inode]
    BY <1>0 DEF StoreTypes
  <2>2. disk' \in [Ino -> Inode]
    BY <2>1, <1>1
  <2>3. QED
    BY <2>1, <2>2, <1>1
<1>3. StoreTypes'
  BY <1>0, <1>1, <1>2 DEF StoreTypes
(* With the last reference goes the last descriptor.                       *)
<1>4. ASSUME NEW i \in Ino, Gone(i, n) PROVE Flushed(i, n) \/ ~dirty[i]
  <2>1. n[i] \in Nat /\ open[i] \in Nat /\ ref[i] \in Nat /\ n[i] <= open[i] /\ open[i] <= ref[i]
    OBVIOUS
  <2>2. n[i] > 0 /\ open[i] = n[i]
    BY <2>1, <1>4 DEF Gone
  <2>3. QED
    BY <2>2 DEF Flushed
<1>5. ASSUME NEW i \in Ino
      PROVE  /\ dirty'[i] <=> dirty[i] /\ ~Flushed(i, n)
             /\ disk'[i] = IF Flushed(i, n) THEN mem[i] ELSE disk[i]
             /\ mem'[i] = mem[i] \/ (mem'[i] = disk[i] /\ ~dirty[i])
  <2>1. /\ dirty'[i] <=> dirty[i] /\ ~Flushed(i, n)
        /\ disk'[i] = IF Flushed(i, n) THEN mem[i] ELSE disk[i]
        /\ mem'[i] = IF Gone(i, n) THEN disk'[i] ELSE mem[i]
    BY <1>1
  <2>2. QED
    BY <2>1, <1>4, Zenon
<1>6. ASSUME NEW i \in Ino, ~dirty'[i]
      PROVE  \/ disk'[i] = mem[i] /\ mem'[i] = mem[i]
             \/ ~dirty[i] /\ mem'[i] \in {mem[i], disk[i]} /\ disk'[i] \in {mem[i], disk[i]}
  BY <1>5, <1>6, Zenon
<1>7. Clean'
  <2>1. SUFFICES ASSUME NEW i \in Ino, ~dirty'[i]
                 PROVE  /\ mem'[i].size = disk'[i].size /\ mem'[i].ind = disk'[i].ind
                        /\ Min({mem'[i].blocks, NDIRECT}) = Min({disk'[i].blocks, NDIRECT})
    BY DEF Clean
  <2>2. CASE disk'[i] = mem[i] /\ mem'[i] = mem[i]
    BY <2>2, Zenon
  <2>3. CASE ~dirty[i] /\ mem'[i] \in {mem[i], disk[i]} /\ disk'[i] \in {mem[i], disk[i]}
    <3>1. /\ mem[i].size = disk[i].size /\ mem[i].ind = disk[i].ind
          /\ Min({mem[i].blocks, NDIRECT}) = Min({disk[i].blocks, NDIRECT})
      BY <2>3, <1>0, Zenon DEF Clean
    <3>2. QED
      BY <2>3, <3>1, Zenon
  <2>4. QED
    BY <2>1, <2>2, <2>3, <1>6, Zenon
<1>8. BlocksReach'
  <2>1. SUFFICES ASSUME NEW i \in Ino,
                        NEW d \in {mem'[i]} \cup (IF dirty'[i] THEN {} ELSE {disk'[i]})
                 PROVE  /\ d.size \div BLK <= d.blocks
                        /\ \A x \in NDIRECT .. d.blocks - 1 : d.ind /\ x - NDIRECT \in ents'[i]
    BY DEF BlocksReach
  <2>2. d = mem[i] \/ (d = disk[i] /\ ~dirty[i])
    <3>1. CASE d = mem'[i]
      BY <3>1, <1>5, Zenon
    <3>2. CASE d = disk'[i] /\ ~dirty'[i]
      BY <3>2, <1>5, Zenon
    <3>3. QED
      BY <2>1, <3>1, <3>2
  <2>3. d \in {mem[i]} \cup (IF dirty[i] THEN {} ELSE {disk[i]})
    BY <2>2
  <2>4. QED
    BY <2>3, <1>0, <1>1 DEF BlocksReach
<1>9. SpaceExact'
  <2>1. ASSUME NEW i \in Ino
        PROVE  /\ mem'[i].ind = mem[i].ind
               /\ Min({mem'[i].blocks, NDIRECT}) = Min({mem[i].blocks, NDIRECT})
    <3>1. CASE mem'[i] = mem[i]
      BY <3>1, Zenon
    <3>2. CASE mem'[i] = disk[i] /\ ~dirty[i]
      BY <3>2, <1>0, Zenon DEF Clean
    <3>3. QED
      BY <3>1, <3>2, <1>5, Zenon
  <2>2. Taken' = Taken
    BY <2>1, <1>1 DEF Taken
  <2>3. QED
    BY <2>2, <1>0, <1>1 DEF SpaceExact
<1>10. QED
  BY <1>3, <1>5, <1>7, <1>8, <1>9 DEF StoreInv

(* sfs_fsync                                                               *)
LEMMA FsyncStore ==
  ASSUME StoreInv, NEW i \in Ino,
         disk' = [disk EXCEPT ![i] = mem[i]], dirty' = [dirty EXCEPT ![i] = FALSE],
         UNCHANGED <<mem, ents, unused>>
  PROVE  StoreInv' /\ \A j \in Ino : dirty'[j] => dirty[j]
<1>0. StoreTypes /\ BlocksReach /\ Clean /\ SpaceExact
  BY DEF StoreInv
<1>1. StoreTypes'
  BY <1>0 DEF StoreTypes
<1>2. /\ \A j \in Ino : dirty'[j] <=> dirty[j] /\ j # i
      /\ \A j \in Ino : disk'[j] = IF j = i THEN mem[j] ELSE disk[j]
  BY <1>0 DEF StoreTypes
<1>3. Clean'
  <2>1. SUFFICES ASSUME NEW j \in Ino, ~dirty'[j]
                 PROVE  /\ mem[j].size = disk'[j].size /\ mem[j].ind = disk'[j].ind
                        /\ Min({mem[j].blocks, NDIRECT}) = Min({disk'[j].blocks, NDIRECT})
    BY DEF Clean
  <2>2. CASE j = i
    BY <2>2, <1>2, Zenon
  <2>3. CASE j # i
    BY <2>1, <2>3, <1>0, <1>2, Zenon DEF Clean
  <2>4. QED
    BY <2>2, <2>3
<1>4. BlocksReach'
  <2>1. SUFFICES ASSUME NEW j \in Ino,
                        NEW d \in {mem[j]} \cup (IF dirty'[j] THEN {} ELSE {disk'[j]})
                 PROVE  /\ d.size \div BLK <= d.blocks
                        /\ \A x \in NDIRECT .. d.blocks - 1 : d.ind /\ x - NDIRECT \in ents[j]
    BY DEF BlocksReach
  <2>2. d \in {mem[j]} \cup (IF dirty[j] THEN {} ELSE {disk[j]})
    BY <1>2
  <2>3. QED
    BY <2>2, <1>0 DEF BlocksReach
<1>5. SpaceExact'
  BY <1>0 DEF SpaceExact, Taken
<1>6. QED
  BY <1>1, <1>2, <1>3, <1>4, <1>5 DEF StoreInv

-----------------------------------------------------------------------------
(* Descriptors and counts *)

(* The types of what a descriptor table holds; all of it is finite.        *)
LEMMA TableFacts ==
  ASSUME CountInv
  PROVE  /\ IsFiniteSet(FD)
         /\ \A p \in Proc, f \in FD : fd[p][f].on =>
              /\ fd[p][f] \in [on : {TRUE}, node : Ino, mode : MODES, pos : 0 .. MAXSIZE]
              /\ fd[p][f].node \in Ino /\ fd[p][f].pos \in 0 .. MAXSIZE
              /\ fd[p][f].mode \in MODES
         /\ \A i \in Ino : IsFiniteSet(Entries(i)) /\ Cardinality(Entries(i)) \in Nat
         /\ \A p \in Proc, i \in Ino, F \in SUBSET FD :
              /\ IsFiniteSet({f \in F : fd[p][f].on /\ fd[p][f].node = i})
              /\ Holds(p, i, F) \in Nat
<1>1. IsFiniteSet(FD)
  BY ConstFacts, IntervalSize DEF FD
<1>2. ASSUME NEW p \in Proc, NEW f \in FD, fd[p][f].on
      PROVE  /\ fd[p][f] \in [on : {TRUE}, node : Ino, mode : MODES, pos : 0 .. MAXSIZE]
             /\ fd[p][f].node \in Ino /\ fd[p][f].pos \in 0 .. MAXSIZE
             /\ fd[p][f].mode \in MODES
  <2>1. fd[p][f] \in Desc /\ fd[p][f] # None
    BY <1>2 DEF CountInv, None
  <2>2. fd[p][f] \in [on : {TRUE}, node : Ino, mode : MODES, pos : 0 .. MAXSIZE]
    BY <2>1 DEF Desc
  <2>3. QED
    BY <2>2
<1>3. ASSUME NEW i \in Ino PROVE IsFiniteSet(Entries(i)) /\ Cardinality(Entries(i)) \in Nat
  <2>1. IsFiniteSet(live \X FD)
    BY <1>1, FS_Product DEF CountInv
  <2>2. Entries(i) \in SUBSET (live \X FD)
    BY DEF Entries
  <2>3. QED
    BY <2>1, <2>2, FS_Subset, FS_CardinalityType
<1>4. ASSUME NEW p \in Proc, NEW i \in Ino, NEW F \in SUBSET FD
      PROVE  /\ IsFiniteSet({f \in F : fd[p][f].on /\ fd[p][f].node = i})
             /\ Holds(p, i, F) \in Nat
  <2>1. {f \in F : fd[p][f].on /\ fd[p][f].node = i} \in SUBSET FD
    OBVIOUS
  <2>2. QED
    BY <1>1, <2>1, FS_Subset, FS_CardinalityType DEF Holds
<1>5. QED
  BY <1>1, <1>2, <1>3, <1>4

(* An open descriptor counts.                                              *)
LEMMA OpenedFacts ==
  ASSUME CountInv, NEW p \in Proc, NEW f \in FD, Opened(p, f)
  PROVE  /\ p \in live /\ fd[p][f].on
         /\ fd[p][f] \in [on : {TRUE}, node : Ino, mode : MODES, pos : 0 .. MAXSIZE]
         /\ fd[p][f].node \in Ino /\ fd[p][f].pos \in 0 .. MAXSIZE
         /\ <<p, f>> \in Entries(fd[p][f].node)
         /\ open[fd[p][f].node] \in Nat /\ open[fd[p][f].node] > 0
<1> DEFINE i == fd[p][f].node
<1>1. p \in live /\ fd[p][f].on
  BY DEF Opened
<1>2. /\ fd[p][f] \in [on : {TRUE}, node : Ino, mode : MODES, pos : 0 .. MAXSIZE]
      /\ i \in Ino /\ fd[p][f].pos \in 0 .. MAXSIZE
  BY <1>1, TableFacts
<1>3. <<p, f>> \in Entries(i)
  BY <1>1 DEF Entries
<1> HIDE DEF i
<1>4. IsFiniteSet(Entries(i)) /\ Cardinality(Entries(i)) \in Nat
      /\ open[i] = Cardinality(Entries(i))
  BY <1>2, TableFacts DEF CountInv
<1>5. Cardinality(Entries(i)) # 0
  BY <1>3, <1>4, FS_EmptySet
<1>6. open[i] \in Nat /\ open[i] > 0
  BY <1>4, <1>5
<1>7. QED
  BY <1>1, <1>2, <1>3, <1>6, Zenon DEF i

(* A step that leaves every reference what it was for, or the one that     *)
(* loses one.                                                              *)
RefsStep ==
  \A i \in Ino : \/ ref'[i] - open'[i] = ref[i] - open[i]
                 \/ ref'[i] = ref[i] + 1 /\ UNCHANGED <<open, fd>>

(* Descriptors A[i] of the files i are opened: each of them counts.        *)
LEMMA Gain ==
  ASSUME CountInv, NEW n, NEW A,
         live' \subseteq Proc, IsFiniteSet(live'), fd' \in [Proc -> [FD -> Desc]],
         ref' = [i \in Ino |-> ref[i] + n[i]], open' = [i \in Ino |-> open[i] + n[i]],
         \A i \in Ino : /\ IsFiniteSet(A[i]) /\ Cardinality(A[i]) = n[i]
                        /\ A[i] \cap Entries(i) = {}
                        /\ Entries(i)' = Entries(i) \cup A[i]
  PROVE  CountInv' /\ RefsStep
<1>1. ASSUME NEW i \in Ino
      PROVE  /\ open[i] \in Nat /\ ref[i] \in Nat /\ n[i] \in Nat /\ open[i] <= ref[i]
             /\ open[i] = Cardinality(Entries(i))
             /\ Cardinality(Entries(i)') = Cardinality(Entries(i)) + n[i]
  <2>1. IsFiniteSet(Entries(i))
    BY TableFacts
  <2>2. Cardinality(Entries(i) \cup A[i]) = Cardinality(Entries(i)) + Cardinality(A[i])
    BY <2>1, DisjointSize
  <2>3. n[i] \in Nat
    BY FS_CardinalityType
  <2>4. QED
    BY <2>2, <2>3 DEF CountInv
<1>2. ref' \in [Ino -> Nat] /\ open' \in [Ino -> Nat]
  BY <1>1
<1>3. ASSUME NEW i \in Ino
      PROVE  /\ open'[i] = Cardinality(Entries(i)') /\ open'[i] <= ref'[i]
             /\ ref'[i] - open'[i] = ref[i] - open[i]
  <2>1. open'[i] = open[i] + n[i] /\ ref'[i] = ref[i] + n[i]
    OBVIOUS
  <2>2. QED
    BY <1>1, <2>1
<1>4. CountInv'
  BY <1>2, <1>3 DEF CountInv
<1>5. QED
  BY <1>3, <1>4 DEF RefsStep

(* Descriptors A[i] of the files i are closed.                             *)
LEMMA Lose ==
  ASSUME CountInv, NEW n, NEW A,
         live' \subseteq Proc, IsFiniteSet(live'), fd' \in [Proc -> [FD -> Desc]],
         ref' = [i \in Ino |-> ref[i] - n[i]], open' = [i \in Ino |-> open[i] - n[i]],
         \A i \in Ino : /\ IsFiniteSet(A[i]) /\ Cardinality(A[i]) = n[i]
                        /\ A[i] \subseteq Entries(i)
                        /\ Entries(i)' = Entries(i) \ A[i]
  PROVE  CountInv' /\ RefsStep /\ \A i \in Ino : n[i] \in Nat /\ n[i] <= open[i]
<1>1. ASSUME NEW i \in Ino
      PROVE  /\ open[i] \in Nat /\ ref[i] \in Nat /\ n[i] \in Nat /\ open[i] <= ref[i]
             /\ n[i] <= open[i]
             /\ open[i] = Cardinality(Entries(i))
             /\ Cardinality(Entries(i)') = Cardinality(Entries(i)) - n[i]
  <2>1. IsFiniteSet(Entries(i)) /\ Entries(i) \cap A[i] = A[i]
    BY TableFacts
  <2>2. Cardinality(Entries(i) \ A[i]) = Cardinality(Entries(i)) - Cardinality(Entries(i) \cap A[i])
    BY <2>1, FS_Difference
  <2>3. n[i] \in Nat /\ n[i] <= Cardinality(Entries(i))
    BY <2>1, FS_CardinalityType, FS_Subset
  <2>4. QED
    BY <2>1, <2>2, <2>3 DEF CountInv
<1>2. ref' \in [Ino -> Nat] /\ open' \in [Ino -> Nat]
  BY <1>1
<1>3. ASSUME NEW i \in Ino
      PROVE  /\ open'[i] = Cardinality(Entries(i)') /\ open'[i] <= ref'[i]
             /\ ref'[i] - open'[i] = ref[i] - open[i]
  <2>1. open'[i] = open[i] - n[i] /\ ref'[i] = ref[i] - n[i]
    OBVIOUS
  <2>2. QED
    BY <1>1, <2>1
<1>4. CountInv'
  BY <1>2, <1>3 DEF CountInv
<1>5. QED
  BY <1>1, <1>3, <1>4 DEF RefsStep

(* Positions move only.                                                    *)
LEMMA CountSame ==
  ASSUME CountInv, UNCHANGED <<live, ref, open>>, fd' \in [Proc -> [FD -> Desc]],
         \A p \in Proc, f \in FD : /\ fd'[p][f].on <=> fd[p][f].on
                                   /\ fd[p][f].on => fd'[p][f].node = fd[p][f].node
  PROVE  CountInv' /\ RefsStep
<1>1. ASSUME NEW i \in Ino PROVE Entries(i)' = Entries(i)
  <2>1. live \subseteq Proc /\ live' = live
    BY DEF CountInv
  <2>2. ASSUME NEW x \in live \X FD
        PROVE  (fd'[x[1]][x[2]].on /\ fd'[x[1]][x[2]].node = i)
                 <=> (fd[x[1]][x[2]].on /\ fd[x[1]][x[2]].node = i)
    <3>1. x[1] \in Proc /\ x[2] \in FD
      BY <2>1
    <3>2. QED
      BY <3>1
  <2>3. QED
    BY <2>1, <2>2 DEF Entries
<1>2. CountInv'
  BY <1>1 DEF CountInv
<1>3. QED
  BY <1>2 DEF RefsStep

-----------------------------------------------------------------------------
(* The system calls *)

(* The first process starts with an empty table and empty files.           *)
LEMMA InitInv == Init => FilesInv
<1> SUFFICES ASSUME Init PROVE FilesInv
  OBVIOUS
<1> USE ConstFacts
<1>1. Empty \in Inode /\ 0 \div BLK = 0
  BY DEF Empty, Inode, NBLOCKS
<1>2. StoreTypes
  BY <1>1, FilesAssumption DEF Init, StoreTypes
<1>3. BlocksReach
  BY <1>1, FS_EmptySet DEF Init, BlocksReach, Empty
<1>4. Clean
  BY DEF Init, Clean
<1>5. SpaceExact
  <2>1. Taken \in [Ino -> Nat] /\ \A i \in Ino : Taken[i] = Share(mem[i], ents[i])
    BY <1>2, ShareFacts
  <2>2. \A i \in Ino : Taken[i] = 0
    BY <2>1, FS_EmptySet DEF Init, Share, Empty
  <2>3. SumFunction(Taken) = SumsOf(Taken, Ino)[Ino]
    BY <2>1, SumUnfolds
  <2>4. SumsOf(Taken, Ino)[Ino] = 0
    BY <2>1, <2>2, FilesAssumption, SumsNat
  <2>5. QED
    BY <2>3, <2>4, FilesAssumption DEF SpaceExact, Init
<1>6. CountInv
  <2>1. PICK p \in Proc : live = {p}
    BY DEF Init
  <2>2. fd \in [Proc -> [FD -> Desc]]
    BY DEF Init, Desc
  <2>3. \A i \in Ino : Entries(i) = {}
    <3>1. \A x \in live \X FD : x[1] \in Proc /\ x[2] \in FD /\ ~fd[x[1]][x[2]].on
      BY <2>1 DEF Init, None
    <3>2. QED
      BY <3>1 DEF Entries
  <2>4. live \subseteq Proc /\ IsFiniteSet(live)
    BY <2>1, FS_Singleton
  <2>5. /\ ref \in [Ino -> Nat] /\ open \in [Ino -> Nat]
        /\ \A i \in Ino : open[i] = Cardinality(Entries(i)) /\ open[i] <= ref[i]
    BY <2>3, FS_EmptySet DEF Init
  <2>6. QED
    BY <2>2, <2>4, <2>5 DEF CountInv
<1>7. QED
  BY <1>2, <1>3, <1>4, <1>5, <1>6 DEF FilesInv, StoreInv, Init

(* What each step keeps.                                                   *)
Kept == FilesInv' /\ RefsStep

(* A kernel that stops leaves everything as it is.                         *)
LEMMA PanicInv ==
  ASSUME FilesInv, NEW why \in {"index", "range", "truncate", "create"}, Panic(why)
  PROVE  Kept
<1>1. StoreInv'
  BY StoreSame DEF FilesInv, Panic
<1>2. CountInv' /\ RefsStep
  BY CountSame DEF FilesInv, Panic, CountInv
<1>3. QED
  BY <1>1, <1>2 DEF FilesInv, Panic, Kept

(* One more descriptor on file i, at a free place of p's table.            *)
LEMMA AddOne ==
  ASSUME CountInv, NEW p \in live, NEW g \in Free(p), NEW i \in Ino, NEW e \in Desc,
         e.on, e.node = i, fd' = [fd EXCEPT ![p][g] = e], UNCHANGED live,
         ref' = [j \in Ino |-> ref[j] + One(i)[j]],
         open' = [j \in Ino |-> open[j] + One(i)[j]]
  PROVE  CountInv' /\ RefsStep /\ \A j \in Ino : open'[j] = 0 => j # i /\ open[j] = 0
<1> DEFINE A == [j \in Ino |-> IF j = i THEN {<<p, g>>} ELSE {}]
<1>1. /\ p \in Proc /\ g \in FD /\ ~fd[p][g].on
      /\ fd \in [Proc -> [FD -> Desc]] /\ live \subseteq Proc /\ IsFiniteSet(live)
  BY DEF CountInv, Free
<1>2. /\ fd' \in [Proc -> [FD -> Desc]]
      /\ \A q \in Proc, f \in FD : fd'[q][f] = IF q = p /\ f = g THEN e ELSE fd[q][f]
  BY <1>1
<1>3. ASSUME NEW j \in Ino
      PROVE  /\ IsFiniteSet(A[j]) /\ Cardinality(A[j]) = One(i)[j]
             /\ A[j] \cap Entries(j) = {}
             /\ Entries(j)' = Entries(j) \cup A[j]
  <2>1. IsFiniteSet(A[j]) /\ Cardinality(A[j]) = One(i)[j]
    BY FS_EmptySet, FS_Singleton DEF One
  <2>2. A[j] \cap Entries(j) = {}
    BY <1>1 DEF Entries
  <2>3. ASSUME NEW x \in live \X FD
        PROVE  x \in Entries(j)' <=> x \in Entries(j) \cup A[j]
    <3>1. x[1] \in Proc /\ x[2] \in FD /\ x = <<x[1], x[2]>>
      BY <1>1
    <3>2. fd'[x[1]][x[2]] = IF x[1] = p /\ x[2] = g THEN e ELSE fd[x[1]][x[2]]
      BY <3>1, <1>2
    <3>3. CASE x = <<p, g>>
      BY <3>1, <3>2, <3>3, <1>1 DEF Entries
    <3>4. CASE x # <<p, g>>
      BY <3>1, <3>2, <3>4, <1>1 DEF Entries
    <3>5. QED
      BY <3>3, <3>4
  <2>4. Entries(j)' \subseteq live \X FD /\ Entries(j) \cup A[j] \subseteq live \X FD
    BY <1>1 DEF Entries
  <2>5. QED
    BY <2>1, <2>2, <2>3, <2>4
<1> HIDE DEF A
<1>4. CountInv' /\ RefsStep
  BY <1>1, <1>2, <1>3, Gain
<1>5. \A j \in Ino : open[j] \in Nat /\ open'[j] = open[j] + (IF j = i THEN 1 ELSE 0)
  BY DEF CountInv, One
<1>6. QED
  BY <1>4, <1>5

(* file_open                                                               *)
LEMMA OpenInv ==
  ASSUME FilesInv, NEW p \in Proc, NEW i \in Ino, NEW mode \in MODES,
         NEW excl \in BOOLEAN, NEW creat \in BOOLEAN, NEW trunc \in BOOLEAN,
         NEW append \in BOOLEAN, Open(p, i, mode, excl, creat, trunc, append)
  PROVE  Kept
<1>1. p \in live /\ Free(p) # {} /\ StoreInv /\ CountInv
  BY DEF Open, FilesInv
(* O_EXCL: the reference that the lookup took stays.                       *)
<1>2. CASE excl /\ creat
  <2>1. /\ ref' = [ref EXCEPT ![i] = @ + 1]
        /\ UNCHANGED <<live, fd, open, mem, dirty, disk, ents, unused, panic>>
    BY <1>2 DEF Open
  <2>2. StoreInv'
    BY <2>1, <1>1, StoreSame
  <2>3. \A j \in Ino : Entries(j)' = Entries(j)
    BY <2>1 DEF Entries
  <2>4. ref' \in [Ino -> Nat] /\ \A j \in Ino : ref'[j] = ref[j] + IF j = i THEN 1 ELSE 0
    BY <2>1, <1>1 DEF CountInv
  <2>5. CountInv'
    BY <2>1, <2>3, <2>4, <1>1 DEF CountInv
  <2>6. RefsStep
    BY <2>1, <2>4, <1>1 DEF RefsStep, CountInv
  <2>7. QED
    BY <2>1, <2>2, <2>5, <2>6 DEF FilesInv, Kept
<1>3. CASE ~(excl /\ creat) /\ (trunc \/ creat) /\ ~TruncateAsserts(i, 0)
  <2>1. Panic("truncate")
    BY <1>3 DEF Open
  <2>2. QED
    BY <2>1, PanicInv
<1>4. CASE ~(excl /\ creat) /\ ~((trunc \/ creat) /\ ~TruncateAsserts(i, 0))
  <2> DEFINE e == File(i, mode, IF append THEN mem'[i].size ELSE 0)
             g == Min(Free(p))
  <2>1. /\ Hold(One(i))
        /\ IF trunc \/ creat THEN Truncate(i, 0) ELSE UNCHANGED <<mem, ents, unused, dirty>>
        /\ fd' = [fd EXCEPT ![p][g] = e]
        /\ UNCHANGED <<live, disk, panic>>
    BY <1>4 DEF Open
  <2>2. StoreInv' /\ \A j \in Ino \ {i} : dirty'[j] = dirty[j]
    <3>1. CASE trunc \/ creat
      <4>1. 0 \in 0 .. MAXSIZE
        BY ConstFacts
      <4>2. QED
        BY <3>1, <4>1, <2>1, <1>1, TruncateInv
    <3>2. CASE ~(trunc \/ creat)
      BY <3>2, <2>1, <1>1, StoreSame
    <3>3. QED
      BY <3>1, <3>2
  <2>3. g \in Free(p)
    <3>1. Free(p) \in SUBSET Nat
      BY ConstFacts DEF Free, FD
    <3>2. QED
      BY <3>1, <1>1, MinExists
  <2>4. e \in Desc /\ e.on /\ e.node = i
    <3>1. mem'[i].size \in 0 .. MAXSIZE /\ 0 \in 0 .. MAXSIZE
      BY <2>2, ConstFacts DEF StoreInv, StoreTypes, Inode
    <3>2. (IF append THEN mem'[i].size ELSE 0) \in 0 .. MAXSIZE
      BY <3>1
    <3>3. QED
      BY <3>2 DEF File, Desc
  <2>5. /\ ref' = [j \in Ino |-> ref[j] + One(i)[j]]
        /\ open' = [j \in Ino |-> open[j] + One(i)[j]]
    BY <2>1 DEF Hold
  <2> HIDE DEF e, g
  <2>6. CountInv' /\ RefsStep /\ \A j \in Ino : open'[j] = 0 => j # i /\ open[j] = 0
    BY <2>1, <2>3, <2>4, <2>5, <1>1, AddOne
  <2>7. QED
    BY <2>1, <2>2, <2>6 DEF FilesInv, Kept
<1>5. QED
  BY <1>2, <1>3, <1>4

(* file_dup                                                                *)
LEMMA DupInv ==
  ASSUME FilesInv, NEW p \in Proc, NEW f \in FD, NEW g \in FD, Dup(p, f, g)
  PROVE  Kept
<1> DEFINE i == fd[p][f].node
           e == fd[p][f]
<1>1. /\ Opened(p, f) /\ g \in Free(p) /\ fd' = [fd EXCEPT ![p][g] = e] /\ Hold(One(i))
      /\ UNCHANGED <<live, mem, dirty, disk, ents, unused, panic>>
      /\ StoreInv /\ CountInv
  BY DEF Dup, FilesInv
<1>2. p \in live /\ e.on /\ i \in Ino /\ e \in Desc
  BY <1>1, OpenedFacts DEF Desc
<1>3. e.node = i
  OBVIOUS
<1>4. /\ ref' = [j \in Ino |-> ref[j] + One(i)[j]]
      /\ open' = [j \in Ino |-> open[j] + One(i)[j]]
  BY <1>1 DEF Hold
<1>5. StoreInv'
  BY <1>1, StoreSame
<1> HIDE DEF e, i
<1>6. CountInv' /\ RefsStep /\ \A j \in Ino : open'[j] = 0 => j # i /\ open[j] = 0
  BY <1>1, <1>2, <1>3, <1>4, AddOne
<1>7. QED
  BY <1>1, <1>5, <1>6 DEF FilesInv, Kept

(* A system call that resizes the file of an open descriptor and moves its *)
(* position.                                                               *)
LEMMA MoveInv ==
  ASSUME FilesInv, NEW p \in Proc, NEW f \in FD, Opened(p, f), NEW pos \in 0 .. MAXSIZE,
         fd' = [fd EXCEPT ![p][f].pos = pos] \/ fd' = fd,
         StoreInv', \A j \in Ino \ {fd[p][f].node} : dirty'[j] = dirty[j],
         UNCHANGED <<live, ref, open, panic>>
  PROVE  Kept
<1>1. CountInv /\ fd \in [Proc -> [FD -> Desc]]
  BY DEF FilesInv, CountInv
<1> DEFINE e == fd[p][f]
<1>2. /\ e \in [on : {TRUE}, node : Ino, mode : MODES, pos : 0 .. MAXSIZE]
      /\ e.node \in Ino /\ open[e.node] > 0 /\ e.on
  BY <1>1, OpenedFacts
<1>3. CASE fd' = [fd EXCEPT ![p][f].pos = pos]
  <2> DEFINE d == [e EXCEPT !.pos = pos]
  <2>1. d \in [on : {TRUE}, node : Ino, mode : MODES, pos : 0 .. MAXSIZE]
    BY <1>2
  <2>2. d \in Desc /\ d.on /\ d.node = e.node
    BY <2>1, <1>2 DEF Desc
  <2>3. fd' = [fd EXCEPT ![p] = [fd[p] EXCEPT ![f] = d]]
    BY <1>3, <1>1
  <2> HIDE DEF d, e
  <2>4. /\ fd' \in [Proc -> [FD -> Desc]]
        /\ \A q \in Proc, g \in FD : fd'[q][g] = IF q = p /\ g = f THEN d ELSE fd[q][g]
    BY <2>2, <2>3, <1>1
  <2>5. \A q \in Proc, g \in FD : /\ fd'[q][g].on <=> fd[q][g].on
                                  /\ fd[q][g].on => fd'[q][g].node = fd[q][g].node
    BY <2>2, <2>4, <1>2 DEF e
  <2>6. CountInv' /\ RefsStep
    BY <2>4, <2>5, <1>1, CountSame
  <2>7. QED
    BY <2>6, <1>2 DEF FilesInv, Kept, e
<1>4. CASE fd' = fd
  <2>1. CountInv' /\ RefsStep
    BY <1>4, <1>1, CountSame
  <2>2. QED
    BY <2>1, <1>2 DEF FilesInv, Kept
<1>5. QED
  BY <1>3, <1>4

(* sfs_io, whatever stops it.                                              *)
LEMMA TransferKept ==
  ASSUME FilesInv, NEW p \in Proc, NEW f \in FD, Opened(p, f), NEW end \in 0 .. MAXSIZE,
         Transfer(p, f, end)
  PROVE  Kept
<1> DEFINE i == fd[p][f].node
           off == fd[p][f].pos
           n == CeilDiv(end, BLK)
           k == Reach(i, n)
           alen == Max({0, Min({end, k * BLK}) - off})
           top == off + alen
<1>1. i \in Ino /\ off \in 0 .. MAXSIZE /\ StoreInv
  BY OpenedFacts DEF FilesInv
<1>2. CASE off \div BLK > mem[i].blocks
  <2>1. Panic("index")
    BY <1>2 DEF Transfer
  <2>2. QED
    BY <2>1, PanicInv
<1>3. CASE ~(off \div BLK > mem[i].blocks) /\ OutOfRange(i, n)
  <2>1. Panic("range")
    BY <1>3 DEF Transfer
  <2>2. QED
    BY <2>1, PanicInv
<1>4. CASE ~(off \div BLK > mem[i].blocks) /\ ~OutOfRange(i, n)
  <2>1. /\ Resize(i, k, Max({mem[i].size, top}), top > mem[i].size)
        /\ fd' = [fd EXCEPT ![p][f].pos = top]
        /\ UNCHANGED <<live, ref, open, disk, panic>>
    BY <1>4, Zenon DEF Transfer
  <2>2. k = Reach(i, CeilDiv(end, BLK)) /\ top = off + Max({0, Min({end, k * BLK}) - off})
    OBVIOUS
  <2>3. i = fd[p][f].node
    OBVIOUS
  <2> HIDE DEF k, top, i, off
  <2>4. /\ StoreInv' /\ \A j \in Ino \ {i} : dirty'[j] = dirty[j]
        /\ top \in 0 .. MAXSIZE
    BY <1>1, <1>4, <2>1, <2>2, TransferInv
  <2>5. QED
    BY <2>1, <2>3, <2>4, MoveInv
<1>5. QED
  BY <1>2, <1>3, <1>4, Zenon

(* file_write                                                              *)
LEMMA WriteInv ==
  ASSUME FilesInv, NEW p \in Proc, NEW f \in FD, NEW len \in LENS, Write(p, f, len)
  PROVE  Kept
<1> DEFINE off == fd[p][f].pos
           end == Min({off + len, MAXSIZE})
<1>1. Opened(p, f) /\ Transfer(p, f, end)
  BY DEF Write
<1>2. off \in Nat /\ len \in Nat /\ MAXSIZE \in Nat
  <2>1. off \in 0 .. MAXSIZE
    BY <1>1, OpenedFacts DEF FilesInv
  <2>2. QED
    BY <2>1, ConstFacts
<1>3. end \in 0 .. MAXSIZE
  <2> DEFINE t == off + len
  <2>1. t \in Nat
    BY <1>2
  <2> HIDE DEF t
  <2>2. Min({t, MAXSIZE}) = IF t <= MAXSIZE THEN t ELSE MAXSIZE
    BY <1>2, <2>1, MinOfTwo
  <2>3. QED
    BY <1>2, <2>1, <2>2 DEF t
<1> HIDE DEF end
<1>4. QED
  BY <1>1, <1>3, TransferKept

(* file_read                                                               *)
LEMMA ReadInv ==
  ASSUME FilesInv, NEW p \in Proc, NEW f \in FD, NEW len \in LENS, Read(p, f, len)
  PROVE  Kept
<1> DEFINE off == fd[p][f].pos
           size == mem[fd[p][f].node].size
           end == Min({off + len, size})
<1>1. Opened(p, f) /\ Transfer(p, f, end)
  BY DEF Read
<1>2. off \in Nat /\ len \in Nat /\ size \in 0 .. MAXSIZE /\ MAXSIZE \in Nat
  <2>1. off \in 0 .. MAXSIZE /\ fd[p][f].node \in Ino
    BY <1>1, OpenedFacts DEF FilesInv
  <2>2. size \in 0 .. MAXSIZE
    BY <2>1, InodeFacts DEF FilesInv, StoreInv
  <2>3. QED
    BY <2>1, <2>2, ConstFacts
<1>3. end \in 0 .. MAXSIZE
  <2> DEFINE t == off + len
  <2>1. t \in Nat
    BY <1>2
  <2> HIDE DEF t, size
  <2>2. Min({t, size}) = IF t <= size THEN t ELSE size
    BY <1>2, <2>1, MinOfTwo
  <2>3. QED
    BY <1>2, <2>1, <2>2 DEF t
<1> HIDE DEF end
<1>4. QED
  BY <1>1, <1>3, TransferKept

(* file_seek                                                               *)
LEMMA SeekInv ==
  ASSUME FilesInv, NEW p \in Proc, NEW f \in FD, NEW pos \in SEEKS, Seek(p, f, pos)
  PROVE  Kept
<1> DEFINE i == fd[p][f].node
           n == CeilDiv(pos, BLK)
<1>1. Opened(p, f) /\ pos \in 0 .. MAXSIZE
  BY ConstFacts DEF Seek
<1>2. i \in Ino /\ StoreInv
  BY <1>1, OpenedFacts DEF FilesInv
<1>3. CASE pos > mem[i].size /\ OutOfRange(i, n)
  <2>1. Panic("range")
    BY <1>3 DEF Seek
  <2>2. QED
    BY <2>1, PanicInv
<1>4. CASE ~(pos > mem[i].size /\ OutOfRange(i, n))
  <2>1. /\ IF pos > mem[i].size THEN Truncate(i, pos)
              ELSE UNCHANGED <<mem, ents, unused, dirty>>
        /\ fd' = IF pos > mem[i].size => TruncateFits(i, pos)
                 THEN [fd EXCEPT ![p][f].pos = pos] ELSE fd
        /\ UNCHANGED <<live, ref, open, disk, panic>>
    BY <1>4, Zenon DEF Seek
  <2>2. i = fd[p][f].node
    OBVIOUS
  <2> HIDE DEF i
  <2>3. StoreInv' /\ \A j \in Ino \ {i} : dirty'[j] = dirty[j]
    <3>1. CASE pos > mem[i].size
      BY <3>1, <1>1, <1>2, <2>1, TruncateInv
    <3>2. CASE ~(pos > mem[i].size)
      BY <3>2, <1>2, <2>1, StoreSame
    <3>3. QED
      BY <3>1, <3>2
  <2>4. fd' = [fd EXCEPT ![p][f].pos = pos] \/ fd' = fd
    BY <2>1, Zenon
  <2>5. QED
    BY <1>1, <2>1, <2>2, <2>3, <2>4, MoveInv
<1>5. QED
  BY <1>3, <1>4, Zenon

(* file_fsync                                                              *)
LEMMA FsyncInv ==
  ASSUME FilesInv, NEW p \in Proc, NEW f \in FD, Fsync(p, f)
  PROVE  Kept
<1> DEFINE i == fd[p][f].node
<1>1. /\ Opened(p, f) /\ disk' = [disk EXCEPT ![i] = mem[i]]
      /\ dirty' = [dirty EXCEPT ![i] = FALSE]
      /\ UNCHANGED <<live, fd, ref, open, mem, ents, unused, panic>>
      /\ StoreInv /\ CountInv
  BY DEF Fsync, FilesInv
<1>2. i \in Ino
  BY <1>1, OpenedFacts
<1> HIDE DEF i
<1>3. StoreInv' /\ \A j \in Ino : dirty'[j] => dirty[j]
  BY <1>1, <1>2, FsyncStore
<1>4. CountInv' /\ RefsStep
  BY <1>1, CountSame DEF CountInv
<1>5. QED
  BY <1>1, <1>3, <1>4 DEF FilesInv, Kept

(* file_open of a name that is not there                                   *)
LEMMA MissingInv ==
  ASSUME FilesInv, NEW p \in Proc, OpenMissing(p)
  PROVE  Kept
BY PanicInv DEF OpenMissing

(* vfs_close of the descriptors A[i] of every file i.                      *)
LEMMA ReleaseInv ==
  ASSUME FilesInv, NEW n, n = [i \in Ino |-> n[i]], Release(n), NEW A,
         live' \subseteq Proc, IsFiniteSet(live'), fd' \in [Proc -> [FD -> Desc]],
         \A i \in Ino : /\ IsFiniteSet(A[i]) /\ Cardinality(A[i]) = n[i]
                        /\ A[i] \subseteq Entries(i)
                        /\ Entries(i)' = Entries(i) \ A[i]
  PROVE  Kept
<1>1. /\ StoreInv /\ CountInv
      /\ ref' = [i \in Ino |-> ref[i] - n[i]] /\ open' = [i \in Ino |-> open[i] - n[i]]
      /\ panic' = panic
  BY DEF FilesInv, Release
<1>2. CountInv' /\ RefsStep /\ \A i \in Ino : n[i] \in Nat /\ n[i] <= open[i]
  BY <1>1, Lose
<1>3. /\ n \in [Ino -> Nat] /\ ref \in [Ino -> Nat] /\ open \in [Ino -> Nat]
      /\ \A i \in Ino : n[i] <= open[i] /\ open[i] <= ref[i]
  BY <1>1, <1>2 DEF CountInv
<1>4. StoreInv' /\ \A i \in Ino : dirty'[i] => dirty[i] /\ ~Flushed(i, n)
  BY <1>1, <1>3, ReleaseStore
<1>5. ASSUME NEW i \in Ino, open'[i] = 0 PROVE ~dirty'[i]
  <2>1. open[i] \in Nat /\ n[i] \in Nat /\ open[i] = n[i]
    <3>1. open[i] \in Nat /\ n[i] \in Nat
      BY <1>3
    <3>2. open'[i] = open[i] - n[i]
      BY <1>1
    <3>3. \A a, b \in Nat : a - b = 0 => a = b
      OBVIOUS
    <3>4. QED
      BY <3>1, <3>2, <3>3, <1>5, Zenon
  <2>2. CASE n[i] > 0
    BY <2>1, <2>2, <1>4 DEF Flushed
  <2>3. CASE n[i] = 0
    BY <2>1, <2>3, <1>4 DEF FilesInv
  <2>4. QED
    BY <2>1, <2>2, <2>3
<1>6. QED
  BY <1>1, <1>2, <1>4, <1>5 DEF FilesInv, Kept

(* file_close                                                              *)
LEMMA CloseInv ==
  ASSUME FilesInv, NEW p \in Proc, NEW f \in FD, Close(p, f)
  PROVE  Kept
<1> DEFINE i == fd[p][f].node
           A == [j \in Ino |-> IF j = i THEN {<<p, f>>} ELSE {}]
<1>1. /\ Opened(p, f) /\ fd' = [fd EXCEPT ![p][f] = None] /\ Release(One(i)) /\ live' = live
      /\ CountInv
  BY DEF Close, FilesInv
<1>2. /\ i \in Ino /\ <<p, f>> \in Entries(i) /\ p \in live /\ fd[p][f].on
      /\ fd \in [Proc -> [FD -> Desc]] /\ live \subseteq Proc /\ IsFiniteSet(live)
  BY <1>1, OpenedFacts DEF CountInv
<1>3. /\ fd' \in [Proc -> [FD -> Desc]]
      /\ \A q \in Proc, g \in FD : fd'[q][g] = IF q = p /\ g = f THEN None ELSE fd[q][g]
  BY <1>1, <1>2 DEF Desc
<1>4. ASSUME NEW j \in Ino
      PROVE  /\ IsFiniteSet(A[j]) /\ Cardinality(A[j]) = One(i)[j]
             /\ A[j] \subseteq Entries(j)
             /\ Entries(j)' = Entries(j) \ A[j]
  <2>1. IsFiniteSet(A[j]) /\ Cardinality(A[j]) = One(i)[j]
    BY FS_EmptySet, FS_Singleton DEF One
  <2>2. A[j] \subseteq Entries(j)
    BY <1>2
  <2>3. ASSUME NEW x \in live \X FD
        PROVE  x \in Entries(j)' <=> x \in Entries(j) \ A[j]
    <3>1. x[1] \in Proc /\ x[2] \in FD /\ x = <<x[1], x[2]>>
      BY <1>2
    <3>2. fd'[x[1]][x[2]] = IF x[1] = p /\ x[2] = f THEN None ELSE fd[x[1]][x[2]]
      BY <3>1, <1>3
    <3>3. CASE x = <<p, f>>
      <4>1. ~fd'[x[1]][x[2]].on
        BY <3>2, <3>3 DEF None
      <4>2. j = i => x \in A[j]
        BY <3>3
      <4>3. j # i => x \notin Entries(j)
        BY <3>3 DEF Entries
      <4>4. QED
        BY <4>1, <4>2, <4>3 DEF Entries
    <3>4. CASE x # <<p, f>>
      BY <3>1, <3>2, <3>4, <1>1 DEF Entries
    <3>5. QED
      BY <3>3, <3>4
  <2>4. Entries(j)' \subseteq live \X FD /\ Entries(j) \ A[j] \subseteq live \X FD
    BY <1>1 DEF Entries
  <2>5. QED
    BY <2>1, <2>2, <2>3, <2>4
<1>5. One(i) = [j \in Ino |-> One(i)[j]]
  BY DEF One
<1> HIDE DEF A, i
<1>6. QED
  BY <1>1, <1>2, <1>3, <1>4, <1>5, ReleaseInv

(* Process q's entries for what p has open on file i in the part F of its  *)
(* table.                                                                  *)
Row(q, p, i, F) == {q} \X {f \in F : fd[p][f].on /\ fd[p][f].node = i}

(* There are as many of them as Holds counts.                              *)
LEMMA RowFacts ==
  ASSUME CountInv, NEW p \in Proc, NEW q, NEW i \in Ino, NEW F \in SUBSET FD
  PROVE  IsFiniteSet(Row(q, p, i, F)) /\ Cardinality(Row(q, p, i, F)) = Holds(p, i, F)
<1> DEFINE X == {f \in F : fd[p][f].on /\ fd[p][f].node = i}
<1>1. IsFiniteSet(X) /\ Cardinality(X) \in Nat
  BY TableFacts, FS_CardinalityType
<1>2. Row(q, p, i, F) = {q} \X X /\ Holds(p, i, F) = Cardinality(X)
  BY DEF Row, Holds
<1>3. IsFiniteSet({q}) /\ Cardinality({q}) = 1
  BY FS_Singleton
<1> HIDE DEF X
<1>4. IsFiniteSet({q} \X X) /\ Cardinality({q} \X X) = 1 * Cardinality(X)
  BY <1>1, <1>3, FS_Product
<1>5. QED
  BY <1>1, <1>2, <1>4

(* files_closeall of the part F of p's table: by exec, or with the table   *)
(* itself when p exits.                                                    *)
LEMMA CloseAllInv ==
  ASSUME FilesInv, NEW p \in live, NEW F \in SUBSET FD,
         fd' = [fd EXCEPT ![p] = [f \in FD |-> IF f \in F THEN None ELSE fd[p][f]]],
         Release([i \in Ino |-> Holds(p, i, F)]),
         live' = live \/ (live' = live \ {p} /\ F = FD)
  PROVE  Kept
<1> DEFINE A == [i \in Ino |-> Row(p, p, i, F)]
           n == [i \in Ino |-> Holds(p, i, F)]
<1>1. /\ CountInv /\ p \in Proc
      /\ fd \in [Proc -> [FD -> Desc]] /\ live \subseteq Proc /\ IsFiniteSet(live)
  BY DEF CountInv, FilesInv
<1>2. /\ fd' \in [Proc -> [FD -> Desc]]
      /\ \A q \in Proc, g \in FD : fd'[q][g] = IF q = p /\ g \in F THEN None ELSE fd[q][g]
  <2>1. [f \in FD |-> IF f \in F THEN None ELSE fd[p][f]] \in [FD -> Desc]
    BY <1>1 DEF Desc
  <2>2. QED
    BY <2>1, <1>1
<1>3. live' \subseteq Proc /\ IsFiniteSet(live') /\ live' \subseteq live
  BY <1>1, FS_RemoveElement
<1>4. ASSUME NEW i \in Ino
      PROVE  /\ IsFiniteSet(A[i]) /\ Cardinality(A[i]) = n[i]
             /\ A[i] \subseteq Entries(i)
             /\ Entries(i)' = Entries(i) \ A[i]
  <2>1. IsFiniteSet(A[i]) /\ Cardinality(A[i]) = n[i]
    BY <1>1, RowFacts
  <2>2. \A x \in A[i] : x \in Entries(i)
    BY DEF Row, Entries
  <2>3. ASSUME NEW x \in live \X FD
        PROVE  x \in Entries(i)' <=> x \in Entries(i) \ A[i]
    <3>1. x[1] \in Proc /\ x[2] \in FD /\ x = <<x[1], x[2]>>
      BY <1>1
    <3>2. fd'[x[1]][x[2]] = IF x[1] = p /\ x[2] \in F THEN None ELSE fd[x[1]][x[2]]
      BY <3>1, <1>2
    <3>3. CASE x[1] = p /\ x[2] \in F
      <4>1. x \notin Entries(i)'
        BY <3>2, <3>3 DEF Entries, None
      <4>2. x \in Entries(i) => x \in A[i]
        BY <3>1, <3>3 DEF Entries, Row
      <4>3. QED
        BY <4>1, <4>2
    <3>4. CASE ~(x[1] = p /\ x[2] \in F)
      <4>1. x \notin A[i]
        BY <3>4 DEF Row
      <4>2. x \in live' \X FD
        BY <3>1, <3>4
      <4>3. fd'[x[1]][x[2]] = fd[x[1]][x[2]]
        BY <3>2, <3>4
      <4>4. QED
        BY <4>1, <4>2, <4>3 DEF Entries
    <3>5. QED
      BY <3>3, <3>4
  <2>4. Entries(i)' \subseteq live \X FD /\ Entries(i) \ A[i] \subseteq live \X FD
    BY <1>3 DEF Entries
  <2>5. QED
    BY <2>1, <2>2, <2>3, <2>4
<1>5. n = [i \in Ino |-> n[i]] /\ Release(n)
  OBVIOUS
<1> HIDE DEF A, n
<1>6. QED
  BY <1>2, <1>3, <1>4, <1>5, ReleaseInv

(* files_closeall in do_execve                                             *)
LEMMA ExecInv ==
  ASSUME FilesInv, NEW p \in Proc, Exec(p)
  PROVE  Kept
<1> DEFINE F == KEPT .. NFD - 1
<1>1. p \in live /\ live' = live /\ Release([i \in Ino |-> Holds(p, i, F)])
  BY DEF Exec
<1>2. F \in SUBSET FD /\ \A f \in FD : f < KEPT <=> f \notin F
  BY ConstFacts DEF FD
<1>3. fd' = [fd EXCEPT ![p] = [f \in FD |-> IF f \in F THEN None ELSE fd[p][f]]]
  <2>1. fd' = [fd EXCEPT ![p] = [f \in FD |-> IF f < KEPT THEN @[f] ELSE None]]
    BY DEF Exec
  <2>2. [f \in FD |-> IF f < KEPT THEN fd[p][f] ELSE None]
          = [f \in FD |-> IF f \in F THEN None ELSE fd[p][f]]
    BY <1>2
  <2>3. QED
    BY <2>1, <2>2
<1> HIDE DEF F
<1>4. QED
  BY <1>1, <1>2, <1>3, CloseAllInv

(* files_destroy in do_exit                                                *)
LEMMA ExitInv ==
  ASSUME FilesInv, NEW p \in Proc, Exit(p)
  PROVE  Kept
<1>1. p \in live /\ live' = live \ {p} /\ Release([i \in Ino |-> Holds(p, i, FD)])
  BY DEF Exit
<1>2. fd' = [fd EXCEPT ![p] = [f \in FD |-> IF f \in FD THEN None ELSE fd[p][f]]]
  BY DEF Exit
<1>3. QED
  BY <1>1, <1>2, CloseAllInv

(* dup_files: the child has p's descriptors, and they count too.           *)
LEMMA ForkInv ==
  ASSUME FilesInv, NEW p \in Proc, NEW c \in Proc, Fork(p, c)
  PROVE  Kept
<1> DEFINE n == [i \in Ino |-> Holds(p, i, FD)]
           A == [i \in Ino |-> Row(c, p, i, FD)]
<1>1. /\ p \in live /\ c \notin live /\ live' = live \cup {c}
      /\ fd' = [fd EXCEPT ![c] = fd[p]] /\ Hold(n)
      /\ UNCHANGED <<mem, dirty, disk, ents, unused, panic>>
      /\ StoreInv /\ CountInv
  BY DEF Fork, FilesInv
<1>2. /\ fd \in [Proc -> [FD -> Desc]] /\ live \subseteq Proc /\ IsFiniteSet(live)
      /\ open \in [Ino -> Nat]
  BY <1>1 DEF CountInv
<1>3. /\ fd' \in [Proc -> [FD -> Desc]]
      /\ \A q \in Proc, f \in FD : fd'[q][f] = IF q = c THEN fd[p][f] ELSE fd[q][f]
  BY <1>1, <1>2
<1>4. live' \subseteq Proc /\ IsFiniteSet(live')
  BY <1>1, <1>2, FS_AddElement
<1>5. ASSUME NEW i \in Ino
      PROVE  /\ IsFiniteSet(A[i]) /\ Cardinality(A[i]) = n[i]
             /\ A[i] \cap Entries(i) = {}
             /\ Entries(i)' = Entries(i) \cup A[i]
  <2>1. IsFiniteSet(A[i]) /\ Cardinality(A[i]) = n[i]
    BY <1>1, RowFacts
  <2>2. A[i] \cap Entries(i) = {}
    BY <1>1 DEF Row, Entries
  <2>3. ASSUME NEW x \in live' \X FD
        PROVE  x \in Entries(i)' <=> x \in Entries(i) \cup A[i]
    <3>1. x[1] \in Proc /\ x[2] \in FD /\ x = <<x[1], x[2]>>
      BY <1>4
    <3>2. fd'[x[1]][x[2]] = IF x[1] = c THEN fd[p][x[2]] ELSE fd[x[1]][x[2]]
      BY <3>1, <1>3
    <3>3. CASE x[1] = c
      <4>1. x \notin Entries(i)
        BY <3>3, <1>1 DEF Entries
      <4>2. x \in A[i] <=> fd[p][x[2]].on /\ fd[p][x[2]].node = i
        BY <3>1, <3>3 DEF Row
      <4>3. QED
        BY <3>2, <3>3, <4>1, <4>2 DEF Entries
    <3>4. CASE x[1] # c
      <4>1. x \notin A[i] /\ x \in live \X FD
        BY <3>1, <3>4, <1>1 DEF Row
      <4>2. QED
        BY <3>2, <3>4, <4>1 DEF Entries
    <3>5. QED
      BY <3>3, <3>4
  <2>4. Entries(i)' \subseteq live' \X FD /\ Entries(i) \cup A[i] \subseteq live' \X FD
    BY <1>1 DEF Entries, Row
  <2>5. QED
    BY <2>1, <2>2, <2>3, <2>4
<1>6. /\ ref' = [i \in Ino |-> ref[i] + n[i]] /\ open' = [i \in Ino |-> open[i] + n[i]]
  BY <1>1, Zenon DEF Hold
<1>7. \A i \in Ino : n[i] \in Nat
  BY <1>1, <1>2, TableFacts
<1> HIDE DEF n, A
<1>8. CountInv' /\ RefsStep
  <2>1. CountInv
    BY <1>1
  <2>2. QED
    BY <2>1, <1>3, <1>4, <1>5, <1>6, Gain
<1>9. StoreInv'
  BY <1>1, StoreSame
<1>10. \A i \in Ino : open'[i] = 0 => open[i] = 0
  BY <1>2, <1>6, <1>7
<1>11. QED
  BY <1>1, <1>8, <1>9, <1>10 DEF FilesInv, Kept

-----------------------------------------------------------------------------
(* The theorems *)

(* Every call keeps the invariant and the references.                      *)
LEMMA NextInv == FilesInv /\ Next => Kept
<1>1. SUFFICES ASSUME FilesInv, Next PROVE Kept
  OBVIOUS
<1>2. PICK p \in Proc :
        \/ \E i \in Ino, mode \in MODES, excl, creat, trunc, append \in BOOLEAN :
             Open(p, i, mode, excl, creat, trunc, append)
        \/ OpenMissing(p)
        \/ \E f \in FD : \/ Close(p, f)
                         \/ \E g \in FD : Dup(p, f, g)
                         \/ \E len \in LENS : Write(p, f, len)
                         \/ \E len \in LENS : Read(p, f, len)
                         \/ \E pos \in SEEKS : Seek(p, f, pos)
                         \/ Fsync(p, f)
        \/ \E c \in Proc : Fork(p, c)
        \/ Exec(p)
        \/ Exit(p)
  BY <1>1, Zenon DEF Next
<1>3. CASE \E i \in Ino, mode \in MODES, excl, creat, trunc, append \in BOOLEAN :
             Open(p, i, mode, excl, creat, trunc, append)
  <2>1. PICK i \in Ino, mode \in MODES, excl, creat, trunc, append \in BOOLEAN :
               Open(p, i, mode, excl, creat, trunc, append)
    BY <1>3
  <2>2. QED
    BY <1>1, <2>1, OpenInv
<1>4. CASE OpenMissing(p)
  BY <1>1, <1>4, MissingInv, Zenon
<1>5. CASE \E f \in FD : Close(p, f)
  BY <1>1, <1>5, CloseInv, Zenon
<1>6. CASE \E f, g \in FD : Dup(p, f, g)
  BY <1>1, <1>6, DupInv, Zenon
<1>7. CASE \E f \in FD, len \in LENS : Write(p, f, len)
  BY <1>1, <1>7, WriteInv, Zenon
<1>8. CASE \E f \in FD, len \in LENS : Read(p, f, len)
  BY <1>1, <1>8, ReadInv, Zenon
<1>9. CASE \E f \in FD, pos \in SEEKS : Seek(p, f, pos)
  BY <1>1, <1>9, SeekInv, Zenon
<1>10. CASE \E f \in FD : Fsync(p, f)
  BY <1>1, <1>10, FsyncInv, Zenon
<1>11. CASE \E c \in Proc : Fork(p, c)
  BY <1>1, <1>11, ForkInv, Zenon
<1>12. CASE Exec(p)
  BY <1>1, <1>12, ExecInv, Zenon
<1>13. CASE Exit(p)
  BY <1>1, <1>13, ExitInv, Zenon
<1>14. QED
  BY <1>2, <1>3, <1>4, <1>5, <1>6, <1>7, <1>8, <1>9, <1>10, <1>11, <1>12, <1>13, Zenon

(* So does a step that changes nothing.                                    *)
LEMMA StutterInv == FilesInv /\ UNCHANGED vars => Kept
<1>1. SUFFICES ASSUME FilesInv, UNCHANGED vars PROVE Kept
  OBVIOUS
<1>2. StoreInv'
  BY <1>1, StoreSame DEF vars, FilesInv
<1>3. CountInv' /\ RefsStep
  BY <1>1, CountSame DEF vars, FilesInv, CountInv
<1>4. QED
  BY <1>1, <1>2, <1>3 DEF vars, FilesInv, Kept

(* The descriptors' counts, the inodes and the block accounting of every   *)
(* reachable state, in the strength that the calls need of each other.     *)
THEOREM FilesInvariance == Spec => []FilesInv
<1>1. FilesInv /\ [Next]_vars => FilesInv'
  BY NextInv, StutterInv DEF Kept
<1>2. QED
  BY InitInv, <1>1, PTL DEF Spec

(* The free blocks are at most the disk's.                                 *)
LEMMA UnusedBounded == StoreInv => unused \in 0 .. TOTAL
<1>1. SUFFICES ASSUME StoreInv PROVE unused \in 0 .. TOTAL
  OBVIOUS
<1>2. StoreTypes /\ unused \in Nat /\ SpaceExact /\ TOTAL \in Nat
  <2>1. TOTAL \in Nat
    BY FilesAssumption
  <2>2. QED
    BY <1>1, <2>1 DEF StoreInv, StoreTypes
<1>3. Taken \in [Ino -> Nat] /\ DOMAIN Taken = Ino
  BY <1>2, ShareFacts
<1>4. SumFunction(Taken) = SumsOf(Taken, Ino)[Ino] /\ SumsOf(Taken, Ino)[Ino] \in Nat
  BY <1>3, FilesAssumption, SumUnfolds, SumsNat
<1>5. QED
  BY <1>2, <1>4 DEF SpaceExact

(* An inode's open_count is always the number of descriptors open on it    *)
(* (file_open, file_close, file_dup, dup_files, files_closeall and         *)
(* files_destroy), for any number of processes, files and descriptors.     *)
THEOREM OpenIsExact == Spec => []OpenExact
<1>1. FilesInv => OpenExact
  <2>1. SUFFICES ASSUME FilesInv PROVE OpenExact
    OBVIOUS
  <2>2. StoreTypes /\ CountInv
    BY <2>1 DEF FilesInv, StoreInv
  <2>3. unused \in 0 .. TOTAL
    BY <2>1, UnusedBounded DEF FilesInv
  <2>4. /\ mem \in [Ino -> [size : 0 .. MAXSIZE, blocks : 0 .. NDIRECT + NENTRY, ind : BOOLEAN]]
        /\ disk \in [Ino -> [size : 0 .. MAXSIZE, blocks : 0 .. NDIRECT + NENTRY, ind : BOOLEAN]]
        /\ dirty \in [Ino -> BOOLEAN] /\ ents \in [Ino -> SUBSET (0 .. NENTRY - 1)]
    BY <2>2 DEF StoreTypes, Inode, NBLOCKS
  <2>5. TypeOK
    BY <2>1, <2>2, <2>3, <2>4 DEF TypeOK, FilesInv, CountInv, Desc
  <2>6. QED
    BY <2>2, <2>5 DEF OpenExact, CountInv
<1>2. QED
  BY FilesInvariance, <1>1, PTL

(* The free blocks and the files' blocks always make up the disk           *)
(* (sfs_bmap_load_nolock, sfs_bmap_truncate_nolock, sfs_reclaim).          *)
THEOREM SpaceIsExact == Spec => []SpaceExact
<1>1. FilesInv => SpaceExact
  BY DEF FilesInv, StoreInv
<1>2. QED
  BY FilesInvariance, <1>1, PTL

(* Every position within a file has a block, in memory and, for a clean    *)
(* inode, on the disk (sfs_io_nolock, sfs_truncfile, sfs_load_inode).      *)
THEOREM BlocksReachAlways == Spec => []BlocksReach
<1>1. FilesInv => BlocksReach
  BY DEF FilesInv, StoreInv
<1>2. QED
  BY FilesInvariance, <1>1, PTL

(* What was written to a file that nobody has open is on the disk          *)
(* (sfs_close before sfs_reclaim).                                         *)
THEOREM SyncedAlways == Spec => []Synced
<1>1. FilesInv => Synced
  BY DEF FilesInv, StoreInv, Clean, Synced
<1>2. QED
  BY FilesInvariance, <1>1, PTL

(* No call leaks or drops a reference of an inode, but the exclusive open  *)
(* that fails (file_open).                                                 *)
THEOREM RefsAreKept == Spec => RefsKept
<1>1. FilesInv /\ [Next]_vars => RefsStep
  BY NextInv, StutterInv DEF Kept
<1>2. RefsStep => \A i \in Ino : \/ ref'[i] - open'[i] = ref[i] - open[i]
                                 \/ ref'[i] = ref[i] + 1 /\ UNCHANGED <<open, fd>>
  BY DEF RefsStep
<1>3. QED
  BY FilesInvariance, <1>1, <1>2, PTL DEF Spec, RefsKept
=============================================================================
