-------------------------- MODULE ProcTableProofs ---------------------------
(***************************************************************************)
(* ProcTable, for any MAX_PID and MAX_PROCESS, any number of processes and *)
(* any memory.                                                             *)
(*                                                                         *)
(* First PidAlloc alone: get_pid never gives out the pid of a process,     *)
(* however processes come and go between its calls.  PidUnique is not      *)
(* inductive: that last_pid is free when get_pid returns rests on          *)
(* CacheSafe, what the loop has found so far and what the cache remembers  *)
(* of an earlier loop.  Then PidsExact for ProcTable: every step of the    *)
(* kernel is a step of PidAlloc or leaves its variables alone.             *)
(*                                                                         *)
(* HoldsExact and MemoryExact are about what a call leaves behind, and are *)
(* not inductive either: in the middle of a call things are held that no   *)
(* state of a process accounts for.  Phases says for each point of each    *)
(* call what todo still has to get or to give back, against what New and   *)
(* the caller hold.  Every release is then of something held, and held     *)
(* once; that is what keeps the pages apart (PagesInv) and the free list   *)
(* sorted and merged.                                                      *)
(*                                                                         *)
(* LinksExact comes last.  TreeInv gives every process the list of its     *)
(* children as a sequence that the links agree with, a live parent, or one *)
(* that hands its children over, and a rank below its children's: no       *)
(* process is out of init's reach.                                         *)
(***************************************************************************)
EXTENDS ProcTable, SequenceFacts, SequenceTheorems, FiniteSetTheorems, TLAPS

PidInv ==
  /\ PidTypeOK
  /\ PidUnique
  /\ CacheSafe
  /\ le > 0 => last_pid \in Pids

(* The list without its i-th process.                                      *)
LEMMA RemoveAtFacts ==
  ASSUME NEW S, NEW s \in Seq(S), NEW i \in 1..Len(s)
  PROVE  /\ RemoveAt(s, i) \in Seq(S)
         /\ Len(RemoveAt(s, i)) = Len(s) - 1
         /\ \A j \in 1..Len(s)-1 : RemoveAt(s, i)[j] = IF j < i THEN s[j] ELSE s[j+1]
<1> DEFINE a == SubSeq(s, 1, i-1)
           b == SubSeq(s, i+1, Len(s))
<1>0. Len(s) \in Nat /\ \A j \in 1..Len(s) : s[j] \in S
  BY LenProperties, ElementOfSeq
<1>1. /\ a \in Seq(S) /\ Len(a) = i-1
      /\ \A j \in 1..i-1 : a[j] = s[j]
  BY <1>0, SubSeqProperties
<1>2. /\ b \in Seq(S) /\ Len(b) = Len(s) - i
      /\ \A j \in 1..Len(s)-i : b[j] = s[i+j]
  BY <1>0, SubSeqProperties
<1> HIDE DEF a, b
<1>3. /\ a \o b \in Seq(S)
      /\ Len(a \o b) = Len(s) - 1
      /\ \A j \in 1..Len(s)-1 : (a \o b)[j] = IF j <= i-1 THEN a[j] ELSE b[j-(i-1)]
  <2>1. Len(a) + Len(b) = Len(s) - 1
    BY <1>0, <1>1, <1>2
  <2>2. /\ a \o b \in Seq(S)
        /\ Len(a \o b) = Len(a) + Len(b)
        /\ \A j \in 1..Len(a)+Len(b) :
             (a \o b)[j] = IF j <= Len(a) THEN a[j] ELSE b[j - Len(a)]
    BY <1>1, <1>2, ConcatProperties, Zenon
  <2>3. QED
    BY <1>1, <2>1, <2>2
<1>4. ASSUME NEW j \in 1..Len(s)-1
      PROVE  (a \o b)[j] = IF j < i THEN s[j] ELSE s[j+1]
  <2>1. CASE j < i
    BY <2>1, <1>0, <1>1, <1>3
  <2>2. CASE j >= i
    <3>1. j-(i-1) \in 1..Len(s)-i /\ i + (j-(i-1)) = j+1
      BY <2>2, <1>0
    <3>2. b[j-(i-1)] = s[j+1]
      BY <3>1, <1>2
    <3>3. (a \o b)[j] = b[j-(i-1)]
      BY <2>2, <1>3
    <3>4. QED
      BY <2>2, <3>2, <3>3
  <2>3. j < i \/ j >= i
    BY <1>0
  <2>4. QED
    BY <2>1, <2>2, <2>3, Zenon
<1>5. RemoveAt(s, i) = a \o b
  BY DEF RemoveAt, a, b
<1>6. QED
  BY <1>3, <1>4, <1>5

(* The list with a process at its front.                                   *)
LEMMA ConsFacts ==
  ASSUME NEW S, NEW s \in Seq(S), NEW e \in S
  PROVE  /\ <<e>> \o s \in Seq(S)
         /\ Len(<<e>> \o s) = Len(s) + 1
         /\ \A j \in 1..Len(s)+1 : (<<e>> \o s)[j] = IF j = 1 THEN e ELSE s[j-1]
<1>1. <<e>> \in Seq(S) /\ Len(<<e>>) = 1 /\ <<e>>[1] = e
  OBVIOUS
<1>2. Len(s) \in Nat
  BY LenProperties
<1>3. QED
  BY <1>1, <1>2, ConcatProperties

LEMMA PidInitInv == PidInit => PidInv
  BY PidAssumption
  DEF PidInit, PidInv, PidTypeOK, PidUnique, CacheSafe, Found, Pids, Used, Range

(* The facts about proc_list that the steps below use.                     *)
LEMMA ListFacts ==
  ASSUME PidInv
  PROVE  /\ Len(proc_list) \in Nat
         /\ DOMAIN proc_list = 1..Len(proc_list)
         /\ \A i \in 1..Len(proc_list) : proc_list[i] \in Pids
         /\ Used = {proc_list[i] : i \in 1..Len(proc_list)}
  BY LenProperties, ElementOfSeq DEF PidInv, PidTypeOK, Used, Range

(* get_pid, one step after another.                                        *)
LEMMA GetPidInv == PidInv /\ GetPid => PidInv'
<1> SUFFICES ASSUME PidInv, GetPid PROVE PidInv'
  OBVIOUS
<1> USE PidAssumption, ListFacts DEF PidInv, Pids
<1>1. PidTypeOK'
  BY DEF PidTypeOK, GetPid
<1>2. (le > 0 => last_pid \in Pids)'
  BY DEF PidTypeOK, GetPid
<1>3. CacheSafe'
  BY DEF PidTypeOK, GetPid, CacheSafe
<1>4. PidUnique'
  BY <1>2, <1>3 DEF PidTypeOK, PidUnique, GetPid, CacheSafe, Found, Used, Range
<1>5. QED
  BY <1>1, <1>2, <1>3, <1>4

LEMMA SkipInv == PidInv /\ Skip => PidInv'
<1> SUFFICES ASSUME PidInv, Skip PROVE PidInv'
  OBVIOUS
<1> USE PidAssumption, ListFacts DEF PidInv, Pids
<1>1. PidTypeOK'
  BY DEF PidTypeOK, Skip
<1>2. (le > 0 => last_pid \in Pids)'
  BY DEF PidTypeOK, Skip
<1>3. CacheSafe'
  <2>1. /\ le \in 1..Len(proc_list) /\ proc_list[le] = last_pid /\ last_pid + 1 < next_safe
        /\ last_pid' = last_pid + 1 /\ le' = le + 1
        /\ next_safe' = next_safe /\ proc_list' = proc_list
    BY DEF Skip
  <2>2. /\ last_pid \in Nat /\ next_safe \in Nat /\ le \in Nat /\ Len(proc_list) \in Nat
        /\ \A i \in 1..Len(proc_list) : proc_list[i] \in Nat
    BY DEF PidTypeOK
  <2>3. SUFFICES ASSUME NEW i \in 1..Len(proc_list), i < le + 1
                 PROVE  /\ ~(last_pid + 1 < proc_list[i] /\ proc_list[i] < next_safe)
                        /\ proc_list[i] # last_pid + 1
    BY <2>1, <2>2 DEF CacheSafe
  <2>4. CASE i = le
    BY <2>4, <2>1, <2>2
  <2>5. CASE i < le
    <3>1. ~(last_pid < proc_list[i] /\ proc_list[i] < next_safe)
      BY <2>5 DEF CacheSafe
    <3>2. QED
      BY <3>1, <2>1, <2>2
  <2>6. QED
    BY <2>2, <2>3, <2>4, <2>5
<1>4. PidUnique'
  BY <1>2, <1>3 DEF PidTypeOK, PidUnique, Skip, CacheSafe, Found, Used, Range
<1>5. QED
  BY <1>1, <1>2, <1>3, <1>4

LEMMA RestartInv == PidInv /\ Restart => PidInv'
<1> SUFFICES ASSUME PidInv, Restart PROVE PidInv'
  OBVIOUS
<1> USE PidAssumption, ListFacts DEF PidInv, Pids
<1>1. PidTypeOK'
  BY DEF PidTypeOK, Restart
<1>2. (le > 0 => last_pid \in Pids)'
  BY DEF PidTypeOK, Restart
<1>3. CacheSafe'
  BY DEF PidTypeOK, Restart, CacheSafe
<1>4. PidUnique'
  BY DEF PidTypeOK, PidUnique, Restart, Found
<1>5. QED
  BY <1>1, <1>2, <1>3, <1>4

LEMMA PassInv == PidInv /\ Pass => PidInv'
<1> SUFFICES ASSUME PidInv, Pass PROVE PidInv'
  OBVIOUS
<1> USE PidAssumption, ListFacts DEF PidInv, Pids
<1>1. PidTypeOK'
  BY DEF PidTypeOK, Pass, Bounded
<1>2. (le > 0 => last_pid \in Pids)'
  BY DEF PidTypeOK, Pass
<1>3. CacheSafe'
  <2>1. /\ le \in 1..Len(proc_list) /\ proc_list[le] # last_pid
        /\ next_safe' = Bounded(proc_list[le]) /\ le' = le + 1
        /\ last_pid' = last_pid /\ proc_list' = proc_list
    BY DEF Pass
  <2>2. /\ last_pid \in Nat /\ next_safe \in Nat /\ le \in Nat /\ Len(proc_list) \in Nat
        /\ \A i \in 1..Len(proc_list) : proc_list[i] \in Nat
    BY DEF PidTypeOK
  <2>3. /\ next_safe' \in Nat /\ next_safe' <= next_safe
        /\ ~(last_pid < proc_list[le] /\ proc_list[le] < next_safe')
    BY <2>1, <2>2 DEF Bounded
  <2>4. SUFFICES ASSUME NEW i \in 1..Len(proc_list), i < le + 1
                 PROVE  /\ ~(last_pid < proc_list[i] /\ proc_list[i] < next_safe')
                        /\ proc_list[i] # last_pid
    BY <2>1, <2>2 DEF CacheSafe
  <2>5. CASE i = le
    BY <2>5, <2>1, <2>3
  <2>6. CASE i < le
    <3>1. /\ ~(last_pid < proc_list[i] /\ proc_list[i] < next_safe)
          /\ proc_list[i] # last_pid
      BY <2>6, <2>1, <2>2 DEF CacheSafe
    <3>2. QED
      BY <3>1, <2>2, <2>3
  <2>7. QED
    BY <2>2, <2>4, <2>5, <2>6
<1>4. PidUnique'
  BY <1>2, <1>3 DEF PidTypeOK, PidUnique, Pass, CacheSafe, Found, Used, Range
<1>5. QED
  BY <1>1, <1>2, <1>3, <1>4

(* A fork: the new process takes a pid that nobody has.                    *)
LEMMA ListAddInv == PidInv /\ ListAdd => PidInv' /\ Used' = Used \cup {last_pid}
<1> SUFFICES ASSUME PidInv, ListAdd PROVE PidInv' /\ Used' = Used \cup {last_pid}
  OBVIOUS
<1> USE PidAssumption, ListFacts DEF PidInv
<1> DEFINE n == Len(proc_list)
<1>0. last_pid \in Pids \ Used
  BY DEF ListAdd, PidUnique
<1>1. /\ proc_list' \in Seq(Pids)
      /\ Len(proc_list') = n + 1
      /\ \A j \in 1..n+1 : proc_list'[j] = IF j = 1 THEN last_pid ELSE proc_list[j-1]
  BY <1>0, ConsFacts DEF ListAdd, PidTypeOK
<1>2. DOMAIN proc_list' = 1..n+1
  BY <1>1, LenProperties
<1>3. le' = 0 /\ last_pid' = last_pid /\ next_safe' = next_safe /\ le = n + 1
  BY DEF ListAdd, Found
<1>4. PidTypeOK'
  BY <1>1, <1>3 DEF PidTypeOK
<1>5. ASSUME NEW i \in 1..n+1, NEW j \in 1..n+1, proc_list'[i] = proc_list'[j]
      PROVE  i = j
  <2>1. \A k \in 2..n+1 : proc_list'[k] = proc_list[k-1] /\ k-1 \in 1..n
    BY <1>1
  <2>2. \A k \in 2..n+1 : proc_list'[k] # last_pid
    BY <2>1, <1>0
  <2>3. proc_list'[1] = last_pid
    BY <1>1
  <2>4. CASE i = 1 \/ j = 1
    BY <2>2, <2>3, <2>4, <1>5
  <2>5. CASE i # 1 /\ j # 1
    <3>1. i \in 2..n+1 /\ j \in 2..n+1
      BY <2>5
    <3>2. proc_list[i-1] = proc_list[j-1] /\ i-1 \in 1..n /\ j-1 \in 1..n
      BY <3>1, <2>1, <1>5
    <3>3. i-1 = j-1
      BY <3>2 DEF PidUnique
    <3>4. QED
      BY <3>3
  <2>6. QED
    BY <2>4, <2>5
<1>6. PidUnique'
  BY <1>2, <1>3, <1>5, <1>1 DEF PidUnique, Found
<1>7. CacheSafe'
  <2>1. ASSUME NEW i \in 1..n+1
        PROVE  ~(last_pid < proc_list'[i] /\ proc_list'[i] < next_safe)
    <3>1. CASE i = 1
      BY <3>1, <1>1, <1>0 DEF Pids
    <3>2. CASE i # 1
      <4>1. i-1 \in 1..n /\ proc_list'[i] = proc_list[i-1]
        BY <3>2, <1>1
      <4>2. QED
        BY <4>1, <1>3 DEF CacheSafe
    <3>3. QED
      BY <3>1, <3>2
  <2>2. QED
    BY <2>1, <1>2, <1>3 DEF CacheSafe
<1>8. Used' = Used \cup {last_pid}
  <2>1. Used' = {proc_list'[j] : j \in 1..n+1}
    BY <1>2 DEF Used, Range
  <2>2. \A i \in 1..n : proc_list'[i+1] = proc_list[i] /\ i+1 \in 1..n+1
    BY <1>1
  <2>3. \A j \in 1..n+1 : j = 1 \/ (j-1 \in 1..n /\ proc_list'[j] = proc_list[j-1])
    BY <1>1
  <2>4. proc_list'[1] = last_pid /\ 1 \in 1..n+1
    BY <1>1
  <2>5. Used \cup {last_pid} \subseteq Used'
    BY <2>1, <2>2, <2>4
  <2>6. Used' \subseteq Used \cup {last_pid}
    BY <2>1, <2>3, <2>4
  <2>7. QED
    BY <2>5, <2>6
<1>9. QED
  BY <1>4, <1>6, <1>7, <1>8, <1>3

(* A wait: the pid of the child is free again, and nobody else's.          *)
LEMMA ListDelInv ==
  ASSUME PidInv, NEW pid, ListDel(pid)
  PROVE  PidInv' /\ Used' = Used \ {pid}
<1> USE PidAssumption, ListFacts DEF PidInv
<1> DEFINE n == Len(proc_list)
<1>0. PICK i \in 1..n : proc_list[i] = pid /\ proc_list' = RemoveAt(proc_list, i)
  BY DEF ListDel
<1>1. /\ proc_list' \in Seq(Pids)
      /\ Len(proc_list') = n - 1
      /\ \A j \in 1..n-1 : proc_list'[j] = IF j < i THEN proc_list[j] ELSE proc_list[j+1]
  BY <1>0, RemoveAtFacts DEF PidTypeOK
<1>2. DOMAIN proc_list' = 1..n-1
  BY <1>1, LenProperties
<1>3. le' = 0 /\ le = 0 /\ last_pid' = last_pid /\ next_safe' = next_safe
  BY DEF ListDel
<1>4. PidTypeOK'
  BY <1>1, <1>3 DEF PidTypeOK
<1>5. \A j, k \in 1..n : proc_list[j] = proc_list[k] => j = k
  BY DEF PidUnique
<1>6. PidUnique'
  BY <1>1, <1>2, <1>3, <1>5 DEF PidUnique, Found
<1>7. CacheSafe'
  BY <1>1, <1>2, <1>3 DEF CacheSafe
<1>8. Used' = Used \ {pid}
  <2>1. Used' = {proc_list'[j] : j \in 1..n-1}
    BY <1>2 DEF Used, Range
  <2>2. ASSUME NEW j \in 1..n-1 PROVE proc_list'[j] \in Used \ {pid}
    BY <1>0, <1>1, <1>5
  <2>3. ASSUME NEW k \in 1..n, k # i
        PROVE  \E j \in 1..n-1 : proc_list'[j] = proc_list[k]
    <3>1. CASE k < i
      BY <3>1, <1>1
    <3>2. CASE k > i
      <4>1. k-1 \in 1..n-1 /\ proc_list'[k-1] = proc_list[k]
        BY <3>2, <1>1
      <4>2. QED
        BY <4>1
    <3>3. QED
      BY <2>3, <3>1, <3>2
  <2>4. Used' \subseteq Used \ {pid}
    BY <2>1, <2>2
  <2>5. Used \ {pid} \subseteq Used'
    BY <2>1, <2>3, <1>0
  <2>6. QED
    BY <2>4, <2>5
<1>9. QED
  BY <1>4, <1>6, <1>7, <1>8, <1>3

LEMMA PidStutter == PidInv /\ UNCHANGED pidVars => PidInv'
  BY DEF PidInv, PidTypeOK, PidUnique, CacheSafe, pidVars, Found, Used

(* get_pid is right for any order of forks and exits.                      *)
THEOREM PidsUnique == PidSpec => [](PidUnique /\ CacheSafe)
<1>1. PidInv /\ [PidNext]_pidVars => PidInv'
  BY GetPidInv, SkipInv, RestartInv, PassInv, ListAddInv, ListDelInv, PidStutter
  DEF PidNext
<1>2. PidInv => PidUnique /\ CacheSafe
  BY DEF PidInv
<1>3. QED
  BY PidInitInv, <1>1, <1>2, PTL DEF PidSpec

-----------------------------------------------------------------------------
(* The processes *)

(* The process that makes the call has not been reaped; do_exit makes a    *)
(* zombie of it, not of a pid that is free.                                *)
CallerInv ==
  /\ status \in [Pids -> {"free", "live", "zombie"}]
  /\ caller \in Pids
  /\ status[caller] # "free"

TableInv ==
  /\ PidInv
  /\ CallerInv
  /\ Used = {p \in Pids : status[p] # "free"}

LEMMA TableInit == Init => TableInv
<1> SUFFICES ASSUME Init PROVE TableInv
  OBVIOUS
<1> USE PidAssumption
<1>0. init \in Pids /\ proc_list = <<init>> /\ DOMAIN proc_list = {1} /\ Len(proc_list) = 1
  BY DEF Init, init, Pids
<1>1. PidTypeOK
  BY <1>0 DEF Init, PidTypeOK, Pids, init
<1>2. PidUnique /\ CacheSafe /\ le = 0
  BY <1>0 DEF Init, PidUnique, CacheSafe, Found, init
<1>3. Used = {init}
  BY <1>0 DEF Used, Range
<1>4. /\ CallerInv
      /\ {p \in Pids : status[p] # "free"} = {init}
  BY <1>0 DEF Init, CallerInv
<1>5. QED
  BY <1>1, <1>2, <1>3, <1>4 DEF TableInv, PidInv

(* A step that leaves proc_list alone and frees nobody.                    *)
LEMMA Quiet ==
  ASSUME TableInv, UNCHANGED <<pidVars, status>>,
         caller' \in Pids, status[caller'] # "free"
  PROVE  TableInv'
<1>1. PidInv'
  BY PidStutter DEF TableInv
<1>2. Used' = Used
  BY DEF pidVars, Used
<1>3. QED
  BY <1>1, <1>2 DEF TableInv, CallerInv

(* A call that begins, or goes on.                                         *)
LEMMA EnterQuiet ==
  ASSUME TableInv, NEW p \in Pids, NEW name, NEW ops, Enter(p, name, ops),
         UNCHANGED <<pidVars, status>>
  PROVE  TableInv'
BY Quiet DEF Enter

LEMMA CallQuiet ==
  ASSUME TableInv, UNCHANGED <<pidVars, status, caller>>
  PROVE  TableInv'
BY Quiet DEF TableInv, CallerInv

LEMMA TakeInv == TableInv /\ Take => TableInv'
BY CallQuiet DEF Take, Kmalloc, AllocPages, NoPages, Continue, Panic, tree

LEMMA OtherCalls ==
  ASSUME TableInv,
         \/ TakeAll \/ Release \/ Copy \/ SetMm \/ UserMainFails \/ Adopt
         \/ \E what \in {"open", "elf", "read"} : TryFile(what)
  PROVE  TableInv'
<1>1. CASE TakeAll
  BY <1>1, CallQuiet DEF TakeAll, Continue, tree
<1>2. CASE Release
  BY <1>2, CallQuiet DEF Release, Continue, Panic, tree
<1>3. CASE SetMm
  BY <1>3, CallQuiet DEF SetMm, Continue, tree
<1>4. CASE UserMainFails
  BY <1>4, CallQuiet DEF UserMainFails, Panic, tree
<1>5. CASE Adopt
  BY <1>5, CallQuiet DEF Adopt, Continue
<1>6. ASSUME NEW what, TryFile(what) PROVE TableInv'
  BY <1>6, CallQuiet DEF TryFile, Continue, tree
<1>7. CASE Copy
  BY <1>7, CallQuiet DEF Copy, Continue, tree
<1>8. QED
  BY <1>1, <1>2, <1>3, <1>4, <1>5, <1>6, <1>7

(* get_pid within do_fork.                                                 *)
LEMMA ForkPidInv == TableInv /\ ForkPid => TableInv'
<1> SUFFICES ASSUME TableInv, ForkPid PROVE TableInv'
  OBVIOUS
<1>1. PidInv'
  BY GetPidInv, SkipInv, RestartInv, PassInv DEF ForkPid, TableInv
<1>2. proc_list' = proc_list /\ UNCHANGED <<status, caller>>
  BY DEF ForkPid, GetPid, Skip, Restart, Pass, tree
<1>3. Used' = Used
  BY <1>2 DEF Used
<1>4. QED
  BY <1>1, <1>2, <1>3 DEF TableInv, CallerInv

(* do_fork links the new process.                                          *)
LEMMA SetLinksInv == TableInv /\ SetLinks => TableInv'
<1> SUFFICES ASSUME TableInv, SetLinks PROVE TableInv'
  OBVIOUS
<1>1. PidInv' /\ Used' = Used \cup {last_pid}
  BY ListAddInv DEF TableInv, SetLinks
<1>2. last_pid \in Pids
  BY DEF TableInv, PidInv, PidUnique, SetLinks, ListAdd
<1>3. status' = [status EXCEPT ![last_pid] = "live"] /\ caller' = caller
  BY DEF SetLinks, Continue
<1>4. CallerInv'
  BY <1>2, <1>3 DEF TableInv, CallerInv
<1>5. {p \in Pids : status'[p] # "free"} = {p \in Pids : status[p] # "free"} \cup {last_pid}
  BY <1>2, <1>3 DEF TableInv, CallerInv
<1>6. QED
  BY <1>1, <1>4, <1>5 DEF TableInv

(* do_exit.                                                                *)
LEMMA ZombieInv == TableInv /\ Zombie => TableInv'
<1> SUFFICES ASSUME TableInv, Zombie PROVE TableInv'
  OBVIOUS
<1>1. PidInv'
  BY PidStutter DEF TableInv, Zombie
<1>2. status' = [status EXCEPT ![caller] = "zombie"] /\ caller' = caller
  BY DEF Zombie, Continue
<1>3. Used' = Used
  BY DEF Zombie, pidVars, Used
<1>4. CallerInv'
  BY <1>2 DEF TableInv, CallerInv
<1>5. {p \in Pids : status'[p] # "free"} = {p \in Pids : status[p] # "free"}
  BY <1>2 DEF TableInv, CallerInv
<1>6. QED
  BY <1>1, <1>3, <1>4, <1>5 DEF TableInv

(* do_wait frees the child's pid.                                          *)
LEMMA WaitInv ==
  ASSUME TableInv, NEW p \in Pids, NEW c \in Pids, Wait(p, c)
  PROVE  TableInv'
<1>1. PidInv' /\ Used' = Used \ {c}
  BY ListDelInv DEF TableInv, Wait
<1>2. /\ status' = [status EXCEPT ![c] = "free"] /\ caller' = p
      /\ status[p] = "live" /\ status[c] = "zombie"
  BY DEF Wait, Enter
<1>3. CallerInv'
  BY <1>2 DEF TableInv, CallerInv
<1>4. {q \in Pids : status'[q] # "free"} = {q \in Pids : status[q] # "free"} \ {c}
  BY <1>2 DEF TableInv, CallerInv
<1>5. QED
  BY <1>1, <1>3, <1>4 DEF TableInv

LEMMA TableNext == TableInv /\ [Next]_vars => TableInv'
<1> SUFFICES ASSUME TableInv, [Next]_vars PROVE TableInv'
  OBVIOUS
<1>1. ASSUME NEW p \in Pids, Fork(p) \/ Exec(p) \/ Exit(p) PROVE TableInv'
  BY <1>1, EnterQuiet DEF Fork, Exec, Exit, tree
<1>2. CASE UNCHANGED vars
  BY <1>2, CallQuiet DEF vars, tree
<1>3. QED
  BY <1>1, <1>2, TakeInv, OtherCalls, ForkPidInv, SetLinksInv, ZombieInv, WaitInv
  DEF Next

(* The pids in proc_list are those of the processes, each once, and        *)
(* get_pid finds one that is free whatever its caches say.                 *)
THEOREM PidsAreExact == Spec => []PidsExact
<1>1. TableInv => PidsExact
  BY DEF TableInv, PidInv, PidsExact
<1>2. QED
  BY TableInit, TableNext, <1>1, PTL DEF Spec

-----------------------------------------------------------------------------
(* The free list of pages (FirstFit): what default_alloc_pages takes from   *)
(* it and default_free_pages gives to it.                                   *)

Blocks == [base : Nat \ {0}, property : Nat \ {0}]

End(b) == b.base + b.property

(* The blocks are in the order of their addresses, none touching the next. *)
Apart(list) ==
  \A i, j \in 1..Len(list) : i < j => End(list[i]) < list[j].base

LEMMA BlockFacts ==
  ASSUME NEW list \in Seq(Blocks)
  PROVE  /\ Len(list) \in Nat /\ DOMAIN list = 1..Len(list)
         /\ \A i \in 1..Len(list) :
              /\ list[i] \in Blocks /\ list[i].base \in Nat \ {0}
              /\ list[i].property \in Nat \ {0} /\ End(list[i]) \in Nat
              /\ list[i] = Block(list[i].base, list[i].property)
         /\ \A x : x \in FreePages(list) <=>
              x \in Nat /\ \E i \in 1..Len(list) : list[i].base <= x /\ x < End(list[i])
<1>1. Len(list) \in Nat /\ DOMAIN list = 1..Len(list)
  BY LenProperties
<1>2. ASSUME NEW i \in 1..Len(list)
      PROVE  /\ list[i] \in Blocks /\ list[i].base \in Nat \ {0}
             /\ list[i].property \in Nat \ {0} /\ End(list[i]) \in Nat
             /\ list[i] = Block(list[i].base, list[i].property)
             /\ \A x : x \in PagesOf(list[i]) <=>
                  x \in Nat /\ list[i].base <= x /\ x < End(list[i])
  <2>1. list[i] \in Blocks
    BY ElementOfSeq
  <2>2. QED
    BY <2>1 DEF Blocks, Block, End, PagesOf
<1>3. \A x : x \in FreePages(list) <=> \E i \in 1..Len(list) : x \in PagesOf(list[i])
  BY <1>1 DEF FreePages
<1>4. QED
  BY <1>1, <1>2, <1>3

LEMMA PagesFacts ==
  ASSUME NEW b \in Nat, NEW n \in Nat
  PROVE  \A x : x \in b..b+n-1 <=> x \in Nat /\ b <= x /\ x < b + n
  OBVIOUS

(* The first block that is large enough.                                   *)
LEMMA FirstFacts ==
  ASSUME NEW list \in Seq(Blocks), NEW n \in Nat, Fits(list, n)
  PROVE  /\ First(list, n) \in 1..Len(list)
         /\ list[First(list, n)].property >= n
<1> DEFINE T == {i \in 1..Len(list) : list[i].property >= n}
<1>0. DOMAIN list = 1..Len(list)
  BY BlockFacts
<1>1. T # {} /\ T \in SUBSET Nat
  BY <1>0 DEF Fits
<1>2. PICK i \in T : \A j \in T : i <= j
  <2> HIDE DEF T
  <2> QED BY <1>1, Least, Zenon
<1>3. i \in DOMAIN list /\ list[i].property >= n /\ \A j \in 1..i-1 : list[j].property < n
  <2>1. PICK k \in Nat : k = Len(list)
    BY BlockFacts
  <2>2. i \in 1..k /\ list[i].property >= n
    BY <2>1
  <2>3. ASSUME NEW j \in 1..i-1 PROVE list[j].property < n
    <3>1. j \in 1..k /\ ~(i <= j) /\ list[j].property \in Nat
      BY <2>1, <2>2, BlockFacts
    <3>2. j \notin T
      BY ONLY <1>2, <3>1
    <3>3. ~(list[j].property >= n)
      BY ONLY <2>1, <3>1, <3>2
    <3>4. QED
      BY ONLY <3>1, <3>3, n \in Nat
  <2>4. QED
    BY <1>0, <2>1, <2>2, <2>3
<1> HIDE DEF T
<1>4. /\ First(list, n) \in DOMAIN list
      /\ list[First(list, n)].property >= n
  BY <1>3 DEF First
<1>5. QED
  BY <1>4, BlockFacts

(* default_alloc_pages takes n free pages, and only those.                 *)
LEMMA AllocFacts ==
  ASSUME NEW list \in Seq(Blocks), Apart(list), NEW n \in Nat \ {0}, Fits(list, n)
  PROVE  /\ AllocBase(list, n) \in Nat \ {0}
         /\ AfterAlloc(list, n) \in Seq(Blocks) /\ Apart(AfterAlloc(list, n))
         /\ AllocBase(list, n) .. AllocBase(list, n) + n - 1 \subseteq FreePages(list)
         /\ FreePages(AfterAlloc(list, n))
              = FreePages(list) \ (AllocBase(list, n) .. AllocBase(list, n) + n - 1)
<1> DEFINE i == First(list, n)
           b == list[i]
           after == AfterAlloc(list, n)
<1>1. i \in 1..Len(list) /\ b.property >= n
  BY FirstFacts
<1> HIDE DEF i
<1>2. /\ Len(list) \in Nat
      /\ \A j \in 1..Len(list) :
           /\ list[j] \in Blocks /\ list[j].base \in Nat \ {0}
           /\ list[j].property \in Nat \ {0} /\ End(list[j]) \in Nat
  BY BlockFacts
<1>3. AllocBase(list, n) = b.base
  BY DEF AllocBase, i
<1>4. after = IF b.property > n
                THEN [list EXCEPT ![i] = Block(b.base + n, b.property - n)]
                ELSE RemoveAt(list, i)
  BY DEF AfterAlloc, i
<1> DEFINE taken == b.base .. b.base + n - 1
<1>5. \A x : x \in taken <=> x \in Nat /\ b.base <= x /\ x < b.base + n
  BY <1>1, <1>2
<1>6. \A x : x \in FreePages(list) <=>
        x \in Nat /\ \E j \in 1..Len(list) : list[j].base <= x /\ x < End(list[j])
  BY BlockFacts
<1> HIDE DEF taken, after
<1>7. taken \subseteq FreePages(list)
  BY <1>1, <1>2, <1>5, <1>6 DEF End
<1>8. CASE b.property > n
  <2> DEFINE new == Block(b.base + n, b.property - n)
  <2>1. new \in Blocks /\ new.base = b.base + n /\ End(new) = End(b)
    BY <1>1, <1>2, <1>8 DEF Block, Blocks, End
  <2> HIDE DEF new
  <2>2. after = [list EXCEPT ![i] = new]
    BY <1>4, <1>8 DEF new
  <2>3. /\ after \in Seq(Blocks) /\ Len(after) = Len(list)
        /\ \A j \in 1..Len(list) : after[j] = IF j = i THEN new ELSE list[j]
    BY <1>1, <2>1, <2>2, ExceptSeq
  <2>4. Apart(after)
    <3>1. SUFFICES ASSUME NEW j \in 1..Len(list), NEW k \in 1..Len(list), j < k
                   PROVE  End(after[j]) < after[k].base
      BY <2>3 DEF Apart
    <3>2. End(list[j]) < list[k].base
      BY <3>1 DEF Apart
    <3>3. End(after[j]) = End(list[j])
      BY <2>1, <2>3
    <3>4. after[k].base >= list[k].base /\ after[k].base \in Nat
      <4>1. list[k].base \in Nat /\ b.base + n \in Nat /\ b.base + n >= b.base
        BY <1>1, <1>2
      <4>2. CASE k = i
        BY <2>1, <2>3, <4>1, <4>2
      <4>3. CASE k # i
        BY <2>3, <4>1, <4>3
      <4>4. QED
        BY <4>2, <4>3
    <3>5. QED
      BY <3>2, <3>3, <3>4, <1>2
  <2>5. \A x : x \in FreePages(after) <=>
          x \in Nat /\ \E j \in 1..Len(list) : after[j].base <= x /\ x < End(after[j])
    BY <2>3, BlockFacts
  <2>6. ASSUME NEW x \in FreePages(after) PROVE x \in FreePages(list) \ taken
    <3>1. PICK j \in 1..Len(list) : after[j].base <= x /\ x < End(after[j])
      BY <2>5
    <3>2. x \in Nat
      BY <2>5
    <3>3. CASE j = i
      <4>1. b.base + n <= x /\ x < End(b)
        BY <3>1, <3>3, <2>1, <2>3
      <4>2. b.base <= x /\ x \notin taken
        BY <4>1, <3>2, <1>1, <1>2, <1>5
      <4>3. QED
        BY <4>1, <4>2, <3>2, <1>1, <1>6
    <3>4. CASE j # i
      <4>1. list[j].base <= x /\ x < End(list[j])
        BY <3>1, <3>4, <2>3
      <4>2. End(list[j]) < b.base \/ End(b) < list[j].base
        BY <3>4, <1>1 DEF Apart
      <4>3. x \notin taken
        <5>1. /\ list[j].base \in Nat /\ End(list[j]) \in Nat /\ b.base \in Nat
              /\ b.property \in Nat /\ End(b) \in Nat /\ End(b) = b.base + b.property
          BY <1>1, <1>2 DEF End
        <5>2. ~(b.base <= x /\ x < End(b))
          BY ONLY <4>1, <4>2, <3>2, <5>1
        <5>3. QED
          BY ONLY <5>1, <5>2, <1>1, <1>5, n \in Nat
      <4>4. QED
        BY <4>1, <4>3, <3>2, <1>6
    <3>5. QED
      BY <3>3, <3>4
  <2>7. ASSUME NEW x \in FreePages(list), x \notin taken PROVE x \in FreePages(after)
    <3>1. PICK j \in 1..Len(list) : list[j].base <= x /\ x < End(list[j])
      BY <1>6
    <3>2. x \in Nat
      BY <1>6
    <3>3. CASE j = i
      <4>1. b.base + n <= x /\ x < End(b)
        BY <3>1, <3>2, <3>3, <2>7, <1>2, <1>5
      <4>2. after[i].base <= x /\ x < End(after[i])
        BY <4>1, <2>1, <2>3, <1>1
      <4>3. QED
        BY <4>2, <3>2, <2>5, <1>1
    <3>4. CASE j # i
      BY <3>1, <3>2, <3>4, <2>3, <2>5
    <3>5. QED
      BY <3>3, <3>4
  <2>8. QED
    BY <2>3, <2>4, <2>6, <2>7, <1>1, <1>2, <1>3, <1>7 DEF taken, after
<1>9. CASE b.property <= n
  <2>0. b.property = n /\ End(b) = b.base + n
    BY <1>1, <1>2, <1>9 DEF End
  <2>1. after = RemoveAt(list, i)
    BY <1>1, <1>2, <1>4, <2>0
  <2>2. /\ after \in Seq(Blocks) /\ Len(after) = Len(list) - 1
        /\ \A j \in 1..Len(list)-1 : after[j] = IF j < i THEN list[j] ELSE list[j+1]
    BY <1>1, <2>1, RemoveAtFacts
  <2>3. Apart(after)
    <3>1. SUFFICES ASSUME NEW j \in 1..Len(list)-1, NEW k \in 1..Len(list)-1, j < k
                   PROVE  End(after[j]) < after[k].base
      BY <2>2 DEF Apart
    <3>2. \E l, m \in 1..Len(list) : l < m /\ after[j] = list[l] /\ after[k] = list[m]
      <4>1. CASE k < i
        <5>1. j \in 1..Len(list) /\ k \in 1..Len(list) /\ j < i
          BY <4>1, <3>1, <1>1, <1>2
        <5>2. after[j] = list[j] /\ after[k] = list[k]
          BY <4>1, <5>1, <2>2
        <5>3. QED
          BY <3>1, <5>1, <5>2
      <4>2. CASE j < i /\ k >= i
        <5>1. j \in 1..Len(list) /\ k+1 \in 1..Len(list) /\ j < k+1
          BY <3>1, <1>2
        <5>2. after[j] = list[j] /\ after[k] = list[k+1]
          BY <4>2, <2>2, <1>1
        <5>3. QED
          BY <5>1, <5>2
      <4>3. CASE j >= i /\ k >= i
        <5>1. j+1 \in 1..Len(list) /\ k+1 \in 1..Len(list) /\ j+1 < k+1
          BY <3>1, <1>2
        <5>2. after[j] = list[j+1] /\ after[k] = list[k+1]
          BY <4>3, <2>2, <1>1
        <5>3. QED
          BY <5>1, <5>2
      <4>4. QED
        BY <4>1, <4>2, <4>3, <3>1, <1>1
    <3>3. QED
      BY <3>2 DEF Apart
  <2>4. \A x : x \in FreePages(after) <=>
          x \in Nat /\ \E j \in 1..Len(list)-1 : after[j].base <= x /\ x < End(after[j])
    BY <2>2, BlockFacts
  <2>5. ASSUME NEW x \in FreePages(after) PROVE x \in FreePages(list) \ taken
    <3>1. PICK j \in 1..Len(list)-1 : after[j].base <= x /\ x < End(after[j])
      BY <2>4
    <3>2. \E l \in 1..Len(list) : l # i /\ after[j] = list[l]
      <4>1. CASE j < i
        BY <4>1, <2>2, <1>1, <1>2
      <4>2. CASE j >= i
        <5>1. j+1 \in 1..Len(list) /\ j+1 # i /\ after[j] = list[j+1]
          BY <4>2, <2>2, <1>1, <1>2
        <5>2. QED
          BY <5>1
      <4>3. QED
        BY <4>1, <4>2, <1>1
    <3>3. PICK l \in 1..Len(list) : l # i /\ after[j] = list[l]
      BY <3>2
    <3>4. End(list[l]) < b.base \/ End(b) < list[l].base
      BY <3>3, <1>1 DEF Apart
    <3>5. x \in Nat /\ list[l].base <= x /\ x < End(list[l])
      BY <3>1, <3>3, <2>4
    <3>6. x \notin taken
      <4>1. b.base \in Nat /\ End(list[l]) \in Nat /\ list[l].base \in Nat /\ n \in Nat
        BY <1>1, <1>2
      <4>2. x < b.base \/ b.base + n < x
        BY <3>4, <3>5, <2>0, <4>1
      <4>3. QED
        BY <3>5, <4>1, <4>2, <1>5
    <3>7. QED
      BY <3>5, <3>6, <1>6
  <2>6. ASSUME NEW x \in FreePages(list), x \notin taken PROVE x \in FreePages(after)
    <3>1. PICK j \in 1..Len(list) : list[j].base <= x /\ x < End(list[j])
      BY <1>6
    <3>2. x \in Nat
      BY <1>6
    <3>3. j # i
      BY <3>1, <3>2, <2>6, <2>0, <1>5
    <3>4. CASE j < i
      <4>1. j \in 1..Len(list)-1 /\ after[j] = list[j]
        BY <3>4, <2>2, <1>1, <1>2
      <4>2. QED
        BY <4>1, <3>1, <3>2, <2>4
    <3>5. CASE j > i
      <4>1. j-1 \in 1..Len(list)-1 /\ after[j-1] = list[j]
        BY <3>5, <2>2, <1>1, <1>2
      <4>2. QED
        BY <4>1, <3>1, <3>2, <2>4
    <3>6. QED
      BY <3>3, <3>4, <3>5, <1>1
  <2>7. QED
    BY <2>2, <2>3, <2>5, <2>6, <1>1, <1>2, <1>3, <1>7 DEF taken, after
<1>10. QED
  BY <1>8, <1>9, <1>1, <1>2

In(x, b) == b.base <= x /\ x < End(b)

(* What default_free_pages(base, n) has when its first loop has seen the   *)
(* first i blocks: the block being freed touches none of those it kept.    *)
Merging(list, base, n, i, acc) ==
  /\ acc \in [free : Blocks, kept : Seq(Blocks)]
  /\ Apart(acc.kept)
  /\ \A k \in 1..Len(acc.kept) : \E j \in 1..i : acc.kept[k] = list[j]
  /\ \A k \in 1..Len(acc.kept) :
       End(acc.kept[k]) < acc.free.base \/ End(acc.free) < acc.kept[k].base
  /\ \A j \in i+1..Len(list) :
       End(list[j]) <= acc.free.base \/ End(acc.free) <= list[j].base
  /\ \A x \in Nat :
       In(x, acc.free) \/ (\E k \in 1..Len(acc.kept) : In(x, acc.kept[k]))
         <=> (base <= x /\ x < base + n) \/ (\E j \in 1..i : In(x, list[j]))

LEMMA Ends ==
  ASSUME NEW b \in Blocks
  PROVE  b.base \in Nat /\ End(b) \in Nat /\ b.base < End(b)
  BY DEF Blocks, End

LEMMA BlockIs ==
  ASSUME NEW x \in Nat \ {0}, NEW y \in Nat \ {0}
  PROVE  /\ Block(x, y) \in Blocks
         /\ Block(x, y).base = x /\ Block(x, y).property = y
         /\ End(Block(x, y)) = x + y
  BY DEF Block, Blocks, End

(* Two blocks of which one begins where the other ends are one block.      *)
LEMMA Joined ==
  ASSUME NEW f \in Blocks, NEW b \in Blocks, End(f) = b.base
  PROVE  LET g == Block(f.base, f.property + b.property)
         IN  /\ g \in Blocks /\ g.base = f.base /\ End(g) = End(b)
             /\ \A x \in Nat : In(x, g) <=> In(x, f) \/ In(x, b)
<1>1. /\ f.base \in Nat \ {0} /\ f.property \in Nat \ {0} /\ End(f) = f.base + f.property
      /\ b.base \in Nat \ {0} /\ b.property \in Nat \ {0} /\ End(b) = b.base + b.property
  BY DEF Blocks, End
<1>2. f.property + b.property \in Nat \ {0}
  BY <1>1
<1> DEFINE g == Block(f.base, f.property + b.property)
<1>3. g \in Blocks /\ g.base = f.base /\ End(g) = f.base + (f.property + b.property)
  BY <1>1, <1>2, BlockIs
<1>4. f.base + (f.property + b.property) = b.base + b.property
  BY <1>1
<1>5. End(g) = End(b)
  BY <1>1, <1>3, <1>4
<1> HIDE DEF g
<1>6. \A x \in Nat : In(x, g) <=> In(x, f) \/ In(x, b)
  BY <1>1, <1>3, <1>5 DEF In
<1>7. QED
  BY <1>3, <1>5, <1>6 DEF g

LEMMA AppendIs ==
  ASSUME NEW S, NEW s \in Seq(S), NEW b \in S
  PROVE  /\ Append(s, b) \in Seq(S) /\ Len(Append(s, b)) = Len(s) + 1
         /\ \A k \in 1..Len(s) : Append(s, b)[k] = s[k]
         /\ Append(s, b)[Len(s) + 1] = b
  OBVIOUS

LEMMA MergeFacts ==
  ASSUME NEW list \in Seq(Blocks), Apart(list), NEW base \in Nat, NEW n \in Nat,
         NEW i \in 0..Len(list)-1, NEW acc, Merging(list, base, n, i, acc)
  PROVE  Merging(list, base, n, i + 1, Merge(acc, list[i+1]))
<1> DEFINE f == acc.free
           s == acc.kept
           b == list[i+1]
<1>1. /\ acc \in [free : Blocks, kept : Seq(Blocks)] /\ f \in Blocks /\ s \in Seq(Blocks)
      /\ f.base \in Nat \ {0} /\ f.property \in Nat \ {0} /\ End(f) = f.base + f.property
      /\ End(f) \in Nat
  BY DEF Merging, Blocks, End
<1>2. /\ Len(list) \in Nat /\ i + 1 \in 1..Len(list)
      /\ \A j \in 1..Len(list) :
           /\ list[j] \in Blocks /\ list[j].base \in Nat \ {0}
           /\ list[j].property \in Nat \ {0} /\ End(list[j]) \in Nat
           /\ End(list[j]) = list[j].base + list[j].property
  BY BlockFacts DEF End
<1>3. /\ Len(s) \in Nat
      /\ \A k \in 1..Len(s) :
           /\ s[k] \in Blocks /\ s[k].base \in Nat \ {0}
           /\ s[k].property \in Nat \ {0} /\ End(s[k]) \in Nat
  BY <1>1, BlockFacts
<1>4. /\ Apart(s)
      /\ \A k \in 1..Len(s) : \E j \in 1..i : s[k] = list[j]
      /\ \A k \in 1..Len(s) : End(s[k]) < f.base \/ End(f) < s[k].base
      /\ \A j \in i+1..Len(list) : End(list[j]) <= f.base \/ End(f) <= list[j].base
      /\ \A x \in Nat :
           In(x, f) \/ (\E k \in 1..Len(s) : In(x, s[k]))
             <=> (base <= x /\ x < base + n) \/ (\E j \in 1..i : In(x, list[j]))
  BY DEF Merging
<1>5. \A j, k \in 1..Len(list) : j < k => End(list[j]) < list[k].base
  BY DEF Apart
<1>6. \A k \in 1..Len(s) : End(s[k]) < b.base
  <2> SUFFICES ASSUME NEW k \in 1..Len(s) PROVE End(s[k]) < b.base
    OBVIOUS
  <2>1. PICK j \in 1..i : s[k] = list[j]
    BY <1>4
  <2>2. j \in 1..Len(list) /\ j < i + 1
    BY <1>2
  <2>3. QED
    BY <2>1, <2>2, <1>2, <1>5
<1>7. \A k \in 1..Len(s) : \E j \in 1..i+1 : s[k] = list[j]
  <2> SUFFICES ASSUME NEW k \in 1..Len(s) PROVE \E j \in 1..i+1 : s[k] = list[j]
    OBVIOUS
  <2>1. PICK j \in 1..i : s[k] = list[j]
    BY <1>4
  <2>2. j \in 1..i+1
    OBVIOUS
  <2>3. QED
    BY <2>1, <2>2
<1>8. \A j \in i+2..Len(list) : End(b) < list[j].base
  BY <1>2, <1>5
<1>9. \A x \in Nat : (\E j \in 1..i+1 : In(x, list[j]))
                       <=> (\E j \in 1..i : In(x, list[j])) \/ In(x, b)
  <2>1. 1..i+1 = (1..i) \cup {i+1}
    OBVIOUS
  <2>2. QED
    BY <2>1
<1>10. b.base \in Nat \ {0} /\ b.property \in Nat \ {0} /\ b \in Blocks
       /\ End(b) = b.base + b.property /\ End(b) \in Nat
  BY <1>2
<1>11. End(b) <= f.base \/ End(f) <= b.base
  BY <1>2, <1>4
<1> HIDE DEF f, s, b
<1>n. /\ f.base \in Nat /\ End(f) \in Nat /\ f.base < End(f)
      /\ b.base \in Nat /\ End(b) \in Nat /\ b.base < End(b)
  BY <1>1, <1>10, Ends
<1>12. CASE End(f) = b.base
  <2> DEFINE g == Block(f.base, f.property + b.property)
  <2>1. /\ g \in Blocks /\ g.base = f.base /\ End(g) = End(b)
        /\ \A x \in Nat : In(x, g) <=> In(x, f) \/ In(x, b)
    BY <1>1, <1>10, <1>12, Joined
  <2>2. Merge(acc, b) = [acc EXCEPT !.free = g]
    BY <1>1, <1>12 DEF Merge, f, End
  <2> HIDE DEF g
  <2>3. /\ Merge(acc, b) \in [free : Blocks, kept : Seq(Blocks)]
        /\ Merge(acc, b).free = g /\ Merge(acc, b).kept = s
    BY <1>1, <2>1, <2>2 DEF s
  <2>4. \A k \in 1..Len(s) : End(s[k]) < g.base \/ End(g) < s[k].base
    <3> SUFFICES ASSUME NEW k \in 1..Len(s) PROVE End(s[k]) < g.base
      OBVIOUS
    <3>1. /\ s[k].base \in Nat /\ s[k].property \in Nat \ {0} /\ End(s[k]) \in Nat
          /\ End(s[k]) = s[k].base + s[k].property
      BY <1>3 DEF End
    <3>2. End(s[k]) < f.base \/ End(f) < s[k].base
      BY <1>4
    <3>3. End(s[k]) < End(f)
      BY <1>6, <1>12
    <3>4. ~(End(f) < s[k].base)
      BY <3>1, <3>3, <1>n
    <3>5. QED
      BY <3>2, <3>4, <2>1
  <2>5. \A j \in i+2..Len(list) : End(list[j]) <= g.base \/ End(g) <= list[j].base
    <3> SUFFICES ASSUME NEW j \in i+2..Len(list) PROVE End(g) <= list[j].base
      OBVIOUS
    <3>1. list[j].base \in Nat
      BY <1>2
    <3>2. End(b) < list[j].base
      BY <1>8
    <3>3. QED
      BY <3>1, <3>2, <2>1, <1>n
  <2>7. QED
    BY <2>1, <2>3, <2>4, <2>5, <1>4, <1>7, <1>9 DEF Merging, b
<1>13. CASE End(f) # b.base /\ End(b) = f.base
  <2> DEFINE g == Block(b.base, b.property + f.property)
  <2>1. /\ g \in Blocks /\ g.base = b.base /\ End(g) = End(f)
        /\ \A x \in Nat : In(x, g) <=> In(x, f) \/ In(x, b)
    BY <1>1, <1>10, <1>13, Joined
  <2>2. Merge(acc, b) = [acc EXCEPT !.free = g]
    BY <1>1, <1>10, <1>13 DEF Merge, f, End
  <2> HIDE DEF g
  <2>3. /\ Merge(acc, b) \in [free : Blocks, kept : Seq(Blocks)]
        /\ Merge(acc, b).free = g /\ Merge(acc, b).kept = s
    BY <1>1, <2>1, <2>2 DEF s
  <2>4. \A k \in 1..Len(s) : End(s[k]) < g.base \/ End(g) < s[k].base
    BY <1>6, <2>1
  <2>5. \A j \in i+2..Len(list) : End(list[j]) <= g.base \/ End(g) <= list[j].base
    <3> SUFFICES ASSUME NEW j \in i+2..Len(list)
                 PROVE  End(g) <= list[j].base
      OBVIOUS
    <3>1. j \in 1..Len(list) /\ j \in i+1..Len(list)
      BY <1>2
    <3>2. f.base < list[j].base
      BY <1>8, <1>13
    <3>3. /\ list[j].base \in Nat /\ list[j].property \in Nat
          /\ End(list[j]) = list[j].base + list[j].property
          /\ End(list[j]) <= f.base \/ End(f) <= list[j].base
      BY <3>1, <1>2, <1>4
    <3>4. End(f) <= list[j].base
      BY <3>2, <3>3, <1>n
    <3>5. QED
      BY <3>4, <2>1
  <2>7. QED
    BY <2>1, <2>3, <2>4, <2>5, <1>4, <1>7, <1>9 DEF Merging, b
<1>14. CASE End(f) # b.base /\ End(b) # f.base
  <2> DEFINE t == Append(s, b)
  <2>1. /\ t \in Seq(Blocks) /\ Len(t) = Len(s) + 1 /\ t[Len(s)+1] = b
        /\ \A k \in 1..Len(s) : t[k] = s[k]
    BY <1>1, <1>10, AppendIs
  <2>2. Merge(acc, b) = [acc EXCEPT !.kept = t]
    BY <1>1, <1>10, <1>14 DEF Merge, f, s, End
  <2> HIDE DEF t
  <2>3. /\ Merge(acc, b) \in [free : Blocks, kept : Seq(Blocks)]
        /\ Merge(acc, b).free = f /\ Merge(acc, b).kept = t
    BY <1>1, <2>1, <2>2 DEF f
  <2>4. 1..Len(t) = (1..Len(s)) \cup {Len(s)+1}
    BY <2>1, <1>3
  <2>5. Apart(t)
    <3>1. SUFFICES ASSUME NEW j \in 1..Len(t), NEW k \in 1..Len(t), j < k
                   PROVE  End(t[j]) < t[k].base
      BY DEF Apart
    <3>2. j \in 1..Len(s)
      BY <3>1, <2>1, <1>3
    <3>3. CASE k \in 1..Len(s)
      BY <3>1, <3>2, <3>3, <2>1, <1>4 DEF Apart
    <3>4. CASE k = Len(s) + 1
      BY <3>2, <3>4, <2>1, <1>6
    <3>5. QED
      BY <3>3, <3>4, <2>4
  <2>6. \A k \in 1..Len(t) : End(t[k]) < f.base \/ End(f) < t[k].base
    <3> SUFFICES ASSUME NEW k \in 1..Len(t)
                 PROVE  End(t[k]) < f.base \/ End(f) < t[k].base
      OBVIOUS
    <3>1. CASE k \in 1..Len(s)
      BY <3>1, <2>1, <1>4
    <3>2. CASE k = Len(s) + 1
      BY <3>2, <2>1, <1>n, <1>11, <1>14
    <3>3. QED
      BY <3>1, <3>2, <2>4
  <2>7. \A j \in i+2..Len(list) : End(list[j]) <= f.base \/ End(f) <= list[j].base
    <3> SUFFICES ASSUME NEW j \in i+2..Len(list)
                 PROVE  End(list[j]) <= f.base \/ End(f) <= list[j].base
      OBVIOUS
    <3>1. j \in i+1..Len(list)
      BY <1>2
    <3>2. QED
      BY <3>1, <1>4, Zenon
  <2>8. \A k \in 1..Len(t) : \E j \in 1..i+1 : t[k] = list[j]
    <3> SUFFICES ASSUME NEW k \in 1..Len(t) PROVE \E j \in 1..i+1 : t[k] = list[j]
      OBVIOUS
    <3>1. CASE k \in 1..Len(s)
      BY <3>1, <2>1, <1>7
    <3>2. CASE k = Len(s) + 1
      <4>1. t[k] = list[i+1] /\ i+1 \in 1..i+1
        BY <3>2, <2>1, <1>2 DEF b
      <4>2. QED
        BY <4>1
    <3>3. QED
      BY <3>1, <3>2, <2>4
  <2>9. \A x \in Nat : (\E k \in 1..Len(t) : In(x, t[k]))
                         <=> (\E k \in 1..Len(s) : In(x, s[k])) \/ In(x, b)
    BY <2>1, <2>4
  <2>10. QED
    BY <2>3, <2>5, <2>6, <2>7, <2>8, <2>9, <1>4, <1>9 DEF Merging, b
<1>15. QED
  BY <1>12, <1>13, <1>14 DEF b

LEMMA InsertAtFacts ==
  ASSUME NEW S, NEW s \in Seq(S), NEW i \in 1..Len(s), NEW e \in S
  PROVE  /\ InsertAt(s, i, e) \in Seq(S)
         /\ Len(InsertAt(s, i, e)) = Len(s) + 1
         /\ \A j \in 1..Len(s)+1 :
              InsertAt(s, i, e)[j] = IF j < i THEN s[j] ELSE IF j = i THEN e ELSE s[j-1]
<1> DEFINE a == SubSeq(s, 1, i-1)
           b == SubSeq(s, i, Len(s))
           one == <<e>>
<1>0. Len(s) \in Nat /\ \A j \in 1..Len(s) : s[j] \in S
  BY LenProperties, ElementOfSeq
<1>1. /\ a \in Seq(S) /\ Len(a) = i-1
      /\ \A j \in 1..i-1 : a[j] = s[j]
  BY <1>0, SubSeqProperties
<1>2. /\ b \in Seq(S) /\ Len(b) = Len(s) - i + 1
      /\ \A j \in 1..Len(s)-i+1 : b[j] = s[i+j-1]
  BY <1>0, SubSeqProperties
<1>3. one \in Seq(S) /\ Len(one) = 1 /\ one[1] = e
  OBVIOUS
<1> HIDE DEF a, b, one
<1>4. /\ a \o one \in Seq(S) /\ Len(a \o one) = i
      /\ \A j \in 1..i : (a \o one)[j] = IF j <= i-1 THEN a[j] ELSE one[j-(i-1)]
  <2>1. Len(a) + Len(one) = i
    BY <1>1, <1>3
  <2>2. /\ a \o one \in Seq(S) /\ Len(a \o one) = Len(a) + Len(one)
        /\ \A j \in 1..Len(a)+Len(one) :
             (a \o one)[j] = IF j <= Len(a) THEN a[j] ELSE one[j-Len(a)]
    BY <1>1, <1>3, ConcatProperties, Zenon
  <2>3. QED
    BY <1>1, <2>1, <2>2
<1> DEFINE c == a \o one
<1> HIDE DEF c
<1>5. c \in Seq(S) /\ Len(c) = i /\ c[i] = e /\ \A j \in 1..i-1 : c[j] = s[j]
  <2>1. c[i] = one[1]
    BY <1>4 DEF c
  <2>2. \A j \in 1..i-1 : c[j] = a[j]
    BY <1>4 DEF c
  <2>3. QED
    BY <1>1, <1>3, <1>4, <2>1, <2>2 DEF c
<1>6. /\ c \o b \in Seq(S) /\ Len(c \o b) = Len(s) + 1
      /\ \A j \in 1..Len(s)+1 : (c \o b)[j] = IF j <= i THEN c[j] ELSE b[j-i]
  <2>1. Len(c) + Len(b) = Len(s) + 1
    BY <1>0, <1>2, <1>5
  <2>2. /\ c \o b \in Seq(S) /\ Len(c \o b) = Len(c) + Len(b)
        /\ \A j \in 1..Len(c)+Len(b) :
             (c \o b)[j] = IF j <= Len(c) THEN c[j] ELSE b[j-Len(c)]
    BY <1>2, <1>5, ConcatProperties, Zenon
  <2>3. QED
    BY <1>5, <2>1, <2>2
<1>7. ASSUME NEW j \in 1..Len(s)+1
      PROVE  (c \o b)[j] = IF j < i THEN s[j] ELSE IF j = i THEN e ELSE s[j-1]
  <2>1. CASE j < i
    <3>1. j <= i /\ j \in 1..i-1
      BY <2>1, <1>0
    <3>2. QED
      BY <2>1, <3>1, <1>5, <1>6
  <2>2. CASE j = i
    BY <2>2, <1>5, <1>6
  <2>3. CASE j > i
    <3>1. ~(j <= i) /\ j-i \in 1..Len(s)-i+1 /\ i+(j-i)-1 = j-1
      BY <2>3, <1>0
    <3>2. b[j-i] = s[j-1]
      BY <3>1, <1>2
    <3>3. QED
      BY <2>3, <3>1, <3>2, <1>6
  <2>4. j < i \/ j = i \/ j > i
    BY <1>0
  <2>5. QED
    BY <2>1, <2>2, <2>3, <2>4, Zenon
<1>8. InsertAt(s, i, e) = c \o b
  BY DEF InsertAt, a, b, one, c
<1>9. QED
  BY <1>6, <1>7, <1>8

(* default_free_pages gives back n pages, and only those, and its          *)
(* assertions hold.                                                        *)
LEMMA FreeFacts ==
  ASSUME NEW list \in Seq(Blocks), Apart(list), NEW base \in Nat \ {0}, NEW n \in Nat \ {0},
         FreePages(list) \cap (base .. base + n - 1) = {}
  PROVE  /\ AfterFree(list, base, n) \in Seq(Blocks) /\ Apart(AfterFree(list, base, n))
         /\ FreePages(AfterFree(list, base, n)) = FreePages(list) \cup (base .. base + n - 1)
         /\ FreeAsserts(list, AfterFree(list, base, n), base, n)
<1> DEFINE N == Len(list)
           A == [free : Blocks, kept : Seq(Blocks)]
           F == [x \in (1..N) \X A |-> Merge(x[2], list[x[1]])]
           new == [free |-> Block(base, n), kept |-> <<>>]
           step(f) == [i \in 0..N |-> IF i = 0 THEN new ELSE Merge(f[i-1], list[i])]
<1>1. /\ N \in Nat /\ DOMAIN list = 1..N
      /\ \A j \in 1..N :
           /\ list[j] \in Blocks /\ list[j].base \in Nat \ {0}
           /\ End(list[j]) \in Nat /\ list[j].base < End(list[j])
  BY BlockFacts, Ends
<1>2. /\ Block(base, n) \in Blocks
      /\ Block(base, n).base = base /\ End(Block(base, n)) = base + n
  BY BlockIs
<1>3. new \in A
  BY <1>2
<1>4. F \in [(1..N) \X A -> A]
  <2>1. ASSUME NEW acc \in A, NEW i \in 1..N PROVE Merge(acc, list[i]) \in A
    <3> DEFINE b == list[i]
    <3>1. /\ acc.free \in Blocks /\ b \in Blocks /\ acc.kept \in Seq(Blocks)
          /\ acc.free.base + acc.free.property = End(acc.free)
          /\ b.base + b.property = End(b)
      BY <1>1 DEF End
    <3>2. End(acc.free) = b.base
            => Block(acc.free.base, acc.free.property + b.property) \in Blocks
      BY <3>1, Joined
    <3>3. End(b) = acc.free.base
            => Block(b.base, b.property + acc.free.property) \in Blocks
      BY <3>1, Joined
    <3>4. Append(acc.kept, b) \in Seq(Blocks)
      BY <3>1, AppendIs
    <3> HIDE DEF b
    <3>5. Merge(acc, b) \in A
      BY <3>1, <3>2, <3>3, <3>4 DEF Merge
    <3>6. QED
      BY <3>5 DEF b
  <2>2. QED
    BY <2>1
<1>5. \E f : f = step(f)
  <2> HIDE DEF A, F, new, N
  <2>1. PICK f : Iterates(f, F, N, A, new)
    <3>1. N \in Nat
      BY <1>1
    <3>2. QED
      BY <3>1, <1>3, <1>4, Recursion DEF StepOf
  <2>2. ASSUME NEW i \in 1..N PROVE f[i-1] \in A /\ f[i] = Merge(f[i-1], list[i])
    <3>1. i-1 \in 0..N
      BY <1>1
    <3>2. f[i-1] \in A /\ f[i] = F[<<i, f[i-1]>>]
      BY <2>1, <3>1 DEF Iterates
    <3>3. F[<<i, f[i-1]>>] = Merge(f[i-1], list[i])
      BY <3>2 DEF F
    <3>4. QED
      BY <3>2, <3>3
  <2>3. f = step(f)
    BY <2>1, <2>2, <1>1 DEF Iterates
  <2>4. QED
    BY <2>3
<1> DEFINE loop == CHOOSE f : f = step(f)
<1>6. loop = step(loop)
  <2> HIDE DEF step
  <2> QED BY <1>5
<1> HIDE DEF loop, F
<1>7. loop[0] = new /\ \A i \in 0..N-1 : loop[i+1] = Merge(loop[i], list[i+1])
  <2> HIDE DEF new
  <2>1. \A i \in 0..N : loop[i] = IF i = 0 THEN new ELSE Merge(loop[i-1], list[i])
    BY <1>6
  <2>2. QED
    BY <2>1, <1>1
<1>8. \A i \in Nat : i <= N => Merging(list, base, n, i, loop[i])
  <2> DEFINE T == {i \in Nat : i <= N => Merging(list, base, n, i, loop[i])}
  <2>1. 0 \in T
    <3>1. new.kept = <<>> /\ Len(new.kept) = 0 /\ new.free = Block(base, n)
      OBVIOUS
    <3>2. \A x \in Nat : In(x, new.free) <=> base <= x /\ x < base + n
      BY <3>1, <1>2 DEF In
    <3>3. ASSUME NEW j \in 1..N
          PROVE  End(list[j]) <= base \/ base + n <= list[j].base
      <4>1. SUFFICES ASSUME base < End(list[j]), list[j].base < base + n PROVE FALSE
        BY <1>1
      <4>2. CASE list[j].base <= base
        <5>1. base \in FreePages(list)
          BY <4>1, <4>2, BlockFacts
        <5>2. QED
          BY <5>1
      <4>3. CASE list[j].base > base
        <5>1. list[j].base \in FreePages(list)
          BY <1>1, BlockFacts
        <5>2. list[j].base \in base .. base + n - 1
          BY <4>1, <4>3, <1>1
        <5>3. QED
          BY <5>1, <5>2
      <4>4. QED
        BY <4>2, <4>3, <1>1
    <3> HIDE DEF new
    <3>4. Apart(new.kept)
      BY <3>1 DEF Apart
    <3>5. Merging(list, base, n, 0, new)
      BY <3>1, <3>2, <3>3, <3>4, <1>2, <1>3 DEF Merging
    <3>6. QED
      BY <3>5, <1>7
  <2>2. ASSUME NEW i \in T PROVE i + 1 \in T
    <3>1. SUFFICES ASSUME i + 1 <= N PROVE Merging(list, base, n, i + 1, loop[i+1])
      OBVIOUS
    <3>2. i \in 0..N-1 /\ Merging(list, base, n, i, loop[i])
      BY <3>1, <1>1
    <3>3. Merging(list, base, n, i + 1, Merge(loop[i], list[i+1]))
      BY <3>2, MergeFacts
    <3>4. QED
      BY <3>2, <3>3, <1>7
  <2> HIDE DEF T
  <2>3. T = Nat
    <3>1. T \in SUBSET Nat
      BY DEF T
    <3>2. QED
      BY <2>1, <2>2, <3>1, Induction
  <2>4. QED
    BY <2>3 DEF T
<1> DEFINE m == loop[N]
           f == m.free
           s == m.kept
           Later(b) == f.base + f.property <= b.base
           after == IF \E i \in DOMAIN s : Later(s[i])
                      THEN InsertAt(s, CHOOSE i \in DOMAIN s :
                                         /\ Later(s[i])
                                         /\ \A j \in 1..i-1 : ~Later(s[j]), f)
                      ELSE Append(s, f)
<1>9. AfterFree(list, base, n) = after
  BY DEF AfterFree, loop
<1>10. Merging(list, base, n, N, m)
  BY <1>1, <1>8
<1> HIDE DEF m
<1>11. /\ f \in Blocks /\ s \in Seq(Blocks) /\ Len(s) \in Nat /\ DOMAIN s = 1..Len(s)
       /\ f.base \in Nat /\ End(f) \in Nat /\ f.base < End(f) /\ f.base + f.property = End(f)
       /\ \A k \in 1..Len(s) :
            s[k].base \in Nat /\ End(s[k]) \in Nat /\ s[k].base < End(s[k])
  <2>1. f \in Blocks /\ s \in Seq(Blocks)
    BY <1>10 DEF Merging
  <2>2. QED
    BY <2>1, Ends, BlockFacts DEF End
<1>12. /\ Apart(s)
       /\ \A k \in 1..Len(s) : End(s[k]) < f.base \/ End(f) < s[k].base
       /\ \A x \in Nat :
            In(x, f) \/ (\E k \in 1..Len(s) : In(x, s[k]))
              <=> (base <= x /\ x < base + n) \/ (\E j \in 1..N : In(x, list[j]))
  BY <1>10 DEF Merging
<1> HIDE DEF f, s
<1>13. /\ after \in Seq(Blocks) /\ Len(after) = Len(s) + 1 /\ Apart(after)
       /\ \A x \in Nat : (\E k \in 1..Len(after) : In(x, after[k]))
                           <=> In(x, f) \/ (\E k \in 1..Len(s) : In(x, s[k]))
  <2>1. CASE \E i \in 1..Len(s) : Later(s[i])
    <3> DEFINE First1(i) == i \in 1..Len(s) /\ Later(s[i]) /\ \A j \in 1..i-1 : ~Later(s[j])
               T == {i \in 1..Len(s) : Later(s[i])}
               i == CHOOSE i \in 1..Len(s) : Later(s[i]) /\ \A j \in 1..i-1 : ~Later(s[j])
    <3>1. PICK k \in T : \A j \in T : k <= j
      <4>1. T \in SUBSET Nat /\ T # {}
        BY <2>1
      <4> HIDE DEF T
      <4>2. QED
        BY <4>1, Least
    <3>2. k \in 1..Len(s) /\ Later(s[k]) /\ \A j \in 1..k-1 : ~Later(s[j])
      BY <3>1, <1>11
    <3> HIDE DEF T
    <3>3. i \in 1..Len(s) /\ Later(s[i]) /\ \A j \in 1..i-1 : ~Later(s[j])
      BY <3>2
    <3>4. after = InsertAt(s, i, f)
      BY <2>1, <1>11
    <3> HIDE DEF i, after, Later
    <3>5. /\ after \in Seq(Blocks) /\ Len(after) = Len(s) + 1
          /\ \A j \in 1..Len(s)+1 :
               after[j] = IF j < i THEN s[j] ELSE IF j = i THEN f ELSE s[j-1]
      <4>1. s \in Seq(Blocks) /\ f \in Blocks /\ i \in 1..Len(s)
        BY <3>3, <1>11
      <4>2. /\ InsertAt(s, i, f) \in Seq(Blocks) /\ Len(InsertAt(s, i, f)) = Len(s) + 1
            /\ \A j \in 1..Len(s)+1 :
                 InsertAt(s, i, f)[j] = IF j < i THEN s[j] ELSE IF j = i THEN f ELSE s[j-1]
        BY <4>1, InsertAtFacts
      <4>3. QED
        BY <4>2, <3>4
    <3>6. \A j \in 1..i-1 : j \in 1..Len(s) /\ End(s[j]) < f.base /\ after[j] = s[j]
      <4> SUFFICES ASSUME NEW j \in 1..i-1
                   PROVE  j \in 1..Len(s) /\ End(s[j]) < f.base /\ after[j] = s[j]
        OBVIOUS
      <4>1. j \in 1..Len(s) /\ j \in 1..Len(s)+1 /\ j < i
        BY <3>3, <1>11
      <4>2. ~(End(f) < s[j].base)
        BY <4>1, <3>3, <1>11 DEF Later
      <4>3. QED
        BY <4>1, <4>2, <3>5, <1>12
    <3>7. \A j \in i+1..Len(s)+1 :
            j-1 \in 1..Len(s) /\ End(f) < s[j-1].base /\ after[j] = s[j-1]
      <4> SUFFICES ASSUME NEW j \in i+1..Len(s)+1
                   PROVE  j-1 \in 1..Len(s) /\ End(f) < s[j-1].base /\ after[j] = s[j-1]
        OBVIOUS
      <4>1. j-1 \in 1..Len(s) /\ j \in 1..Len(s)+1 /\ ~(j < i) /\ j # i /\ i <= j-1
        BY <3>3, <1>11
      <4>2. End(f) <= s[i].base
        BY <3>3, <1>11 DEF Later
      <4>3. s[i].base <= s[j-1].base
        <5>1. i = j-1 \/ i < j-1
          BY <4>1, <3>3, <1>11
        <5>2. i < j-1 => End(s[i]) < s[j-1].base
          BY <4>1, <3>3, <1>12 DEF Apart
        <5>3. /\ s[i].base \in Nat /\ End(s[i]) \in Nat /\ s[i].base < End(s[i])
              /\ s[j-1].base \in Nat
          BY <3>3, <4>1, <1>11
        <5>4. QED
          BY <5>1, <5>2, <5>3
      <4>4. s[j-1].base \in Nat /\ End(s[j-1]) \in Nat /\ s[j-1].base < End(s[j-1])
            /\ s[i].base \in Nat
        BY <4>1, <3>3, <1>11
      <4>5. ~(End(s[j-1]) < f.base)
        BY <4>2, <4>3, <4>4, <1>11
      <4>6. QED
        BY <4>1, <4>5, <3>5, <1>12
    <3>8. after[i] = f /\ i \in 1..Len(s)+1
      BY <3>3, <3>5, <1>11
    <3>9. \A j \in 1..Len(s)+1 : j \in 1..i-1 \/ j = i \/ j \in i+1..Len(s)+1
      BY <3>3, <1>11
    <3>10. Apart(after)
      <4>1. SUFFICES ASSUME NEW j \in 1..Len(s)+1, NEW l \in 1..Len(s)+1, j < l
                     PROVE  End(after[j]) < after[l].base
        BY <3>5 DEF Apart
      <4>2. CASE j \in 1..i-1 /\ l \in 1..i-1
        BY <4>1, <4>2, <3>6, <1>12 DEF Apart
      <4>3. CASE j \in 1..i-1 /\ l = i
        BY <4>3, <3>6, <3>8
      <4>4. CASE j \in 1..i-1 /\ l \in i+1..Len(s)+1
        <5>1. End(s[j]) < s[l-1].base
          <6>1. j \in 1..Len(s) /\ l-1 \in 1..Len(s) /\ j < l-1
            BY <4>4, <3>3, <1>11
          <6>2. QED
            BY <6>1, <1>12 DEF Apart
        <5>2. QED
          BY <4>4, <5>1, <3>6, <3>7
      <4>5. CASE j = i /\ l \in i+1..Len(s)+1
        BY <4>5, <3>7, <3>8
      <4>6. CASE j \in i+1..Len(s)+1 /\ l \in i+1..Len(s)+1
        <5>1. End(s[j-1]) < s[l-1].base
          <6>1. j-1 \in 1..Len(s) /\ l-1 \in 1..Len(s) /\ j-1 < l-1
            BY <4>1, <4>6, <3>3, <1>11
          <6>2. QED
            BY <6>1, <1>12 DEF Apart
        <5>2. QED
          BY <4>6, <5>1, <3>7
      <4>7. QED
        BY <4>1, <4>2, <4>3, <4>4, <4>5, <4>6, <3>3, <3>9, <1>11
    <3>11. ASSUME NEW x \in Nat
           PROVE  (\E l \in 1..Len(s)+1 : In(x, after[l]))
                    <=> In(x, f) \/ (\E l \in 1..Len(s) : In(x, s[l]))
      <4>1. ASSUME NEW l \in 1..Len(s)+1, In(x, after[l])
            PROVE  In(x, f) \/ (\E j \in 1..Len(s) : In(x, s[j]))
        BY <4>1, <3>6, <3>7, <3>8, <3>9
      <4>2. In(x, f) => \E l \in 1..Len(s)+1 : In(x, after[l])
        BY <3>8
      <4>3. ASSUME NEW j \in 1..Len(s), In(x, s[j])
            PROVE  \E l \in 1..Len(s)+1 : In(x, after[l])
        <5>1. CASE j < i
          <6>1. j \in 1..i-1 /\ j \in 1..Len(s)+1
            BY <5>1, <3>3, <1>11
          <6>2. QED
            BY <6>1, <4>3, <3>6
        <5>2. CASE j >= i
          <6>1. j+1 \in i+1..Len(s)+1 /\ j+1 \in 1..Len(s)+1 /\ (j+1)-1 = j
            BY <5>2, <3>3, <1>11
          <6>2. after[j+1] = s[j]
            BY <6>1, <3>7
          <6>3. QED
            BY <6>1, <6>2, <4>3
        <5>3. QED
          BY <5>1, <5>2, <3>3, <1>11
      <4>4. QED
        BY <4>1, <4>2, <4>3
    <3>12. QED
      BY <3>5, <3>10, <3>11
  <2>2. CASE ~\E i \in 1..Len(s) : Later(s[i])
    <3>1. after = Append(s, f)
      BY <2>2, <1>11
    <3>2. \A k \in 1..Len(s) : End(s[k]) < f.base
      BY <2>2, <1>11, <1>12
    <3> HIDE DEF after
    <3>3. /\ after \in Seq(Blocks) /\ Len(after) = Len(s) + 1
          /\ \A k \in 1..Len(s) : after[k] = s[k]
          /\ after[Len(s) + 1] = f
      BY <3>1, <1>11, AppendIs
    <3>4. 1..Len(s)+1 = (1..Len(s)) \cup {Len(s)+1}
      BY <1>11
    <3>5. Apart(after)
      <4>1. SUFFICES ASSUME NEW j \in 1..Len(s)+1, NEW k \in 1..Len(s)+1, j < k
                     PROVE  End(after[j]) < after[k].base
        BY <3>3 DEF Apart
      <4>2. j \in 1..Len(s)
        BY <4>1, <1>11
      <4>3. CASE k \in 1..Len(s)
        BY <4>1, <4>2, <4>3, <3>3, <1>12 DEF Apart
      <4>4. CASE k = Len(s) + 1
        BY <4>2, <4>4, <3>2, <3>3
      <4>5. QED
        BY <4>3, <4>4, <3>4
    <3>6. QED
      BY <3>3, <3>4, <3>5
  <2>3. QED
    BY <2>1, <2>2
<1> HIDE DEF after
<1>14. FreePages(after) = FreePages(list) \cup (base .. base + n - 1)
  <2>1. \A x : x \in FreePages(after) <=> x \in Nat /\ \E k \in 1..Len(after) : In(x, after[k])
    BY <1>13, BlockFacts DEF In
  <2>2. \A x : x \in FreePages(list) <=> x \in Nat /\ \E k \in 1..N : In(x, list[k])
    BY BlockFacts DEF In
  <2>3. \A x : x \in base .. base + n - 1 <=> x \in Nat /\ base <= x /\ x < base + n
    BY PagesFacts
  <2>4. QED
    BY <2>1, <2>2, <2>3, <1>12, <1>13
<1>15. FreeAsserts(list, after, base, n)
  <2>1. ASSUME NEW i \in DOMAIN list PROVE list[i].base \notin base .. base + n - 1
    <3>1. list[i].base \in FreePages(list)
      BY <1>1, BlockFacts
    <3>2. QED
      BY <3>1
  <2>2. ASSUME NEW i \in 1..Len(after)-1
        PROVE  after[i].base + after[i].property # after[i+1].base
    <3>1. i \in 1..Len(after) /\ i+1 \in 1..Len(after) /\ i < i+1
      BY <1>11, <1>13
    <3>2. End(after[i]) < after[i+1].base
      BY <3>1, <1>13 DEF Apart
    <3>3. End(after[i]) \in Nat /\ after[i+1].base \in Nat
      BY <3>1, <1>13, BlockFacts
    <3>4. QED
      BY <3>2, <3>3 DEF End
  <2>3. QED
    BY <2>1, <2>2 DEF FreeAsserts
<1>16. QED
  BY <1>9, <1>13, <1>14, <1>15

-----------------------------------------------------------------------------
(* The call in progress: what it still has to get or to give back.          *)

Steps == {"copy", "open", "elf", "read", "set_mm", "get_pid", "zombie", "adopt", "user_main"}
Entries == [do : {"get", "put", "do"}, what : Resources \cup Steps, of : Owners]

(* rs names the resources R, each once.                                    *)
Lists(rs, R) == rs \in Seq(Resources) /\ Range(rs) = R /\ IsInjective(rs)

(* The first n entries of ops, by owner and resource.                      *)
Named(ops, n) == {<<ops[i].of, ops[i].what>> : i \in 1..n}

(* The list t is to get S[k+1], S[k+2] ... for p and then to do d.         *)
Gets(t, p, S, k, d) ==
  /\ t \in Seq(Entries) /\ k \in 0..Len(S)
  /\ Len(t) = Len(S) - k + 1
  /\ \A i \in 1..Len(S)-k : t[i] = [do |-> "get", what |-> S[k+i], of |-> p]
  /\ t[Len(S)-k+1] = [do |-> "do", what |-> d, of |-> New]

(* The first n entries of t give back D, each once.                        *)
Puts(t, n, D) ==
  /\ t \in Seq(Entries) /\ n \in 0..Len(t)
  /\ \A i \in 1..n : t[i].do = "put" /\ t[i].what \in Resources
  /\ \A i, j \in 1..n : t[i] = t[j] => i = j
  /\ Named(t, n) = D

Later(t, n) == SubSeq(t, n + 1, Len(t))

PutsThen(t, D, rest) == \E n \in 0..Len(t) : Puts(t, n, D) /\ Later(t, n) = rest

Upto(S, k) == {S[i] : i \in 1..k}

(* New is nobody, and no process is an argument.                           *)
LEMMA OwnerFacts ==
  /\ New \in Owners /\ Pids \subseteq Owners /\ Args \subseteq Owners
  /\ New \notin Pids /\ New \notin Args /\ Pids \cap Args = {}
  /\ init \in Pids /\ init \in Owners /\ init # New /\ init \notin Args
  /\ \A p \in Pids : p # New
<1>1. /\ MAX_PID \in Nat /\ MAX_PID > 1 /\ EXEC_MAX_ARG_NUM \in Nat
      /\ Pids = 1..MAX_PID-1 /\ Args = {MAX_PID - 1 + i : i \in 1..EXEC_MAX_ARG_NUM}
  BY PidAssumption, TableAssumption DEF Pids, Args, Arg
<1>2. \A a \in Args : a \in Nat /\ a >= MAX_PID
  BY <1>1
<1>3. QED
  BY <1>1, <1>2 DEF Owners, New, init

LEMMA ArgFacts ==
  ASSUME NEW i \in 1..EXEC_MAX_ARG_NUM
  PROVE  /\ Arg(i) \in Args /\ Arg(i) \in Owners /\ Arg(i) # New /\ Arg(i) \notin Pids
         /\ \A j \in 1..EXEC_MAX_ARG_NUM : Arg(j) = Arg(i) => j = i
<1>1. Arg(i) \in Args
  BY DEF Args
<1>2. MAX_PID \in Nat /\ EXEC_MAX_ARG_NUM \in Nat
  BY PidAssumption, TableAssumption
<1>3. \A j \in 1..EXEC_MAX_ARG_NUM : Arg(j) = Arg(i) => j = i
  BY <1>2 DEF Arg
<1>4. QED
  BY <1>1, <1>3, OwnerFacts

(* The empty list, lists of one and of two names, and one list after        *)
(* another.                                                                 *)
LEMMA ListsEmpty == Lists(<<>>, {})
BY EmptyFacts DEF Lists

LEMMA ListsOne == ASSUME NEW r \in Resources PROVE Lists(<<r>>, {r})
BY DEF Lists, Range, IsInjective

LEMMA ListsTwo ==
  ASSUME NEW r \in Resources, NEW q \in Resources, r # q
  PROVE  Lists(<<r, q>>, {r, q})
<1> DEFINE s == <<r, q>>
<1>1. s \in Seq(Resources) /\ DOMAIN s = 1..2 /\ s[1] = r /\ s[2] = q
  OBVIOUS
<1> HIDE DEF s
<1>2. 1..2 = {1, 2}
  OBVIOUS
<1>3. QED
  BY <1>1, <1>2 DEF Lists, Range, IsInjective, s

LEMMA ListsConcat ==
  ASSUME NEW a, NEW b, NEW A, NEW B, Lists(a, A), Lists(b, B), A \cap B = {}
  PROVE  Lists(a \o b, A \cup B)
<1> DEFINE c == a \o b
<1>1. /\ a \in Seq(Resources) /\ DOMAIN a = 1..Len(a) /\ Len(a) \in Nat
      /\ b \in Seq(Resources) /\ DOMAIN b = 1..Len(b) /\ Len(b) \in Nat
      /\ A = {a[i] : i \in 1..Len(a)} /\ B = {b[i] : i \in 1..Len(b)}
  BY LenProperties DEF Lists, Range
<1>2. /\ c \in Seq(Resources) /\ Len(c) = Len(a) + Len(b)
      /\ \A i \in 1..Len(a)+Len(b) : c[i] = IF i <= Len(a) THEN a[i] ELSE b[i-Len(a)]
  BY <1>1, ConcatProperties
<1>3. DOMAIN c = 1..Len(a)+Len(b)
  BY <1>2, LenProperties
<1> HIDE DEF c
<1>4. \A i \in 1..Len(a) : i \in 1..Len(a)+Len(b) /\ c[i] = a[i]
  BY <1>1, <1>2
<1>5. ASSUME NEW i \in 1..Len(b)
      PROVE  i+Len(a) \in 1..Len(a)+Len(b) /\ c[i+Len(a)] = b[i]
  <2>1. i+Len(a) \in 1..Len(a)+Len(b) /\ ~(i+Len(a) <= Len(a)) /\ (i+Len(a))-Len(a) = i
    BY <1>1
  <2>2. QED
    BY <2>1, <1>2
<1>6. \A i \in 1..Len(a)+Len(b) :
        \/ i \in 1..Len(a) /\ c[i] = a[i] /\ c[i] \in A
        \/ i-Len(a) \in 1..Len(b) /\ c[i] = b[i-Len(a)] /\ c[i] \in B
  <2>1. SUFFICES ASSUME NEW i \in 1..Len(a)+Len(b)
                 PROVE  \/ i \in 1..Len(a) /\ c[i] = a[i] /\ c[i] \in A
                        \/ i-Len(a) \in 1..Len(b) /\ c[i] = b[i-Len(a)] /\ c[i] \in B
    OBVIOUS
  <2>2. CASE i <= Len(a)
    <3>1. i \in 1..Len(a) /\ c[i] = a[i]
      BY <1>1, <1>2, <2>2
    <3>2. QED
      BY <1>1, <3>1
  <2>3. CASE ~(i <= Len(a))
    <3>1. i-Len(a) \in 1..Len(b) /\ c[i] = b[i-Len(a)]
      BY <1>1, <1>2, <2>3
    <3>2. QED
      BY <1>1, <3>1
  <2>4. QED
    BY <2>2, <2>3
<1>7. Range(c) = A \cup B
  <2>1. Range(c) \subseteq A \cup B
    BY <1>3, <1>6 DEF Range
  <2>2. A \subseteq Range(c)
    BY <1>1, <1>3, <1>4 DEF Range
  <2>3. B \subseteq Range(c)
    BY <1>1, <1>3, <1>5 DEF Range
  <2>4. QED
    BY <2>1, <2>2, <2>3
<1>8. IsInjective(c)
  <2>1. SUFFICES ASSUME NEW i \in 1..Len(a)+Len(b), NEW j \in 1..Len(a)+Len(b), c[i] = c[j]
                 PROVE  i = j
    BY <1>3 DEF IsInjective
  <2>2. CASE i \in 1..Len(a) /\ j \in 1..Len(a)
    BY <2>1, <2>2, <1>1, <1>4 DEF Lists, IsInjective
  <2>3. CASE i-Len(a) \in 1..Len(b) /\ j-Len(a) \in 1..Len(b)
    <3>1. b[i-Len(a)] = b[j-Len(a)]
      BY <2>1, <2>3, <1>1, <1>6
    <3>2. i-Len(a) = j-Len(a)
      BY <2>3, <3>1, <1>1 DEF Lists, IsInjective
    <3>3. QED
      BY <3>2, <1>1
  <2>4. QED
    BY <2>1, <2>2, <2>3, <1>6
<1>9. QED
  BY <1>2, <1>7, <1>8 DEF Lists, c

(* A list that begins with an entry e, and its tail.                       *)
LEMMA DoFacts ==
  ASSUME NEW d \in Steps
  PROVE  /\ Do(d) \in Seq(Entries) /\ Len(Do(d)) = 1 /\ Do(d) # <<>>
         /\ Do(d)[1] = [do |-> "do", what |-> d, of |-> New]
         /\ Head(Do(d)) = [do |-> "do", what |-> d, of |-> New]
         /\ Tail(Do(d)) = <<>>
<1>1. [do |-> "do", what |-> d, of |-> New] \in Entries
  BY DEF Entries, Owners
<1>2. QED
  BY <1>1 DEF Do

(* A call that begins with S[1] still has to get all of S.                  *)
LEMMA GetsStart ==
  ASSUME NEW p \in Owners, NEW S \in Seq(Resources), NEW d \in Steps
  PROVE  Gets(Get(p, S) \o Do(d), p, S, 0, d)
<1> DEFINE e(i) == [do |-> "get", what |-> S[i], of |-> p]
           g == Get(p, S)
           t == g \o Do(d)
<1>1. Len(S) \in Nat /\ DOMAIN S = 1..Len(S) /\ \A i \in 1..Len(S) : S[i] \in Resources
  BY LenProperties, ElementOfSeq
<1>2. g = [i \in 1..Len(S) |-> e(i)]
  BY <1>1 DEF Get
<1>3. \A i \in 1..Len(S) : e(i) \in Entries
  BY <1>1 DEF Entries
<1> HIDE DEF g
<1>4. g \in Seq(Entries) /\ Len(g) = Len(S) /\ \A i \in 1..Len(S) : g[i] = e(i)
  BY <1>1, <1>2, <1>3
<1>5. Do(d) \in Seq(Entries) /\ Len(Do(d)) = 1
      /\ Do(d)[1] = [do |-> "do", what |-> d, of |-> New]
  BY DoFacts
<1>6. /\ t \in Seq(Entries) /\ Len(t) = Len(S) + 1
      /\ \A i \in 1..Len(S)+1 : t[i] = IF i <= Len(S) THEN g[i] ELSE Do(d)[i-Len(S)]
  BY <1>4, <1>5, ConcatProperties
<1> HIDE DEF t
<1>7. \A i \in 1..Len(S) : t[i] = e(i)
  BY <1>1, <1>4, <1>6
<1>8. t[Len(S)+1] = [do |-> "do", what |-> d, of |-> New]
  BY <1>1, <1>5, <1>6
<1> HIDE DEF e
<1>9. Gets(t, p, S, 0, d)
  <2>1. \A i \in 1..Len(S)-0 : t[i] = [do |-> "get", what |-> S[0+i], of |-> p]
    BY <1>1, <1>7 DEF e
  <2>2. QED
    BY <1>1, <1>6, <1>8, <2>1 DEF Gets
<1>10. QED
  BY <1>9 DEF t, g

(* The entry that comes next, and what is left after it.                    *)
LEMMA GetsHead ==
  ASSUME NEW t, NEW p, NEW S \in Seq(Resources), NEW k, NEW d, Gets(t, p, S, k, d)
  PROVE  /\ k \in 0..Len(S) /\ t # <<>> /\ t \in Seq(Entries)
         /\ k < Len(S) => /\ Head(t) = [do |-> "get", what |-> S[k+1], of |-> p]
                          /\ S[k+1] \in Resources /\ k + 1 \in 1..Len(S)
                          /\ Gets(Tail(t), p, S, k + 1, d)
         /\ ~(k < Len(S)) => k = Len(S) /\ Head(t) = [do |-> "do", what |-> d, of |-> New]
                               /\ Tail(t) = <<>>
<1>1. /\ t \in Seq(Entries) /\ k \in 0..Len(S)
      /\ Len(t) = Len(S) - k + 1
      /\ \A i \in 1..Len(S)-k : t[i] = [do |-> "get", what |-> S[k+i], of |-> p]
      /\ t[Len(S)-k+1] = [do |-> "do", what |-> d, of |-> New]
  BY DEF Gets
<1>2. Len(S) \in Nat /\ \A i \in 1..Len(S) : S[i] \in Resources
  BY LenProperties, ElementOfSeq
<1>3. /\ t # <<>> /\ Head(t) = t[1] /\ Tail(t) \in Seq(Entries) /\ Len(Tail(t)) = Len(S) - k
      /\ \A i \in 1..Len(S)-k : Tail(t)[i] = t[i+1]
  BY <1>1, <1>2
<1> DEFINE u == Tail(t)
<1> HIDE DEF u
<1>4. CASE k < Len(S)
  <2>1. Head(t) = [do |-> "get", what |-> S[k+1], of |-> p] /\ k + 1 \in 1..Len(S)
    <3>1. 1 \in 1..Len(S)-k /\ k + 1 \in 1..Len(S)
      BY <1>1, <1>2, <1>4
    <3>2. t[1] = [do |-> "get", what |-> S[k+1], of |-> p]
      BY <3>1, <1>1
    <3>3. QED
      BY <3>1, <3>2, <1>3
  <2>2. Len(u) = Len(S) - (k+1) + 1 /\ k+1 \in 0..Len(S) /\ u \in Seq(Entries)
    <3>1. Len(S) - k = Len(S) - (k+1) + 1 /\ k+1 \in 0..Len(S)
      BY <1>1, <1>2, <1>4
    <3>2. QED
      BY <3>1, <1>3 DEF u
  <2>3. \A i \in 1..Len(S)-(k+1) : u[i] = [do |-> "get", what |-> S[(k+1)+i], of |-> p]
    <3> SUFFICES ASSUME NEW i \in 1..Len(S)-(k+1)
                 PROVE  u[i] = [do |-> "get", what |-> S[(k+1)+i], of |-> p]
      OBVIOUS
    <3>1. i \in 1..Len(S)-k /\ i+1 \in 1..Len(S)-k /\ k+(i+1) = (k+1)+i
      BY <1>1, <1>2
    <3>2. u[i] = t[i+1]
      BY <3>1, <1>3 DEF u
    <3>3. t[i+1] = [do |-> "get", what |-> S[k+(i+1)], of |-> p]
      BY <3>1, <1>1
    <3>4. QED
      BY <3>1, <3>2, <3>3
  <2>4. u[Len(S)-(k+1)+1] = [do |-> "do", what |-> d, of |-> New]
    <3>1. Len(S)-k \in 1..Len(S)-k /\ Len(S)-(k+1)+1 = Len(S)-k
      BY <1>1, <1>2, <1>4
    <3>2. QED
      BY <3>1, <1>1, <1>3 DEF u
  <2>5. Gets(u, p, S, k + 1, d)
    BY <2>2, <2>3, <2>4 DEF Gets
  <2>6. S[k+1] \in Resources
    BY <2>1, <1>2
  <2>7. QED
    BY <2>1, <2>5, <2>6, <1>1, <1>3, <1>4 DEF u
<1>5. CASE ~(k < Len(S))
  <2>1. k = Len(S)
    BY <1>1, <1>2, <1>5
  <2>2. Len(S)-k+1 = 1 /\ Len(u) = 0
    BY <2>1, <1>2, <1>3 DEF u
  <2>3. u = <<>>
    BY <2>2, <1>3, EmptySeq DEF u
  <2>4. QED
    BY <2>1, <2>2, <2>3, <1>1, <1>3, <1>5 DEF u
<1>6. QED
  BY <1>4, <1>5

(* All of it at once.                                                      *)
LEMMA GetsAll ==
  ASSUME NEW p, NEW S \in Seq(Resources), NEW k, NEW d,
         Gets(todo, p, S, k, d), k < Len(S)
  PROVE  /\ Leading("get") = Len(S) - k
         /\ Named(todo, Len(S) - k) = {p} \X {S[i] : i \in k+1..Len(S)}
         /\ Gets(SubSeq(todo, Len(S) - k + 1, Len(todo)), p, S, Len(S), d)
<1>1. /\ todo \in Seq(Entries) /\ k \in 0..Len(S)
      /\ Len(todo) = Len(S) - k + 1
      /\ \A i \in 1..Len(S)-k : todo[i] = [do |-> "get", what |-> S[k+i], of |-> p]
      /\ todo[Len(S)-k+1] = [do |-> "do", what |-> d, of |-> New]
  BY DEF Gets
<1>2. Len(S) \in Nat /\ \A i \in 1..Len(S) : S[i] \in Resources
  BY LenProperties, ElementOfSeq
<1> DEFINE m == Len(S) - k
<1>3. m \in Nat \ {0} /\ m + 1 = Len(todo) /\ DOMAIN todo = 1..m+1
  BY <1>1, <1>2, LenProperties
<1> DEFINE Is(n) == (\A i \in 1..n : todo[i].do = "get")
                      /\ (n < Len(todo) => todo[n+1].do # "get")
<1>4. (\A i \in 1..m : todo[i].do = "get") /\ todo[m+1].do = "do"
  <2>1. ASSUME NEW i \in 1..m PROVE todo[i].do = "get"
    <3>1. todo[i] = [do |-> "get", what |-> S[k+i], of |-> p]
      BY <1>1
    <3>2. QED
      BY <3>1
  <2>2. todo[m+1] = [do |-> "do", what |-> d, of |-> New]
    BY <1>1
  <2>3. QED
    BY <2>1, <2>2
<1> HIDE DEF m
<1>5. m \in DOMAIN todo /\ Is(m)
  BY <1>3, <1>4
<1>6. \A n \in DOMAIN todo : Is(n) => n = m
  <2> SUFFICES ASSUME NEW n \in 1..m+1, Is(n) PROVE n = m
    BY <1>3
  <2>1. CASE n > m
    <3>1. n = m + 1 /\ m + 1 \in 1..n
      BY <2>1, <1>3
    <3>2. QED
      BY <3>1, <1>4
  <2>2. CASE n < m
    <3>1. n + 1 \in 1..m /\ n < Len(todo)
      BY <2>2, <1>3
    <3>2. QED
      BY <3>1, <1>4
  <2>3. QED
    BY <2>1, <2>2, <1>3
<1>7. Leading("get") = m
  BY <1>5, <1>6 DEF Leading
<1>8. Named(todo, m) = {p} \X {S[i] : i \in k+1..Len(S)}
  <2>1. ASSUME NEW i \in 1..m PROVE <<todo[i].of, todo[i].what>> = <<p, S[k+i]>>
    <3>1. todo[i] = [do |-> "get", what |-> S[k+i], of |-> p]
      BY <1>1 DEF m
    <3>2. QED
      BY <3>1
  <2>2. \A i \in 1..m : k+i \in k+1..Len(S)
    BY <1>1, <1>2 DEF m
  <2>3. \A i \in k+1..Len(S) : i-k \in 1..m /\ k+(i-k) = i
    BY <1>1, <1>2 DEF m
  <2>4. Named(todo, m) \subseteq {p} \X {S[i] : i \in k+1..Len(S)}
    BY <2>1, <2>2 DEF Named
  <2>5. ASSUME NEW i \in k+1..Len(S) PROVE <<p, S[i]>> \in Named(todo, m)
    <3>1. <<todo[i-k].of, todo[i-k].what>> = <<p, S[i]>>
      BY <2>1, <2>3
    <3>2. QED
      BY <3>1, <2>3 DEF Named
  <2>6. QED
    BY <2>4, <2>5
<1>9. Gets(SubSeq(todo, m + 1, Len(todo)), p, S, Len(S), d)
  <2> DEFINE u == SubSeq(todo, m + 1, Len(todo))
  <2>1. /\ u \in Seq(Entries) /\ Len(u) = 1 /\ u[1] = todo[m+1]
    <3>1. \A i \in m+1..Len(todo) : todo[i] \in Entries
      BY <1>1, <1>3, ElementOfSeq
    <3>2. m + 1 \in Int /\ Len(todo) \in Int
      BY <1>3
    <3>3. /\ u \in Seq(Entries)
          /\ Len(u) = IF m + 1 <= Len(todo) THEN Len(todo) - (m + 1) + 1 ELSE 0
          /\ \A i \in 1..Len(todo) - (m + 1) + 1 : u[i] = todo[(m + 1) + i - 1]
      BY <3>1, <3>2, SubSeqProperties
    <3> HIDE DEF u
    <3>4. QED
      BY <3>3, <1>3
  <2> HIDE DEF u
  <2>2. todo[m+1] = [do |-> "do", what |-> d, of |-> New]
    BY <1>1 DEF m
  <2>3. Gets(u, p, S, Len(S), d)
    BY <2>1, <2>2, <1>2 DEF Gets
  <2>4. QED
    BY <2>3 DEF u
<1>10. QED
  BY <1>7, <1>8, <1>9 DEF m

(* What comes after the first n entries.                                    *)
LEMMA LaterFacts ==
  ASSUME NEW t \in Seq(Entries), NEW n \in 0..Len(t)
  PROVE  /\ Later(t, n) \in Seq(Entries) /\ Len(Later(t, n)) = Len(t) - n
         /\ \A i \in 1..Len(t)-n : Later(t, n)[i] = t[n+i]
<1>1. Len(t) \in Nat /\ \A i \in n+1..Len(t) : t[i] \in Entries
  BY LenProperties, ElementOfSeq
<1>2. n + 1 \in Int /\ Len(t) \in Int
  BY <1>1
<1>3. /\ Later(t, n) \in Seq(Entries)
      /\ Len(Later(t, n)) = IF n + 1 <= Len(t) THEN Len(t) - (n + 1) + 1 ELSE 0
      /\ \A i \in 1..Len(t)-(n+1)+1 : Later(t, n)[i] = t[(n+1)+i-1]
  BY <1>1, <1>2, SubSeqProperties DEF Later
<1>4. Len(t)-(n+1)+1 = Len(t)-n /\ \A i \in 1..Len(t)-n : (n+1)+i-1 = n+i
  BY <1>1
<1>5. Len(Later(t, n)) = Len(t) - n
  BY <1>1, <1>3
<1>6. QED
  BY <1>3, <1>4, <1>5

(* A list that begins with no release gives back nothing.                   *)
LEMMA PutsNone ==
  ASSUME NEW rest \in Seq(Entries)
  PROVE  PutsThen(rest, {}, rest)
<1>1. Len(rest) \in Nat
  BY LenProperties
<1>2. 1..0 = {}
  OBVIOUS
<1>3. Named(rest, 0) = {}
  BY <1>2 DEF Named
<1>4. Puts(rest, 0, {})
  BY <1>1, <1>2, <1>3 DEF Puts
<1>5. Later(rest, 0) = rest
  BY SubSeqFull DEF Later
<1>6. 0 \in 0..Len(rest)
  BY <1>1
<1>7. QED
  BY <1>4, <1>5, <1>6 DEF PutsThen

(* The releases of the list rs, as entries.                                 *)
LEMMA PutFacts ==
  ASSUME NEW p \in Owners, NEW rs \in Seq(Resources)
  PROVE  /\ Put(p, rs) \in Seq(Entries) /\ Len(Put(p, rs)) = Len(rs)
         /\ \A i \in 1..Len(rs) : Put(p, rs)[i] = [do |-> "put", what |-> rs[i], of |-> p]
<1> DEFINE e(i) == [do |-> "put", what |-> rs[i], of |-> p]
<1>1. Len(rs) \in Nat /\ DOMAIN rs = 1..Len(rs) /\ \A i \in 1..Len(rs) : rs[i] \in Resources
  BY LenProperties, ElementOfSeq
<1>2. Put(p, rs) = [i \in 1..Len(rs) |-> e(i)]
  BY <1>1 DEF Put
<1>3. \A i \in 1..Len(rs) : e(i) \in Entries
  BY <1>1 DEF Entries
<1> HIDE DEF e
<1>4. /\ Put(p, rs) \in Seq(Entries) /\ Len(Put(p, rs)) = Len(rs)
      /\ \A i \in 1..Len(rs) : Put(p, rs)[i] = e(i)
  BY <1>1, <1>2, <1>3
<1>5. QED
  BY <1>4 DEF e

(* The entries of a give A back, before t gives back D.                    *)
LEMMA PutsConcat ==
  ASSUME NEW a \in Seq(Entries), NEW A, A = Named(a, Len(a)),
         \A i \in 1..Len(a) : a[i].do = "put" /\ a[i].what \in Resources,
         \A i, j \in 1..Len(a) : a[i] = a[j] => i = j,
         NEW t \in Seq(Entries), NEW D, NEW rest, PutsThen(t, D, rest),
         A \cap D = {}
  PROVE  /\ a \o t \in Seq(Entries)
         /\ PutsThen(a \o t, A \cup D, rest)
<1> DEFINE c == a \o t
           l == Len(a)
<1>1. /\ l \in Nat /\ A = {<<a[i].of, a[i].what>> : i \in 1..l}
      /\ \A i \in 1..l : a[i].do = "put" /\ a[i].what \in Resources
      /\ \A i, j \in 1..l : a[i] = a[j] => i = j
  BY LenProperties DEF Named
<1>3. PICK n \in 0..Len(t) : Puts(t, n, D) /\ Later(t, n) = rest
  BY DEF PutsThen
<1>4. /\ Len(t) \in Nat
      /\ \A i \in 1..n : t[i].do = "put" /\ t[i].what \in Resources
      /\ \A i, j \in 1..n : t[i] = t[j] => i = j
      /\ D = {<<t[i].of, t[i].what>> : i \in 1..n}
  BY <1>3, LenProperties DEF Puts, Named
<1>5. /\ c \in Seq(Entries) /\ Len(c) = l + Len(t)
      /\ \A i \in 1..l+Len(t) : c[i] = IF i <= l THEN a[i] ELSE t[i-l]
  <2>1. /\ c \in Seq(Entries) /\ Len(c) = Len(a) + Len(t)
        /\ \A i \in 1..Len(a)+Len(t) : c[i] = IF i <= Len(a) THEN a[i] ELSE t[i-Len(a)]
    <3>1. a \in Seq(Entries) /\ t \in Seq(Entries)
      OBVIOUS
    <3>2. QED
      BY ONLY <3>1, ConcatProperties
  <2>2. QED
    BY <2>1, Zenon
<1> HIDE DEF l, c
<1>6. ASSUME NEW i \in 1..l
      PROVE  c[i] = a[i] /\ i \in 1..l+n
  <2>1. i \in 1..l+Len(t) /\ i <= l /\ i \in 1..l+n
    BY <1>1, <1>4
  <2>2. QED
    BY <2>1, <1>5
<1>7. ASSUME NEW i \in 1..Len(t) PROVE c[l+i] = t[i] /\ l+i \in 1..l+Len(t)
  <2>1. l+i \in 1..l+Len(t) /\ ~(l+i <= l) /\ (l+i)-l = i
    BY <1>1, <1>4
  <2>2. QED
    BY <2>1, <1>5
<1>8. ASSUME NEW i \in 1..l+n
      PROVE  i \in 1..l \/ (i-l \in 1..n /\ i-l \in 1..Len(t) /\ i = l+(i-l) /\ c[i] = t[i-l])
  <2>1. i \in 1..l \/ (i-l \in 1..n /\ i-l \in 1..Len(t) /\ i = l+(i-l))
    BY <1>1, <1>4
  <2>2. QED
    BY <2>1, <1>7
<1>9. ASSUME NEW i \in 1..l+n PROVE c[i].do = "put" /\ c[i].what \in Resources
  <2>1. CASE i \in 1..l
    BY <2>1, <1>1, <1>6
  <2>2. CASE i-l \in 1..n /\ c[i] = t[i-l]
    BY <2>2, <1>4
  <2>3. QED
    BY <2>1, <2>2, <1>8
<1>10. Named(c, l+n) = A \cup D
  <2>1. Named(c, l+n) = {<<c[i].of, c[i].what>> : i \in 1..l+n}
    BY DEF Named
  <2>2. ASSUME NEW i \in 1..l+n PROVE <<c[i].of, c[i].what>> \in A \cup D
    <3>1. CASE i \in 1..l
      BY <3>1, <1>1, <1>6
    <3>2. CASE i-l \in 1..n /\ c[i] = t[i-l]
      BY <3>2, <1>4
    <3>3. QED
      BY <3>1, <3>2, <1>8
  <2>3. ASSUME NEW i \in 1..l PROVE <<a[i].of, a[i].what>> \in Named(c, l+n)
    BY <1>6, <2>1
  <2>4. ASSUME NEW i \in 1..n PROVE <<t[i].of, t[i].what>> \in Named(c, l+n)
    <3>1. i \in 1..Len(t) /\ l+i \in 1..l+n
      BY <1>1, <1>4
    <3>2. c[l+i] = t[i]
      BY <3>1, <1>7
    <3>3. QED
      BY <3>1, <3>2, <2>1
  <2>5. Named(c, l+n) \subseteq A \cup D
    BY <2>1, <2>2
  <2>6. A \subseteq Named(c, l+n)
    BY <2>3, <1>1
  <2>7. D \subseteq Named(c, l+n)
    BY <2>4, <1>4
  <2>8. QED
    BY <2>5, <2>6, <2>7
<1>11. ASSUME NEW i \in 1..l+n, NEW j \in 1..l+n, c[i] = c[j] PROVE i = j
  <2>1. CASE i \in 1..l /\ j \in 1..l
    BY <2>1, <1>1, <1>6, <1>11
  <2>2. ASSUME NEW x \in 1..l, NEW y \in 1..n, c[x] = t[y] PROVE FALSE
    <3>1. a[x] = t[y]
      BY <2>2, <1>6
    <3>2. <<a[x].of, a[x].what>> \in A /\ <<t[y].of, t[y].what>> \in D
      BY <1>1, <1>4
    <3>3. QED
      BY <3>1, <3>2
  <2>3. CASE i-l \in 1..n /\ j-l \in 1..n /\ c[i] = t[i-l] /\ c[j] = t[j-l]
                /\ i = l+(i-l) /\ j = l+(j-l)
    <3>1. i-l = j-l
      BY <2>3, <1>4, <1>11
    <3>2. QED
      BY <2>3, <3>1
  <2>4. CASE i \in 1..l /\ j-l \in 1..n /\ c[j] = t[j-l]
    BY <2>2, <2>4, <1>11
  <2>5. CASE j \in 1..l /\ i-l \in 1..n /\ c[i] = t[i-l]
    BY <2>2, <2>5, <1>11
  <2>6. QED
    BY <2>1, <2>3, <2>4, <2>5, <1>8
<1>12. l+n \in 0..Len(c)
  BY <1>1, <1>4, <1>5
<1>13. Puts(c, l+n, A \cup D)
  BY <1>5, <1>9, <1>10, <1>11, <1>12 DEF Puts
<1>14. Later(c, l+n) = Later(t, n)
  <2>1. /\ Later(c, l+n) \in Seq(Entries) /\ Len(Later(c, l+n)) = Len(c) - (l+n)
        /\ \A i \in 1..Len(c)-(l+n) : Later(c, l+n)[i] = c[(l+n)+i]
    BY <1>5, <1>12, LaterFacts
  <2>2. /\ Later(t, n) \in Seq(Entries) /\ Len(Later(t, n)) = Len(t) - n
        /\ \A i \in 1..Len(t)-n : Later(t, n)[i] = t[n+i]
    BY LaterFacts
  <2>3. Len(c) - (l+n) = Len(t) - n
    BY <1>1, <1>4, <1>5
  <2>4. ASSUME NEW i \in 1..Len(t)-n PROVE Later(c, l+n)[i] = Later(t, n)[i]
    <3>1. n+i \in 1..Len(t) /\ (l+n)+i = l+(n+i)
      BY <1>1, <1>4
    <3>2. c[(l+n)+i] = t[n+i]
      BY <3>1, <1>7
    <3>3. QED
      BY <3>2, <2>1, <2>2, <2>3
  <2>5. QED
    BY ONLY <2>1, <2>2, <2>3, <2>4, SeqEqual
<1>15. PutsThen(c, A \cup D, rest)
  BY <1>3, <1>12, <1>13, <1>14 DEF PutsThen
<1>16. QED
  BY <1>5, <1>15 DEF c

(* More to give back, before t.                                            *)
LEMMA PutsMore ==
  ASSUME NEW p \in Owners, NEW rs, NEW R, Lists(rs, R),
         NEW t \in Seq(Entries), NEW D, NEW rest, PutsThen(t, D, rest),
         ({p} \X R) \cap D = {}
  PROVE  /\ Put(p, rs) \o t \in Seq(Entries)
         /\ PutsThen(Put(p, rs) \o t, ({p} \X R) \cup D, rest)
<1> DEFINE a == Put(p, rs)
           l == Len(rs)
<1>1. /\ rs \in Seq(Resources) /\ l \in Nat /\ R = {rs[i] : i \in 1..l}
      /\ \A i \in 1..l : rs[i] \in Resources
      /\ \A i, j \in 1..l : rs[i] = rs[j] => i = j
  BY LenProperties, ElementOfSeq DEF Lists, Range, IsInjective
<1>2. /\ a \in Seq(Entries) /\ Len(a) = l
      /\ \A i \in 1..l : a[i] = [do |-> "put", what |-> rs[i], of |-> p]
  BY <1>1, PutFacts
<1> HIDE DEF a, l
<1>3. \A i \in 1..l : a[i].do = "put" /\ a[i].what = rs[i] /\ a[i].of = p
  BY <1>2
<1>4. Named(a, l) = {p} \X R
  <2>1. Named(a, l) = {<<p, rs[i]>> : i \in 1..l}
    BY <1>3 DEF Named
  <2>2. QED
    BY <2>1, <1>1
<1>5. \A i, j \in 1..l : a[i] = a[j] => i = j
  <2> SUFFICES ASSUME NEW i \in 1..l, NEW j \in 1..l, a[i] = a[j] PROVE i = j
    OBVIOUS
  <2>1. rs[i] = rs[j]
    BY <1>3
  <2>2. QED
    BY <2>1, <1>1
<1>6. QED
  BY <1>1, <1>2, <1>3, <1>4, <1>5, PutsConcat DEF a

(* A list that gives something back begins with a release.                  *)
LEMMA PutsHead ==
  ASSUME NEW t, NEW D, NEW rest, PutsThen(t, D, rest)
  PROVE  /\ t \in Seq(Entries)
         /\ D = {} => t = rest
         /\ D # {} => t # <<>> /\ Head(t).do = "put"
<1>1. PICK n \in 0..Len(t) : Puts(t, n, D) /\ Later(t, n) = rest
  BY DEF PutsThen
<1>2. /\ t \in Seq(Entries) /\ Len(t) \in Nat /\ \A i \in 1..n : t[i].do = "put"
      /\ D = {<<t[i].of, t[i].what>> : i \in 1..n}
  BY <1>1, LenProperties DEF Puts, Named
<1>3. ASSUME D = {} PROVE t = rest
  <2>1. n = 0
    <3>1. SUFFICES ASSUME n # 0 PROVE FALSE
      OBVIOUS
    <3>2. 1 \in 1..n
      BY <1>2, <3>1
    <3>3. QED
      BY <3>2, <1>2, <1>3
  <2>2. Later(t, 0) = t
    BY <1>2, SubSeqFull DEF Later
  <2>3. QED
    BY <2>1, <2>2, <1>1
<1>4. ASSUME D # {} PROVE t # <<>> /\ Head(t).do = "put"
  <2>1. n # 0
    BY <1>2, <1>4
  <2>2. 1 \in 1..n /\ Len(t) # 0
    BY <2>1, <1>2
  <2>3. t[1].do = "put" /\ t # <<>> /\ Head(t) = t[1]
    BY <2>2, <1>2
  <2>4. QED
    BY <2>3
<1>5. QED
  BY <1>2, <1>3, <1>4

(* What Release finds.                                                     *)
LEMMA PutsAll ==
  ASSUME NEW D, NEW rest, PutsThen(todo, D, rest), D # {},
         rest = <<>> \/ Head(rest).do # "put"
  PROVE  /\ Leading("put") \in 1..Len(todo) /\ Len(todo) \in Nat
         /\ \A i \in 1..Leading("put") : todo[i].what \in Resources /\ todo[i].of \in Owners
         /\ \A i, j \in 1..Leading("put") :
              <<todo[i].of, todo[i].what>> = <<todo[j].of, todo[j].what>> => i = j
         /\ Named(todo, Leading("put")) = D
         /\ SubSeq(todo, Leading("put") + 1, Len(todo)) = rest
<1>1. PICK m \in 0..Len(todo) : Puts(todo, m, D) /\ Later(todo, m) = rest
  BY DEF PutsThen
<1>2. /\ todo \in Seq(Entries) /\ Len(todo) \in Nat /\ DOMAIN todo = 1..Len(todo)
      /\ \A i \in 1..m : todo[i].do = "put" /\ todo[i].what \in Resources
      /\ \A i, j \in 1..m : todo[i] = todo[j] => i = j
      /\ D = {<<todo[i].of, todo[i].what>> : i \in 1..m}
  BY <1>1, LenProperties DEF Puts, Named
<1>3. m # 0
  BY <1>2
<1>4. ASSUME NEW i \in 1..m PROVE todo[i] \in Entries
  BY <1>2, ElementOfSeq
<1>5. ASSUME m < Len(todo) PROVE todo[m+1].do # "put"
  <2>1. /\ rest \in Seq(Entries) /\ Len(rest) = Len(todo) - m
        /\ \A i \in 1..Len(todo)-m : rest[i] = todo[m+i]
    BY <1>1, <1>2, LaterFacts
  <2>2. 1 \in 1..Len(todo)-m /\ Len(rest) # 0
    BY <1>2, <1>5, <2>1
  <2>3. rest[1] = todo[m+1] /\ rest # <<>> /\ Head(rest) = rest[1]
    BY <2>1, <2>2
  <2>4. QED
    BY <2>3
<1> DEFINE Is(n) == (\A i \in 1..n : todo[i].do = "put")
                      /\ (n < Len(todo) => todo[n+1].do # "put")
<1>6. m \in DOMAIN todo /\ Is(m)
  BY <1>2, <1>3, <1>5
<1>7. \A n \in DOMAIN todo : Is(n) => n = m
  <2> SUFFICES ASSUME NEW n \in 1..Len(todo), Is(n) PROVE n = m
    BY <1>2
  <2>1. CASE n > m
    <3>1. m + 1 \in 1..n /\ m < Len(todo)
      BY <2>1, <1>2
    <3>2. QED
      BY <3>1, <1>5
  <2>2. CASE n < m
    <3>1. n + 1 \in 1..m /\ n < Len(todo)
      BY <2>2, <1>2
    <3>2. QED
      BY <3>1, <1>2
  <2>3. QED
    BY <2>1, <2>2, <1>2
<1>8. Leading("put") = m
  BY <1>6, <1>7 DEF Leading
<1>9. ASSUME NEW i \in 1..m PROVE todo[i].what \in Resources /\ todo[i].of \in Owners
  BY <1>2, <1>4 DEF Entries
<1>10. ASSUME NEW i \in 1..m, NEW j \in 1..m,
              <<todo[i].of, todo[i].what>> = <<todo[j].of, todo[j].what>>
       PROVE  i = j
  <2>1. todo[i].do = "put" /\ todo[j].do = "put"
    BY <1>2
  <2>2. todo[i] = todo[j]
    BY <2>1, <1>4, <1>10 DEF Entries
  <2>3. QED
    BY <2>2, <1>2
<1>11. Named(todo, m) = D /\ SubSeq(todo, m + 1, Len(todo)) = rest
  BY <1>1 DEF Puts, Later
<1>12. m \in 1..Len(todo)
  BY <1>2, <1>3
<1>13. QED
  BY <1>2, <1>8, <1>9, <1>10, <1>11, <1>12

Base == {"proc", "kstack", "files_bb", "files"}
Keep == {"proc", "kstack"}
Kargs == {"kargv_bb", "kargv"}

OwnsOK == owns \in [Owners -> [Resources -> Nat]]

(* The groups of resources have nothing in common.                          *)
LEMMA ResourceFacts ==
  /\ Base \subseteq Resources /\ Kargs \subseteq Resources /\ UserSpace \subseteq Resources
  /\ Keep \subseteq Base
  /\ Base \cap UserSpace = {} /\ Base \cap Kargs = {} /\ Kargs \cap UserSpace = {}
BY DEF Base, Keep, Kargs, UserSpace, Resources, Objects, PageRuns

(* What the buffers of the arguments are, and what the first n are when    *)
(* each is complete.                                                       *)
ArgThings == {e \in Args \X Resources : e[2] \in Holds(e[1])}
KargThings(n) == {Arg(i) : i \in 1..n} \X Kargs

(* The first n arguments have their buffer.                                *)
LEMMA ArgCount ==
  ASSUME NEW n \in 0..EXEC_MAX_ARG_NUM,
         \A i \in 1..EXEC_MAX_ARG_NUM : "kargv" \in Holds(Arg(i)) <=> i <= n
  PROVE  argc = n
<1>1. /\ MAX_PID \in Nat /\ EXEC_MAX_ARG_NUM \in Nat /\ n \in Nat /\ n <= EXEC_MAX_ARG_NUM
      /\ \A i : Arg(i) = MAX_PID - 1 + i
  BY PidAssumption, TableAssumption DEF Arg
<1>2. \A i \in 1..EXEC_MAX_ARG_NUM : owns[Arg(i)]["kargv"] # 0 <=> i <= n
  BY DEF Holds, Resources, PageRuns
<1> DEFINE A == {a \in Args : owns[a]["kargv"] # 0}
<1>3. A = MAX_PID .. MAX_PID - 1 + n
  <2>1. ASSUME NEW a \in A PROVE a \in MAX_PID .. MAX_PID - 1 + n
    <3>1. PICK i \in 1..EXEC_MAX_ARG_NUM : a = Arg(i)
      BY DEF Args
    <3>2. i <= n /\ a = MAX_PID - 1 + i
      BY <3>1, <1>1, <1>2
    <3>3. QED
      BY <3>2, <1>1
  <2>2. ASSUME NEW a \in MAX_PID .. MAX_PID - 1 + n PROVE a \in A
    <3>1. a - MAX_PID + 1 \in 1..EXEC_MAX_ARG_NUM /\ a - MAX_PID + 1 <= n
          /\ a = MAX_PID - 1 + (a - MAX_PID + 1)
      BY <1>1
    <3>2. PICK i \in 1..EXEC_MAX_ARG_NUM : i <= n /\ a = Arg(i)
      BY <3>1, <1>1
    <3>3. QED
      BY <3>2, <1>2 DEF Args
  <2>3. QED
    BY <2>1, <2>2
<1> HIDE DEF A
<1>4. Cardinality(A) = n
  <2>1. MAX_PID \in Int /\ MAX_PID - 1 + n \in Int
        /\ (IF MAX_PID > MAX_PID - 1 + n THEN 0 ELSE (MAX_PID - 1 + n) - MAX_PID + 1) = n
    BY <1>1
  <2>2. QED
    BY <1>3, <2>1, FS_Interval
<1>5. QED
  BY <1>4 DEF A, argc

(* put_kargv gives them back.                                              *)
LEMMA PutKargvPuts ==
  ASSUME NEW n \in 0..EXEC_MAX_ARG_NUM, argc = n,
         NEW t \in Seq(Entries), NEW D, NEW rest, PutsThen(t, D, rest),
         KargThings(n) \cap D = {}
  PROVE  /\ PutKargv \in Seq(Entries) /\ PutKargv \o t \in Seq(Entries)
         /\ PutsThen(PutKargv \o t, KargThings(n) \cup D, rest)
<1> DEFINE w(k) == IF k % 2 = 1 THEN "kargv" ELSE "kargv_bb"
           x(k) == n - (k - 1) \div 2
           e(k) == [do |-> "put", what |-> w(k), of |-> Arg(x(k))]
           a == PutKargv
<1>1. n \in Nat /\ EXEC_MAX_ARG_NUM \in Nat /\ n <= EXEC_MAX_ARG_NUM /\ 2 * n \in Nat
  BY TableAssumption
<1>2. ASSUME NEW k \in 1..2*n
      PROVE  /\ x(k) \in 1..n /\ k = 2 * (n - x(k)) + (IF k % 2 = 1 THEN 1 ELSE 2)
             /\ w(k) \in Kargs
  <2>1. x(k) \in 1..n /\ k = 2 * (n - x(k)) + (IF k % 2 = 1 THEN 1 ELSE 2)
    BY <1>1
  <2>2. QED
    BY <2>1 DEF Kargs
<1>3. a = [k \in 1..2*n |-> e(k)]
  BY DEF PutKargv
<1>4. \A k \in 1..2*n : e(k) \in Entries /\ e(k).do = "put" /\ e(k).what = w(k)
                        /\ e(k).of = Arg(x(k)) /\ w(k) \in Resources
  <2> SUFFICES ASSUME NEW k \in 1..2*n
               PROVE  e(k) \in Entries /\ w(k) \in Resources
    OBVIOUS
  <2>1. x(k) \in 1..EXEC_MAX_ARG_NUM /\ w(k) \in Resources
    BY <1>1, <1>2, ResourceFacts
  <2> HIDE DEF w, x
  <2>2. Arg(x(k)) \in Owners
    BY <2>1, ArgFacts
  <2>3. QED
    BY <2>1, <2>2 DEF Entries
<1> HIDE DEF e, a
<1>5. /\ a \in Seq(Entries) /\ Len(a) = 2 * n
      /\ \A k \in 1..2*n : a[k] = e(k)
  BY <1>1, <1>3, <1>4
<1>6. \A k \in 1..2*n : a[k].do = "put" /\ a[k].what = w(k) /\ a[k].of = Arg(x(k))
                        /\ a[k].what \in Resources
  BY <1>4, <1>5
<1>7. Named(a, 2 * n) = KargThings(n)
  <2>1. Named(a, 2 * n) = {<<Arg(x(k)), w(k)>> : k \in 1..2*n}
    BY <1>6, Zenon DEF Named
  <2>2. ASSUME NEW k \in 1..2*n PROVE <<Arg(x(k)), w(k)>> \in KargThings(n)
    <3> HIDE DEF w, x
    <3> QED BY <1>2 DEF KargThings
  <2>3. ASSUME NEW i \in 1..n, NEW r \in Kargs
        PROVE  \E k \in 1..2*n : x(k) = i /\ w(k) = r
    <3>1. /\ 2*(n-i)+1 \in 1..2*n /\ x(2*(n-i)+1) = i /\ (2*(n-i)+1) % 2 = 1
          /\ 2*(n-i)+2 \in 1..2*n /\ x(2*(n-i)+2) = i /\ (2*(n-i)+2) % 2 = 0
      BY <1>1
    <3>2. r = "kargv" \/ r = "kargv_bb"
      BY DEF Kargs
    <3> HIDE DEF x
    <3>3. CASE r = "kargv"
      BY <3>1, <3>3
    <3>4. CASE r = "kargv_bb"
      BY <3>1, <3>4
    <3>5. QED
      BY <3>2, <3>3, <3>4
  <2> HIDE DEF w, x
  <2>4. ASSUME NEW i \in 1..n, NEW r \in Kargs PROVE <<Arg(i), r>> \in Named(a, 2 * n)
    BY <2>1, <2>3
  <2>5. QED
    BY <2>1, <2>2, <2>4 DEF KargThings
<1>8. ASSUME NEW k \in 1..2*n, NEW j \in 1..2*n, a[k] = a[j] PROVE k = j
  <2>1. w(k) = w(j) /\ Arg(x(k)) = Arg(x(j))
    BY <1>6, <1>8
  <2>2. x(k) \in 1..EXEC_MAX_ARG_NUM /\ x(j) \in 1..EXEC_MAX_ARG_NUM
    BY <1>1, <1>2
  <2>3. x(k) = x(j)
    <3> HIDE DEF x
    <3> QED BY <2>1, <2>2, ArgFacts
  <2>4. k % 2 = 1 <=> j % 2 = 1
    BY <2>1
  <2> HIDE DEF w, x
  <2>5. QED
    BY <2>3, <2>4, <1>2
<1>9. a \o t \in Seq(Entries) /\ PutsThen(a \o t, KargThings(n) \cup D, rest)
  <2>1. /\ Len(a) = 2 * n /\ a \in Seq(Entries) /\ KargThings(n) = Named(a, Len(a))
        /\ \A k \in 1..Len(a) : a[k].do = "put" /\ a[k].what \in Resources
        /\ \A k, j \in 1..Len(a) : a[k] = a[j] => k = j
    BY <1>5, <1>6, <1>7, <1>8
  <2> HIDE DEF w, x
  <2>2. QED
    BY <2>1, PutsConcat
<1>10. QED
  BY <1>5, <1>9 DEF a

(* Held names r if p has it.                                                *)
LEMMA HeldLists ==
  ASSUME NEW p, NEW r \in Resources
  PROVE  Lists(Held(p, r), Holds(p) \cap {r})
<1>1. CASE owns[p][r] # 0
  <2>1. Holds(p) \cap {r} = {r} /\ Held(p, r) = <<r>>
    BY <1>1 DEF Holds, Held
  <2>2. QED
    BY <2>1, ListsOne
<1>2. CASE owns[p][r] = 0
  <2>1. Holds(p) \cap {r} = {} /\ Held(p, r) = <<>>
    BY <1>2 DEF Holds, Held
  <2>2. QED
    BY <2>1, ListsEmpty
<1>3. QED
  BY <1>1, <1>2

(* The releases of exit_mmap, put_pgdir and mm_destroy are the memory that *)
(* is there.                                                               *)
LEMMA MmLists ==
  ASSUME NEW p, "mm" \in Holds(p), "pgdir" \in Holds(p)
  PROVE  Lists(ExitMmap(p) \o <<"pgdir">> \o MmDestroy(p), Holds(p) \cap UserSpace)
<1> DEFINE h(r) == Held(p, r)
           H(R) == Holds(p) \cap R
<1>0. UserSpace \subseteq Resources
  BY ResourceFacts
<1>1. \A r \in UserSpace : Lists(h(r), H({r}))
  BY <1>0, HeldLists
<1>2. Lists(h("text"), H({"text"})) /\ Lists(h("stack"), H({"stack"}))
      /\ Lists(h("text_pt"), H({"text_pt"})) /\ Lists(h("stack_pt"), H({"stack_pt"}))
      /\ Lists(h("text_vma"), H({"text_vma"})) /\ Lists(h("stack_vma"), H({"stack_vma"}))
  <2> HIDE DEF h, H
  <2> QED BY <1>1 DEF UserSpace
<1> HIDE DEF h
<1>3. Lists(h("text") \o h("stack"), H({"text"}) \cup H({"stack"}))
  <2>1. H({"text"}) \cap H({"stack"}) = {}
    OBVIOUS
  <2> HIDE DEF H
  <2> QED BY <1>2, <2>1, ListsConcat
<1>4. Lists(h("text") \o h("stack") \o h("text_pt"),
            H({"text"}) \cup H({"stack"}) \cup H({"text_pt"}))
  <2>1. (H({"text"}) \cup H({"stack"})) \cap H({"text_pt"}) = {}
    OBVIOUS
  <2> HIDE DEF H
  <2> QED BY <1>2, <1>3, <2>1, ListsConcat
<1>5. Lists(h("text") \o h("stack") \o h("text_pt") \o h("stack_pt"),
            H({"text"}) \cup H({"stack"}) \cup H({"text_pt"}) \cup H({"stack_pt"}))
  <2>1. (H({"text"}) \cup H({"stack"}) \cup H({"text_pt"})) \cap H({"stack_pt"}) = {}
    OBVIOUS
  <2> HIDE DEF H
  <2> QED BY <1>2, <1>4, <2>1, ListsConcat
<1>6. H({"text"}) \cup H({"stack"}) \cup H({"text_pt"}) \cup H({"stack_pt"})
        = H({"text", "stack", "text_pt", "stack_pt"})
  OBVIOUS
<1>7. Lists(ExitMmap(p), H({"text", "stack", "text_pt", "stack_pt"}))
  <2> HIDE DEF H
  <2> QED BY <1>5, <1>6 DEF ExitMmap, h
<1>8. Lists(<<"pgdir">>, {"pgdir"}) /\ Lists(<<"mm">>, {"mm"})
  BY ListsOne DEF Resources, Objects, PageRuns
<1>9. Lists(ExitMmap(p) \o <<"pgdir">>,
            H({"text", "stack", "text_pt", "stack_pt"}) \cup {"pgdir"})
  <2>1. H({"text", "stack", "text_pt", "stack_pt"}) \cap {"pgdir"} = {}
    OBVIOUS
  <2> HIDE DEF H
  <2> QED BY <1>7, <1>8, <2>1, ListsConcat
<1>10. Lists(h("text_vma") \o h("stack_vma"), H({"text_vma"}) \cup H({"stack_vma"}))
  <2>1. H({"text_vma"}) \cap H({"stack_vma"}) = {}
    OBVIOUS
  <2> HIDE DEF H
  <2> QED BY <1>2, <2>1, ListsConcat
<1>11. Lists(MmDestroy(p), H({"text_vma"}) \cup H({"stack_vma"}) \cup {"mm"})
  <2>1. (H({"text_vma"}) \cup H({"stack_vma"})) \cap {"mm"} = {}
    OBVIOUS
  <2>2. Lists(h("text_vma") \o h("stack_vma") \o <<"mm">>,
              H({"text_vma"}) \cup H({"stack_vma"}) \cup {"mm"})
    <3> HIDE DEF H
    <3> QED BY <1>8, <1>10, <2>1, ListsConcat
  <2>3. QED
    BY <2>2 DEF MmDestroy, h
<1>12. Lists(ExitMmap(p) \o <<"pgdir">> \o MmDestroy(p),
             (H({"text", "stack", "text_pt", "stack_pt"}) \cup {"pgdir"})
               \cup (H({"text_vma"}) \cup H({"stack_vma"}) \cup {"mm"}))
  <2>1. (H({"text", "stack", "text_pt", "stack_pt"}) \cup {"pgdir"})
          \cap (H({"text_vma"}) \cup H({"stack_vma"}) \cup {"mm"}) = {}
    OBVIOUS
  <2> HIDE DEF H
  <2> QED BY <1>9, <1>11, <2>1, ListsConcat
<1>13. (H({"text", "stack", "text_pt", "stack_pt"}) \cup {"pgdir"})
         \cup (H({"text_vma"}) \cup H({"stack_vma"}) \cup {"mm"}) = Holds(p) \cap UserSpace
  BY DEF UserSpace
<1>14. QED
  BY <1>12, <1>13

(* copy_mm and load_icode that could not have r undo what they had.        *)
LEMMA MmCleanupLists ==
  ASSUME NEW r,
         \/ r = "mm" /\ Holds(New) \cap UserSpace = {}
         \/ r = "pgdir" /\ Holds(New) \cap UserSpace = {"mm"}
         \/ r \notin {"mm", "pgdir"} /\ "mm" \in Holds(New) /\ "pgdir" \in Holds(New)
  PROVE  Lists(MmCleanup(r), Holds(New) \cap UserSpace)
<1>1. CASE r = "mm" /\ Holds(New) \cap UserSpace = {}
  <2>1. MmCleanup(r) = <<>>
    BY <1>1 DEF MmCleanup
  <2>2. QED
    BY <1>1, <2>1, ListsEmpty
<1>2. CASE r = "pgdir" /\ Holds(New) \cap UserSpace = {"mm"}
  <2>1. MmCleanup(r) = <<"mm">>
    BY <1>2 DEF MmCleanup
  <2>2. "mm" \in Resources
    BY DEF Resources, Objects
  <2>3. QED
    BY <1>2, <2>1, <2>2, ListsOne
<1>3. CASE r \notin {"mm", "pgdir"} /\ "mm" \in Holds(New) /\ "pgdir" \in Holds(New)
  <2>1. MmCleanup(r) = ExitMmap(New) \o <<"pgdir">> \o MmDestroy(New)
    BY <1>3 DEF MmCleanup
  <2>2. QED
    BY <1>3, <2>1, MmLists
<1>4. QED
  BY <1>1, <1>2, <1>3

(* The memory of p is given back before t.                                 *)
LEMMA DropMmPuts ==
  ASSUME NEW p \in Owners, Holds(p) \cap UserSpace \in {{}, UserSpace},
         NEW t \in Seq(Entries), NEW D, NEW rest, PutsThen(t, D, rest),
         ({p} \X UserSpace) \cap D = {}
  PROVE  /\ DropMm(p) \o t \in Seq(Entries) /\ DropMm(p) \in Seq(Entries)
         /\ PutsThen(DropMm(p) \o t, ({p} \X (Holds(p) \cap UserSpace)) \cup D, rest)
<1>0. IsUser(p) <=> "mm" \in Holds(p) \cap UserSpace
  BY DEF IsUser, Holds, UserSpace, Resources, Objects
<1>1. CASE Holds(p) \cap UserSpace = {}
  <2>1. DropMm(p) = <<>>
    BY <1>0, <1>1 DEF DropMm
  <2>2. DropMm(p) \o t = t /\ DropMm(p) \in Seq(Entries)
    BY <2>1, ConcatEmptySeq
  <2>3. ({p} \X (Holds(p) \cap UserSpace)) \cup D = D
    BY <1>1
  <2>4. QED
    BY <2>2, <2>3
<1>2. CASE Holds(p) \cap UserSpace = UserSpace
  <2> DEFINE rs == ExitMmap(p) \o <<"pgdir">> \o MmDestroy(p)
  <2>1. "mm" \in Holds(p) \cap UserSpace /\ "pgdir" \in Holds(p) \cap UserSpace
    BY <1>2 DEF UserSpace
  <2>2. Lists(rs, Holds(p) \cap UserSpace)
    BY <2>1, MmLists
  <2>3. DropMm(p) = Put(p, rs)
    BY <2>1, <1>0 DEF DropMm
  <2> HIDE DEF rs
  <2>4. ({p} \X (Holds(p) \cap UserSpace)) \cap D = {}
    BY <1>2
  <2>5. /\ Put(p, rs) \o t \in Seq(Entries)
        /\ PutsThen(Put(p, rs) \o t, ({p} \X (Holds(p) \cap UserSpace)) \cup D, rest)
    BY <2>2, <2>4, PutsMore
  <2>6. Put(p, rs) \in Seq(Entries)
    BY <2>2, PutFacts DEF Lists
  <2>7. QED
    BY <2>3, <2>5, <2>6
<1>3. QED
  BY <1>1, <1>2

(* put_fs gives back the two parts of the file table.                       *)
LEMMA FilesLists ==
  /\ Lists(<<"files", "files_bb">>, {"files", "files_bb"})
  /\ Lists(<<"kargv_bb">>, {"kargv_bb"})
  /\ Lists(<<"kstack", "proc">>, Keep)
  /\ Lists(<<"pgdir", "mm">>, {"pgdir", "mm"})
<1>1. {"files", "files_bb", "kargv", "kargv_bb", "kstack", "proc", "pgdir", "mm"} \subseteq Resources
  BY DEF Resources, Objects, PageRuns
<1>2. QED
  BY <1>1, ListsOne, ListsTwo DEF Kargs, Keep

(* What do_exit still has to give back.                                    *)
LEMMA ExitOpsPuts ==
  ASSUME NEW p \in Owners, Holds(p) \cap UserSpace \in {{}, UserSpace}
  PROVE  /\ ExitOps(p) \in Seq(Entries)
         /\ PutsThen(ExitOps(p),
                     {p} \X ((Holds(p) \cap UserSpace) \cup {"files", "files_bb"}),
                     Do("zombie"))
<1> DEFINE z == Do("zombie")
           f == Put(p, <<"files", "files_bb">>)
           M == Holds(p) \cap UserSpace
           Fs == {"files", "files_bb"}
<1>1. z \in Seq(Entries) /\ PutsThen(z, {}, z)
  BY DoFacts, PutsNone DEF Steps
<1>2. f \in Seq(Entries)
  BY FilesLists, PutFacts DEF Lists
<1> HIDE DEF z
<1>3. f \o z \in Seq(Entries) /\ PutsThen(f \o z, ({p} \X Fs) \cup {}, z)
  BY <1>1, FilesLists, PutsMore
<1>4. ({p} \X Fs) \cup {} = {p} \X Fs /\ ({p} \X UserSpace) \cap ({p} \X Fs) = {}
  BY DEF UserSpace
<1> HIDE DEF f, Fs
<1>5. /\ DropMm(p) \o (f \o z) \in Seq(Entries) /\ DropMm(p) \in Seq(Entries)
      /\ PutsThen(DropMm(p) \o (f \o z), ({p} \X M) \cup ({p} \X Fs), z)
  <2>1. PutsThen(f \o z, {p} \X Fs, z)
    BY <1>3, <1>4
  <2>2. QED
    BY <1>3, <1>4, <2>1, DropMmPuts
<1>6. ExitOps(p) = DropMm(p) \o (f \o z)
  BY <1>1, <1>2, <1>5, ConcatAssociative DEF ExitOps, f, z
<1>7. ({p} \X M) \cup ({p} \X Fs) = {p} \X (M \cup Fs)
  OBVIOUS
<1>8. QED
  BY <1>5, <1>6, <1>7 DEF z, Fs

ForkSeq(user) == <<"proc", "kstack", "files_bb", "files">>
                   \o IF user
                        THEN <<"mm", "pgdir", "stack_vma", "stack_pt", "stack",
                               "text_vma", "text_pt", "text">>
                        ELSE <<>>
ArgSeq == <<"kargv_bb", "kargv">>
MmSeq == <<"mm", "pgdir">>
TextSeq == <<"text_vma", "text", "text_pt">>
StackSeq == <<"stack_vma", "stack", "stack_pt">>

Normal == {Base, Base \cup UserSpace}

Settled(p) ==
  IF p = init THEN status[p] = "live" /\ Holds(p) = {}
  ELSE CASE status[p] = "free" -> Holds(p) = {}
         [] status[p] = "zombie" -> Holds(p) = Keep
         [] OTHER -> Holds(p) \in Normal

AllSettled == \A p \in Pids : Settled(p)
Others(q) == \A p \in Pids \ {q} : Settled(p)
Live == status[caller] = "live"
CallEnds == {<<>>, Do("user_main")}

(* The call is getting what S names for p, which has X besides.            *)
Taking(p, S, d, X) ==
  \E k \in 0..Len(S) : Gets(todo, p, S, k, d) /\ Holds(p) = X \cup Upto(S, k)

(* The arguments that have been copied are the first n, or some.           *)
HasArgs(n) == \A i \in 1..EXEC_MAX_ARG_NUM : Holds(Arg(i)) = IF i <= n THEN Kargs ELSE {}
SomeArgs == \E n \in 0..EXEC_MAX_ARG_NUM : HasArgs(n)
NoArgs == \A a \in Args : Holds(a) = {}

AtRest == call = "none" /\ todo = <<>> /\ Holds(New) = {} /\ NoArgs /\ AllSettled

Forks == call = "fork" /\ Live /\ NoArgs /\ AllSettled
ForkTakes == Forks /\ Taking(New, ForkSeq(IsUser(caller)), "get_pid", {})
ForkUndoes == Forks /\ todo # <<>> /\ \E u \in CallEnds : PutsThen(todo, {New} \X Holds(New), u)

Execs == call = "exec" /\ caller # init /\ Live /\ Others(caller)
Copies == Execs /\ Holds(New) = {} /\ Holds(caller) \in Normal
ExecCopies == Copies /\ NoArgs /\ todo = Do("copy")
ExecArgs ==
  /\ Copies
  /\ \E n \in 1..EXEC_MAX_ARG_NUM :
       /\ \A i \in 1..EXEC_MAX_ARG_NUM : i # n => Holds(Arg(i)) = IF i < n THEN Kargs ELSE {}
       /\ Taking(Arg(n), ArgSeq, "copy", {})
ExecOpens == Copies /\ SomeArgs /\ todo = Do("open")
ExecUndoes == Copies /\ todo # <<>> /\ \E u \in CallEnds : PutsThen(todo, ArgThings, u)
ExecDrops ==
  /\ Execs /\ Holds(New) = {} /\ Holds(caller) = Base \cup UserSpace /\ SomeArgs
  /\ \E rest : Gets(rest, New, MmSeq, 0, "elf") /\ PutsThen(todo, {caller} \X UserSpace, rest)
Loads(S, d, X) == Execs /\ Holds(caller) = Base /\ SomeArgs /\ Taking(New, S, d, X)
LoadsMm == Loads(MmSeq, "elf", {})
LoadsText == Loads(TextSeq, "read", {"mm", "pgdir"})
LoadsStack == Loads(StackSeq, "set_mm", {"mm", "pgdir", "text_vma", "text", "text_pt"})

Dies ==
  /\ call \in {"exec", "exit"} /\ caller # init /\ Live /\ Others(caller)
  /\ Keep \subseteq Holds(caller)
  /\ PutsThen(todo, ({New} \X Holds(New)) \cup ArgThings \cup ({caller} \X (Holds(caller) \ Keep)),
              Do("zombie"))
Adopts ==
  /\ call \in {"exec", "exit"} /\ caller # init /\ status[caller] = "zombie"
  /\ AllSettled /\ Holds(New) = {} /\ NoArgs /\ todo = Do("adopt")
Reaps ==
  /\ call = "wait" /\ Live /\ Holds(New) = {} /\ NoArgs
  /\ \E c \in Pids \ {init} : /\ Others(c) /\ status[c] = "free" /\ Holds(c) = Keep
                               /\ PutsThen(todo, {c} \X Keep, <<>>)

Phases ==
  \/ AtRest \/ ForkTakes \/ ForkUndoes
  \/ ExecCopies \/ ExecArgs \/ ExecOpens \/ ExecUndoes \/ ExecDrops
  \/ LoadsMm \/ LoadsText \/ LoadsStack
  \/ Dies \/ Adopts \/ Reaps

CallInv == OwnsOK /\ CallerInv /\ Phases

(* What is held by the arguments, in these terms.                          *)
LEMMA ArgThingsFacts ==
  /\ NoArgs <=> ArgThings = {}
  /\ NoArgs <=> HasArgs(0)
  /\ \A n \in 0..EXEC_MAX_ARG_NUM : HasArgs(n) => argc = n /\ ArgThings = KargThings(n)
  /\ \A a \in Args, x \in Resources : <<a, x>> \in ArgThings <=> x \in Holds(a)
  /\ ArgThings \subseteq Args \X Resources
<1>0. EXEC_MAX_ARG_NUM \in Nat
  BY TableAssumption
<1>1. \A a \in Args, x \in Resources : <<a, x>> \in ArgThings <=> x \in Holds(a)
  BY DEF ArgThings
<1>2. NoArgs <=> ArgThings = {}
  <2>1. \A a \in Args : Holds(a) \subseteq Resources
    BY DEF Holds
  <2>2. ASSUME ArgThings = {} PROVE NoArgs
    <3>1. ASSUME NEW a \in Args, NEW x \in Holds(a) PROVE FALSE
      BY <1>1, <2>1, <2>2, <3>1
    <3>2. QED
      BY <3>1 DEF NoArgs
  <2>3. ASSUME NoArgs PROVE ArgThings = {}
    BY <2>3 DEF NoArgs, ArgThings
  <2>4. QED
    BY <2>2, <2>3
<1>3. NoArgs <=> HasArgs(0)
  <2>1. \A i \in 1..EXEC_MAX_ARG_NUM : ~(i <= 0)
    BY <1>0
  <2>2. QED
    BY <2>1, ArgFacts DEF NoArgs, HasArgs, Args
<1>4. ASSUME NEW n \in 0..EXEC_MAX_ARG_NUM, HasArgs(n)
      PROVE  argc = n /\ ArgThings = KargThings(n)
  <2>1. \A i \in 1..EXEC_MAX_ARG_NUM : "kargv" \in Holds(Arg(i)) <=> i <= n
    BY <1>4 DEF HasArgs, Kargs
  <2>2. argc = n
    BY <2>1, ArgCount
  <2>3. ASSUME NEW a \in Args, NEW x \in Resources, <<a, x>> \in ArgThings
        PROVE  <<a, x>> \in KargThings(n)
    <3>1. PICK i \in 1..EXEC_MAX_ARG_NUM : a = Arg(i)
      BY DEF Args
    <3>2. x \in Holds(Arg(i))
      BY <2>3, <3>1 DEF ArgThings
    <3>3. i <= n /\ x \in Kargs
      BY <3>2, <1>4 DEF HasArgs
    <3>4. i \in 1..n
      BY <3>3, <1>0
    <3>5. QED
      BY <3>1, <3>3, <3>4 DEF KargThings
  <2>4. ASSUME NEW i \in 1..n, NEW x \in Kargs PROVE <<Arg(i), x>> \in ArgThings
    <3>1. i \in 1..EXEC_MAX_ARG_NUM /\ i <= n
      BY <1>0
    <3>2. x \in Holds(Arg(i)) /\ x \in Resources /\ Arg(i) \in Args
      BY <3>1, <1>4, ResourceFacts, ArgFacts DEF HasArgs
    <3>3. QED
      BY <3>2 DEF ArgThings
  <2>5. ArgThings \subseteq KargThings(n)
    BY <2>3 DEF ArgThings
  <2>6. KargThings(n) \subseteq ArgThings
    BY <2>4 DEF KargThings
  <2>7. QED
    BY <2>2, <2>5, <2>6
<1>5. ArgThings \subseteq Args \X Resources
  BY DEF ArgThings
<1>6. QED
  BY <1>1, <1>2, <1>3, <1>4, <1>5

(* The lists of do_execve and load_icode, entry by entry,                   *)
LEMMA SeqFacts ==
  /\ ArgSeq \in Seq(Resources) /\ Len(ArgSeq) = 2
  /\ ArgSeq[1] = "kargv_bb" /\ ArgSeq[2] = "kargv"
  /\ MmSeq \in Seq(Resources) /\ Len(MmSeq) = 2 /\ MmSeq[1] = "mm" /\ MmSeq[2] = "pgdir"
  /\ TextSeq \in Seq(Resources) /\ Len(TextSeq) = 3
  /\ TextSeq[1] = "text_vma" /\ TextSeq[2] = "text" /\ TextSeq[3] = "text_pt"
  /\ StackSeq \in Seq(Resources) /\ Len(StackSeq) = 3
  /\ StackSeq[1] = "stack_vma" /\ StackSeq[2] = "stack" /\ StackSeq[3] = "stack_pt"
<1>1. {"kargv_bb", "kargv", "mm", "pgdir", "text_vma", "text", "text_pt",
       "stack_vma", "stack", "stack_pt"} \subseteq Resources
  BY DEF Resources, Objects, PageRuns
<1>2. QED
  BY <1>1 DEF ArgSeq, MmSeq, TextSeq, StackSeq

(* and that of do_fork.                                                     *)
LEMMA ForkSeqFacts ==
  /\ ForkSeq(FALSE) \in Seq(Resources) /\ Len(ForkSeq(FALSE)) = 4
  /\ ForkSeq(TRUE) \in Seq(Resources) /\ Len(ForkSeq(TRUE)) = 12
  /\ \A u \in BOOLEAN : /\ ForkSeq(u)[1] = "proc" /\ ForkSeq(u)[2] = "kstack"
                        /\ ForkSeq(u)[3] = "files_bb" /\ ForkSeq(u)[4] = "files"
  /\ ForkSeq(TRUE)[5] = "mm" /\ ForkSeq(TRUE)[6] = "pgdir"
  /\ ForkSeq(TRUE)[7] = "stack_vma" /\ ForkSeq(TRUE)[8] = "stack_pt" /\ ForkSeq(TRUE)[9] = "stack"
  /\ ForkSeq(TRUE)[10] = "text_vma" /\ ForkSeq(TRUE)[11] = "text_pt" /\ ForkSeq(TRUE)[12] = "text"
<1> DEFINE a == <<"proc", "kstack", "files_bb", "files">>
           b == <<"mm", "pgdir", "stack_vma", "stack_pt", "stack",
                  "text_vma", "text_pt", "text">>
<1>1. /\ a \in Seq(Resources) /\ Len(a) = 4
      /\ a[1] = "proc" /\ a[2] = "kstack" /\ a[3] = "files_bb" /\ a[4] = "files"
  BY DEF Resources, Objects, PageRuns
<1>2. /\ b \in Seq(Resources) /\ Len(b) = 8
      /\ b[1] = "mm" /\ b[2] = "pgdir" /\ b[3] = "stack_vma" /\ b[4] = "stack_pt"
      /\ b[5] = "stack" /\ b[6] = "text_vma" /\ b[7] = "text_pt" /\ b[8] = "text"
  <2>1. {"mm", "pgdir", "stack_vma", "stack_pt", "stack", "text_vma", "text_pt", "text"}
          \subseteq Resources
    BY DEF Resources, Objects, PageRuns
  <2>2. QED
    BY <2>1
<1>3. ForkSeq(FALSE) = a \o <<>> /\ ForkSeq(TRUE) = a \o b
  BY DEF ForkSeq
<1> HIDE DEF a, b
<1>4. ForkSeq(FALSE) = a
  BY <1>1, <1>3, ConcatEmptySeq
<1>5. /\ a \o b \in Seq(Resources) /\ Len(a \o b) = Len(a) + Len(b)
      /\ \A i \in 1..Len(a)+Len(b) : (a \o b)[i] = IF i <= Len(a) THEN a[i] ELSE b[i-Len(a)]
  BY <1>1, <1>2, ConcatProperties, Zenon
<1>6. Len(a) + Len(b) = 12
  BY <1>1, <1>2
<1>7. \A i \in 1..12 : (a \o b)[i] = IF i <= 4 THEN a[i] ELSE b[i-4]
  BY <1>1, <1>5, <1>6
<1> DEFINE c == a \o b
<1> HIDE DEF c
<1>70. \A i \in 1..12 : c[i] = IF i <= 4 THEN a[i] ELSE b[i-4]
  BY <1>7 DEF c
<1>8. c[1] = "proc" /\ c[2] = "kstack" /\ c[3] = "files_bb" /\ c[4] = "files"
  <2>1. c[1] = a[1] /\ c[2] = a[2] /\ c[3] = a[3] /\ c[4] = a[4]
    BY <1>70
  <2>2. QED
    BY <2>1, <1>1
<1>9. /\ c[5] = b[1] /\ c[6] = b[2] /\ c[7] = b[3] /\ c[8] = b[4]
      /\ c[9] = b[5] /\ c[10] = b[6] /\ c[11] = b[7] /\ c[12] = b[8]
  <2>1. \A i \in 5..12 : c[i] = b[i-4]
    <3>1. \A i \in 5..12 : i \in 1..12 /\ ~(i <= 4)
      OBVIOUS
    <3>2. QED
      BY <3>1, <1>70
  <2>2. QED
    BY <2>1
<1>10. ASSUME NEW u \in BOOLEAN
       PROVE  /\ ForkSeq(u)[1] = "proc" /\ ForkSeq(u)[2] = "kstack"
              /\ ForkSeq(u)[3] = "files_bb" /\ ForkSeq(u)[4] = "files"
  <2>1. CASE u = TRUE
    BY <2>1, <1>3, <1>8 DEF c
  <2>2. CASE u = FALSE
    BY <2>2, <1>1, <1>4
  <2>3. QED
    BY <2>1, <2>2
<1>11. QED
  BY <1>1, <1>2, <1>3, <1>4, <1>5, <1>6, <1>9, <1>10 DEF c

(* What a list names up to its k-th entry, none at first and then one more; *)
LEMMA UptoFacts ==
  ASSUME NEW S, NEW k \in Nat
  PROVE  Upto(S, 0) = {} /\ Upto(S, k + 1) = Upto(S, k) \cup {S[k+1]}
<1>1. 1..0 = {} /\ 1..k+1 = (1..k) \cup {k+1}
  OBVIOUS
<1>2. QED
  BY <1>1 DEF Upto

(* all of it at the end, for do_execve and load_icode,                      *)
LEMMA UptoSeqs ==
  /\ Upto(ArgSeq, 2) = Kargs /\ Upto(ArgSeq, 1) = {"kargv_bb"}
  /\ Upto(MmSeq, 2) = {"mm", "pgdir"} /\ Upto(MmSeq, 1) = {"mm"}
  /\ Upto(TextSeq, 3) = {"text_vma", "text", "text_pt"}
  /\ Upto(StackSeq, 3) = {"stack_vma", "stack", "stack_pt"}
<1>1. \A S : /\ Upto(S, 1) = {S[1]}
             /\ Upto(S, 2) = {S[1], S[2]}
             /\ Upto(S, 3) = {S[1], S[2], S[3]}
  <2>1. 1..1 = {1} /\ 1..2 = {1, 2} /\ 1..3 = {1, 2, 3}
    OBVIOUS
  <2>2. QED
    BY <2>1 DEF Upto
<1>2. QED
  BY <1>1, SeqFacts DEF Kargs

(* and for do_fork.                                                         *)
LEMMA UptoFork ==
  /\ \A u \in BOOLEAN : /\ Upto(ForkSeq(u), 1) = {"proc"}
                        /\ Upto(ForkSeq(u), 2) = {"proc", "kstack"}
                        /\ Upto(ForkSeq(u), 3) = {"proc", "kstack", "files_bb"}
                        /\ Upto(ForkSeq(u), 4) = Base
  /\ Upto(ForkSeq(TRUE), 5) = Base \cup {"mm"}
  /\ \A k \in 6..12 : \E M \in SUBSET UserSpace :
       {"mm", "pgdir"} \subseteq M /\ Upto(ForkSeq(TRUE), k) = Base \cup M
  /\ Upto(ForkSeq(TRUE), 12) = Base \cup UserSpace
<1> DEFINE s == ForkSeq(TRUE)
<1>0. 1..1 = {1} /\ 1..2 = {1, 2} /\ 1..3 = {1, 2, 3} /\ 1..4 = {1, 2, 3, 4}
  OBVIOUS
<1>1. ASSUME NEW u \in BOOLEAN
      PROVE  /\ Upto(ForkSeq(u), 1) = {"proc"}
             /\ Upto(ForkSeq(u), 2) = {"proc", "kstack"}
             /\ Upto(ForkSeq(u), 3) = {"proc", "kstack", "files_bb"}
             /\ Upto(ForkSeq(u), 4) = Base
  <2>1. /\ ForkSeq(u)[1] = "proc" /\ ForkSeq(u)[2] = "kstack"
        /\ ForkSeq(u)[3] = "files_bb" /\ ForkSeq(u)[4] = "files"
    BY ForkSeqFacts
  <2>2. QED
    BY <1>0, <2>1 DEF Upto, Base
<1>2. /\ s[5] = "mm" /\ s[6] = "pgdir" /\ s[7] = "stack_vma" /\ s[8] = "stack_pt"
      /\ s[9] = "stack" /\ s[10] = "text_vma" /\ s[11] = "text_pt" /\ s[12] = "text"
  BY ForkSeqFacts
<1>3. Upto(s, 4) = Base
  BY <1>1
<1> HIDE DEF s
<1>4. Upto(s, 5) = Base \cup {"mm"}
  <2>1. Upto(s, 4+1) = Upto(s, 4) \cup {s[4+1]}
    BY UptoFacts
  <2>2. QED
    BY <2>1, <1>2, <1>3
<1>5. Upto(s, 6) = Base \cup {"mm", "pgdir"}
  <2>1. Upto(s, 5+1) = Upto(s, 5) \cup {s[5+1]}
    BY UptoFacts
  <2>2. QED
    BY <2>1, <1>2, <1>4
<1>6. Upto(s, 7) = Base \cup {"mm", "pgdir", "stack_vma"}
  <2>1. Upto(s, 6+1) = Upto(s, 6) \cup {s[6+1]}
    BY UptoFacts
  <2>2. QED
    BY <2>1, <1>2, <1>5
<1>7. Upto(s, 8) = Base \cup {"mm", "pgdir", "stack_vma", "stack_pt"}
  <2>1. Upto(s, 7+1) = Upto(s, 7) \cup {s[7+1]}
    BY UptoFacts
  <2>2. QED
    BY <2>1, <1>2, <1>6
<1>8. Upto(s, 9) = Base \cup {"mm", "pgdir", "stack_vma", "stack_pt", "stack"}
  <2>1. Upto(s, 8+1) = Upto(s, 8) \cup {s[8+1]}
    BY UptoFacts
  <2>2. QED
    BY <2>1, <1>2, <1>7
<1>9. Upto(s, 10) = Base \cup {"mm", "pgdir", "stack_vma", "stack_pt", "stack", "text_vma"}
  <2>1. Upto(s, 9+1) = Upto(s, 9) \cup {s[9+1]}
    BY UptoFacts
  <2>2. QED
    BY <2>1, <1>2, <1>8
<1>10. Upto(s, 11) = Base \cup {"mm", "pgdir", "stack_vma", "stack_pt", "stack", "text_vma",
                                "text_pt"}
  <2>1. Upto(s, 10+1) = Upto(s, 10) \cup {s[10+1]}
    BY UptoFacts
  <2>2. QED
    BY <2>1, <1>2, <1>9
<1>11. Upto(s, 12) = Base \cup UserSpace
  <2>1. Upto(s, 11+1) = Upto(s, 11) \cup {s[11+1]}
    BY UptoFacts
  <2>2. QED
    BY <2>1, <1>2, <1>10 DEF UserSpace
<1>12. ASSUME NEW k \in 6..12
       PROVE  \E M \in SUBSET UserSpace :
                {"mm", "pgdir"} \subseteq M /\ Upto(s, k) = Base \cup M
  <2> DEFINE Has(M) == M \subseteq UserSpace /\ {"mm", "pgdir"} \subseteq M
                         /\ Upto(s, k) = Base \cup M
  <2>1. CASE k = 6
    <3>1. Has({"mm", "pgdir"})
      BY <2>1, <1>5 DEF UserSpace
    <3>2. QED
      BY <3>1
  <2>2. CASE k = 7
    <3>1. Has({"mm", "pgdir", "stack_vma"})
      BY <2>2, <1>6 DEF UserSpace
    <3>2. QED
      BY <3>1
  <2>3. CASE k = 8
    <3>1. Has({"mm", "pgdir", "stack_vma", "stack_pt"})
      BY <2>3, <1>7 DEF UserSpace
    <3>2. QED
      BY <3>1
  <2>4. CASE k = 9
    <3>1. Has({"mm", "pgdir", "stack_vma", "stack_pt", "stack"})
      BY <2>4, <1>8 DEF UserSpace
    <3>2. QED
      BY <3>1
  <2>5. CASE k = 10
    <3>1. Has({"mm", "pgdir", "stack_vma", "stack_pt", "stack", "text_vma"})
      BY <2>5, <1>9 DEF UserSpace
    <3>2. QED
      BY <3>1
  <2>6. CASE k = 11
    <3>1. Has({"mm", "pgdir", "stack_vma", "stack_pt", "stack", "text_vma", "text_pt"})
      BY <2>6, <1>10 DEF UserSpace
    <3>2. QED
      BY <3>1
  <2>7. CASE k = 12
    <3>1. Has(UserSpace)
      BY <2>7, <1>11 DEF UserSpace
    <3>2. QED
      BY <3>1
  <2>8. QED
    BY <2>1, <2>2, <2>3, <2>4, <2>5, <2>6, <2>7
<1>13. QED
  BY <1>1, <1>4, <1>11, <1>12 DEF s

(* What a step that hands out or takes back does to what is held.          *)
LEMMA HoldsGive ==
  ASSUME OwnsOK, NEW p \in Owners, NEW r \in Resources, NEW x \in Nat \ {0}, Give(p, r, x)
  PROVE  /\ OwnsOK'
         /\ Holds(p)' = Holds(p) \cup {r}
         /\ \A q \in Owners : q # p => Holds(q)' = Holds(q)
<1>1. /\ owns' = [owns EXCEPT ![p][r] = x]
      /\ owns \in [Owners -> [Resources -> Nat]]
  BY DEF Give, OwnsOK
<1>2. OwnsOK'
  BY <1>1 DEF OwnsOK
<1>3. \A q \in Owners, s \in Resources :
        owns'[q][s] = IF q = p /\ s = r THEN x ELSE owns[q][s]
  BY <1>1
<1>4. Holds(p)' = Holds(p) \cup {r}
  BY <1>3 DEF Holds
<1>5. \A q \in Owners : q # p => Holds(q)' = Holds(q)
  BY <1>3 DEF Holds
<1>6. QED
  BY <1>2, <1>4, <1>5

(* When the first n entries are taken or given back in one step.            *)
LEMMA GivesAll ==
  ASSUME NEW n, NEW x
  PROVE  GiveAll(n, x) <=>
           owns' = [p \in Owners |->
                     [r \in Resources |-> IF <<p, r>> \in Named(todo, n) THEN x ELSE owns[p][r]]]
<1>1. \A p, r : r \in Moved(n, p) <=> <<p, r>> \in Named(todo, n)
  BY DEF Moved, Named
<1> DEFINE F(p) == [r \in Resources |-> IF r \in Moved(n, p) THEN x ELSE owns[p][r]]
           G(p) == [r \in Resources |-> IF <<p, r>> \in Named(todo, n) THEN x ELSE owns[p][r]]
<1>2. \A p : F(p) = G(p)
  BY <1>1
<1>3. GiveAll(n, x) <=> owns' = [p \in Owners |-> F(p)]
  BY DEF GiveAll
<1> HIDE DEF F, G
<1>4. [p \in Owners |-> F(p)] = [p \in Owners |-> G(p)]
  BY <1>2
<1>5. QED
  BY <1>3, <1>4 DEF G

LEMMA HoldsGiveAll ==
  ASSUME OwnsOK, NEW n, NEW x \in Nat, GiveAll(n, x)
  PROVE  /\ OwnsOK'
         /\ \A q \in Owners :
              Holds(q)' = IF x = 0 THEN {r \in Holds(q) : <<q, r>> \notin Named(todo, n)}
                          ELSE Holds(q) \cup {r \in Resources : <<q, r>> \in Named(todo, n)}
<1> DEFINE N == Named(todo, n)
<1>1. /\ owns' = [p \in Owners |->
                    [r \in Resources |-> IF <<p, r>> \in N THEN x ELSE owns[p][r]]]
      /\ owns \in [Owners -> [Resources -> Nat]]
  BY GivesAll DEF OwnsOK
<1> HIDE DEF N
<1>2. OwnsOK'
  BY <1>1 DEF OwnsOK
<1>3. \A q \in Owners, s \in Resources :
        owns'[q][s] = IF <<q, s>> \in N THEN x ELSE owns[q][s]
  BY <1>1
<1>4. ASSUME NEW q \in Owners
      PROVE  Holds(q)' = IF x = 0 THEN {r \in Holds(q) : <<q, r>> \notin N}
                          ELSE Holds(q) \cup {r \in Resources : <<q, r>> \in N}
  BY <1>3 DEF Holds
<1>5. QED
  BY <1>2, <1>4 DEF N

(* A process that has what it had is settled as it was.                     *)
LEMMA SettledSame ==
  ASSUME NEW p \in Pids, status'[p] = status[p], Holds(p)' = Holds(p), Settled(p)
  PROVE  Settled(p)'
BY DEF Settled

(* The next thing is to be taken, or else w is to be done.                 *)
Asks(w) == todo # <<>> /\ (Op.do = "get" \/ (Op.do = "do" /\ Op.what = w))
(* The next thing is to be given back, or else w is to be done.            *)
Returns(w) == todo # <<>> /\ (Op.do = "put" \/ (Op.do = "do" /\ Op.what = w))

(* What comes next is to be got, or all has been got.                       *)
LEMMA TakingAsks ==
  ASSUME NEW p, NEW S \in Seq(Resources), NEW d, NEW X, Taking(p, S, d, X)
  PROVE  Asks(d)
<1>1. PICK k \in 0..Len(S) : Gets(todo, p, S, k, d)
  BY DEF Taking
<1>2. todo # <<>> /\ Len(S) \in Nat
  BY <1>1, GetsHead, LenProperties
<1>3. CASE k < Len(S)
  <2>1. Head(todo) = [do |-> "get", what |-> S[k+1], of |-> p]
    BY <1>1, <1>3, GetsHead
  <2>2. QED
    BY <1>2, <2>1 DEF Asks, Op
<1>4. CASE ~(k < Len(S))
  <2>1. Head(todo) = [do |-> "do", what |-> d, of |-> New]
    BY <1>1, <1>4, GetsHead
  <2>2. QED
    BY <1>2, <2>1 DEF Asks, Op
<1>5. QED
  BY <1>3, <1>4

(* What PutsThen finds next.                                               *)
LEMMA PutsReturns ==
  ASSUME NEW D, NEW w \in Steps, PutsThen(todo, D, Do(w))
  PROVE  Returns(w) /\ (Op.do = "do" => D = {} /\ todo = Do(w))
<1>1. CASE D = {}
  <2>1. todo = Do(w)
    BY <1>1, PutsHead
  <2>2. todo # <<>> /\ Head(todo) = [do |-> "do", what |-> w, of |-> New]
    BY <2>1, DoFacts
  <2>3. QED
    BY <1>1, <2>1, <2>2 DEF Returns, Op
<1>2. CASE D # {}
  BY <1>2, PutsHead DEF Returns, Op
<1>3. QED
  BY <1>1, <1>2

(* When the releases are done, the rest comes next.                         *)
LEMMA PutsLast ==
  ASSUME NEW D, PutsThen(todo, D, <<>>), todo # <<>>
  PROVE  Op.do = "put" /\ D # {}
BY PutsHead DEF Op

(* The call and the entry that comes next tell the phase.                   *)
LEMMA PhaseHeads ==
  /\ AtRest => call = "none" /\ todo = <<>>
  /\ ForkTakes => call # "none" /\ Asks("get_pid")
  /\ ForkUndoes => call # "none" /\ Returns("user_main")
  /\ ExecCopies => call # "none" /\ todo # <<>> /\ Op = [do |-> "do", what |-> "copy", of |-> New]
  /\ ExecArgs => call # "none" /\ Asks("copy")
  /\ ExecOpens => call # "none" /\ todo # <<>> /\ Op = [do |-> "do", what |-> "open", of |-> New]
  /\ ExecUndoes => call # "none" /\ Returns("user_main")
  /\ ExecDrops => call # "none" /\ todo # <<>> /\ Op.do = "put"
  /\ LoadsMm => call # "none" /\ Asks("elf")
  /\ LoadsText => call # "none" /\ Asks("read")
  /\ LoadsStack => call # "none" /\ Asks("set_mm")
  /\ Dies => call # "none" /\ Returns("zombie")
  /\ Adopts => call # "none" /\ todo # <<>> /\ Op = [do |-> "do", what |-> "adopt", of |-> New]
  /\ Reaps => call # "none" /\ todo # <<>> /\ Op.do = "put"
<1>1. AtRest => call = "none" /\ todo = <<>>
  BY DEF AtRest
<1>2. ASSUME ForkTakes PROVE call # "none" /\ Asks("get_pid")
  <2>1. ForkSeq(IsUser(caller)) \in Seq(Resources)
    <3>1. IsUser(caller) \in BOOLEAN
      BY DEF IsUser
    <3>2. QED
      BY <3>1, ForkSeqFacts
  <2>2. QED
    BY <1>2, <2>1, TakingAsks DEF ForkTakes, Forks
<1>3. ASSUME NEW D, NEW u \in CallEnds, PutsThen(todo, D, u), todo # <<>>
      PROVE  Returns("user_main")
  <2>1. CASE u = <<>>
    BY <1>3, <2>1, PutsLast DEF Returns
  <2>2. CASE u = Do("user_main")
    BY <1>3, <2>2, PutsReturns DEF Steps
  <2>3. QED
    BY <2>1, <2>2 DEF CallEnds
<1>4. ForkUndoes => call # "none" /\ Returns("user_main")
  BY <1>3 DEF ForkUndoes, Forks
<1>5. ASSUME ExecArgs PROVE call # "none" /\ Asks("copy")
  BY <1>5, SeqFacts, TakingAsks DEF ExecArgs, Copies, Execs
<1>6. ExecUndoes => call # "none" /\ Returns("user_main")
  BY <1>3 DEF ExecUndoes, Copies, Execs
<1>7. ASSUME ExecDrops PROVE call # "none" /\ todo # <<>> /\ Op.do = "put"
  <2>1. PICK rest : PutsThen(todo, {caller} \X UserSpace, rest)
    BY <1>7 DEF ExecDrops
  <2>2. <<caller, "mm">> \in {caller} \X UserSpace
    BY DEF UserSpace
  <2>3. QED
    BY <1>7, <2>1, <2>2, PutsHead DEF ExecDrops, Execs, Op
<1>8. ASSUME NEW S \in Seq(Resources), NEW d, NEW X, Loads(S, d, X)
      PROVE  call # "none" /\ Asks(d)
  BY <1>8, TakingAsks DEF Loads, Execs
<1>9. ASSUME NEW p, NEW R, "proc" \in R, PutsThen(todo, {p} \X R, <<>>)
      PROVE  todo # <<>> /\ Op.do = "put"
  <2>1. \A r \in R : <<p, r>> \in {p} \X R
    OBVIOUS
  <2>2. QED
    BY <1>9, <2>1, PutsHead DEF Op
<1>10. ASSUME NEW d \in Steps, todo = Do(d)
       PROVE  todo # <<>> /\ Op = [do |-> "do", what |-> d, of |-> New]
  BY <1>10, DoFacts DEF Op
<1>101. ExecCopies => /\ call # "none" /\ todo # <<>>
                      /\ Op = [do |-> "do", what |-> "copy", of |-> New]
  BY <1>10 DEF ExecCopies, Copies, Execs, Steps
<1>102. ExecOpens => /\ call # "none" /\ todo # <<>>
                     /\ Op = [do |-> "do", what |-> "open", of |-> New]
  BY <1>10 DEF ExecOpens, Copies, Execs, Steps
<1>11. ASSUME Dies PROVE call # "none" /\ Returns("zombie")
  BY <1>11, PutsReturns DEF Dies, Steps
<1>12. ASSUME Adopts
       PROVE  call # "none" /\ todo # <<>> /\ Op = [do |-> "do", what |-> "adopt", of |-> New]
  BY <1>12, DoFacts DEF Adopts, Steps, Op
<1>13. ASSUME Reaps PROVE call # "none" /\ todo # <<>> /\ Op.do = "put"
  BY <1>13, <1>9 DEF Reaps, Keep
<1>14. LoadsMm => call # "none" /\ Asks("elf")
  BY <1>8, SeqFacts DEF LoadsMm
<1>15. LoadsText => call # "none" /\ Asks("read")
  BY <1>8, SeqFacts DEF LoadsText
<1>16. LoadsStack => call # "none" /\ Asks("set_mm")
  BY <1>8, SeqFacts DEF LoadsStack
<1>17. QED
  BY <1>1, <1>2, <1>4, <1>5, <1>6, <1>7, <1>101, <1>102, <1>11, <1>12, <1>13, <1>14, <1>15, <1>16

(* The next resource is had, or, with plenty of memory, all that come next.*)
LEMMA TakingOne ==
  ASSUME OwnsOK, NEW p \in Owners, NEW S \in Seq(Resources), NEW d, NEW X,
         Taking(p, S, d, X), Op.do = "get", d \in Steps,
         NEW x \in Nat \ {0}, Give(Op.of, Op.what, x), todo' = Tail(todo)
  PROVE  /\ OwnsOK' /\ Taking(p, S, d, X)' /\ todo' # <<>>
         /\ \A q \in Owners : q # p => Holds(q)' = Holds(q)
<1>1. PICK k \in 0..Len(S) : Gets(todo, p, S, k, d) /\ Holds(p) = X \cup Upto(S, k)
  BY DEF Taking
<1>2. Len(S) \in Nat
  BY LenProperties
<1>3. k < Len(S)
  <2>1. SUFFICES ASSUME ~(k < Len(S)) PROVE FALSE
    OBVIOUS
  <2>2. Head(todo) = [do |-> "do", what |-> d, of |-> New]
    BY <1>1, <2>1, GetsHead
  <2>3. QED
    BY <2>2 DEF Op
<1>4. /\ Head(todo) = [do |-> "get", what |-> S[k+1], of |-> p]
      /\ S[k+1] \in Resources /\ Gets(Tail(todo), p, S, k + 1, d)
  BY <1>1, <1>3, GetsHead
<1>5. Give(p, S[k+1], x)
  BY <1>4 DEF Op
<1>6. /\ OwnsOK' /\ Holds(p)' = Holds(p) \cup {S[k+1]}
      /\ \A q \in Owners : q # p => Holds(q)' = Holds(q)
  BY <1>4, <1>5, HoldsGive
<1>7. Upto(S, k + 1) = Upto(S, k) \cup {S[k+1]}
  BY UptoFacts
<1>8. k + 1 \in 0..Len(S) /\ Gets(todo', p, S, k + 1, d) /\ Holds(p)' = X \cup Upto(S, k + 1)
  BY <1>1, <1>2, <1>3, <1>4, <1>6, <1>7
<1>9. Taking(p, S, d, X)'
  BY <1>8 DEF Taking
<1>10. todo' # <<>>
  BY <1>8, GetsHead
<1>11. QED
  BY <1>6, <1>9, <1>10

(* All that is to be got is got at once.                                    *)
LEMMA TakingAll ==
  ASSUME OwnsOK, NEW p \in Owners, NEW S \in Seq(Resources), NEW d, NEW X,
         Taking(p, S, d, X), Op.do = "get", d \in Steps,
         GiveAll(Leading("get"), 1), todo' = SubSeq(todo, Leading("get") + 1, Len(todo))
  PROVE  /\ OwnsOK' /\ Taking(p, S, d, X)' /\ todo' # <<>>
         /\ \A q \in Owners : q # p => Holds(q)' = Holds(q)
<1>1. PICK k \in 0..Len(S) : Gets(todo, p, S, k, d) /\ Holds(p) = X \cup Upto(S, k)
  BY DEF Taking
<1>2. Len(S) \in Nat /\ \A i \in 1..Len(S) : S[i] \in Resources
  BY LenProperties, ElementOfSeq
<1>3. k < Len(S)
  <2>1. SUFFICES ASSUME ~(k < Len(S)) PROVE FALSE
    OBVIOUS
  <2>2. Head(todo) = [do |-> "do", what |-> d, of |-> New]
    BY <1>1, <2>1, GetsHead
  <2>3. QED
    BY <2>2 DEF Op
<1>4. /\ Leading("get") = Len(S) - k
      /\ Named(todo, Len(S) - k) = {p} \X {S[i] : i \in k+1..Len(S)}
      /\ Gets(SubSeq(todo, Len(S) - k + 1, Len(todo)), p, S, Len(S), d)
  BY <1>1, <1>3, GetsAll
<1> DEFINE N == {S[i] : i \in k+1..Len(S)}
<1>5. N \subseteq Resources /\ Upto(S, Len(S)) = Upto(S, k) \cup N
  <2>1. 1..Len(S) = (1..k) \cup (k+1..Len(S))
    BY <1>2
  <2>2. \A i \in k+1..Len(S) : i \in 1..Len(S)
    BY <1>2
  <2>3. QED
    BY <1>2, <2>1, <2>2 DEF Upto
<1> HIDE DEF N
<1>6. OwnsOK' /\ \A q \in Owners :
        Holds(q)' = Holds(q) \cup {r \in Resources : <<q, r>> \in {p} \X N}
  <2>1. Named(todo, Leading("get")) = {p} \X N /\ 1 \in Nat /\ 1 # 0
    BY <1>4 DEF N
  <2>2. QED
    BY <2>1, HoldsGiveAll
<1>7. Holds(p)' = Holds(p) \cup N /\ \A q \in Owners : q # p => Holds(q)' = Holds(q)
  BY <1>5, <1>6
<1>8. Gets(todo', p, S, Len(S), d) /\ Holds(p)' = X \cup Upto(S, Len(S)) /\ Len(S) \in 0..Len(S)
  BY <1>1, <1>2, <1>4, <1>5, <1>7
<1>9. Taking(p, S, d, X)'
  BY <1>8 DEF Taking
<1>10. todo' # <<>>
  BY <1>8, GetsHead
<1>11. QED
  BY <1>6, <1>7, <1>9, <1>10

(* What is still to be given back is given back.                           *)
LEMMA PutsStep ==
  ASSUME OwnsOK, NEW D, NEW rest, PutsThen(todo, D, rest), Op.do = "put", todo # <<>>,
         rest = <<>> \/ Head(rest).do # "put",
         GiveAll(Leading("put"), 0), todo' = SubSeq(todo, Leading("put") + 1, Len(todo))
  PROVE  /\ OwnsOK' /\ todo' = rest /\ rest \in Seq(Entries)
         /\ \A q \in Owners : Holds(q)' = {r \in Holds(q) : <<q, r>> \notin D}
<1>1. D # {}
  BY PutsHead DEF Op
<1>2. Named(todo, Leading("put")) = D /\ SubSeq(todo, Leading("put") + 1, Len(todo)) = rest
  BY <1>1, PutsAll
<1>3. /\ OwnsOK'
      /\ \A q \in Owners : Holds(q)' = {r \in Holds(q) : <<q, r>> \notin D}
  BY <1>2, HoldsGiveAll
<1>4. rest \in Seq(Entries)
  BY LaterFacts DEF PutsThen, Puts
<1>5. QED
  BY <1>2, <1>3, <1>4

(* The get fails: the call goes on with r for it.                          *)
Lacks(p, S, X, r) ==
  \E k \in 0..Len(S) : /\ k < Len(S) /\ r = S[k+1] /\ r \in Resources
                       /\ Holds(p) = X \cup Upto(S, k)

(* What comes next cannot be had: what has been got is what comes before.   *)
LEMMA TakingFails ==
  ASSUME NEW p, NEW S \in Seq(Resources), NEW d, NEW X, Taking(p, S, d, X), Doing("get", ""),
         NEW r, r = Op.what
  PROVE  Lacks(p, S, X, r)
<1>1. PICK k \in 0..Len(S) : Gets(todo, p, S, k, d) /\ Holds(p) = X \cup Upto(S, k)
  BY DEF Taking
<1>2. k < Len(S)
  <2>1. SUFFICES ASSUME ~(k < Len(S)) PROVE FALSE
    OBVIOUS
  <2>2. Head(todo) = [do |-> "do", what |-> d, of |-> New]
    BY <1>1, <2>1, GetsHead
  <2>3. QED
    BY <2>2 DEF Op, Doing
<1>3. Head(todo) = [do |-> "get", what |-> S[k+1], of |-> p] /\ S[k+1] \in Resources
  BY <1>1, <1>2, GetsHead
<1>4. Op.what = S[k+1]
  <2>1. Head(todo) = [do |-> "get", what |-> S[k+1], of |-> p]
    BY <1>3
  <2>2. QED
    BY ONLY <2>1 DEF Op
<1>5. r = S[k+1] /\ r \in Resources
  BY <1>3, <1>4
<1>6. QED
  BY <1>1, <1>2, <1>5 DEF Lacks

(* All has been had: d is what comes.                                      *)
LEMMA TakingDone ==
  ASSUME NEW p, NEW S \in Seq(Resources), NEW d, NEW X, Taking(p, S, d, X), Op.do = "do"
  PROVE  Holds(p) = X \cup Upto(S, Len(S)) /\ Tail(todo) = <<>> /\ Op.what = d
<1>1. PICK k \in 0..Len(S) : Gets(todo, p, S, k, d) /\ Holds(p) = X \cup Upto(S, k)
  BY DEF Taking
<1>2. ~(k < Len(S))
  <2>1. SUFFICES ASSUME k < Len(S) PROVE FALSE
    OBVIOUS
  <2>2. Head(todo) = [do |-> "get", what |-> S[k+1], of |-> p]
    BY <1>1, <2>1, GetsHead
  <2>3. QED
    BY <2>2 DEF Op
<1>3. k = Len(S) /\ Head(todo) = [do |-> "do", what |-> d, of |-> New] /\ Tail(todo) = <<>>
  BY <1>1, <1>2, GetsHead
<1>4. QED
  BY <1>1, <1>3 DEF Op

(* It is about to get the first.                                           *)
LEMMA TakingStarts ==
  ASSUME NEW p \in Owners, NEW S \in Seq(Resources), NEW d \in Steps, NEW X,
         todo' = Get(p, S) \o Do(d), Holds(p)' = X
  PROVE  Taking(p, S, d, X)' /\ todo' # <<>>
<1>1. Gets(todo', p, S, 0, d)
  BY GetsStart
<1>2. Upto(S, 0) = {} /\ 0 \in 0..Len(S)
  BY UptoFacts, LenProperties
<1>3. Taking(p, S, d, X)'
  BY <1>1, <1>2 DEF Taking
<1>4. QED
  BY <1>1, <1>3, GetsHead

(* A step that leaves status, owns and the call alone.                      *)
LEMMA CallStutter ==
  ASSUME CallInv, UNCHANGED <<status, owns, call, caller, todo>>
  PROVE  CallInv'
<1>1. /\ OwnsOK' /\ CallerInv'
      /\ \A p : Holds(p)' = Holds(p)
      /\ \A p : Settled(p)' <=> Settled(p)
      /\ Live' <=> Live
      /\ IsUser(caller)' <=> IsUser(caller)
      /\ NoArgs' <=> NoArgs
      /\ SomeArgs' <=> SomeArgs
      /\ ArgThings' = ArgThings
  BY DEF CallInv, OwnsOK, CallerInv, Holds, Settled, Live, IsUser, NoArgs, SomeArgs, HasArgs, ArgThings
<1>2. Forks' <=> Forks
  BY <1>1 DEF Forks, AllSettled
<1>3. Execs' <=> Execs
  BY <1>1 DEF Execs, Others
<1>4. \A p, S, d, X : Taking(p, S, d, X)' <=> Taking(p, S, d, X)
  BY <1>1 DEF Taking
<1>50. PICK S : S = ForkSeq(IsUser(caller))
  OBVIOUS
<1>51. S = ForkSeq(IsUser(caller)')
  <2>1. IsUser(caller)' = IsUser(caller)
    BY DEF IsUser
  <2>2. QED
    BY <1>50, <2>1
<1>52. ForkTakes => ForkTakes'
  <2>1. ForkTakes => Taking(New, S, "get_pid", {})
    BY <1>50 DEF ForkTakes
  <2>2. QED
    BY <1>2, <1>4, <1>51, <2>1 DEF ForkTakes
<1>5. /\ AtRest => AtRest'
      /\ ForkTakes => ForkTakes'
      /\ ForkUndoes => ForkUndoes'
  BY <1>1, <1>2, <1>52 DEF AtRest, ForkUndoes, AllSettled
<1>53. Copies' <=> Copies
  BY <1>1, <1>3 DEF Copies
<1>6. /\ ExecCopies => ExecCopies'
      /\ ExecArgs => ExecArgs'
      /\ ExecOpens => ExecOpens'
      /\ ExecUndoes => ExecUndoes'
      /\ ExecDrops => ExecDrops'
  BY <1>1, <1>3, <1>53, <1>4 DEF ExecCopies, ExecArgs, ExecOpens, ExecUndoes, ExecDrops
<1>7. /\ LoadsMm => LoadsMm'
      /\ LoadsText => LoadsText'
      /\ LoadsStack => LoadsStack'
  BY <1>1, <1>3, <1>4 DEF LoadsMm, LoadsText, LoadsStack, Loads
<1>8. /\ Dies => Dies'
      /\ Adopts => Adopts'
      /\ Reaps => Reaps'
  BY <1>1 DEF Dies, Adopts, Reaps, Others, AllSettled
<1>9. QED
  BY <1>1, <1>5, <1>6, <1>7, <1>8 DEF CallInv, Phases

(* Nobody takes anything or gives it back.                                  *)
LEMMA SameHolds ==
  ASSUME OwnsOK, UNCHANGED <<owns, status>>
  PROVE  /\ OwnsOK'
         /\ \A p \in Owners : Holds(p)' = Holds(p)
         /\ \A p \in Pids : Settled(p) => Settled(p)'
         /\ NoArgs => NoArgs'
         /\ ArgThings' = ArgThings
BY DEF OwnsOK, Holds, Settled, NoArgs, ArgThings

(* Between calls.                                                           *)
LEMMA AtRestFacts ==
  ASSUME CallInv, call = "none"
  PROVE  AtRest /\ OwnsOK /\ CallerInv
BY PhaseHeads DEF CallInv, Phases

(* A call begins.                                                           *)
LEMMA EnterCaller ==
  ASSUME CallInv, NEW p \in Pids, NEW name, NEW ops, Enter(p, name, ops), UNCHANGED status
  PROVE  CallerInv' /\ caller' = p /\ status[p] = "live" /\ call' = name /\ todo' = ops /\ AtRest
<1>1. caller' = p /\ status[p] = "live" /\ call = "none" /\ call' = name /\ todo' = ops
  BY DEF Enter
<1>2. AtRest
  BY <1>1, AtRestFacts
<1>3. CallerInv'
  BY <1>1 DEF CallInv, CallerInv
<1>4. QED
  BY <1>1, <1>2, <1>3

(* do_fork, do_execve and do_exit begin.                                    *)
LEMMA ForkCall == ASSUME CallInv, NEW p \in Pids, Fork(p) PROVE CallInv'
<1>1. PICK u \in BOOLEAN : u = IsUser(p)
  BY DEF IsUser
<1>2. /\ Enter(p, "fork", Get(New, ForkSeq(u)) \o Do("get_pid"))
      /\ UNCHANGED <<owns, status>>
  BY <1>1 DEF Fork, ForkSeq, tree
<1>3. /\ CallerInv' /\ caller' = p /\ status[p] = "live" /\ call' = "fork"
      /\ todo' = Get(New, ForkSeq(u)) \o Do("get_pid") /\ AtRest
  BY <1>2, EnterCaller
<1>4. /\ OwnsOK' /\ Holds(New)' = {} /\ NoArgs'
      /\ AllSettled'
  BY <1>2, <1>3, SameHolds, OwnerFacts DEF CallInv, AtRest, AllSettled
<1>5. ForkSeq(u) \in Seq(Resources)
  BY ForkSeqFacts
<1>6. Taking(New, ForkSeq(u), "get_pid", {})'
  BY <1>3, <1>4, <1>5, OwnerFacts, TakingStarts DEF Steps
<1>7. IsUser(caller)' = u
  BY <1>1, <1>2, <1>3 DEF IsUser
<1>8. Forks'
  BY <1>2, <1>3, <1>4 DEF Forks, Live
<1>9. ForkTakes'
  BY <1>6, <1>7, <1>8 DEF ForkTakes
<1>10. QED
  BY <1>3, <1>4, <1>9 DEF CallInv, Phases

(* A user process or one that has just been forked by init_main.           *)
LEMMA SettledLive ==
  ASSUME AllSettled, NEW p \in Pids \ {init}, status[p] = "live"
  PROVE  Holds(p) \in Normal
BY DEF AllSettled, Settled

(* A process with an mm is neither initproc nor a zombie.                   *)
LEMMA SettledUser ==
  ASSUME AllSettled, CallerInv, NEW p \in Pids, IsUser(p)
  PROVE  /\ p # init /\ (status[p] = "live" => Holds(p) = Base \cup UserSpace)
         /\ status[p] = "live"
<1>1. "mm" \in Holds(p) /\ "mm" \notin Base /\ "mm" \notin Keep
  BY DEF IsUser, Holds, Resources, Objects, Base, Keep
<1>2. Settled(p) /\ status[p] \in {"free", "live", "zombie"}
  BY DEF AllSettled, CallerInv
<1>3. QED
  BY <1>1, <1>2 DEF Settled, Normal

LEMMA ExecCall == ASSUME CallInv, NEW p \in Pids, Exec(p) PROVE CallInv'
<1>2. /\ Enter(p, "exec", Do("copy")) /\ p # init
      /\ UNCHANGED <<owns, status>>
  BY DEF Exec, tree
<1>3. /\ CallerInv' /\ caller' = p /\ status[p] = "live" /\ call' = "exec"
      /\ todo' = Do("copy") /\ AtRest
  BY <1>2, EnterCaller
<1>4. /\ OwnsOK' /\ Holds(New)' = {} /\ Holds(p)' = Holds(p) /\ NoArgs'
      /\ AllSettled'
  BY <1>2, <1>3, SameHolds, OwnerFacts DEF CallInv, AtRest, AllSettled
<1>5. Holds(p) \in Normal
  BY <1>2, <1>3, SettledLive DEF AtRest
<1>6. Execs'
  BY <1>2, <1>3, <1>4 DEF Execs, Live, Others, AllSettled
<1>7. Holds(caller)' \in Normal
  <2>1. PICK h \in Normal : h = Holds(p)
    BY <1>5
  <2>2. Holds(caller)' = h
    BY <1>3, <1>4, <2>1
  <2>3. QED
    BY <2>2
<1>8. ExecCopies'
  BY <1>3, <1>4, <1>6, <1>7 DEF ExecCopies, Copies, Normal
<1>9. QED
  BY <1>3, <1>4, <1>8 DEF CallInv, Phases

LEMMA ExitCall == ASSUME CallInv, NEW p \in Pids, Exit(p) PROVE CallInv'
<1>2. /\ Enter(p, "exit", ExitOps(p)) /\ p # init /\ IsUser(p)
      /\ UNCHANGED <<owns, status>>
  BY DEF Exit, tree
<1>3. /\ CallerInv' /\ caller' = p /\ status[p] = "live" /\ call' = "exit"
      /\ todo' = ExitOps(p) /\ AtRest
  BY <1>2, EnterCaller
<1>4. /\ OwnsOK' /\ Holds(New)' = {} /\ Holds(p)' = Holds(p) /\ NoArgs /\ NoArgs'
      /\ AllSettled' /\ ArgThings' = {}
  BY <1>2, <1>3, SameHolds, OwnerFacts, ArgThingsFacts DEF CallInv, AtRest, AllSettled
<1>5. Holds(p) = Base \cup UserSpace
  BY <1>2, <1>3, SettledUser DEF AtRest, CallInv
<1>6. /\ Holds(p) \cap UserSpace = UserSpace
      /\ UserSpace \cup {"files", "files_bb"} = Holds(p) \ Keep
      /\ Keep \subseteq Holds(p)
  BY <1>5 DEF Base, Keep, UserSpace
<1>7. PutsThen(ExitOps(p), {p} \X (Holds(p) \ Keep), Do("zombie"))
  BY <1>6, ExitOpsPuts, OwnerFacts
<1>8. PICK H : H = Holds(p)
  OBVIOUS
<1>9. PutsThen(todo', ({New} \X {}) \cup {} \cup ({p} \X (H \ Keep)), Do("zombie"))
  BY <1>3, <1>7, <1>8
<1>10. Dies'
  <2>1. PutsThen(todo', ({New} \X Holds(New)') \cup ArgThings' \cup ({caller'} \X (Holds(caller)' \ Keep)), Do("zombie"))
    BY <1>3, <1>4, <1>8, <1>9
  <2>2. Live' /\ Others(caller)' /\ (Keep \subseteq Holds(caller))'
    BY <1>2, <1>3, <1>4, <1>6 DEF Live, Others, AllSettled
  <2>3. QED
    BY <1>2, <1>3, <2>1, <2>2 DEF Dies
<1>11. QED
  BY <1>3, <1>4, <1>10 DEF CallInv, Phases

(* do_wait: the zombie has its stack and its proc_struct to give back.      *)
LEMMA WaitCall ==
  ASSUME CallInv, NEW p \in Pids, NEW c \in Pids, Wait(p, c)
  PROVE  CallInv'
<1>2. /\ Enter(p, "wait", Put(c, <<"kstack", "proc">>))
      /\ status[c] = "zombie"
      /\ status' = [status EXCEPT ![c] = "free"] /\ owns' = owns
  BY DEF Wait, tree
<1>3. /\ caller' = p /\ status[p] = "live" /\ call = "none" /\ call' = "wait"
      /\ todo' = Put(c, <<"kstack", "proc">>)
  BY <1>2 DEF Enter
<1>4. AtRest /\ CallerInv /\ OwnsOK
  BY <1>3, AtRestFacts
<1>5. CallerInv' /\ p # c
  BY <1>2, <1>3, <1>4 DEF CallerInv
<1>6. OwnsOK' /\ (\A q \in Owners : Holds(q)' = Holds(q)) /\ NoArgs'
  BY <1>2, <1>4 DEF OwnsOK, Holds, AtRest, NoArgs
<1>7. c # init /\ Holds(c) = Keep
  <2>1. Settled(c)
    BY <1>4 DEF AtRest, AllSettled
  <2>2. QED
    BY <1>2, <2>1 DEF Settled
<1>8. Others(c)' /\ Live' /\ (status[c] = "free")'
  <2>1. status \in [Pids -> {"free", "live", "zombie"}]
    BY <1>4 DEF CallerInv
  <2>2. ASSUME NEW q \in Pids \ {c} PROVE Settled(q)'
    <3>1. status'[q] = status[q] /\ Holds(q)' = Holds(q) /\ Settled(q)
      BY <1>2, <1>4, <1>6, <2>1, OwnerFacts DEF AtRest, AllSettled
    <3>2. QED
      BY <3>1, SettledSame
  <2>3. QED
    BY <1>2, <1>3, <1>5, <2>1, <2>2 DEF Others, Live
<1>9. PutsThen(todo', {c} \X Keep, <<>>)
  <2>1. <<>> \in Seq(Entries) /\ PutsThen(<<>>, {}, <<>>)
    BY PutsNone, EmptyFacts
  <2>2. ({c} \X Keep) \cap {} = {} /\ c \in Owners
    BY OwnerFacts
  <2>3. PutsThen(Put(c, <<"kstack", "proc">>) \o <<>>, ({c} \X Keep) \cup {}, <<>>)
    BY <2>1, <2>2, FilesLists, PutsMore
  <2>4. <<"kstack", "proc">> \in Seq(Resources)
    BY FilesLists DEF Lists
  <2>5. Put(c, <<"kstack", "proc">>) \in Seq(Entries)
    BY <2>2, <2>4, PutFacts
  <2>6. Put(c, <<"kstack", "proc">>) \o <<>> = Put(c, <<"kstack", "proc">>)
    BY <2>5, ConcatEmptySeq
  <2>7. ({c} \X Keep) \cup {} = {c} \X Keep
    OBVIOUS
  <2>8. QED
    BY <1>3, <2>3, <2>6, <2>7
<1>10. Reaps'
  <2>1. Holds(New)' = {} /\ Holds(c)' = Keep
    BY <1>4, <1>6, <1>7, OwnerFacts DEF AtRest
  <2>2. QED
    BY <1>3, <1>6, <1>7, <1>8, <1>9, <2>1 DEF Reaps
<1>11. QED
  BY <1>5, <1>6, <1>10 DEF CallInv, Phases

(* What the next entry tells of the call.                                  *)
LEMMA PhaseOf ==
  ASSUME CallInv
  PROVE  /\ Doing("get", "") => ForkTakes \/ ExecArgs \/ LoadsMm \/ LoadsText \/ LoadsStack
         /\ Doing("put", "") => ForkUndoes \/ ExecUndoes \/ ExecDrops \/ Dies \/ Reaps
         /\ Doing("do", "get_pid") => ForkTakes
         /\ Doing("do", "copy") => ExecCopies \/ ExecArgs
         /\ Doing("do", "open") => ExecOpens
         /\ Doing("do", "elf") => LoadsMm
         /\ Doing("do", "read") => LoadsText
         /\ Doing("do", "set_mm") => LoadsStack
         /\ Doing("do", "zombie") => Dies
         /\ Doing("do", "adopt") => Adopts
<1>1. Phases
  BY DEF CallInv
<1>2. QED
  BY <1>1, PhaseHeads DEF Phases, Doing, Asks, Returns

Had ==
  \/ todo' = Tail(todo) /\ \E x \in Nat \ {0} : Give(Op.of, Op.what, x)
  \/ GiveAll(Leading("get"), 1) /\ todo' = SubSeq(todo, Leading("get") + 1, Len(todo))

(* The entry of a list that comes next has been got.                        *)
LEMMA TakingStep ==
  ASSUME OwnsOK, NEW p \in Owners, NEW S \in Seq(Resources), NEW d \in Steps, NEW X,
         Taking(p, S, d, X), Doing("get", ""), Had
  PROVE  /\ OwnsOK' /\ Taking(p, S, d, X)' /\ todo' # <<>>
         /\ \A q \in Owners : q # p => Holds(q)' = Holds(q)
<1>1. Op.do = "get"
  BY DEF Doing
<1>2. CASE todo' = Tail(todo) /\ \E x \in Nat \ {0} : Give(Op.of, Op.what, x)
  BY <1>1, <1>2, TakingOne
<1>3. CASE GiveAll(Leading("get"), 1) /\ todo' = SubSeq(todo, Leading("get") + 1, Len(todo))
  BY <1>1, <1>3, TakingAll
<1>4. QED
  BY <1>2, <1>3 DEF Had

(* Everybody but p holds what it held.                                     *)
LEMMA SettledBut ==
  ASSUME NEW p, UNCHANGED status, NEW Q \in SUBSET Pids, \A q \in Q : Settled(q),
         \A q \in Owners : q # p => Holds(q)' = Holds(q), p \notin Q
  PROVE  \A q \in Q : Settled(q)'
<1>1. SUFFICES ASSUME NEW q \in Q PROVE Settled(q)'
  OBVIOUS
<1>2. status'[q] = status[q] /\ Holds(q)' = Holds(q) /\ Settled(q) /\ q \in Pids
  BY OwnerFacts
<1>3. QED
  BY <1>2, SettledSame

(* What comes next has been got: in every phase.                            *)
LEMMA HadCall ==
  ASSUME CallInv, Doing("get", ""), Had, UNCHANGED <<status, caller>>,
         call' = IF todo' = <<>> THEN "none" ELSE call
  PROVE  CallInv'
<1> USE OwnerFacts
<1>0. OwnsOK /\ CallerInv /\ CallerInv' /\ caller \in Pids
  BY DEF CallInv, CallerInv
<1>1. CASE ForkTakes
  <2>1. PICK u \in BOOLEAN : u = IsUser(caller)
    BY DEF IsUser
  <2>2. Taking(New, ForkSeq(u), "get_pid", {}) /\ Forks
    BY <1>1, <2>1 DEF ForkTakes
  <2>3. ForkSeq(u) \in Seq(Resources)
    BY ForkSeqFacts
  <2>4. /\ OwnsOK' /\ Taking(New, ForkSeq(u), "get_pid", {})' /\ todo' # <<>>
        /\ \A q \in Owners : q # New => Holds(q)' = Holds(q)
    BY <1>0, <2>2, <2>3, TakingStep DEF Steps
  <2>5. AllSettled'
    BY <2>2, <2>4, SettledBut DEF AllSettled, Forks
  <2>6. IsUser(caller)' = u
    <3>1. PICK c \in Owners : c = caller /\ c # New
      BY <1>0
    <3>2. Holds(c)' = Holds(c)
      BY <2>4, <3>1
    <3>3. "mm" \in Resources
      BY DEF Resources, Objects
    <3>4. owns'[c]["mm"] # 0 <=> owns[c]["mm"] # 0
      BY <3>2, <3>3 DEF Holds
    <3>5. QED
      BY <2>1, <3>1, <3>4 DEF IsUser
  <2>7. Forks'
    <3>1. NoArgs'
      BY <2>2, <2>4 DEF Forks, NoArgs
    <3>2. QED
      BY <2>2, <2>4, <2>5, <3>1 DEF Forks, Live
  <2>8. ForkTakes'
    BY <2>4, <2>6, <2>7 DEF ForkTakes
  <2>9. QED
    BY <1>0, <2>4, <2>8 DEF CallInv, Phases
<1>2. CASE ExecArgs
  <2>1. PICK n \in 1..EXEC_MAX_ARG_NUM :
          /\ \A i \in 1..EXEC_MAX_ARG_NUM : i # n => Holds(Arg(i)) = IF i < n THEN Kargs ELSE {}
          /\ Taking(Arg(n), ArgSeq, "copy", {})
    BY <1>2 DEF ExecArgs
  <2>2. PICK a \in Owners : a = Arg(n) /\ a \notin Pids /\ a # New
    BY ArgFacts
  <2>3. Execs /\ Holds(New) = {} /\ Holds(caller) \in Normal
    BY <1>2 DEF ExecArgs, Copies
  <2>4. /\ OwnsOK' /\ Taking(a, ArgSeq, "copy", {})' /\ todo' # <<>>
        /\ \A q \in Owners : q # a => Holds(q)' = Holds(q)
    BY <1>0, <2>1, <2>2, SeqFacts, TakingStep DEF Steps
  <2>5. \A q \in Pids \ {caller} : Settled(q)'
    BY <2>2, <2>3, <2>4, SettledBut DEF Others, Execs
  <2>6. Execs'
    BY <2>3, <2>4, <2>5 DEF Execs, Live, Others
  <2>7. Holds(New)' = {} /\ Holds(caller)' = Holds(caller)
    BY <1>0, <2>2, <2>3, <2>4
  <2>8. \A i \in 1..EXEC_MAX_ARG_NUM : i # n => Holds(Arg(i))' = IF i < n THEN Kargs ELSE {}
    <3> SUFFICES ASSUME NEW i \in 1..EXEC_MAX_ARG_NUM, i # n
                 PROVE  Holds(Arg(i))' = IF i < n THEN Kargs ELSE {}
      OBVIOUS
    <3>1. Arg(i) \in Owners /\ Arg(i) # a
      BY <2>2, ArgFacts
    <3>2. QED
      BY <3>1, <2>1, <2>4
  <2>9. ExecArgs'
    BY <2>2, <2>3, <2>4, <2>6, <2>7, <2>8 DEF ExecArgs, Copies, Normal
  <2>10. QED
    BY <1>0, <2>4, <2>9 DEF CallInv, Phases
<1>3. ASSUME NEW S \in Seq(Resources), NEW d \in Steps, NEW X, Loads(S, d, X)
      PROVE  Loads(S, d, X)' /\ OwnsOK'
  <2>1. Execs /\ Holds(caller) = Base /\ SomeArgs /\ Taking(New, S, d, X)
    BY <1>3 DEF Loads
  <2>2. /\ OwnsOK' /\ Taking(New, S, d, X)' /\ todo' # <<>>
        /\ \A q \in Owners : q # New => Holds(q)' = Holds(q)
    BY <1>0, <2>1, TakingStep
  <2>3. \A q \in Pids \ {caller} : Settled(q)'
    BY <2>1, <2>2, SettledBut DEF Others, Execs
  <2>4. Execs'
    BY <2>1, <2>2, <2>3 DEF Execs, Live, Others
  <2>5. Holds(caller)' = Base
    BY <1>0, <2>1, <2>2
  <2>6. SomeArgs'
    <3>1. \A i \in 1..EXEC_MAX_ARG_NUM : Holds(Arg(i))' = Holds(Arg(i))
      BY <2>2, ArgFacts
    <3>2. QED
      BY <2>1, <3>1 DEF SomeArgs, HasArgs
  <2>7. QED
    BY <2>2, <2>4, <2>5, <2>6 DEF Loads
<1>4. CASE LoadsMm
  BY <1>0, <1>3, <1>4, SeqFacts DEF CallInv, Phases, LoadsMm, Steps
<1>5. CASE LoadsText
  BY <1>0, <1>3, <1>5, SeqFacts DEF CallInv, Phases, LoadsText, Steps
<1>6. CASE LoadsStack
  BY <1>0, <1>3, <1>6, SeqFacts DEF CallInv, Phases, LoadsStack, Steps
<1>7. QED
  BY <1>1, <1>2, <1>4, <1>5, <1>6, PhaseOf

(* The cleanup of copy_mm and load_icode, before it has got the areas;      *)
LEMMA CleanupLists ==
  /\ Lists(CleanupProc, {"proc"}) /\ Lists(CleanupKstack, {"proc", "kstack"})
  /\ Lists(<<"files_bb">> \o CleanupKstack, {"proc", "kstack", "files_bb"})
  /\ Lists(CleanupFs, Base)
<1>1. {"proc", "kstack", "files_bb", "files"} \subseteq Resources
  BY DEF Resources, Objects, PageRuns
<1>2. /\ Lists(CleanupProc, {"proc"}) /\ Lists(<<"kstack">>, {"kstack"})
      /\ Lists(<<"files_bb">>, {"files_bb"}) /\ Lists(<<"files", "files_bb">>, {"files", "files_bb"})
  BY <1>1, ListsOne, FilesLists DEF CleanupProc
<1>3. Lists(CleanupKstack, {"kstack"} \cup {"proc"})
  BY <1>2, ListsConcat DEF CleanupKstack
<1>4. {"kstack"} \cup {"proc"} = {"proc", "kstack"}
  OBVIOUS
<1>5. Lists(CleanupKstack, {"proc", "kstack"})
  BY <1>3, <1>4
<1> HIDE DEF CleanupProc
<1>6. Lists(<<"files_bb">> \o CleanupKstack, {"files_bb"} \cup {"proc", "kstack"})
  BY <1>2, <1>5, ListsConcat
<1>7. {"files_bb"} \cup {"proc", "kstack"} = {"proc", "kstack", "files_bb"}
  OBVIOUS
<1>8. Lists(CleanupFs, {"files", "files_bb"} \cup {"proc", "kstack"})
  BY <1>2, <1>5, ListsConcat DEF CleanupFs
<1>9. {"files", "files_bb"} \cup {"proc", "kstack"} = Base
  BY DEF Base
<1>10. QED
  BY <1>2, <1>5, <1>6, <1>7, <1>8, <1>9

(* do_fork that could not have what comes k-th undoes what it had.         *)
LEMMA ForkCleanupLists ==
  ASSUME NEW u \in BOOLEAN, NEW S, S = ForkSeq(u), NEW k \in 0..Len(S), k < Len(S),
         NEW H, H = Holds(New), H = {} \cup Upto(S, k)
  PROVE  Lists(ForkCleanup(S[k+1]), H)
<1> DEFINE r == S[k+1]
<1>0. /\ S[1] = "proc" /\ S[2] = "kstack" /\ S[3] = "files_bb" /\ S[4] = "files"
      /\ Upto(S, 1) = {"proc"} /\ Upto(S, 2) = {"proc", "kstack"}
      /\ Upto(S, 3) = {"proc", "kstack", "files_bb"}
  BY ForkSeqFacts, UptoFork
<1>1. H = Upto(S, k) /\ Len(S) \in Nat /\ k \in Nat
  <2>1. S \in Seq(Resources)
    BY ForkSeqFacts
  <2>2. QED
    BY <2>1, LenProperties
<1>2. CASE k = 0
  <2>1. r = "proc" /\ H = {}
    BY <1>0, <1>1, <1>2, UptoFacts
  <2>2. ForkCleanup(r) = <<>>
    BY <2>1 DEF ForkCleanup
  <2>3. QED
    BY <2>1, <2>2, ListsEmpty
<1>3. CASE k = 1
  <2>1. r = "kstack" /\ H = {"proc"}
    BY <1>0, <1>1, <1>3
  <2>2. ForkCleanup(r) = CleanupProc
    BY <2>1 DEF ForkCleanup
  <2>3. QED
    BY <2>1, <2>2, CleanupLists
<1>4. CASE k = 2
  <2>1. r = "files_bb" /\ H = {"proc", "kstack"}
    BY <1>0, <1>1, <1>4
  <2>2. ForkCleanup(r) = CleanupKstack
    BY <2>1 DEF ForkCleanup
  <2>3. QED
    BY <2>1, <2>2, CleanupLists
<1>5. CASE k = 3
  <2>1. r = "files" /\ H = {"proc", "kstack", "files_bb"}
    BY <1>0, <1>1, <1>5
  <2>2. ForkCleanup(r) = <<"files_bb">> \o CleanupKstack
    BY <2>1 DEF ForkCleanup
  <2>3. QED
    BY <2>1, <2>2, CleanupLists
<1>6. CASE k >= 4
  <2>1. S = ForkSeq(TRUE)
    <3>1. CASE u = FALSE
      <4>1. Len(S) = 4
        BY <3>1, ForkSeqFacts
      <4>2. QED
        BY <4>1, <1>1, <1>6
    <3>2. CASE u = TRUE
      BY <3>2
    <3>3. QED
      BY <3>1, <3>2
  <2>2. /\ Len(S) = 12 /\ S[5] = "mm" /\ S[6] = "pgdir" /\ S[7] = "stack_vma" /\ S[8] = "stack_pt"
        /\ S[9] = "stack" /\ S[10] = "text_vma" /\ S[11] = "text_pt" /\ S[12] = "text"
        /\ Upto(S, 4) = Base /\ Upto(S, 5) = Base \cup {"mm"}
        /\ \A i \in 6..12 : \E M \in SUBSET UserSpace :
             {"mm", "pgdir"} \subseteq M /\ Upto(S, i) = Base \cup M
    <3> DEFINE T == ForkSeq(TRUE)
    <3>1. /\ Len(T) = 12 /\ T[5] = "mm" /\ T[6] = "pgdir" /\ T[7] = "stack_vma" /\ T[8] = "stack_pt"
          /\ T[9] = "stack" /\ T[10] = "text_vma" /\ T[11] = "text_pt" /\ T[12] = "text"
      BY ForkSeqFacts
    <3>2. Upto(T, 4) = Base /\ Upto(T, 5) = Base \cup {"mm"}
      BY UptoFork
    <3>3. \A i \in 6..12 : \E M \in SUBSET UserSpace :
             {"mm", "pgdir"} \subseteq M /\ Upto(T, i) = Base \cup M
      BY UptoFork
    <3> HIDE DEF T
    <3>4. S = T
      BY <2>1 DEF T
    <3>5. QED
      BY <3>1, <3>2, <3>3, <3>4
  <2>3. k \in {4, 5, 6, 7, 8, 9, 10, 11}
    BY <2>2, <1>1, <1>6
  <2>4. k + 1 \in {5, 6, 7, 8, 9, 10, 11, 12}
    BY <2>3
  <2>5. r \notin {"proc", "kstack", "files_bb", "files"}
    BY <2>2, <2>4
  <2>6. ForkCleanup(r) = MmCleanup(r) \o CleanupFs
    BY <2>5 DEF ForkCleanup
  <2>7. PICK M \in SUBSET UserSpace :
          /\ H = Base \cup M
          /\ \/ r = "mm" /\ M = {}
             \/ r = "pgdir" /\ M = {"mm"}
             \/ r \notin {"mm", "pgdir"} /\ "mm" \in M /\ "pgdir" \in M
    <3>1. CASE k = 4
      <4>1. r = "mm" /\ H = Base \cup {}
        BY <2>2, <3>1, <1>1
      <4>2. QED
        BY <4>1
    <3>2. CASE k = 5
      <4>1. {"mm"} \in SUBSET UserSpace
        BY DEF UserSpace
      <4>2. r = "pgdir" /\ H = Base \cup {"mm"}
        BY <2>2, <3>2, <1>1
      <4>3. QED
        BY <4>1, <4>2
    <3>3. CASE k \in 6..11
      <4>1. k \in 6..12 /\ k \in {6, 7, 8, 9, 10, 11} /\ k + 1 \in {7, 8, 9, 10, 11, 12}
        BY <3>3
      <4>2. PICK M \in SUBSET UserSpace : {"mm", "pgdir"} \subseteq M /\ H = Base \cup M
        BY <2>2, <4>1, <1>1
      <4>3. r \notin {"mm", "pgdir"}
        BY <2>2, <4>1
      <4>4. QED
        BY <4>2, <4>3
    <3>4. k = 4 \/ k = 5 \/ k \in 6..11
      BY <2>3
    <3> HIDE DEF r
    <3>5. QED
      BY <3>1, <3>2, <3>3, <3>4
  <2> HIDE DEF r
  <2>8. Holds(New) \cap UserSpace = M /\ Base \cap M = {} /\ M \subseteq Holds(New)
    BY <2>7, ResourceFacts
  <2>9. Lists(MmCleanup(r), M)
    BY <2>7, <2>8, MmCleanupLists
  <2>10. Lists(MmCleanup(r) \o CleanupFs, M \cup Base)
    BY <2>8, <2>9, CleanupLists, ListsConcat
  <2>11. M \cup Base = H
    BY <2>7
  <2>12. QED
    BY <2>6, <2>10, <2>11 DEF r
<1>7. QED
  BY <1>1, <1>2, <1>3, <1>4, <1>5, <1>6

(* How a call that failed ends.                                             *)
LEMMA CallEndsFacts ==
  ASSUME NEW u \in CallEnds
  PROVE  u \in Seq(Entries) /\ PutsThen(u, {}, u) /\ (u = <<>> \/ Head(u).do # "put")
<1>1. CASE u = <<>>
  BY <1>1, EmptyFacts, PutsNone
<1>2. CASE u = Do("user_main")
  <2>1. u \in Seq(Entries) /\ Head(u) = [do |-> "do", what |-> "user_main", of |-> New]
    BY <1>2, DoFacts DEF Steps
  <2>2. QED
    BY <2>1, PutsNone
<1>3. QED
  BY <1>1, <1>2 DEF CallEnds

(* What is to be given back of p, and then the call ends.                  *)
LEMMA UndoPuts ==
  ASSUME NEW p \in Owners, NEW rs, NEW R, Lists(rs, R), NEW u \in CallEnds
  PROVE  /\ PutsThen(Put(p, rs) \o u, {p} \X R, u)
         /\ Put(p, rs) \o u = <<>> => {p} \X R = {}
<1>1. ({p} \X R) \cap {} = {} /\ ({p} \X R) \cup {} = {p} \X R
  OBVIOUS
<1>2. PutsThen(Put(p, rs) \o u, ({p} \X R) \cup {}, u)
  BY <1>1, CallEndsFacts, PutsMore
<1>3. PutsThen(Put(p, rs) \o u, {p} \X R, u)
  BY <1>1, <1>2
<1>4. QED
  BY <1>3, PutsHead

(* do_fork has cleaned up after what could not be had;                      *)
LEMMA ForkFails ==
  ASSUME CallInv, ForkTakes, Doing("get", ""), todo' = Cleanup(Op.what),
         UNCHANGED <<owns, status, caller>>,
         call' = IF todo' = <<>> THEN "none" ELSE call
  PROVE  CallInv'
<1> USE OwnerFacts
<1>0. OwnsOK /\ CallerInv /\ CallerInv' /\ caller \in Pids /\ Forks
  BY DEF CallInv, CallerInv, ForkTakes
<1>1. PICK b \in BOOLEAN : b = IsUser(caller)
  BY DEF IsUser
<1>20. PICK S : S = ForkSeq(b)
  OBVIOUS
<1>2. Taking(New, S, "get_pid", {}) /\ S \in Seq(Resources)
  BY <1>1, <1>20, ForkSeqFacts DEF ForkTakes
<1>30. PICK r : r = Op.what
  OBVIOUS
<1>31. Lacks(New, S, {}, r)
  BY <1>2, <1>30, TakingFails
<1>3. PICK k \in 0..Len(S) : k < Len(S) /\ r = S[k+1] /\ Holds(New) = {} \cup Upto(S, k)
  BY <1>31 DEF Lacks
<1>4. PICK rs, H : rs = ForkCleanup(r) /\ H = Holds(New)
  OBVIOUS
<1>5. Lists(rs, H)
  <2>1. H = {} \cup Upto(S, k)
    BY <1>3, <1>4
  <2>2. Lists(ForkCleanup(S[k+1]), H)
    BY <1>20, <1>3, <1>4, <2>1, ForkCleanupLists
  <2>3. QED
    BY <1>3, <1>4, <2>2
<1>6. PICK u \in CallEnds : u = IF caller = init THEN Do("user_main") ELSE <<>>
  BY DEF CallEnds
<1>7. todo' = Put(New, rs) \o u
  <2>1. call = "fork"
    BY <1>0 DEF Forks
  <2>2. Cleanup(r) = Put(New, ForkCleanup(r))
                       \o (IF caller = init THEN Do("user_main") ELSE <<>>)
    BY <2>1 DEF Cleanup
  <2>3. todo' = Cleanup(r)
    BY <1>30
  <2>4. QED
    BY <1>4, <1>6, <2>2, <2>3
<1>8. PutsThen(todo', {New} \X H, u) /\ (todo' = <<>> => {New} \X H = {})
  <2>1. PutsThen(Put(New, rs) \o u, {New} \X H, u)
    BY <1>5, UndoPuts
  <2>2. Put(New, rs) \o u = <<>> => {New} \X H = {}
    BY <1>5, UndoPuts
  <2>3. QED
    BY <1>7, <2>1, <2>2
<1>9. OwnsOK' /\ AllSettled' /\ Holds(New)' = H /\ Live' /\ NoArgs'
  BY <1>0, <1>4, SameHolds DEF Forks, AllSettled, Live
<1>10. CASE todo' = <<>>
  <2>1. H = {}
    <3>1. \A q \in H : <<New, q>> \in {New} \X H
      OBVIOUS
    <3>2. QED
      BY <1>8, <1>10, <3>1
  <2>2. AtRest'
    BY <1>9, <1>10, <2>1 DEF AtRest
  <2>3. QED
    BY <1>0, <1>9, <2>2 DEF CallInv, Phases
<1>11. CASE todo' # <<>>
  <2>1. PutsThen(todo', {New} \X Holds(New)', u)
    BY <1>8, <1>9
  <2>2. ForkUndoes'
    BY <1>0, <1>9, <1>11, <2>1 DEF ForkUndoes, Forks
  <2>3. QED
    BY <1>0, <1>9, <2>2 DEF CallInv, Phases
<1>12. QED
  BY <1>10, <1>11

(* An exec that has failed is undone, and the process goes on.             *)
LEMMA ExecReturns ==
  ASSUME OwnsOK', CallerInv', call = "exec", caller # init, caller' = caller,
         call' = (IF todo' = <<>> THEN "none" ELSE call),
         Live', Others(caller)', Holds(New)' = {}, NEW h \in Normal, Holds(caller)' = h,
         NEW u \in CallEnds, PutsThen(todo', ArgThings', u)
  PROVE  CallInv'
<1>1. caller' \in Pids
  BY DEF CallerInv
<1>2. CASE todo' = <<>>
  <2>1. ArgThings' = {}
    BY <1>2, PutsHead
  <2>2. ASSUME NEW a \in Args, NEW x \in Holds(a)' PROVE FALSE
    <3>1. x \in Resources
      BY DEF Holds
    <3>2. <<a, x>> \in ArgThings'
      BY <3>1 DEF ArgThings
    <3>3. QED
      BY <2>1, <3>2
  <2>3. NoArgs'
    BY <2>2 DEF NoArgs
  <2>4. Settled(caller)'
    BY DEF Settled, Live
  <2>5. AllSettled'
    BY <2>4 DEF AllSettled, Others
  <2>6. AtRest'
    BY <1>2, <2>3, <2>5 DEF AtRest
  <2>7. QED
    BY <2>6 DEF CallInv, Phases
<1>3. CASE todo' # <<>>
  <2>1. Copies'
    BY <1>3 DEF Copies, Execs
  <2>2. ExecUndoes'
    BY <1>3, <2>1 DEF ExecUndoes
  <2>3. QED
    BY <2>2 DEF CallInv, Phases
<1>4. QED
  BY <1>2, <1>3

(* The same when nothing has been taken or given back.                     *)
LEMMA ExecGivesUp ==
  ASSUME CallInv, Copies, UNCHANGED <<owns, status, caller>>,
         call' = (IF todo' = <<>> THEN "none" ELSE call),
         NEW u \in CallEnds, PutsThen(todo', ArgThings, u)
  PROVE  CallInv'
<1> USE OwnerFacts
<1>0. OwnsOK /\ CallerInv /\ CallerInv' /\ caller \in Pids /\ Execs
  BY DEF CallInv, CallerInv, Copies
<1>1. PICK h \in Normal : Holds(caller) = h
  BY DEF Copies
<1>2. /\ OwnsOK' /\ Holds(New)' = {} /\ Holds(caller)' = h
      /\ Live' /\ Others(caller)' /\ ArgThings' = ArgThings
  BY <1>0, <1>1, SameHolds DEF Execs, Others, Live, Copies
<1>3. call = "exec" /\ caller # init
  BY <1>0 DEF Execs
<1>4. QED
  BY <1>0, <1>2, <1>3, ExecReturns

(* copy_kargv could not have the next buffer: those it has are given back. *)
LEMMA ArgsFail ==
  ASSUME CallInv, ExecArgs, Op.do = "get", todo' = Cleanup(Op.what),
         UNCHANGED <<owns, status, caller>>,
         call' = IF todo' = <<>> THEN "none" ELSE call
  PROVE  CallInv'
<1>1. PICK n \in 1..EXEC_MAX_ARG_NUM :
        /\ \A i \in 1..EXEC_MAX_ARG_NUM : i # n => Holds(Arg(i)) = IF i < n THEN Kargs ELSE {}
        /\ Taking(Arg(n), ArgSeq, "copy", {})
  BY DEF ExecArgs
<1>2. /\ EXEC_MAX_ARG_NUM \in Nat /\ n - 1 \in 0..EXEC_MAX_ARG_NUM /\ n \in Nat
      /\ \A i \in 1..EXEC_MAX_ARG_NUM : i <= n - 1 <=> i < n
  BY TableAssumption
<1>3. PICK k \in 0..Len(ArgSeq) :
        Gets(todo, Arg(n), ArgSeq, k, "copy") /\ Holds(Arg(n)) = {} \cup Upto(ArgSeq, k)
  BY <1>1 DEF Taking
<1>30. ArgSeq \in Seq(Resources) /\ Len(ArgSeq) = 2 /\ k \in 0..2
  BY SeqFacts
<1>4. k < Len(ArgSeq)
  <2>1. SUFFICES ASSUME ~(k < Len(ArgSeq)) PROVE FALSE
    OBVIOUS
  <2>2. Head(todo) = [do |-> "do", what |-> "copy", of |-> New]
    BY <1>3, <1>30, <2>1, GetsHead
  <2>3. QED
    BY <2>2 DEF Op
<1>5. Op.what = ArgSeq[k+1] /\ Op.of = Arg(n)
  <2>0. PICK S : S = ArgSeq
    OBVIOUS
  <2>01. S \in Seq(Resources) /\ k < Len(S) /\ Gets(todo, Arg(n), S, k, "copy")
    BY <1>3, <1>30, <1>4, <2>0
  <2>02. Head(todo) = [do |-> "get", what |-> S[k+1], of |-> Arg(n)]
    BY ONLY <2>01, GetsHead
  <2>1. Head(todo) = [do |-> "get", what |-> ArgSeq[k+1], of |-> Arg(n)]
    BY <2>0, <2>02
  <2>2. QED
    BY <2>1 DEF Op
<1>6. \/ Op.what = "kargv_bb" /\ Holds(Arg(n)) = {}
      \/ Op.what = "kargv" /\ Holds(Arg(n)) = {"kargv_bb"}
  <2>1. k = 0 \/ k = 1
    BY <1>30, <1>4
  <2>2. CASE k = 0
    BY <1>3, <1>5, <2>2, SeqFacts, UptoFacts
  <2>3. CASE k = 1
    BY <1>3, <1>5, <2>3, SeqFacts, UptoSeqs
  <2>4. QED
    BY <2>1, <2>2, <2>3
<1>7. argc = n - 1
  <2>1. \A i \in 1..EXEC_MAX_ARG_NUM : "kargv" \in Holds(Arg(i)) <=> i <= n - 1
    <3> SUFFICES ASSUME NEW i \in 1..EXEC_MAX_ARG_NUM
                 PROVE  "kargv" \in Holds(Arg(i)) <=> i < n
      BY <1>2
    <3>1. CASE i = n
      BY <3>1, <1>2, <1>6
    <3>2. CASE i # n
      BY <3>2, <1>1 DEF Kargs
    <3>3. QED
      BY <3>1, <3>2
  <2>2. QED
    BY <1>2, <2>1, ArgCount
<1>8. PICK H, a : H = Holds(Arg(n)) /\ a = Arg(n)
  OBVIOUS
<1>9. a \in Args /\ a \in Owners /\ H \subseteq Resources
  BY <1>8, ArgFacts DEF Holds
<1>10. ArgThings = ({a} \X H) \cup KargThings(n - 1)
  <2>1. ASSUME NEW i \in 1..EXEC_MAX_ARG_NUM, NEW x \in Resources
        PROVE  <<Arg(i), x>> \in ArgThings <=> IF i = n THEN x \in H ELSE i < n /\ x \in Kargs
    <3>1. <<Arg(i), x>> \in ArgThings <=> x \in Holds(Arg(i))
      BY ArgFacts, ArgThingsFacts
    <3>2. CASE i = n
      BY <3>1, <3>2, <1>8
    <3>3. CASE i # n
      BY <3>1, <3>3, <1>1
    <3>4. QED
      BY <3>2, <3>3
  <2>2. ASSUME NEW i \in 1..EXEC_MAX_ARG_NUM, NEW x \in Resources, <<Arg(i), x>> \in ArgThings
        PROVE  <<Arg(i), x>> \in ({a} \X H) \cup KargThings(n - 1)
    <3>1. CASE i = n
      BY <2>1, <2>2, <3>1, <1>8
    <3>2. CASE i # n
      <4>1. i \in 1..n-1 /\ x \in Kargs
        BY <2>1, <2>2, <3>2, <1>2
      <4>2. QED
        BY <4>1 DEF KargThings
    <3>3. QED
      BY <3>1, <3>2
  <2>3. ASSUME NEW x \in H PROVE <<a, x>> \in ArgThings
    BY <2>1, <1>8, <1>9
  <2>4. ASSUME NEW i \in 1..n-1, NEW x \in Kargs PROVE <<Arg(i), x>> \in ArgThings
    <3>1. i \in 1..EXEC_MAX_ARG_NUM /\ i # n /\ i < n /\ x \in Resources
      BY <1>2, ResourceFacts
    <3>2. QED
      BY <2>1, <3>1
  <2>5. ArgThings \subseteq ({a} \X H) \cup KargThings(n - 1)
    <3>1. ASSUME NEW e \in ArgThings
          PROVE  \E i \in 1..EXEC_MAX_ARG_NUM, x \in Resources : e = <<Arg(i), x>>
      BY <3>1 DEF ArgThings, Args
    <3>2. QED
      BY <2>2, <3>1
  <2>6. KargThings(n - 1) \subseteq ArgThings
    BY <2>4 DEF KargThings
  <2>7. QED
    BY <2>3, <2>5, <2>6
<1>11. PICK u \in CallEnds : u = IF IsUser(caller) THEN <<>> ELSE Do("user_main")
  BY DEF CallEnds
<1>12. u \in Seq(Entries) /\ PutsThen(u, {}, u)
  BY CallEndsFacts
<1>13. /\ PutKargv \in Seq(Entries) /\ PutKargv \o u \in Seq(Entries)
       /\ PutsThen(PutKargv \o u, KargThings(n - 1), u)
  <2>1. KargThings(n - 1) \cap {} = {} /\ KargThings(n - 1) \cup {} = KargThings(n - 1)
    OBVIOUS
  <2>2. /\ PutKargv \in Seq(Entries) /\ PutKargv \o u \in Seq(Entries)
        /\ PutsThen(PutKargv \o u, KargThings(n - 1) \cup {}, u)
    BY <1>2, <1>7, <1>12, <2>1, PutKargvPuts
  <2>3. QED
    BY <2>1, <2>2
<1>14. todo' = (IF Op.what = "kargv" THEN Put(a, <<"kargv_bb">>) ELSE <<>>) \o PutKargv \o u
  <2>1. call = "exec"
    BY DEF ExecArgs, Copies, Execs
  <2>2. Cleanup(Op.what) = ArgCleanup(Op.what)
    BY <1>6, <2>1 DEF Cleanup
  <2>3. QED
    BY <1>5, <1>8, <1>11, <2>2 DEF ArgCleanup
<1>15. PutsThen(todo', ({a} \X H) \cup KargThings(n - 1), u)
  <2>1. CASE Op.what = "kargv_bb" /\ H = {}
    <3>1. todo' = PutKargv \o u
      BY <1>13, <1>14, <2>1, ConcatEmptySeq
    <3>2. ({a} \X H) \cup KargThings(n - 1) = KargThings(n - 1)
      BY <2>1
    <3>3. QED
      BY <1>13, <3>1, <3>2
  <2>2. CASE Op.what = "kargv" /\ H = {"kargv_bb"}
    <3>1. PICK rs : rs = <<"kargv_bb">>
      OBVIOUS
    <3>2. Lists(rs, H) /\ Put(a, rs) \in Seq(Entries)
      <4>1. Lists(rs, H)
        BY <2>2, <3>1, FilesLists
      <4>2. QED
        BY <1>9, <4>1, PutFacts DEF Lists
    <3>30. PICK b, c : b = Put(a, rs) /\ c = PutKargv
      OBVIOUS
    <3>31. b \in Seq(Entries) /\ c \in Seq(Entries) /\ u \in Seq(Entries)
      BY <1>12, <1>13, <3>2, <3>30
    <3>3. todo' = Put(a, rs) \o (PutKargv \o u)
      <4>1. todo' = (b \o c) \o u
        BY <1>14, <2>2, <3>1, <3>30
      <4>2. (b \o c) \o u = b \o (c \o u)
        BY ONLY <3>31, ConcatAssociative
      <4>3. QED
        BY <3>30, <4>1, <4>2
    <3>4. ({a} \X H) \cap KargThings(n - 1) = {}
      <4>1. ASSUME NEW i \in 1..n-1 PROVE Arg(i) # a
        <5>1. i \in 1..EXEC_MAX_ARG_NUM /\ i # n
          BY <1>2
        <5>2. QED
          BY <5>1, <1>8, ArgFacts
      <4>2. QED
        BY <4>1 DEF KargThings
    <3>50. PICK v, D : v = PutKargv \o u /\ D = KargThings(n - 1)
      OBVIOUS
    <3>51. v \in Seq(Entries) /\ PutsThen(v, D, u) /\ ({a} \X H) \cap D = {}
      BY <1>13, <3>4, <3>50
    <3>52. PutsThen(Put(a, rs) \o v, ({a} \X H) \cup D, u)
      BY <1>9, <3>2, <3>51, PutsMore
    <3>5. QED
      BY <3>3, <3>50, <3>52
  <2>3. QED
    BY <1>6, <1>8, <2>1, <2>2
<1>16. Copies /\ PutsThen(todo', ArgThings, u)
  BY <1>10, <1>15 DEF ExecArgs
<1>17. QED
  BY <1>16, ExecGivesUp

(* execve_exit with the copied arguments still there.                      *)
LEMMA ExecveExitPuts ==
  ASSUME SomeArgs, NEW c \in Pids, c = caller, Holds(c) \in Normal
  PROVE  /\ ExecveExit \in Seq(Entries)
         /\ PutsThen(ExecveExit, ArgThings \cup ({c} \X (Holds(c) \ Keep)), Do("zombie"))
<1> USE OwnerFacts
<1> DEFINE M == Holds(c) \cap UserSpace
           R == M \cup {"files", "files_bb"}
<1>1. M \in {{}, UserSpace}
  BY ResourceFacts DEF Normal
<1>2. R = Holds(c) \ Keep
  BY DEF Normal, Base, Keep, UserSpace
<1>3. ExitOps(c) \in Seq(Entries) /\ PutsThen(ExitOps(c), {c} \X R, Do("zombie"))
  BY <1>1, ExitOpsPuts
<1> HIDE DEF R, M
<1>4. PICK n \in 0..EXEC_MAX_ARG_NUM : HasArgs(n)
  BY DEF SomeArgs
<1>5. argc = n /\ ArgThings = KargThings(n) /\ ArgThings \subseteq Args \X Resources
  BY <1>4, ArgThingsFacts
<1>6. KargThings(n) \cap ({c} \X R) = {}
  BY <1>5
<1>7. /\ PutKargv \o ExitOps(c) \in Seq(Entries)
      /\ PutsThen(PutKargv \o ExitOps(c), KargThings(n) \cup ({c} \X R), Do("zombie"))
  BY <1>3, <1>5, <1>6, PutKargvPuts
<1>8. ExecveExit = PutKargv \o ExitOps(c)
  BY DEF ExecveExit
<1>9. QED
  BY <1>2, <1>5, <1>7, <1>8

(* load_icode undoes what it has built, which rs lists, before.            *)
LEMMA LoadUndoes ==
  ASSUME SomeArgs, NEW c \in Pids, c = caller, Holds(c) \in Normal,
         NEW rs, NEW H, H = Holds(New), Lists(rs, H)
  PROVE  PutsThen(Put(New, rs) \o ExecveExit,
                  ({New} \X H) \cup ArgThings \cup ({c} \X (Holds(c) \ Keep)), Do("zombie"))
<1> USE OwnerFacts
<1> DEFINE e == ExecveExit
           D == ArgThings \cup ({c} \X (Holds(c) \ Keep))
<1>1. e \in Seq(Entries) /\ PutsThen(e, D, Do("zombie"))
  BY ExecveExitPuts
<1>2. ({New} \X H) \cap D = {}
  BY ArgThingsFacts
<1>3. ({New} \X H) \cup D = ({New} \X H) \cup ArgThings \cup ({c} \X (Holds(c) \ Keep))
  OBVIOUS
<1> HIDE DEF e, D
<1>4. PutsThen(Put(New, rs) \o e, ({New} \X H) \cup D, Do("zombie"))
  BY <1>1, <1>2, PutsMore
<1>5. QED
  BY <1>3, <1>4 DEF e

(* exec has failed, and do_exit follows.                                   *)
LEMMA ExecDies ==
  ASSUME CallInv, Execs, UNCHANGED <<owns, status, caller>>,
         call' = (IF todo' = <<>> THEN "none" ELSE call),
         Holds(caller) \in Normal,
         PutsThen(todo', ({New} \X Holds(New)) \cup ArgThings \cup ({caller} \X (Holds(caller) \ Keep)),
                  Do("zombie"))
  PROVE  CallInv'
<1> USE OwnerFacts
<1>0. OwnsOK /\ CallerInv /\ CallerInv' /\ caller \in Pids
  BY DEF CallInv, CallerInv
<1>1. /\ OwnsOK' /\ Holds(New)' = Holds(New) /\ Holds(caller)' = Holds(caller)
      /\ Others(caller)' /\ Live' /\ ArgThings' = ArgThings
  BY <1>0, SameHolds DEF Execs, Others, Live
<1>2. Keep \subseteq Holds(caller)
  BY ResourceFacts DEF Normal
<1>3. PutsThen(todo', ({New} \X Holds(New)') \cup ArgThings' \cup ({caller'} \X (Holds(caller)' \ Keep)),
               Do("zombie"))
  BY <1>1
<1>4. (Keep \subseteq Holds(caller))' /\ call' = "exec" /\ caller' # init
  <2>1. todo' # <<>>
    BY PutsHead, DoFacts DEF Steps
  <2>2. QED
    BY <1>1, <1>2, <2>1 DEF Execs
<1>5. Dies'
  BY <1>1, <1>3, <1>4 DEF Dies
<1>6. QED
  BY <1>0, <1>1, <1>5 DEF CallInv, Phases

(* The end of load_icode that fails: LoadCleanup.                          *)
LEMMA LoadDies ==
  ASSUME CallInv, Execs, UNCHANGED <<owns, status, caller>>,
         call' = (IF todo' = <<>> THEN "none" ELSE call),
         Holds(caller) = Base, SomeArgs, Holds(New) \subseteq UserSpace,
         NEW r, todo' = LoadCleanup(r),
         \/ r = "mm" /\ Holds(New) = {}
         \/ r = "pgdir" /\ Holds(New) = {"mm"}
         \/ r \notin {"mm", "pgdir"} /\ "mm" \in Holds(New) /\ "pgdir" \in Holds(New)
  PROVE  CallInv'
<1>1. PICK c \in Pids : c = caller
  BY DEF CallInv, CallerInv
<1>2. PICK rs, H : rs = MmCleanup(r) /\ H = Holds(New)
  OBVIOUS
<1>3. Holds(caller) \in Normal
  BY DEF Normal
<1>4. Lists(rs, H)
  <2>1. Holds(New) \cap UserSpace = Holds(New)
    OBVIOUS
  <2>2. Lists(MmCleanup(r), Holds(New) \cap UserSpace)
    BY <2>1, MmCleanupLists
  <2>3. QED
    BY <1>2, <2>1, <2>2
<1>5. PutsThen(Put(New, rs) \o ExecveExit,
               ({New} \X H) \cup ArgThings \cup ({c} \X (Holds(c) \ Keep)), Do("zombie"))
  BY <1>1, <1>2, <1>3, <1>4, LoadUndoes
<1>6. todo' = Put(New, rs) \o ExecveExit
  BY <1>2 DEF LoadCleanup
<1>7. PutsThen(todo', ({New} \X Holds(New)) \cup ArgThings \cup ({caller} \X (Holds(caller) \ Keep)),
               Do("zombie"))
  BY <1>1, <1>2, <1>5, <1>6
<1>8. QED
  BY <1>3, <1>7, ExecDies

(* load_icode, whose caller dies.                                           *)
LEMMA LoadsFail ==
  ASSUME CallInv, LoadsMm \/ LoadsText \/ LoadsStack, Doing("get", ""),
         todo' = Cleanup(Op.what), UNCHANGED <<owns, status, caller>>,
         call' = IF todo' = <<>> THEN "none" ELSE call
  PROVE  CallInv'
<1>1. PICK S, d, X : /\ Loads(S, d, X)
                     /\ \/ S = MmSeq /\ X = {}
                        \/ S = TextSeq /\ X = {"mm", "pgdir"}
                        \/ S = StackSeq /\ X = {"mm", "pgdir", "text_vma", "text", "text_pt"}
  BY DEF LoadsMm, LoadsText, LoadsStack
<1>2. Execs /\ Holds(caller) = Base /\ SomeArgs /\ Taking(New, S, d, X) /\ S \in Seq(Resources)
  BY <1>1, SeqFacts DEF Loads
<1>3. PICK r : r = Op.what
  OBVIOUS
<1>4. Lacks(New, S, X, r)
  BY <1>2, <1>3, TakingFails
<1>5. PICK k \in 0..Len(S) : k < Len(S) /\ r = S[k+1] /\ Holds(New) = X \cup Upto(S, k)
  BY <1>4 DEF Lacks
<1>6. /\ Holds(New) \subseteq UserSpace
      /\ \/ r = "mm" /\ Holds(New) = {}
         \/ r = "pgdir" /\ Holds(New) = {"mm"}
         \/ r \notin {"mm", "pgdir"} /\ "mm" \in Holds(New) /\ "pgdir" \in Holds(New)
      /\ r \notin {"kargv_bb", "kargv"}
  <2>1. CASE S = MmSeq /\ X = {}
    <3>1. Len(S) = 2 /\ S[1] = "mm" /\ S[2] = "pgdir" /\ Upto(S, 0) = {} /\ Upto(S, 1) = {"mm"}
      BY <2>1, SeqFacts, UptoSeqs, UptoFacts
    <3>2. k \in 0..Len(S) /\ k < Len(S) /\ Len(S) = 2
      BY <1>5, <3>1
    <3>3. k = 0 \/ k = 1
      BY ONLY <3>2
    <3>40. r = S[k+1] /\ Holds(New) = {} \cup Upto(S, k)
      BY <1>5, <2>1
    <3>41. S[1] = "mm" /\ S[2] = "pgdir" /\ Upto(S, 0) = {} /\ Upto(S, 1) = {"mm"}
      BY <3>1
    <3>4. (r = "mm" /\ Holds(New) = {}) \/ (r = "pgdir" /\ Holds(New) = {"mm"})
      BY ONLY <3>40, <3>41, <3>3
    <3>5. QED
      BY <3>4 DEF UserSpace
  <2>2. CASE S = TextSeq /\ X = {"mm", "pgdir"}
    <3>1. Len(S) = 3 /\ S[1] = "text_vma" /\ S[2] = "text" /\ S[3] = "text_pt"
      BY <2>2, SeqFacts
    <3>2. k \in 0..Len(S) /\ k < Len(S) /\ Len(S) = 3
      BY <1>5, <3>1
    <3>3. k + 1 \in {1, 2, 3} /\ \A i \in 1..k : i \in {1, 2, 3}
      BY ONLY <3>2
    <3>4. r \in {"text_vma", "text", "text_pt"} /\ Upto(S, k) \subseteq {"text_vma", "text", "text_pt"}
      BY <1>5, <3>1, <3>3 DEF Upto
    <3>5. QED
      BY <1>5, <2>2, <3>4 DEF UserSpace
  <2>3. CASE S = StackSeq /\ X = {"mm", "pgdir", "text_vma", "text", "text_pt"}
    <3>1. Len(S) = 3 /\ S[1] = "stack_vma" /\ S[2] = "stack" /\ S[3] = "stack_pt"
      BY <2>3, SeqFacts
    <3>2. k \in 0..Len(S) /\ k < Len(S) /\ Len(S) = 3
      BY <1>5, <3>1
    <3>3. k + 1 \in {1, 2, 3} /\ \A i \in 1..k : i \in {1, 2, 3}
      BY ONLY <3>2
    <3>4. r \in {"stack_vma", "stack", "stack_pt"} /\ Upto(S, k) \subseteq {"stack_vma", "stack", "stack_pt"}
      BY <1>5, <3>1, <3>3 DEF Upto
    <3>5. QED
      BY <1>5, <2>3, <3>4 DEF UserSpace
  <2>4. QED
    BY <1>1, <2>1, <2>2, <2>3
<1>7. todo' = LoadCleanup(r)
  <2>1. call = "exec"
    BY <1>2 DEF Execs
  <2>2. Cleanup(r) = LoadCleanup(r)
    BY <1>6, <2>1 DEF Cleanup
  <2>3. QED
    BY <1>3, <2>2
<1>8. QED
  BY <1>2, <1>6, <1>7, LoadDies

(* What is given back now is all that is.                                  *)
Returned == GiveAll(Leading("put"), 0) /\ todo' = SubSeq(todo, Leading("put") + 1, Len(todo))

NoPut(rest) == rest = <<>> \/ Head(rest).do # "put"
Loses(D) == \A q \in Owners : Holds(q)' = {r \in Holds(q) : <<q, r>> \notin D}
OnlyChanges(p) == \A q \in Owners : q # p => Holds(q)' = Holds(q)

(* Releases come next.                                                      *)
LEMMA PutsBack ==
  ASSUME OwnsOK, NEW D, NEW rest, PutsThen(todo, D, rest), Doing("put", ""), NoPut(rest), Returned
  PROVE  OwnsOK' /\ todo' = rest /\ Loses(D)
<1>1. Op.do = "put" /\ todo # <<>>
  BY DEF Doing
<1>2. QED
  BY <1>1, PutsStep DEF Returned, Loses, NoPut

(* They give back what is held.                                             *)
LEMMA PutsBackOf ==
  ASSUME OwnsOK, NEW p \in Owners, NEW R, NEW rest, PutsThen(todo, {p} \X R, rest),
         Doing("put", ""), NoPut(rest), Returned
  PROVE  OwnsOK' /\ todo' = rest /\ Holds(p)' = Holds(p) \ R /\ OnlyChanges(p)
<1>1. OwnsOK' /\ todo' = rest /\ Loses({p} \X R)
  BY PutsBack
<1>2. Holds(p)' = Holds(p) \ R /\ OnlyChanges(p)
  BY <1>1 DEF Loses, OnlyChanges
<1>3. QED
  BY <1>1, <1>2

(* What these phases have next is not a release.                            *)
LEMMA NoPutFacts ==
  /\ NoPut(<<>>)
  /\ \A u \in CallEnds : NoPut(u)
  /\ \A rest, S, p, d, k : S \in Seq(Resources) /\ Gets(rest, p, S, k, d) => NoPut(rest)
<1>1. \A u \in CallEnds : NoPut(u)
  BY CallEndsFacts DEF NoPut
<1>2. ASSUME NEW rest, NEW S \in Seq(Resources), NEW p, NEW d, NEW k, Gets(rest, p, S, k, d)
      PROVE  NoPut(rest)
  <2>1. CASE k < Len(S)
    <3>1. Head(rest) = [do |-> "get", what |-> S[k+1], of |-> p]
      BY <1>2, <2>1, GetsHead
    <3>2. QED
      BY <3>1 DEF NoPut
  <2>2. CASE ~(k < Len(S))
    <3>1. Head(rest) = [do |-> "do", what |-> d, of |-> New]
      BY <1>2, <2>2, GetsHead
    <3>2. QED
      BY <3>1 DEF NoPut
  <2>3. QED
    BY <2>1, <2>2
<1>3. QED
  BY <1>1, <1>2 DEF NoPut

(* What comes next is to be done.                                           *)
LEMMA DoHead ==
  ASSUME NEW d \in Steps
  PROVE  Do(d) # <<>> /\ NoPut(Do(d)) /\ PutsThen(Do(d), {}, Do(d))
<1>1. Do(d) # <<>> /\ Head(Do(d)) = [do |-> "do", what |-> d, of |-> New] /\ Do(d) \in Seq(Entries)
  BY DoFacts
<1>2. Head(Do(d)).do # "put"
  BY <1>1
<1>3. QED
  BY <1>1, <1>2, PutsNone DEF NoPut

(* Those that the step is not about are settled as they were.               *)
LEMMA OthersSame ==
  ASSUME NEW c \in Pids, Others(c), UNCHANGED status, OnlyChanges(c)
  PROVE  Others(c)'
<1>1. ASSUME NEW q \in Pids \ {c} PROVE Settled(q)'
  <2>1. status'[q] = status[q] /\ Holds(q)' = Holds(q) /\ Settled(q)
    BY OwnerFacts DEF Others, OnlyChanges
  <2>2. QED
    BY <2>1, SettledSame
<1>2. QED
  BY <1>1 DEF Others

(* So is everybody,                                                         *)
LEMMA AllSame ==
  ASSUME AllSettled, UNCHANGED status, OnlyChanges(New)
  PROVE  AllSettled'
<1>1. ASSUME NEW q \in Pids PROVE Settled(q)'
  <2>1. status'[q] = status[q] /\ Holds(q)' = Holds(q) /\ Settled(q)
    BY OwnerFacts DEF AllSettled, OnlyChanges
  <2>2. QED
    BY <2>1, SettledSame
<1>2. QED
  BY <1>1 DEF AllSettled

(* All processes are settled when the others are, and the caller is.       *)
LEMMA AllOf ==
  ASSUME NEW c \in Pids, Others(c), Settled(c)
  PROVE  AllSettled
BY DEF AllSettled, Others

(* The arguments are what they were.                                       *)
LEMMA ArgsSame ==
  ASSUME \A a \in Args : Holds(a)' = Holds(a)
  PROVE  /\ NoArgs => NoArgs'
         /\ SomeArgs => SomeArgs'
         /\ \A n : HasArgs(n) => HasArgs(n)'
         /\ ArgThings' = ArgThings
<1>1. NoArgs => NoArgs'
  BY DEF NoArgs
<1>2. \A n : HasArgs(n) => HasArgs(n)'
  BY ArgFacts DEF HasArgs
<1>3. SomeArgs => SomeArgs'
  BY <1>2 DEF SomeArgs
<1>4. ArgThings' = ArgThings
  <2>1. \A e \in Args \X Resources : e[2] \in Holds(e[1])' <=> e[2] \in Holds(e[1])
    OBVIOUS
  <2>2. QED
    BY <2>1 DEF ArgThings
<1>5. QED
  BY <1>1, <1>2, <1>3, <1>4

(* None is left.                                                           *)
LEMMA ArgsGone ==
  ASSUME NEW D, Loses(D), ArgThings \subseteq D
  PROVE  NoArgs' /\ ArgThings' = {}
<1>1. ASSUME NEW a \in Args, NEW x \in Holds(a)' PROVE FALSE
  <2>1. x \in Holds(a) /\ <<a, x>> \notin D
    BY <1>1, OwnerFacts DEF Loses
  <2>2. x \in Resources
    BY <2>1 DEF Holds
  <2>3. QED
    BY <2>1, <2>2, ArgThingsFacts
<1>2. NoArgs'
  BY <1>1 DEF NoArgs
<1>3. ArgThings' = {}
  <2>1. \A e \in Args \X Resources : e[2] \notin Holds(e[1])'
    BY <1>1
  <2>2. QED
    BY <2>1 DEF ArgThings
<1>4. QED
  BY <1>2, <1>3

(* The releases that come next have been made: in every phase.              *)
LEMMA ReturnedCall ==
  ASSUME CallInv, Doing("put", ""), Returned, UNCHANGED <<status, caller>>,
         call' = IF todo' = <<>> THEN "none" ELSE call
  PROVE  CallInv'
<1> USE OwnerFacts
<1>0. OwnsOK /\ CallerInv /\ CallerInv' /\ caller \in Pids
  BY DEF CallInv, CallerInv
<1>1. CASE ForkUndoes
  <2>0. PICK H : H = Holds(New)
    OBVIOUS
  <2>1. PICK u \in CallEnds : PutsThen(todo, {New} \X H, u)
    BY <1>1, <2>0 DEF ForkUndoes
  <2>2. OwnsOK' /\ todo' = u /\ Holds(New)' = Holds(New) \ H /\ OnlyChanges(New)
    BY <1>0, <2>1, NoPutFacts, PutsBackOf
  <2>3. Holds(New)' = {}
    BY <2>0, <2>2
  <2>4. Forks
    BY <1>1 DEF ForkUndoes
  <2>40. NoArgs'
    BY <2>2, <2>4 DEF Forks, NoArgs, OnlyChanges
  <2>5. AllSettled'
    BY <2>2, <2>4, AllSame DEF Forks
  <2>6. CASE u = <<>>
    <3>1. AtRest'
      BY <2>2, <2>3, <2>40, <2>5, <2>6 DEF AtRest
    <3>2. QED
      BY <1>0, <2>2, <3>1 DEF CallInv, Phases
  <2>7. CASE u # <<>>
    <3>1. PutsThen(todo', {New} \X Holds(New)', u)
      <4>1. {New} \X {} = {}
        OBVIOUS
      <4>2. QED
        BY <2>2, <2>3, <4>1, CallEndsFacts
    <3>2. Forks'
      BY <2>2, <2>4, <2>40, <2>5, <2>7 DEF Forks, Live
    <3>3. ForkUndoes'
      BY <2>2, <2>7, <3>1, <3>2 DEF ForkUndoes
    <3>4. QED
      BY <1>0, <2>2, <3>3 DEF CallInv, Phases
  <2>8. QED
    BY <2>6, <2>7
<1>2. PICK c \in Pids : c = caller
  BY <1>0
<1>4. CASE ExecUndoes
  <2>1. PICK u \in CallEnds : PutsThen(todo, ArgThings, u)
    BY <1>4 DEF ExecUndoes
  <2>2. OwnsOK' /\ todo' = u /\ Loses(ArgThings)
    BY <1>0, <2>1, NoPutFacts, PutsBack
  <2>3. PICK h \in Normal : Execs /\ Holds(New) = {} /\ Holds(c) = h
    BY <1>2, <1>4 DEF ExecUndoes, Copies
  <2>4. ASSUME NEW q \in {New} \cup Pids PROVE Holds(q)' = Holds(q)
    <3>1. q \in Owners /\ q \notin Args
      OBVIOUS
    <3>2. \A r : <<q, r>> \notin ArgThings
      BY <3>1, ArgThingsFacts
    <3>3. Holds(q)' = {r \in Holds(q) : <<q, r>> \notin ArgThings}
      BY <2>2, <3>1 DEF Loses
    <3>4. QED
      BY <3>2, <3>3
  <2>5. Holds(New)' = {} /\ Holds(caller)' = h
    BY <1>2, <2>3, <2>4
  <2>6. Others(caller)'
    BY <1>2, <2>3, <2>4, SettledSame DEF Others, Execs
  <2>7. ArgThings' = {}
    BY <2>2, ArgsGone
  <2>8. PutsThen(todo', ArgThings', u)
    BY <2>2, <2>7, CallEndsFacts
  <2>9. Live' /\ call = "exec" /\ caller # init /\ caller' = caller
    BY <2>3 DEF Execs, Live
  <2>10. QED
    BY <1>0, <2>2, <2>5, <2>6, <2>8, <2>9, ExecReturns
<1>5. CASE ExecDrops
  <2>1. PICK rest : Gets(rest, New, MmSeq, 0, "elf") /\ PutsThen(todo, {c} \X UserSpace, rest)
    BY <1>2, <1>5 DEF ExecDrops
  <2>2. Execs /\ Holds(New) = {} /\ Holds(c) = Base \cup UserSpace /\ SomeArgs
    BY <1>2, <1>5 DEF ExecDrops
  <2>4. OwnsOK' /\ todo' = rest /\ Holds(c)' = Holds(c) \ UserSpace /\ OnlyChanges(c)
    BY <1>0, <2>1, SeqFacts, NoPutFacts, PutsBackOf
  <2>5. Holds(New)' = {} /\ Holds(c)' = Base
    BY <2>2, <2>4, ResourceFacts DEF OnlyChanges
  <2>50. SomeArgs'
    <3>1. \A a \in Args : Holds(a)' = Holds(a)
      BY <2>4 DEF OnlyChanges
    <3>2. QED
      BY <2>2, <3>1, ArgsSame
  <2>6. Others(c)'
    BY <1>2, <2>2, <2>4, OthersSame DEF Execs
  <2>7. Execs'
    <3>1. todo' # <<>>
      BY <2>1, <2>4, SeqFacts, GetsHead
    <3>2. QED
      BY <1>2, <2>2, <2>6, <3>1 DEF Execs, Live
  <2>8. Taking(New, MmSeq, "elf", {})'
    <3>1. Gets(todo', New, MmSeq, 0, "elf")
      BY <2>1, <2>4
    <3>2. Holds(New)' = {} \cup Upto(MmSeq, 0) /\ 0 \in 0..Len(MmSeq)
      <4>1. Upto(MmSeq, 0) = {}
        BY UptoFacts
      <4>2. Len(MmSeq) = 2
        BY SeqFacts
      <4>3. 0 \in 0..Len(MmSeq)
        BY ONLY <4>2
      <4>4. QED
        BY <2>5, <4>1, <4>3
    <3>3. QED
      BY <3>1, <3>2 DEF Taking
  <2>9. LoadsMm'
    BY <1>2, <2>5, <2>50, <2>7, <2>8 DEF LoadsMm, Loads
  <2>10. QED
    BY <1>0, <2>4, <2>9 DEF CallInv, Phases
<1>7. CASE Dies
  <2>1. PICK H, G : /\ H = Holds(New) /\ G = Holds(c) \ Keep
                    /\ PutsThen(todo, ({New} \X H) \cup ArgThings \cup ({c} \X G), Do("zombie"))
    BY <1>2, <1>7 DEF Dies
  <2> DEFINE D == ({New} \X H) \cup ArgThings \cup ({c} \X G)
             z == Do("zombie")
  <2>2. z # <<>> /\ NoPut(z) /\ PutsThen(z, {}, z)
    BY DoHead DEF Steps
  <2> HIDE DEF z
  <2>3. OwnsOK' /\ todo' = z /\ Loses(D)
    <3> HIDE DEF D
    <3>1. PutsThen(todo, D, z)
      BY <2>1 DEF D, z
    <3>2. QED
      BY <1>0, <2>2, <3>1, PutsBack
  <2>30. ArgThings' = {}
    <3>1. ArgThings \subseteq D
      OBVIOUS
    <3> HIDE DEF D
    <3>2. QED
      BY <2>3, <3>1, ArgsGone
  <2>4. Keep \subseteq Holds(c) /\ c # init /\ Live /\ call \in {"exec", "exit"} /\ Others(c)
    BY <1>2, <1>7 DEF Dies
  <2>5. Holds(New)' = {} /\ Holds(c)' = Keep /\ \A q \in Pids \ {c} : Holds(q)' = Holds(q)
    <3>1. \A r : <<New, r>> \in D <=> r \in H
      BY ArgThingsFacts
    <3>2. \A r : <<c, r>> \in D <=> r \in G
      BY ArgThingsFacts
    <3>3. \A q \in Pids \ {c} : \A r : <<q, r>> \notin D
      BY ArgThingsFacts
    <3> HIDE DEF D
    <3>4. Holds(New)' = {r \in Holds(New) : <<New, r>> \notin D}
          /\ Holds(c)' = {r \in Holds(c) : <<c, r>> \notin D}
          /\ \A q \in Pids \ {c} : Holds(q)' = {r \in Holds(q) : <<q, r>> \notin D}
      BY <2>3 DEF Loses
    <3>5. QED
      BY <2>1, <2>4, <3>1, <3>2, <3>3, <3>4
  <2>6. Others(c)'
    BY <2>4, <2>5, SettledSame DEF Others
  <2>7. PutsThen(todo', ({New} \X Holds(New)') \cup ArgThings' \cup ({caller'} \X (Holds(caller)' \ Keep)), z)
    <3>1. ({New} \X {}) \cup {} \cup ({c} \X (Keep \ Keep)) = {}
      OBVIOUS
    <3>2. QED
      BY <1>2, <2>2, <2>3, <2>30, <2>5, <3>1
  <2>8. Dies'
    BY <1>2, <2>2, <2>3, <2>4, <2>5, <2>6, <2>7 DEF Dies, Live, z
  <2>9. QED
    BY <1>0, <2>3, <2>8 DEF CallInv, Phases
<1>8. CASE Reaps
  <2>1. PICK d \in Pids \ {init} : /\ Others(d) /\ status[d] = "free" /\ Holds(d) = Keep
                                   /\ PutsThen(todo, {d} \X Keep, <<>>)
    BY <1>8 DEF Reaps
  <2>2. OwnsOK' /\ todo' = <<>> /\ Holds(d)' = Holds(d) \ Keep /\ OnlyChanges(d)
    BY <1>0, <2>1, NoPutFacts, PutsBackOf
  <2>3. Holds(New)' = {} /\ Holds(d)' = {}
    BY <1>8, <2>1, <2>2 DEF Reaps, OnlyChanges
  <2>30. NoArgs'
    BY <1>8, <2>2 DEF Reaps, NoArgs, OnlyChanges
  <2>4. Others(d)'
    BY <2>1, <2>2, OthersSame
  <2>5. Settled(d)'
    BY <2>1, <2>3 DEF Settled
  <2>6. AtRest'
    BY <2>2, <2>3, <2>30, <2>4, <2>5 DEF AtRest, AllSettled, Others
  <2>7. QED
    BY <1>0, <2>2, <2>6 DEF CallInv, Phases
<1>9. QED
  BY <1>1, <1>4, <1>5, <1>7, <1>8, PhaseOf

(* do_exit makes a zombie of the caller, which then hands its children      *)
(* over.                                                                    *)
LEMMA ZombieCall == ASSUME CallInv, Zombie PROVE CallInv'
<1>1. Doing("do", "zombie") /\ status' = [status EXCEPT ![caller] = "zombie"]
      /\ todo' = Do("adopt") /\ caller' = caller /\ owns' = owns
      /\ call' = IF todo' = <<>> THEN "none" ELSE call
  BY DEF Zombie, Continue
<1>2. Dies /\ OwnsOK /\ CallerInv
  BY <1>1, PhaseOf DEF CallInv
<1>3. PICK H, G : /\ H = Holds(New) /\ G = Holds(caller) \ Keep
                  /\ PutsThen(todo, ({New} \X H) \cup ArgThings \cup ({caller} \X G), Do("zombie"))
  BY <1>2 DEF Dies
<1>4. H = {} /\ G = {} /\ NoArgs
  <2>1. Op.do = "do"
    BY <1>1 DEF Doing
  <2>2. ({New} \X H) \cup ArgThings \cup ({caller} \X G) = {}
    BY <1>3, <2>1, PutsReturns DEF Steps
  <2>3. \A q \in H : <<New, q>> \in {New} \X H
    OBVIOUS
  <2>4. \A q \in G : <<caller, q>> \in {caller} \X G
    OBVIOUS
  <2>5. QED
    BY <2>2, <2>3, <2>4, ArgThingsFacts
<1>5. OwnsOK' /\ (\A q : Holds(q)' = Holds(q)) /\ NoArgs'
  BY <1>1, <1>2, <1>4 DEF OwnsOK, Holds, NoArgs
<1>6. CallerInv' /\ status'[caller'] = "zombie"
  BY <1>1, <1>2 DEF CallerInv
<1>7. AllSettled'
  <2>1. ASSUME NEW q \in Pids \ {caller} PROVE Settled(q)'
    <3>1. status'[q] = status[q] /\ Holds(q)' = Holds(q) /\ Settled(q)
      BY <1>1, <1>2, <1>5 DEF CallerInv, Dies, Others
    <3>2. QED
      BY <3>1, SettledSame
  <2>2. PICK c \in Pids : c = caller
    BY <1>2 DEF CallerInv
  <2>3. Settled(c)'
    <3>1. Holds(c)' = Keep
      BY <1>2, <1>3, <1>4, <1>5, <2>2 DEF Dies
    <3>2. c # init /\ status'[c] = "zombie"
      BY <1>1, <1>2, <1>6, <2>2 DEF Dies
    <3>3. QED
      BY <3>1, <3>2 DEF Settled
  <2>4. QED
    BY <2>1, <2>2, <2>3 DEF AllSettled
<1>8. Adopts'
  <2>1. call' \in {"exec", "exit"} /\ caller' # init
    BY <1>1, <1>2, DoFacts DEF Dies, Steps
  <2>2. QED
    BY <1>1, <1>3, <1>4, <1>5, <1>6, <1>7, <2>1 DEF Adopts
<1>9. QED
  BY <1>5, <1>6, <1>8 DEF CallInv, Phases

(* The children change nothing of what is held.                             *)
LEMMA AdoptCall == ASSUME CallInv, Adopt PROVE CallInv'
<1>1. Doing("do", "adopt") /\ UNCHANGED <<status, owns, caller>>
      /\ \/ UNCHANGED <<todo, call>>
         \/ todo' = Tail(todo) /\ call' = IF todo' = <<>> THEN "none" ELSE call
  BY DEF Adopt, Continue
<1>2. CASE UNCHANGED <<todo, call>>
  BY <1>1, <1>2, CallStutter
<1>3. CASE todo' = Tail(todo) /\ call' = IF todo' = <<>> THEN "none" ELSE call
  <2>1. Adopts /\ OwnsOK /\ CallerInv
    BY <1>1, PhaseOf DEF CallInv
  <2>2. todo' = <<>> /\ call' = "none"
    BY <1>3, <2>1, DoFacts DEF Adopts, Steps
  <2>3. OwnsOK' /\ CallerInv' /\ Holds(New)' = {} /\ NoArgs' /\ AllSettled'
    BY <1>1, <2>1, SameHolds, OwnerFacts DEF Adopts, AllSettled, CallerInv
  <2>4. QED
    BY <2>2, <2>3 DEF CallInv, Phases, AtRest
<1>4. QED
  BY <1>1, <1>2, <1>3

(* The new process gets what the fork holds,                                *)
LEMMA SetLinksOwns ==
  ASSUME OwnsOK, NEW pid \in Pids, owns' = [owns EXCEPT ![pid] = owns[New], ![New] = Nothing]
  PROVE  /\ \A r \in Resources : owns'[pid][r] = owns[New][r] /\ owns'[New][r] = 0
         /\ \A q \in Owners : q # pid /\ q # New => owns'[q] = owns[q]
         /\ owns' \in [Owners -> [Resources -> Nat]]
<1> USE OwnerFacts
<1>1. Nothing \in [Resources -> Nat] /\ \A r \in Resources : Nothing[r] = 0
  BY DEF Nothing
<1>2. owns \in [Owners -> [Resources -> Nat]] /\ pid \in Owners /\ pid # New /\ New \in Owners
  BY DEF OwnsOK
<1> HIDE DEF Nothing
<1>3. owns'[pid] = owns[New] /\ owns'[New] = Nothing
      /\ \A q \in Owners : q # pid /\ q # New => owns'[q] = owns[q]
  BY <1>2
<1>4. owns' \in [Owners -> [Resources -> Nat]]
  BY <1>1, <1>2
<1>5. QED
  BY <1>1, <1>3, <1>4

(* do_fork ends: the new process has what the call had got.                *)
LEMMA SetLinksCall ==
  ASSUME CallInv, SetLinks, NEW pid \in Pids, pid = last_pid, status[pid] = "free"
  PROVE  CallInv'
<1> USE OwnerFacts
<1>1. /\ Doing("do", "get_pid") /\ status' = [status EXCEPT ![pid] = "live"]
      /\ owns' = [owns EXCEPT ![pid] = owns[New], ![New] = Nothing]
      /\ todo' = Tail(todo) /\ caller' = caller
      /\ call' = IF todo' = <<>> THEN "none" ELSE call
  BY DEF SetLinks, Continue
<1>2. ForkTakes /\ OwnsOK /\ CallerInv
  BY <1>1, PhaseOf DEF CallInv
<1>3. PICK u \in BOOLEAN : u = IsUser(caller)
  BY DEF IsUser
<1>4. PICK S : S = ForkSeq(u)
  OBVIOUS
<1>5. Taking(New, S, "get_pid", {}) /\ S \in Seq(Resources) /\ Forks
  BY <1>2, <1>3, <1>4, ForkSeqFacts DEF ForkTakes
<1>6. Holds(New) = {} \cup Upto(S, Len(S)) /\ todo' = <<>>
  <2>1. Op.do = "do"
    BY <1>1 DEF Doing
  <2>2. Holds(New) = {} \cup Upto(S, Len(S)) /\ Tail(todo) = <<>>
    BY <1>5, <2>1, TakingDone
  <2>3. QED
    BY <1>1, <2>2
<1>7. Holds(New) \in Normal
  <2>1. CASE u = TRUE
    <3>1. Len(S) = 12 /\ Upto(ForkSeq(TRUE), 12) = Base \cup UserSpace
      BY <1>4, <2>1, ForkSeqFacts, UptoFork
    <3>2. Upto(S, Len(S)) = Base \cup UserSpace
      BY <1>4, <2>1, <3>1
    <3>3. QED
      BY <1>6, <3>2 DEF Normal
  <2>2. CASE u = FALSE
    <3>1. Len(S) = 4 /\ Upto(S, 4) = Base
      BY <1>4, <2>2, ForkSeqFacts, UptoFork
    <3>2. QED
      BY <1>6, <3>1 DEF Normal
  <2>3. QED
    BY <2>1, <2>2
<1>8. /\ \A r \in Resources : owns'[pid][r] = owns[New][r] /\ owns'[New][r] = 0
      /\ \A q \in Owners : q # pid /\ q # New => owns'[q] = owns[q]
      /\ owns' \in [Owners -> [Resources -> Nat]]
  BY <1>1, <1>2, SetLinksOwns
<1>9. /\ OwnsOK' /\ Holds(New)' = {} /\ Holds(pid)' = Holds(New)
      /\ \A q \in Pids \ {pid} : Holds(q)' = Holds(q)
  BY <1>8 DEF OwnsOK, Holds
<1>90. NoArgs'
  <2>1. \A a \in Args : Holds(a)' = Holds(a)
    BY <1>8 DEF Holds
  <2>2. QED
    BY <1>5, <2>1 DEF Forks, NoArgs
<1>10. status \in [Pids -> {"free", "live", "zombie"}]
  BY <1>2 DEF CallerInv
<1>11. CallerInv'
  BY <1>1, <1>2, <1>10 DEF CallerInv
<1>12. ASSUME NEW q \in Pids PROVE Settled(q)'
  <2>1. CASE q = pid
    <3>1. Settled(pid)
      BY <1>5 DEF Forks, AllSettled
    <3>2. pid # init
      BY <3>1 DEF Settled
    <3>3. status'[pid] = "live" /\ Holds(pid)' \in Normal
      BY <1>1, <1>7, <1>9, <1>10
    <3>4. QED
      BY <2>1, <3>2, <3>3 DEF Settled
  <2>2. CASE q # pid
    <3>1. status'[q] = status[q] /\ Holds(q)' = Holds(q) /\ Settled(q)
      BY <1>1, <1>5, <1>9, <1>10, <2>2 DEF Forks, AllSettled
    <3>2. QED
      BY <3>1, SettledSame
  <2>3. QED
    BY <2>1, <2>2
<1>13. AtRest'
  BY <1>1, <1>6, <1>9, <1>90, <1>12 DEF AtRest, AllSettled
<1>14. QED
  BY <1>9, <1>11, <1>13 DEF CallInv, Phases

(* The new memory is the process's.                                        *)
LEMMA SetMmOwns ==
  ASSUME CallInv, SetMm, NEW c \in Pids, c = caller
  PROVE  /\ Execs /\ Holds(c) = Base /\ Holds(New) = UserSpace /\ SomeArgs
         /\ \A r \in Resources : /\ owns'[c][r] = IF r \in UserSpace THEN owns[New][r] ELSE owns[c][r]
                                 /\ owns'[New][r] = 0
         /\ \A q \in Owners : q # c /\ q # New => owns'[q] = owns[q]
         /\ owns' \in [Owners -> [Resources -> Nat]]
<1> USE OwnerFacts
<1>1. c = caller
  OBVIOUS
<1>2. /\ Doing("do", "set_mm") /\ UNCHANGED <<status, caller>>
      /\ owns' = [owns EXCEPT
                   ![c] = [r \in Resources |-> IF r \in UserSpace THEN owns[New][r] ELSE @[r]],
                   ![New] = Nothing]
  BY <1>1 DEF SetMm, Continue, tree
<1>3. LoadsStack /\ OwnsOK /\ CallerInv
  BY <1>2, PhaseOf DEF CallInv
<1>4. /\ Execs /\ Holds(c) = Base /\ SomeArgs
      /\ Taking(New, StackSeq, "set_mm", {"mm", "pgdir", "text_vma", "text", "text_pt"})
  BY <1>1, <1>3 DEF LoadsStack, Loads
<1>5. Holds(New) = UserSpace
  <2>1. Op.do = "do"
    BY <1>2 DEF Doing
  <2>2. Holds(New) = {"mm", "pgdir", "text_vma", "text", "text_pt"} \cup Upto(StackSeq, Len(StackSeq))
    <3>1. PICK S, X : S = StackSeq /\ X = {"mm", "pgdir", "text_vma", "text", "text_pt"}
      OBVIOUS
    <3>2. Taking(New, S, "set_mm", X) /\ S \in Seq(Resources)
      BY <1>4, <3>1, SeqFacts
    <3>3. Holds(New) = X \cup Upto(S, Len(S))
      BY <2>1, <3>2, TakingDone
    <3>4. QED
      BY <3>1, <3>3
  <2>3. Upto(StackSeq, Len(StackSeq)) = {"stack_vma", "stack", "stack_pt"}
    BY SeqFacts, UptoSeqs
  <2>4. QED
    BY <2>2, <2>3 DEF UserSpace
<1>6. /\ \A r \in Resources : /\ owns'[c][r] = IF r \in UserSpace THEN owns[New][r] ELSE owns[c][r]
                              /\ owns'[New][r] = 0
      /\ \A q \in Owners : q # c /\ q # New => owns'[q] = owns[q]
      /\ owns' \in [Owners -> [Resources -> Nat]]
  <2> DEFINE f == [r \in Resources |-> IF r \in UserSpace THEN owns[New][r] ELSE owns[c][r]]
  <2>1. Nothing \in [Resources -> Nat] /\ \A r \in Resources : Nothing[r] = 0
    BY DEF Nothing
  <2>2. owns \in [Owners -> [Resources -> Nat]] /\ c \in Owners /\ c # New /\ New \in Owners
    BY <1>3 DEF OwnsOK
  <2>3. /\ f \in [Resources -> Nat]
        /\ \A r \in Resources : f[r] = IF r \in UserSpace THEN owns[New][r] ELSE owns[c][r]
    BY <2>2
  <2>4. owns' = [owns EXCEPT ![c] = f, ![New] = Nothing]
    BY <1>2, <2>2
  <2> HIDE DEF Nothing, f
  <2>5. owns'[c] = f /\ owns'[New] = Nothing
        /\ \A q \in Owners : q # c /\ q # New => owns'[q] = owns[q]
    BY <2>2, <2>4
  <2>6. owns' \in [Owners -> [Resources -> Nat]]
    BY <2>1, <2>2, <2>3, <2>4
  <2>7. QED
    BY <2>1, <2>3, <2>5, <2>6
<1>7. QED
  BY <1>4, <1>5, <1>6

(* put_kargv is the rest of the call.                                      *)
LEMMA PutsArgs == ASSUME SomeArgs PROVE PutsThen(PutKargv, ArgThings, <<>>)
<1>1. PICK n \in 0..EXEC_MAX_ARG_NUM : HasArgs(n)
  BY DEF SomeArgs
<1>2. argc = n /\ ArgThings = KargThings(n)
  BY <1>1, ArgThingsFacts
<1>3. <<>> \in Seq(Entries) /\ PutsThen(<<>>, {}, <<>>)
  BY EmptyFacts, PutsNone
<1>4. KargThings(n) \cap {} = {} /\ KargThings(n) \cup {} = KargThings(n)
  OBVIOUS
<1>5. PutKargv \in Seq(Entries) /\ PutsThen(PutKargv \o <<>>, KargThings(n) \cup {}, <<>>)
  BY <1>2, <1>3, <1>4, PutKargvPuts
<1>6. PutKargv \o <<>> = PutKargv
  BY <1>5, ConcatEmptySeq
<1>7. QED
  BY <1>2, <1>4, <1>5, <1>6

(* do_execve ends with the new memory.                                      *)
LEMMA SetMmCall == ASSUME CallInv, SetMm PROVE CallInv'
<1> USE OwnerFacts
<1>1. PICK c \in Pids : c = caller
  BY DEF CallInv, CallerInv
<1>2. /\ Doing("do", "set_mm") /\ UNCHANGED <<status, caller>>
      /\ todo' = PutKargv
      /\ call' = IF todo' = <<>> THEN "none" ELSE call
  BY <1>1 DEF SetMm, Continue, tree
<1>3. LoadsStack /\ OwnsOK /\ CallerInv /\ CallerInv'
  BY <1>2, PhaseOf DEF CallInv, CallerInv
<1>4. Execs /\ Holds(c) = Base /\ Holds(New) = UserSpace /\ SomeArgs
  BY <1>1, SetMmOwns
<1>5. Holds(New) = UserSpace
  BY <1>4
<1>6. /\ \A r \in Resources : /\ owns'[c][r] = IF r \in UserSpace THEN owns[New][r] ELSE owns[c][r]
                              /\ owns'[New][r] = 0
      /\ \A q \in Owners : q # c /\ q # New => owns'[q] = owns[q]
      /\ owns' \in [Owners -> [Resources -> Nat]]
  BY <1>1, SetMmOwns
<1>7. /\ OwnsOK' /\ Holds(New)' = {} /\ \A q \in Pids \ {c} : Holds(q)' = Holds(q)
  BY <1>6 DEF OwnsOK, Holds
<1>8. Holds(c)' = Base \cup UserSpace
  <2>1. Holds(c)' = {r \in Resources : IF r \in UserSpace THEN owns[New][r] # 0 ELSE owns[c][r] # 0}
    BY <1>6 DEF Holds
  <2>2. \A r \in Resources : /\ owns[New][r] # 0 <=> r \in Holds(New)
                             /\ owns[c][r] # 0 <=> r \in Holds(c)
    BY DEF Holds
  <2>3. QED
    BY <1>4, <1>5, <2>1, <2>2, ResourceFacts
<1>9. Others(c)'
  <2>1. ASSUME NEW q \in Pids \ {c} PROVE Settled(q)'
    <3>1. status'[q] = status[q] /\ Holds(q)' = Holds(q) /\ Settled(q)
      BY <1>1, <1>2, <1>4, <1>7 DEF Execs, Others
    <3>2. QED
      BY <3>1, SettledSame
  <2>2. QED
    BY <2>1 DEF Others
<1>10. ArgThings' = ArgThings
  <2>1. \A a \in Args : Holds(a)' = Holds(a)
    BY <1>6 DEF Holds
  <2>2. QED
    BY <2>1, ArgsSame
<1>11. PutsThen(todo', ArgThings', <<>>) /\ <<>> \in CallEnds
  BY <1>2, <1>4, <1>10, PutsArgs DEF CallEnds
<1>12. /\ Live' /\ call = "exec" /\ caller # init /\ caller' = caller /\ Others(caller)'
       /\ Holds(caller)' = Base \cup UserSpace /\ Base \cup UserSpace \in Normal
  BY <1>1, <1>2, <1>4, <1>8, <1>9 DEF Execs, Live, Normal
<1>13. QED
  BY <1>2, <1>3, <1>7, <1>11, <1>12, ExecReturns

(* All that was to be had for this part of the call is there.              *)
LEMMA DoneTaking ==
  ASSUME NEW p, NEW S, S \in Seq(Resources), NEW d, NEW X, Taking(p, S, d, X),
         Doing("do", "copy") \/ Doing("do", "elf") \/ Doing("do", "read")
  PROVE  Holds(p) = X \cup Upto(S, Len(S))
<1>1. Op.do = "do"
  BY DEF Doing
<1>2. QED
  BY <1>1, TakingDone

(* Another argument, or it was the last, or one cannot be read.            *)
LEMMA CopyCall == ASSUME CallInv, Copy PROVE CallInv'
<1> USE OwnerFacts
<1>1. /\ Doing("do", "copy") /\ UNCHANGED <<owns, status, caller>>
      /\ call' = IF todo' = <<>> THEN "none" ELSE call
      /\ \/ argc < EXEC_MAX_ARG_NUM /\ todo' = Get(Arg(argc + 1), ArgSeq) \o Do("copy")
         \/ todo' = Do("open")
         \/ todo' = PutKargv
  BY DEF Copy, Continue, tree, ArgSeq
<1>2. (ExecCopies \/ ExecArgs) /\ OwnsOK /\ CallerInv /\ CallerInv' /\ caller \in Pids
  BY <1>1, PhaseOf DEF CallInv, CallerInv
<1>3. EXEC_MAX_ARG_NUM \in Nat
  BY TableAssumption
<1>4. PICK n \in 0..EXEC_MAX_ARG_NUM : HasArgs(n)
  <2>1. CASE ExecCopies
    BY <2>1, <1>3, ArgThingsFacts DEF ExecCopies
  <2>2. CASE ExecArgs
    <3>1. PICK n \in 1..EXEC_MAX_ARG_NUM :
            /\ \A i \in 1..EXEC_MAX_ARG_NUM : i # n => Holds(Arg(i)) = IF i < n THEN Kargs ELSE {}
            /\ Taking(Arg(n), ArgSeq, "copy", {})
      BY <2>2 DEF ExecArgs
    <3>2. Holds(Arg(n)) = Kargs
      <4>1. PICK S, X : S = ArgSeq /\ X = {}
        OBVIOUS
      <4>2. Taking(Arg(n), S, "copy", X) /\ S \in Seq(Resources)
        BY <3>1, <4>1, SeqFacts
      <4>3. Holds(Arg(n)) = X \cup Upto(S, Len(S))
        BY <1>1, <4>2, DoneTaking
      <4>4. Len(S) = 2 /\ Upto(S, 2) = Kargs
        BY <4>1, SeqFacts, UptoSeqs
      <4>5. QED
        BY <4>1, <4>3, <4>4
    <3>3. HasArgs(n)
      <4>1. \A i \in 1..EXEC_MAX_ARG_NUM : i # n => (i <= n <=> i < n)
        BY <1>3
      <4>2. n <= n
        BY <1>3
      <4>3. QED
        BY <3>1, <3>2, <4>1, <4>2 DEF HasArgs
    <3>4. n \in 0..EXEC_MAX_ARG_NUM
      BY <1>3
    <3>5. QED
      BY <3>3, <3>4
  <2>3. QED
    BY <1>2, <2>1, <2>2
<1>5. argc = n /\ SomeArgs
  BY <1>4, ArgThingsFacts DEF SomeArgs
<1>6. Copies
  BY <1>2 DEF ExecCopies, ExecArgs
<1>7. PICK h \in Normal : Holds(caller) = h /\ Execs /\ Holds(New) = {}
  BY <1>6 DEF Copies
<1>8. /\ OwnsOK' /\ Holds(New)' = {} /\ Holds(caller)' = h /\ Others(caller)' /\ Live'
      /\ \A i \in 1..EXEC_MAX_ARG_NUM : Holds(Arg(i))' = Holds(Arg(i))
  BY <1>1, <1>2, <1>7, SameHolds, ArgFacts DEF Execs, Others, Live
<1>9. todo' # <<>> => Copies'
  BY <1>1, <1>7, <1>8 DEF Copies, Execs
<1>10. CASE argc < EXEC_MAX_ARG_NUM /\ todo' = Get(Arg(argc + 1), ArgSeq) \o Do("copy")
  <2>1. PICK m \in 1..EXEC_MAX_ARG_NUM : m = n + 1
    BY <1>3, <1>5, <1>10
  <2>2. PICK a \in Owners : a = Arg(m)
    BY ArgFacts
  <2>3. /\ \A i \in 1..EXEC_MAX_ARG_NUM : i # m => Holds(Arg(i))' = IF i < m THEN Kargs ELSE {}
        /\ Holds(a)' = {}
    <3>1. \A i \in 1..EXEC_MAX_ARG_NUM : i <= n <=> i < m
      BY <1>3, <2>1
    <3>2. ~(m < m)
      BY <1>3
    <3>3. QED
      BY <1>4, <1>8, <2>2, <3>1, <3>2 DEF HasArgs
  <2>4. todo' = Get(a, ArgSeq) \o Do("copy")
    BY <1>5, <1>10, <2>1, <2>2
  <2>5. Taking(a, ArgSeq, "copy", {})' /\ todo' # <<>>
    BY <2>3, <2>4, SeqFacts, TakingStarts DEF Steps
  <2>6. ExecArgs'
    BY <1>9, <2>2, <2>3, <2>5 DEF ExecArgs
  <2>7. QED
    BY <1>2, <1>8, <2>6 DEF CallInv, Phases
<1>11. CASE todo' = Do("open")
  <2>1. todo' # <<>>
    BY <1>11, DoFacts DEF Steps
  <2>2. SomeArgs'
    BY <1>4, <1>8 DEF SomeArgs, HasArgs
  <2>3. ExecOpens'
    BY <1>9, <1>11, <2>1, <2>2 DEF ExecOpens
  <2>4. QED
    BY <1>2, <1>8, <2>3 DEF CallInv, Phases
<1>12. CASE todo' = PutKargv
  <2>1. PutsThen(todo', ArgThings, <<>>) /\ <<>> \in CallEnds
    BY <1>5, <1>12, PutsArgs DEF CallEnds
  <2>2. QED
    BY <1>1, <1>6, <2>1, ExecGivesUp
<1>13. QED
  BY <1>1, <1>10, <1>11, <1>12

(* The program is opened, its header read, its text read; or not.           *)
LEMMA OpenCall == ASSUME CallInv, TryFile("open") PROVE CallInv'
<1> USE OwnerFacts
<1>1. PICK c \in Pids : c = caller
  BY DEF CallInv, CallerInv
<1>2. /\ Doing("do", "open") /\ UNCHANGED <<owns, status, caller>>
      /\ \/ todo' = FileIsRead("open") \/ todo' = FileCleanup("open")
      /\ call' = IF todo' = <<>> THEN "none" ELSE call
  BY DEF TryFile, Continue, tree
<1>3. ExecOpens /\ OwnsOK /\ CallerInv /\ CallerInv'
  BY <1>2, PhaseOf DEF CallInv, CallerInv
<1>5. PICK h \in Normal : Holds(c) = h /\ Holds(caller) = h
  BY <1>1, <1>3 DEF ExecOpens, Copies
<1>6. Execs /\ Holds(New) = {} /\ call = "exec" /\ SomeArgs
  BY <1>3 DEF ExecOpens, Copies, Execs
<1>7. CASE todo' = FileCleanup("open")
  <2>1. todo' = ExecveExit
    BY <1>7 DEF FileCleanup
  <2>2. PutsThen(todo', ArgThings \cup ({c} \X (Holds(c) \ Keep)), Do("zombie"))
    BY <1>1, <1>5, <1>6, <2>1, ExecveExitPuts
  <2>3. ({New} \X Holds(New)) \cup ArgThings = ArgThings
    BY <1>6
  <2>4. PutsThen(todo', ({New} \X Holds(New)) \cup ArgThings \cup ({caller} \X (Holds(caller) \ Keep)),
                 Do("zombie"))
    BY <1>1, <2>2, <2>3
  <2>6. QED
    BY <1>2, <1>5, <1>6, <2>4, ExecDies
<1>8. CASE todo' = FileIsRead("open")
  <2> DEFINE t == Get(New, MmSeq) \o Do("elf")
  <2>0. todo' = (DropMm(c) \o Get(New, MmSeq)) \o Do("elf")
    BY <1>1, <1>8 DEF FileIsRead, MmSeq
  <2>1. Gets(t, New, MmSeq, 0, "elf")
    BY SeqFacts, GetsStart DEF Steps
  <2>2. t \in Seq(Entries) /\ t # <<>> /\ NoPut(t)
    BY <2>1, SeqFacts, NoPutFacts, GetsHead
  <2>3. PutsThen(t, {}, t)
    BY <2>2, PutsNone
  <2>4. Get(New, MmSeq) \in Seq(Entries) /\ Do("elf") \in Seq(Entries)
    <3>1. MmSeq \in Seq(Resources) /\ Len(MmSeq) = 2 /\ DOMAIN MmSeq = 1..2
          /\ MmSeq[1] \in Resources /\ MmSeq[2] \in Resources
      BY SeqFacts, LenProperties DEF MmSeq, Resources, Objects, PageRuns
    <3>2. \A i \in 1..2 : [do |-> "get", what |-> MmSeq[i], of |-> New] \in Entries
      BY <3>1 DEF Entries
    <3>3. Get(New, MmSeq) = [i \in 1..2 |-> [do |-> "get", what |-> MmSeq[i], of |-> New]]
      BY <3>1 DEF Get
    <3>4. Get(New, MmSeq) \in Seq(Entries)
      BY <3>2, <3>3
    <3>5. QED
      BY <3>4, DoFacts DEF Steps
  <2> HIDE DEF t
  <2>5. PICK M : M = Holds(c) \cap UserSpace
    OBVIOUS
  <2>6. M \in {{}, UserSpace}
    BY <1>5, <2>5, ResourceFacts DEF Normal
  <2>7. /\ DropMm(c) \in Seq(Entries)
        /\ PutsThen(DropMm(c) \o t, {c} \X M, t)
    <3>1. Holds(c) \cap UserSpace \in {{}, UserSpace}
      BY <2>5, <2>6
    <3>2. ({c} \X UserSpace) \cap {} = {} /\ ({c} \X M) \cup {} = {c} \X M
      OBVIOUS
    <3>3. /\ DropMm(c) \in Seq(Entries)
          /\ PutsThen(DropMm(c) \o t, ({c} \X (Holds(c) \cap UserSpace)) \cup {}, t)
      BY <2>2, <2>3, <3>1, <3>2, DropMmPuts
    <3>4. QED
      BY <2>5, <3>2, <3>3
  <2>8. todo' = DropMm(c) \o t
    BY <2>0, <2>4, <2>7, ConcatAssociative DEF t
  <2>9. /\ OwnsOK' /\ Holds(New)' = {} /\ Holds(c)' = h /\ caller' = c /\ Live'
        /\ Others(c)' /\ SomeArgs'
    <3>1. \A a \in Args : Holds(a)' = Holds(a)
      BY <1>2, <1>3, SameHolds
    <3>2. SomeArgs'
      BY <1>6, <3>1, ArgsSame
    <3>3. QED
      BY <1>1, <1>2, <1>3, <1>5, <1>6, <3>2, SameHolds DEF Execs, Others, Live
  <2>10. todo' # <<>>
    BY <2>2, <2>7, <2>8, PutsHead
  <2>11. Execs'
    BY <1>2, <1>6, <2>9, <2>10 DEF Execs
  <2>12. CASE M = {}
    <3>1. h = Base
      <4>1. UserSpace \cap Holds(c) # UserSpace
        BY <2>5, <2>12 DEF UserSpace
      <4>2. QED
        BY <1>5, <4>1 DEF Normal
    <3>2. todo' = t
      <4>1. {c} \X M = {}
        BY <2>12
      <4>2. QED
        BY <2>7, <2>8, <4>1, PutsHead
    <3>3. Taking(New, MmSeq, "elf", {})'
      <4>1. Upto(MmSeq, 0) = {} /\ 0 \in 0..Len(MmSeq)
        BY <2>1, UptoFacts DEF Gets
      <4>2. Holds(New)' = {} \cup Upto(MmSeq, 0)
        BY <2>9, <4>1
      <4>3. Gets(todo', New, MmSeq, 0, "elf")
        BY <2>1, <3>2 DEF t
      <4>4. QED
        BY <4>1, <4>2, <4>3 DEF Taking
    <3>4. LoadsMm'
      BY <2>9, <2>11, <3>1, <3>3 DEF LoadsMm, Loads
    <3>5. QED
      BY <1>3, <2>9, <3>4 DEF CallInv, Phases
  <2>13. CASE M = UserSpace
    <3>1. h = Base \cup UserSpace
      <4>1. "mm" \in h
        BY <1>5, <2>5, <2>13 DEF UserSpace
      <4>2. QED
        BY <4>1 DEF Normal, Base
    <3>2. Gets(t, New, MmSeq, 0, "elf")
      BY <2>1 DEF t
    <3>3. PutsThen(todo', {caller'} \X UserSpace, t)
      BY <2>7, <2>8, <2>9, <2>13
    <3>4. ExecDrops'
      BY <2>9, <2>11, <3>1, <3>2, <3>3 DEF ExecDrops
    <3>5. QED
      BY <1>3, <2>9, <3>4 DEF CallInv, Phases
  <2>14. QED
    BY <2>6, <2>12, <2>13
<1>9. QED
  BY <1>2, <1>7, <1>8

(* The next part of load_icode begins.                                     *)
LEMMA LoadGoesOn ==
  ASSUME CallInv, Execs, UNCHANGED <<owns, status, caller>>,
         call' = (IF todo' = <<>> THEN "none" ELSE call),
         Holds(caller) = Base, SomeArgs,
         NEW S \in Seq(Resources), NEW d \in Steps, NEW X, X = Holds(New), todo' = Get(New, S) \o Do(d)
  PROVE  OwnsOK' /\ CallerInv' /\ Loads(S, d, X)'
<1> USE OwnerFacts
<1>1. CallerInv' /\ OwnsOK /\ caller \in Pids
  BY DEF CallInv, CallerInv
<1>2. /\ OwnsOK' /\ Holds(New)' = X /\ Holds(caller)' = Base /\ SomeArgs'
      /\ Others(caller)' /\ Live'
  <2>1. \A a \in Args : Holds(a)' = Holds(a)
    BY <1>1, SameHolds
  <2>2. SomeArgs'
    BY <2>1, ArgsSame
  <2>3. QED
    BY <1>1, <2>2, SameHolds DEF Execs, Others, Live
<1>3. Taking(New, S, d, X)' /\ todo' # <<>>
  BY <1>2, TakingStarts
<1>4. Execs'
  BY <1>2, <1>3 DEF Execs
<1>5. QED
  BY <1>1, <1>2, <1>3, <1>4 DEF Loads

LEMMA ElfCall == ASSUME CallInv, TryFile("elf") PROVE CallInv'
<1> USE OwnerFacts
<1>1. PICK c \in Pids : c = caller
  BY DEF CallInv, CallerInv
<1>2. /\ Doing("do", "elf") /\ UNCHANGED <<owns, status, caller>>
      /\ \/ todo' = FileIsRead("elf") \/ todo' = FileCleanup("elf")
      /\ call' = (IF todo' = <<>> THEN "none" ELSE call)
  BY DEF TryFile, Continue, tree
<1>3. LoadsMm
  BY <1>2, PhaseOf
<1>4. Execs /\ Holds(caller) = Base /\ SomeArgs /\ Taking(New, MmSeq, "elf", {})
  BY <1>3 DEF LoadsMm, Loads
<1>5. Holds(New) = {"mm", "pgdir"}
  <2>1. PICK S, X : S = MmSeq /\ X = {}
    OBVIOUS
  <2>2. Taking(New, S, "elf", X) /\ S \in Seq(Resources)
    BY <1>4, <2>1, SeqFacts
  <2>3. Holds(New) = X \cup Upto(S, Len(S))
    BY <1>2, <2>2, DoneTaking
  <2>4. Len(S) = 2 /\ Upto(S, 2) = {"mm", "pgdir"}
    BY <2>1, SeqFacts, UptoSeqs
  <2>5. QED
    BY <2>1, <2>3, <2>4
<1>6. CASE todo' = FileIsRead("elf")
  <2>1. todo' = Get(New, TextSeq) \o Do("read")
    BY <1>6 DEF FileIsRead, TextSeq
  <2>2. OwnsOK' /\ CallerInv' /\ Loads(TextSeq, "read", {"mm", "pgdir"})'
    <3>1. PICK S, X : S = TextSeq /\ X = {"mm", "pgdir"}
      OBVIOUS
    <3>2. OwnsOK' /\ CallerInv' /\ Loads(S, "read", X)'
      BY <1>2, <1>4, <1>5, <2>1, <3>1, SeqFacts, LoadGoesOn DEF Steps
    <3>3. QED
      BY <3>1, <3>2
  <2>3. QED
    BY <2>2 DEF CallInv, Phases, LoadsText
<1>7. CASE todo' = FileCleanup("elf")
  <2>1. PICK rs, H : rs = <<"pgdir", "mm">> /\ H = {"pgdir", "mm"}
    OBVIOUS
  <2>2. Lists(rs, H) /\ H = Holds(New) /\ Holds(c) \in Normal /\ Holds(caller) \in Normal
    BY <1>1, <1>4, <1>5, <2>1, FilesLists DEF Normal
  <2>3. PutsThen(Put(New, rs) \o ExecveExit,
                 ({New} \X H) \cup ArgThings \cup ({c} \X (Holds(c) \ Keep)), Do("zombie"))
    BY <1>1, <1>4, <2>2, LoadUndoes
  <2>4. todo' = Put(New, rs) \o ExecveExit
    BY <1>7, <2>1 DEF FileCleanup
  <2>5. PutsThen(todo', ({New} \X Holds(New)) \cup ArgThings \cup ({caller} \X (Holds(caller) \ Keep)),
                 Do("zombie"))
    BY <1>1, <2>2, <2>3, <2>4
  <2>6. QED
    BY <1>2, <1>4, <2>2, <2>5, ExecDies
<1>8. QED
  BY <1>2, <1>6, <1>7

LEMMA ReadCall == ASSUME CallInv, TryFile("read") PROVE CallInv'
<1> USE OwnerFacts
<1>2. /\ Doing("do", "read") /\ UNCHANGED <<owns, status, caller>>
      /\ \/ todo' = FileIsRead("read") \/ todo' = FileCleanup("read")
      /\ call' = (IF todo' = <<>> THEN "none" ELSE call)
  BY DEF TryFile, Continue, tree
<1>3. LoadsText
  BY <1>2, PhaseOf
<1>4. Execs /\ Holds(caller) = Base /\ SomeArgs /\ Taking(New, TextSeq, "read", {"mm", "pgdir"})
  BY <1>3 DEF LoadsText, Loads
<1>5. Holds(New) = {"mm", "pgdir", "text_vma", "text", "text_pt"}
  <2>1. PICK S, X : S = TextSeq /\ X = {"mm", "pgdir"}
    OBVIOUS
  <2>2. Taking(New, S, "read", X) /\ S \in Seq(Resources)
    BY <1>4, <2>1, SeqFacts
  <2>3. Holds(New) = X \cup Upto(S, Len(S))
    BY <1>2, <2>2, DoneTaking
  <2>4. Len(S) = 3 /\ Upto(S, 3) = {"text_vma", "text", "text_pt"}
    BY <2>1, SeqFacts, UptoSeqs
  <2>5. QED
    BY <2>1, <2>3, <2>4
<1>6. CASE todo' = FileIsRead("read")
  <2>1. todo' = Get(New, StackSeq) \o Do("set_mm")
    BY <1>6 DEF FileIsRead, StackSeq
  <2>2. OwnsOK' /\ CallerInv'
        /\ Loads(StackSeq, "set_mm", {"mm", "pgdir", "text_vma", "text", "text_pt"})'
    <3>1. PICK S, X : S = StackSeq /\ X = {"mm", "pgdir", "text_vma", "text", "text_pt"}
      OBVIOUS
    <3>2. OwnsOK' /\ CallerInv' /\ Loads(S, "set_mm", X)'
      BY <1>2, <1>4, <1>5, <2>1, <3>1, SeqFacts, LoadGoesOn DEF Steps
    <3>3. QED
      BY <3>1, <3>2
  <2>3. QED
    BY <2>2 DEF CallInv, Phases, LoadsStack
<1>7. CASE todo' = FileCleanup("read")
  <2>1. todo' = LoadCleanup("read")
    BY <1>7 DEF FileCleanup
  <2>2. Holds(New) \subseteq UserSpace /\ "mm" \in Holds(New) /\ "pgdir" \in Holds(New)
        /\ "read" \notin {"mm", "pgdir"}
    BY <1>5 DEF UserSpace
  <2>3. QED
    BY <1>2, <1>4, <2>1, <2>2, LoadDies
<1>8. QED
  BY <1>2, <1>6, <1>7

(* A resource that is about to be taken is not held yet.                   *)
Fresh ==
  /\ Op.of \in Owners /\ Op.what \in Resources
  /\ Op.what \notin Holds(Op.of)

Each(S) == \A i, j \in 1..Len(S) : S[i] = S[j] => i = j

(* What the list has next is not held.                                      *)
LEMMA TakingFresh ==
  ASSUME NEW p \in Owners, NEW S \in Seq(Resources), NEW d, NEW X, Taking(p, S, d, X),
         Doing("get", ""), Each(S),
         \A i \in 1..Len(S) : S[i] \notin X
  PROVE  Fresh
<1>1. PICK k \in 0..Len(S) : Gets(todo, p, S, k, d) /\ Holds(p) = X \cup Upto(S, k)
  BY DEF Taking
<1>2. Len(S) \in Nat
  BY LenProperties
<1>3. k < Len(S)
  <2>1. SUFFICES ASSUME ~(k < Len(S)) PROVE FALSE
    OBVIOUS
  <2>2. Head(todo) = [do |-> "do", what |-> d, of |-> New]
    BY <1>1, <2>1, GetsHead
  <2>3. QED
    BY <2>2 DEF Doing, Op
<1>4. /\ Head(todo) = [do |-> "get", what |-> S[k+1], of |-> p]
      /\ S[k+1] \in Resources /\ k + 1 \in 1..Len(S)
  BY <1>1, <1>3, GetsHead
<1>5. S[k+1] \notin Upto(S, k)
  <2>1. ASSUME NEW i \in 1..k PROVE S[i] # S[k+1]
    <3>1. i \in 1..Len(S) /\ i # k + 1
      <4>1. PICK n \in Nat : n = Len(S)
        BY <1>2
      <4>2. k \in 0..n /\ i \in 1..k
        BY <4>1
      <4>3. i \in 1..n /\ i # k + 1
        BY ONLY <4>2, n \in Nat
      <4>4. QED
        BY <4>1, <4>3
    <3>2. QED
      BY <1>4, <3>1, Zenon DEF Each
  <2>2. QED
    BY <2>1, Zenon DEF Upto
<1>6. S[k+1] \notin Holds(p)
  BY <1>1, <1>4, <1>5
<1>7. Op.of = p /\ Op.what = S[k+1]
  <2>1. PICK r : r = S[k+1]
    OBVIOUS
  <2>2. Op = [do |-> "get", what |-> r, of |-> p]
    BY <1>4, <2>1 DEF Op
  <2>3. Op.of = p /\ Op.what = r
    BY ONLY <2>2
  <2>4. QED
    BY <2>1, <2>3
<1>8. QED
  BY <1>4, <1>6, <1>7 DEF Fresh

(* No list names a thing twice.                                             *)
LEMMA EachTwo ==
  ASSUME NEW S, Len(S) = 2, S[1] # S[2]
  PROVE  Each(S) /\ \A i \in 1..Len(S) : S[i] \in {S[1], S[2]}
<1>1. \A i \in 1..2 : i = 1 \/ i = 2
  OBVIOUS
<1>2. QED
  BY <1>1, Zenon DEF Each

LEMMA EachThree ==
  ASSUME NEW S, Len(S) = 3, S[1] # S[2], S[1] # S[3], S[2] # S[3]
  PROVE  Each(S) /\ \A i \in 1..Len(S) : S[i] \in {S[1], S[2], S[3]}
<1>1. \A i \in 1..3 : i = 1 \/ i = 2 \/ i = 3
  OBVIOUS
<1>2. QED
  BY <1>1, Zenon DEF Each

LEMMA ForkSeqEach ==
  ASSUME NEW u \in BOOLEAN
  PROVE  Each(ForkSeq(u))
<1>1. CASE u = TRUE
  <2>1. PICK S : S = ForkSeq(TRUE)
    OBVIOUS
  <2>2. /\ Len(S) = 12 /\ S[1] = "proc" /\ S[2] = "kstack"
        /\ S[3] = "files_bb" /\ S[4] = "files" /\ S[5] = "mm" /\ S[6] = "pgdir"
        /\ S[7] = "stack_vma" /\ S[8] = "stack_pt" /\ S[9] = "stack"
        /\ S[10] = "text_vma" /\ S[11] = "text_pt" /\ S[12] = "text"
    BY <2>1, ForkSeqFacts
  <2>3. \A i, j \in 1..12 : S[i] = S[j] => i = j
    <3>1. \A i \in 1..12 : \/ i = 1 \/ i = 2 \/ i = 3 \/ i = 4 \/ i = 5 \/ i = 6
                           \/ i = 7 \/ i = 8 \/ i = 9 \/ i = 10 \/ i = 11 \/ i = 12
      OBVIOUS
    <3> DEFINE p(r) == IF r = "proc" THEN 1 ELSE IF r = "kstack" THEN 2
                       ELSE IF r = "files_bb" THEN 3 ELSE IF r = "files" THEN 4
                       ELSE IF r = "mm" THEN 5 ELSE IF r = "pgdir" THEN 6
                       ELSE IF r = "stack_vma" THEN 7 ELSE IF r = "stack_pt" THEN 8
                       ELSE IF r = "stack" THEN 9 ELSE IF r = "text_vma" THEN 10
                       ELSE IF r = "text_pt" THEN 11 ELSE 12
    <3>2. /\ p(S[1]) = 1 /\ p(S[2]) = 2 /\ p(S[3]) = 3 /\ p(S[4]) = 4 /\ p(S[5]) = 5
          /\ p(S[6]) = 6 /\ p(S[7]) = 7 /\ p(S[8]) = 8 /\ p(S[9]) = 9 /\ p(S[10]) = 10
          /\ p(S[11]) = 11 /\ p(S[12]) = 12
      BY ONLY <2>2
    <3> HIDE DEF p
    <3>3. \A i \in 1..12 : p(S[i]) = i
      BY ONLY <3>1, <3>2
    <3>4. QED
      BY <3>3, Zenon
  <2>4. Each(S)
    <3>1. Len(S) = 12
      BY <2>2
    <3>2. QED
      BY <2>3, <3>1, Zenon DEF Each
  <2>5. QED
    BY <1>1, <2>1, <2>4, Zenon
<1>2. CASE u = FALSE
  <2>1. PICK S : S = ForkSeq(FALSE)
    OBVIOUS
  <2>2. /\ Len(S) = 4 /\ S[1] = "proc" /\ S[2] = "kstack"
        /\ S[3] = "files_bb" /\ S[4] = "files"
    BY <2>1, ForkSeqFacts
  <2>3. \A i, j \in 1..4 : S[i] = S[j] => i = j
    BY ONLY <2>2
  <2>4. QED
    BY <1>2, <2>1, <2>2, <2>3, Zenon DEF Each
<1>3. QED
  BY <1>1, <1>2

(* Whatever a call takes, nobody had.                                       *)
LEMMA TakesFresh == ASSUME CallInv, Doing("get", "") PROVE Fresh
<1> USE OwnerFacts
<1>0. caller \in Pids
  BY DEF CallInv, CallerInv
<1>1. CASE ForkTakes
  <2>1. PICK u \in BOOLEAN : u = IsUser(caller)
    BY DEF IsUser
  <2>2. PICK S : S = ForkSeq(u)
    OBVIOUS
  <2>3. /\ S \in Seq(Resources) /\ Taking(New, S, "get_pid", {})
        /\ Each(S)
    BY <1>1, <2>1, <2>2, ForkSeqFacts, ForkSeqEach, Zenon DEF ForkTakes
  <2>4. QED
    BY <2>3, TakingFresh
<1>2. CASE ExecArgs
  <2>1. PICK S : S = ArgSeq
    OBVIOUS
  <2>2. PICK n \in 1..EXEC_MAX_ARG_NUM : Taking(Arg(n), S, "copy", {})
    BY <1>2, <2>1 DEF ExecArgs
  <2>3. S \in Seq(Resources) /\ Len(S) = 2 /\ S[1] = "kargv_bb" /\ S[2] = "kargv"
    BY <2>1, SeqFacts
  <2>4. Each(S) /\ Arg(n) \in Owners
    BY <2>3, EachTwo, ArgFacts
  <2>5. QED
    BY <2>2, <2>3, <2>4, TakingFresh
<1>3. CASE LoadsMm
  <2>1. PICK S : S = MmSeq
    OBVIOUS
  <2>2. Taking(New, S, "elf", {})
    BY <1>3, <2>1 DEF LoadsMm, Loads
  <2>3. S \in Seq(Resources) /\ Len(S) = 2 /\ S[1] = "mm" /\ S[2] = "pgdir"
    BY <2>1, SeqFacts
  <2>4. Each(S)
    BY <2>3, EachTwo
  <2>5. QED
    BY <2>2, <2>3, <2>4, TakingFresh
<1>4. CASE LoadsText
  <2>1. PICK S : S = TextSeq
    OBVIOUS
  <2>2. Taking(New, S, "read", {"mm", "pgdir"})
    BY <1>4, <2>1 DEF LoadsText, Loads
  <2>3. S \in Seq(Resources) /\ Len(S) = 3 /\ S[1] = "text_vma" /\ S[2] = "text" /\ S[3] = "text_pt"
    BY <2>1, SeqFacts
  <2>4. Each(S) /\ \A i \in 1..Len(S) : S[i] \in {S[1], S[2], S[3]}
    BY <2>3, EachThree
  <2>6. \A i \in 1..Len(S) : S[i] \notin {"mm", "pgdir"}
    BY ONLY <2>3, <2>4
  <2>7. QED
    BY <2>2, <2>3, <2>4, <2>6, TakingFresh
<1>5. CASE LoadsStack
  <2>1. PICK S : S = StackSeq
    OBVIOUS
  <2>2. Taking(New, S, "set_mm", {"mm", "pgdir", "text_vma", "text", "text_pt"})
    BY <1>5, <2>1 DEF LoadsStack, Loads
  <2>3. S \in Seq(Resources) /\ Len(S) = 3 /\ S[1] = "stack_vma" /\ S[2] = "stack" /\ S[3] = "stack_pt"
    BY <2>1, SeqFacts
  <2>4. Each(S) /\ \A i \in 1..Len(S) : S[i] \in {S[1], S[2], S[3]}
    BY <2>3, EachThree
  <2>6. \A i \in 1..Len(S) : S[i] \notin {"mm", "pgdir", "text_vma", "text", "text_pt"}
    BY ONLY <2>3, <2>4
  <2>7. QED
    BY <2>2, <2>3, <2>4, <2>6, TakingFresh
<1>6. QED
  BY <1>1, <1>2, <1>3, <1>4, <1>5, PhaseOf

-----------------------------------------------------------------------------
(* What is about to be given back is held, and named once.                 *)
Things == {e \in Owners \X Resources : e[2] \in Holds(e[1])}

GivesBack(D) ==
  /\ Leading("put") \in 1..Len(todo) /\ Len(todo) \in Nat
  /\ \A i \in 1..Leading("put") : todo[i].what \in Resources /\ todo[i].of \in Owners
  /\ \A i, j \in 1..Leading("put") :
       <<todo[i].of, todo[i].what>> = <<todo[j].of, todo[j].what>> => i = j
  /\ Named(todo, Leading("put")) = D
  /\ D \subseteq Things

(* Releases that follow a list give back what it names.                     *)
LEMMA GivesBackOf ==
  ASSUME NEW D, NEW rest, PutsThen(todo, D, rest), NoPut(rest), Doing("put", ""), D \subseteq Things
  PROVE  GivesBack(D)
<1>1. Op.do = "put" /\ todo # <<>>
  BY DEF Doing
<1>2. D # {}
  <2>1. SUFFICES ASSUME D = {} PROVE FALSE
    OBVIOUS
  <2>2. todo = rest
    BY <2>1, PutsHead
  <2>3. QED
    BY <1>1, <2>2 DEF NoPut, Op
<1>3. QED
  BY <1>2, PutsAll DEF GivesBack, NoPut

(* What a process holds, as pairs.                                          *)
LEMMA ThingsOf ==
  ASSUME NEW p \in Owners, NEW R, R \subseteq Holds(p)
  PROVE  {p} \X R \subseteq Things
BY DEF Things, Holds

LEMMA ArgThingsHeld == ArgThings \subseteq Things
BY OwnerFacts DEF ArgThings, Things

(* Whatever a call gives back, somebody had, and it gives it back once.     *)
LEMMA ReleasesHeld == ASSUME CallInv, Doing("put", "") PROVE \E D : GivesBack(D)
<1> USE OwnerFacts
<1>0. PICK c \in Pids : c = caller
  BY DEF CallInv, CallerInv
<1>1. CASE ForkUndoes
  <2>1. PICK u \in CallEnds : PutsThen(todo, {New} \X Holds(New), u)
    BY <1>1 DEF ForkUndoes
  <2>2. QED
    BY <2>1, ThingsOf, NoPutFacts, GivesBackOf
<1>2. CASE ExecUndoes
  <2>1. PICK u \in CallEnds : PutsThen(todo, ArgThings, u)
    BY <1>2 DEF ExecUndoes
  <2>2. QED
    BY <2>1, ArgThingsHeld, NoPutFacts, GivesBackOf
<1>3. CASE ExecDrops
  <2>1. PICK rest : Gets(rest, New, MmSeq, 0, "elf") /\ PutsThen(todo, {c} \X UserSpace, rest)
    BY <1>0, <1>3 DEF ExecDrops
  <2>2. {c} \X UserSpace \subseteq Things
    <3>1. UserSpace \subseteq Holds(c)
      BY <1>0, <1>3 DEF ExecDrops
    <3>2. QED
      BY <3>1, ThingsOf
  <2>3. NoPut(rest)
    BY <2>1, SeqFacts, NoPutFacts
  <2>4. QED
    BY <2>1, <2>2, <2>3, GivesBackOf
<1>5. CASE Dies
  <2>1. PICK H : H = Holds(New)
    OBVIOUS
  <2>2. PICK K : K = Holds(c) \ Keep
    OBVIOUS
  <2>3. PutsThen(todo, ({New} \X H) \cup ArgThings \cup ({c} \X K), Do("zombie"))
    BY <1>0, <1>5, <2>1, <2>2 DEF Dies
  <2>4. ({New} \X H) \cup ArgThings \cup ({c} \X K) \subseteq Things
    <3>1. {New} \X H \subseteq Things /\ {c} \X K \subseteq Things
      BY <2>1, <2>2, ThingsOf
    <3>2. QED
      BY <3>1, ArgThingsHeld
  <2>5. NoPut(Do("zombie"))
    BY DoHead DEF Steps
  <2>6. QED
    BY <2>3, <2>4, <2>5, GivesBackOf
<1>6. CASE Reaps
  <2>1. PICK b \in Pids \ {init} : Holds(b) = Keep /\ PutsThen(todo, {b} \X Keep, <<>>)
    BY <1>6 DEF Reaps
  <2>2. {b} \X Keep \subseteq Things
    BY <2>1, ThingsOf
  <2>3. QED
    BY <2>1, <2>2, NoPutFacts, GivesBackOf
<1>7. QED
  BY <1>1, <1>2, <1>3, <1>5, <1>6, PhaseOf

-----------------------------------------------------------------------------
(* The pages: each is free, of kmalloc, or held once.                       *)

(* The pages 1..n are free (F), kmalloc's (S), or held, q[e] by e in H.    *)
Partition(F, S, H, q, n) ==
  /\ S \cap F = {}
  /\ \A e \in H : q[e] \cap (F \cup S) = {}
  /\ \A e, f \in H : e # f => q[e] \cap q[f] = {}
  /\ \A x : x \in 1..n <=> x \in F \/ x \in S \/ \E e \in H : x \in q[e]

(* A new owner has some of the free pages;                                  *)
LEMMA PartitionTake ==
  ASSUME NEW F, NEW S, NEW H, NEW q, NEW n, Partition(F, S, H, q, n),
         NEW d, d \notin H, NEW D, D \subseteq F,
         NEW r, r[d] = D, \A e \in H : r[e] = q[e]
  PROVE  Partition(F \ D, S, H \cup {d}, r, n)
<1> DEFINE G == F \ D
           K == H \cup {d}
<1>0. \A e \in K : (e \in H /\ r[e] = q[e] /\ e # d) \/ (e = d /\ r[e] = D)
  BY Zenon
<1>1. S \cap G = {}
  BY DEF Partition
<1>2. ASSUME NEW e \in K PROVE r[e] \cap (G \cup S) = {}
  <2>1. CASE e = d
    BY <1>0, <2>1 DEF Partition
  <2>2. CASE e \in H
    BY <1>0, <2>2 DEF Partition
  <2>3. QED
    BY <2>1, <2>2
<1>3. ASSUME NEW e \in K, NEW f \in K, e # f PROVE r[e] \cap r[f] = {}
  <2>1. CASE e \in H /\ f \in H
    BY <1>0, <1>3, <2>1 DEF Partition
  <2>2. CASE e = d \/ f = d
    <3>1. \A g \in H : q[g] \cap D = {}
      BY DEF Partition
    <3>2. QED
      BY <1>0, <1>3, <2>2, <3>1
  <2>3. QED
    BY <2>1, <2>2
<1>4. ASSUME NEW x PROVE x \in 1..n <=> x \in G \/ x \in S \/ \E e \in K : x \in r[e]
  <2>1. (\E e \in K : x \in r[e]) <=> x \in D \/ \E e \in H : x \in q[e]
    BY <1>0, Zenon
  <2>2. x \in 1..n <=> x \in F \/ x \in S \/ \E e \in H : x \in q[e]
    BY DEF Partition
  <2>3. x \in F <=> x \in G \/ x \in D
    OBVIOUS
  <2> HIDE DEF G, K
  <2>4. QED
    BY <2>1, <2>2, <2>3, Zenon
<1>5. QED
  BY <1>1, <1>2, <1>3, <1>4 DEF Partition

(* kmalloc has them;                                                        *)
LEMMA PartitionSlob ==
  ASSUME NEW F, NEW S, NEW H, NEW q, NEW n, Partition(F, S, H, q, n), NEW D, D \subseteq F
  PROVE  Partition(F \ D, S \cup D, H, q, n)
<1>1. (S \cup D) \cap (F \ D) = {} /\ (F \ D) \cup (S \cup D) = F \cup S
  BY DEF Partition
<1>2. \A e \in H : q[e] \cap ((F \ D) \cup (S \cup D)) = {}
  BY <1>1 DEF Partition
<1>3. \A x : x \in F \/ x \in S <=> x \in F \ D \/ x \in S \cup D
  BY <1>1
<1>4. QED
  BY <1>1, <1>2, <1>3, Zenon DEF Partition

(* some owners give theirs back;                                            *)
LEMMA PartitionGive ==
  ASSUME NEW F, NEW S, NEW H, NEW q, NEW n, Partition(F, S, H, q, n),
         NEW G, G \subseteq H, NEW r, \A e \in H \ G : r[e] = q[e],
         NEW E, \A x : x \in E <=> x \in F \/ \E e \in G : x \in q[e]
  PROVE  Partition(E, S, H \ G, r, n)
<1> DEFINE K == H \ G
<1>0. \A e \in K : e \in H /\ e \notin G /\ r[e] = q[e]
  BY Zenon
<1>1. S \cap E = {}
  BY DEF Partition
<1>2. ASSUME NEW e \in K, NEW x \in r[e] PROVE x \notin E /\ x \notin S
  <2>1. x \in q[e] /\ e \in H /\ e \notin G
    BY <1>0, <1>2
  <2>2. x \notin F /\ x \notin S
    BY <2>1 DEF Partition
  <2>3. ASSUME NEW f \in G, x \in q[f] PROVE FALSE
    <3>1. f \in H /\ e # f
      BY <2>1
    <3>2. q[e] \cap q[f] = {}
      BY <2>1, <3>1 DEF Partition
    <3>3. QED
      BY <2>1, <2>3, <3>2
  <2>4. QED
    BY <2>2, <2>3
<1>3. \A e, f \in K : e # f => r[e] \cap r[f] = {}
  BY <1>0 DEF Partition
<1>4. ASSUME NEW x PROVE x \in 1..n <=> x \in E \/ x \in S \/ \E e \in K : x \in r[e]
  <2>1. (\E e \in H : x \in q[e]) <=> (\E e \in G : x \in q[e]) \/ (\E e \in K : x \in r[e])
    BY <1>0, Zenon
  <2>2. x \in 1..n <=> x \in F \/ x \in S \/ \E e \in H : x \in q[e]
    BY DEF Partition
  <2>3. x \in E <=> x \in F \/ \E e \in G : x \in q[e]
    OBVIOUS
  <2> HIDE DEF K
  <2>4. QED
    BY <2>1, <2>2, <2>3, Zenon
<1>5. \A e \in K : r[e] \cap (E \cup S) = {}
  BY <1>2
<1>6. QED
  BY <1>1, <1>3, <1>4, <1>5 DEF Partition

(* the owners change their names.                                           *)
LEMMA PartitionMove ==
  ASSUME NEW F, NEW S, NEW H, NEW q, NEW n, Partition(F, S, H, q, n),
         NEW K, NEW r, NEW m, \A e \in K : m[e] \in H /\ r[e] = q[m[e]],
         \A e, f \in K : m[e] = m[f] => e = f,
         \A h \in H : \E e \in K : m[e] = h
  PROVE  Partition(F, S, K, r, n)
<1>1. \A e \in K : r[e] \cap (F \cup S) = {}
  BY Zenon DEF Partition
<1>2. ASSUME NEW e \in K, NEW f \in K, e # f PROVE r[e] \cap r[f] = {}
  <2>1. m[e] \in H /\ m[f] \in H /\ m[e] # m[f]
    BY <1>2
  <2>2. q[m[e]] \cap q[m[f]] = {}
    BY <2>1, Zenon DEF Partition
  <2>3. QED
    BY <2>2
<1>3. ASSUME NEW x PROVE (\E e \in K : x \in r[e]) <=> (\E e \in H : x \in q[e])
  <2>1. ASSUME NEW e \in K, x \in r[e] PROVE \E h \in H : x \in q[h]
    <3>1. m[e] \in H /\ x \in q[m[e]]
      BY <2>1
    <3>2. QED
      BY <3>1
  <2>2. ASSUME NEW h \in H, x \in q[h] PROVE \E e \in K : x \in r[e]
    <3>1. PICK e \in K : m[e] = h
      OBVIOUS
    <3>2. x \in r[e]
      BY <2>2, <3>1
    <3>3. QED
      BY <3>2
  <2>3. QED
    BY <2>1, <2>2
<1>4. QED
  BY <1>1, <1>2, <1>3, Zenon DEF Partition

-----------------------------------------------------------------------------
Holdings == {e \in Owners \X PageRuns : owns[e[1]][e[2]] # 0}
HeldBy == [e \in Holdings |-> PagesHeld(e)]

FreeInv ==
  /\ npage \in Nat /\ panic # "assert"
  /\ free_list \in Seq(Blocks) /\ Apart(free_list)
  /\ nr_free = Cardinality(FreePages(free_list))

SmallInv == \A p \in Owners, r \in Resources : r \in Objects \/ Plenty => owns[p][r] \in {0, 1}

PagesInv ==
  IF Plenty THEN free_list = <<>> /\ slob = {}
            ELSE Partition(FreePages(free_list), slob, Holdings, HeldBy, npage)

MemInv == FreeInv /\ SmallInv /\ PagesInv

(* Objects and page runs.                                                   *)
LEMMA RunFacts ==
  /\ Resources = Objects \cup PageRuns /\ Objects \cap PageRuns = {}
  /\ \A r : Pages(r) \in Nat \ {0} /\ Pages(r) \in {1, 2}
BY DEF Resources, Objects, PageRuns, Pages

(* Nothing is taken or given back.                                         *)
LEMMA MemSame ==
  ASSUME MemInv, UNCHANGED <<memory, owns, npage>>, panic' # "assert"
  PROVE  MemInv'
<1>1. /\ free_list' = free_list /\ nr_free' = nr_free /\ slob' = slob
      /\ owns' = owns /\ npage' = npage
  BY DEF memory
<1>2. Holdings' = Holdings /\ Plenty' = Plenty
  BY <1>1 DEF Holdings, Plenty
<1>3. HeldBy' = HeldBy
  BY <1>1, <1>2 DEF HeldBy, PagesHeld
<1>4. FreeInv' /\ SmallInv'
  BY <1>1, <1>2 DEF MemInv, FreeInv, SmallInv
<1>5. PagesInv'
  BY <1>1, <1>2, <1>3 DEF MemInv, PagesInv
<1>6. QED
  BY <1>4, <1>5 DEF MemInv

(* A run has as many pages as it is long.                                   *)
LEMMA RunCount ==
  ASSUME NEW F, IsFiniteSet(F), NEW b \in Nat, NEW n \in Nat \ {0}
  PROVE  /\ Cardinality(F) \in Nat
         /\ b .. b + n - 1 \subseteq F =>
              Cardinality(F \ (b .. b + n - 1)) = Cardinality(F) - n
         /\ F \cap (b .. b + n - 1) = {} =>
              /\ IsFiniteSet(F \cup (b .. b + n - 1))
              /\ Cardinality(F \cup (b .. b + n - 1)) = Cardinality(F) + n
<1> DEFINE D == b .. b + n - 1
<1>1. b \in Int /\ b + n - 1 \in Int /\ ~(b > b + n - 1) /\ b + n - 1 - b + 1 = n
  OBVIOUS
<1>2. IsFiniteSet(D) /\ Cardinality(D) = n
  BY <1>1, FS_Interval
<1> HIDE DEF D
<1>3. Cardinality(F) \in Nat
  BY FS_CardinalityType
<1>4. ASSUME D \subseteq F PROVE Cardinality(F \ D) = Cardinality(F) - n
  <2>1. F \cap D = D
    BY <1>4
  <2>2. QED
    BY <1>2, <2>1, FS_Difference
<1>5. ASSUME F \cap D = {}
      PROVE  IsFiniteSet(F \cup D) /\ Cardinality(F \cup D) = Cardinality(F) + n
  <2>1. Cardinality(F \cap D) = 0
    BY <1>5, FS_EmptySet
  <2>2. /\ IsFiniteSet(F \cup D)
        /\ Cardinality(F \cup D) = Cardinality(F) + Cardinality(D) - Cardinality(F \cap D)
    BY <1>2, FS_Union
  <2>3. QED
    BY <1>2, <1>3, <2>1, <2>2
<1>6. QED
  BY <1>3, <1>4, <1>5 DEF D

(* The free pages are finitely many.                                        *)
LEMMA FreeFinite ==
  ASSUME FreeInv, PagesInv, ~Plenty
  PROVE  /\ IsFiniteSet(FreePages(free_list)) /\ FreePages(free_list) \subseteq 1..npage
         /\ Partition(FreePages(free_list), slob, Holdings, HeldBy, npage)
<1>1. Partition(FreePages(free_list), slob, Holdings, HeldBy, npage) /\ npage \in Nat
  BY DEF PagesInv, FreeInv
<1>2. FreePages(free_list) \subseteq 1..npage
  BY <1>1 DEF Partition
<1>3. IsFiniteSet(1..npage)
  BY <1>1, FS_Interval
<1>4. QED
  BY <1>1, <1>2, <1>3, FS_Subset

(* alloc_pages(n) finds something.                                         *)
LEMMA TakePagesFacts ==
  ASSUME FreeInv, PagesInv, ~Plenty, NEW n \in Nat \ {0}, Fits(free_list, n), TakePages(n),
         UNCHANGED <<npage, panic>>, NEW b, b = AllocBase(free_list, n)
  PROVE  /\ FreeInv' /\ b \in Nat \ {0}
         /\ b .. b + n - 1 \subseteq FreePages(free_list)
         /\ FreePages(free_list)' = FreePages(free_list) \ (b .. b + n - 1)
<1>1. PICK l : l = free_list
  OBVIOUS
<1>2. PICK a : a = AfterAlloc(l, n)
  OBVIOUS
<1>3. /\ l \in Seq(Blocks) /\ Apart(l) /\ nr_free = Cardinality(FreePages(l))
      /\ npage \in Nat /\ panic # "assert"
  BY <1>1 DEF FreeInv
<1>4. free_list' = a /\ nr_free' = nr_free - n
  BY <1>1, <1>2 DEF TakePages
<1>5. /\ b \in Nat \ {0} /\ a \in Seq(Blocks) /\ Apart(a)
      /\ b .. b + n - 1 \subseteq FreePages(l)
      /\ FreePages(a) = FreePages(l) \ (b .. b + n - 1)
  BY <1>1, <1>2, <1>3, AllocFacts
<1>6. Cardinality(FreePages(a)) = Cardinality(FreePages(l)) - n
  <2>1. PICK F : F = FreePages(l)
    OBVIOUS
  <2>2. IsFiniteSet(F) /\ b .. b + n - 1 \subseteq F /\ b \in Nat
    BY <1>1, <1>5, <2>1, FreeFinite
  <2>3. Cardinality(F \ (b .. b + n - 1)) = Cardinality(F) - n
    BY <2>2, RunCount
  <2>4. QED
    BY <1>5, <2>1, <2>3
<1>7. FreeInv'
  BY <1>3, <1>4, <1>5, <1>6 DEF FreeInv
<1>8. QED
  BY <1>1, <1>4, <1>5, <1>7

(* An object of kmalloc is no run of pages.                                *)
LEMMA GiveObject ==
  ASSUME OwnsOK, SmallInv, NEW p \in Owners, NEW r \in Objects, Give(p, r, 1), UNCHANGED npage
  PROVE  Holdings' = Holdings /\ HeldBy' = HeldBy /\ SmallInv'
<1>1. owns' = [owns EXCEPT ![p][r] = 1] /\ owns \in [Owners -> [Resources -> Nat]]
  BY DEF Give, OwnsOK
<1>2. r \in Resources /\ r \notin PageRuns /\ PageRuns \subseteq Resources
  BY RunFacts
<1>3. \A q \in Owners, s \in Resources :
        owns'[q][s] = IF q = p /\ s = r THEN 1 ELSE owns[q][s]
  BY <1>1, <1>2
<1>4. \A q \in Owners, s \in PageRuns : owns'[q][s] = owns[q][s]
  BY <1>2, <1>3
<1>5. Holdings' = Holdings
  BY <1>4 DEF Holdings
<1>6. HeldBy' = HeldBy
  <2>1. \A e \in Holdings : e[1] \in Owners /\ e[2] \in PageRuns
    BY DEF Holdings
  <2>2. \A e \in Holdings : PagesHeld(e)' = PagesHeld(e)
    BY <1>4, <2>1 DEF PagesHeld
  <2>3. QED
    BY <1>5, <2>2 DEF HeldBy
<1>7. SmallInv'
  BY <1>2, <1>3 DEF SmallInv, Plenty
<1>8. QED
  BY <1>5, <1>6, <1>7

(* A run of free pages gets an owner.                                       *)
LEMMA GivePages ==
  ASSUME OwnsOK, SmallInv, ~Plenty, NEW p \in Owners, NEW r \in PageRuns, r \notin Holds(p),
         NEW x \in Nat \ {0}, Give(p, r, x), UNCHANGED npage
  PROVE  /\ Holdings' = Holdings \cup {<<p, r>>} /\ <<p, r>> \notin Holdings
         /\ HeldBy'[<<p, r>>] = x .. x + Pages(r) - 1
         /\ \A e \in Holdings : HeldBy'[e] = HeldBy[e]
         /\ SmallInv'
<1>1. owns' = [owns EXCEPT ![p][r] = x] /\ owns \in [Owners -> [Resources -> Nat]]
  BY DEF Give, OwnsOK
<1>2. r \in Resources /\ r \notin Objects /\ PageRuns \subseteq Resources
  BY RunFacts
<1>3. \A q \in Owners, s \in Resources :
        owns'[q][s] = IF q = p /\ s = r THEN x ELSE owns[q][s]
  BY <1>1, <1>2
<1>4. owns[p][r] = 0
  BY <1>2 DEF Holds
<1>5. <<p, r>> \notin Holdings
  BY <1>4 DEF Holdings
<1>6. Holdings' = Holdings \cup {<<p, r>>}
  <2>1. ASSUME NEW q \in Owners, NEW s \in PageRuns
        PROVE  <<q, s>> \in Holdings' <=> <<q, s>> \in Holdings \/ <<q, s>> = <<p, r>>
    <3>1. <<q, s>> \in Holdings' <=> owns'[q][s] # 0
      BY <2>1 DEF Holdings
    <3>2. <<q, s>> \in Holdings <=> owns[q][s] # 0
      BY <2>1 DEF Holdings
    <3>3. owns'[q][s] = IF q = p /\ s = r THEN x ELSE owns[q][s]
      BY <1>2, <1>3
    <3>4. QED
      BY <3>1, <3>2, <3>3
  <2>2. Holdings' \subseteq Owners \X PageRuns /\ Holdings \subseteq Owners \X PageRuns
    BY DEF Holdings
  <2>3. QED
    BY <2>1, <2>2
<1>7. HeldBy'[<<p, r>>] = x .. x + Pages(r) - 1
  <2>1. owns'[p][r] = x
    BY <1>2, <1>3
  <2>2. HeldBy'[<<p, r>>] = PagesHeld(<<p, r>>)'
    BY <1>6 DEF HeldBy
  <2>3. QED
    BY <2>1, <2>2 DEF PagesHeld
<1>8. ASSUME NEW e \in Holdings PROVE HeldBy'[e] = HeldBy[e]
  <2>1. PICK q \in Owners, s \in PageRuns : e = <<q, s>>
    BY DEF Holdings
  <2>2. q # p \/ s # r
    BY <1>5, <2>1
  <2>3. owns'[q][s] = owns[q][s]
    BY <1>2, <1>3, <2>2
  <2>4. PagesHeld(e)' = PagesHeld(e)
    BY <2>1, <2>3 DEF PagesHeld
  <2>5. QED
    BY <1>6, <2>4 DEF HeldBy
<1>9. SmallInv'
  BY <1>2, <1>3 DEF SmallInv, Plenty
<1>10. QED
  BY <1>5, <1>6, <1>7, <1>8, <1>9

(* A run of one page.                                                       *)
LEMMA OneFacts == 1 \in Nat \ {0} /\ \A b \in Nat : b .. b + 1 - 1 = {b}
OBVIOUS

(* The next resource is had.                                               *)
LEMMA HadStep ==
  ASSUME CallInv, Doing("get", ""), NEW x \in Nat \ {0}, Give(Op.of, Op.what, x),
         Continue(Tail(todo)), UNCHANGED status
  PROVE  CallInv'
<1>1. /\ todo' = Tail(todo) /\ UNCHANGED <<status, caller>>
      /\ call' = IF todo' = <<>> THEN "none" ELSE call
  BY DEF Continue
<1>2. Had
  BY <1>1 DEF Had
<1>3. QED
  BY <1>1, <1>2, HadCall

(* What comes next cannot be had: no memory changes hands.                  *)
LEMMA FailsStep ==
  ASSUME CallInv, Doing("get", ""), Continue(Cleanup(Op.what)), UNCHANGED <<owns, status>>
  PROVE  CallInv'
<1>1. /\ todo' = Cleanup(Op.what) /\ UNCHANGED <<owns, status, caller>>
      /\ call' = IF todo' = <<>> THEN "none" ELSE call
  BY DEF Continue
<1>2. ForkTakes \/ ExecArgs \/ LoadsMm \/ LoadsText \/ LoadsStack
  BY PhaseOf
<1>3. Op.do = "get"
  BY DEF Doing
<1>4. QED
  BY <1>1, <1>2, <1>3, ForkFails, ArgsFail, LoadsFail

(* No pages: the cleanup is next, or the kernel stops.                      *)
LEMMA NoPagesStep ==
  ASSUME CallInv, MemInv, Doing("get", ""), NEW n, NEW r, r = Op.what, NoPages(n, r),
         UNCHANGED <<status, npage>>
  PROVE  CallInv' /\ MemInv'
<1>1. /\ \/ Panic("swap_out")
         \/ Panic("no memory")
         \/ Continue(Cleanup(r)) /\ UNCHANGED panic
      /\ UNCHANGED <<memory, owns>>
  BY DEF NoPages
<1>2. CASE Panic("swap_out") \/ Panic("no memory")
  <2>1. UNCHANGED <<todo, call, caller>> /\ panic' # "assert"
    BY <1>2 DEF Panic
  <2>2. CallInv'
    BY <1>1, <2>1, CallStutter
  <2>3. MemInv'
    BY <1>1, <2>1, MemSame
  <2>4. QED
    BY <2>2, <2>3
<1>3. CASE Continue(Cleanup(r)) /\ UNCHANGED panic
  <2>1. CallInv'
    BY <1>1, <1>3, FailsStep
  <2>2. panic' # "assert"
    BY <1>3 DEF MemInv, FreeInv
  <2>3. MemInv'
    BY <1>1, <2>2, MemSame
  <2>4. QED
    BY <2>1, <2>3
<1>4. QED
  BY <1>1, <1>2, <1>3

(* kmalloc gets an object, out of the pages it has or a new one;            *)
LEMMA KmallocStep ==
  ASSUME CallInv, MemInv, ~Plenty, Doing("get", ""), NEW p \in Owners, NEW r \in Objects,
         p = Op.of, r = Op.what, Kmalloc(p, r), UNCHANGED <<status, npage>>
  PROVE  CallInv' /\ MemInv'
<1>0. OwnsOK /\ FreeInv /\ SmallInv /\ PagesInv
  BY DEF CallInv, MemInv
<1>1. CASE UNCHANGED memory /\ Give(p, r, 1) /\ Continue(Tail(todo)) /\ UNCHANGED panic
  <2>1. CallInv'
    <3>1. Give(Op.of, Op.what, 1)
      BY <1>1
    <3>2. QED
      BY <1>1, <3>1, OneFacts, HadStep
  <2>2. Holdings' = Holdings /\ HeldBy' = HeldBy /\ SmallInv'
    BY <1>0, <1>1, GiveObject
  <2>3. free_list' = free_list /\ nr_free' = nr_free /\ slob' = slob /\ npage' = npage
        /\ panic' = panic
    BY <1>1 DEF memory
  <2>4. FreeInv' /\ PagesInv'
    BY <1>0, <2>2, <2>3 DEF FreeInv, PagesInv, Plenty
  <2>5. QED
    BY <2>1, <2>2, <2>4 DEF MemInv
<1>2. CASE /\ Fits(free_list, 1) /\ TakePages(1)
           /\ slob' = slob \cup {AllocBase(free_list, 1)}
           /\ Give(p, r, 1) /\ Continue(Tail(todo)) /\ UNCHANGED panic
  <2>1. CallInv'
    <3>1. Give(Op.of, Op.what, 1)
      BY <1>2
    <3>2. QED
      BY <1>2, <3>1, OneFacts, HadStep
  <2>2. Holdings' = Holdings /\ HeldBy' = HeldBy /\ SmallInv'
    BY <1>0, <1>2, GiveObject
  <2>3. PICK b : b = AllocBase(free_list, 1)
    OBVIOUS
  <2>4. PICK F : F = FreePages(free_list)
    OBVIOUS
  <2>5. /\ FreeInv' /\ b \in Nat \ {0} /\ b .. b + 1 - 1 \subseteq F
        /\ FreePages(free_list)' = F \ (b .. b + 1 - 1)
    BY <1>0, <1>2, <2>3, <2>4, OneFacts, TakePagesFacts
  <2>6. b .. b + 1 - 1 = {b}
    BY <2>5, OneFacts
  <2>7. Partition(F, slob, Holdings, HeldBy, npage)
    BY <1>0, <2>4, FreeFinite
  <2>8. Partition(F \ {b}, slob \cup {b}, Holdings, HeldBy, npage)
    BY <2>5, <2>6, <2>7, PartitionSlob
  <2>9. PagesInv'
    BY <1>2, <2>2, <2>3, <2>5, <2>6, <2>8 DEF PagesInv, Plenty
  <2>10. QED
    BY <2>1, <2>2, <2>5, <2>9 DEF MemInv
<1>3. CASE NoPages(1, r)
  BY <1>3, NoPagesStep
<1>4. QED
  BY <1>1, <1>2, <1>3 DEF Kmalloc

(* alloc_pages gets a run;                                                  *)
LEMMA AllocStep ==
  ASSUME CallInv, MemInv, ~Plenty, Doing("get", ""), NEW p \in Owners, NEW r \in PageRuns,
         r \notin Holds(p), p = Op.of, r = Op.what, AllocPages(p, r), UNCHANGED <<status, npage>>
  PROVE  CallInv' /\ MemInv'
<1>0. OwnsOK /\ FreeInv /\ SmallInv /\ PagesInv
  BY DEF CallInv, MemInv
<1>1. PICK n \in Nat \ {0} : n = Pages(r)
  BY RunFacts
<1>2. CASE /\ Fits(free_list, n) /\ TakePages(n) /\ UNCHANGED slob
           /\ Give(p, r, AllocBase(free_list, n))
           /\ Continue(Tail(todo)) /\ UNCHANGED panic
  <2>1. PICK b : b = AllocBase(free_list, n)
    OBVIOUS
  <2>2. PICK F : F = FreePages(free_list)
    OBVIOUS
  <2>3. /\ FreeInv' /\ b \in Nat \ {0} /\ b .. b + n - 1 \subseteq F
        /\ FreePages(free_list)' = F \ (b .. b + n - 1)
    BY <1>0, <1>2, <2>1, <2>2, TakePagesFacts
  <2>4. CallInv'
    <3>1. Give(Op.of, Op.what, b)
      BY <1>2, <2>1
    <3>2. QED
      BY <1>2, <2>3, <3>1, HadStep
  <2>5. /\ Holdings' = Holdings \cup {<<p, r>>} /\ <<p, r>> \notin Holdings
        /\ HeldBy'[<<p, r>>] = b .. b + n - 1
        /\ \A e \in Holdings : HeldBy'[e] = HeldBy[e]
        /\ SmallInv'
    <3>1. Give(p, r, b)
      BY <1>2, <2>1
    <3>2. /\ Holdings' = Holdings \cup {<<p, r>>} /\ <<p, r>> \notin Holdings
          /\ HeldBy'[<<p, r>>] = b .. b + Pages(r) - 1
          /\ \A e \in Holdings : HeldBy'[e] = HeldBy[e]
          /\ SmallInv'
      <4>1. UNCHANGED npage
        OBVIOUS
      <4>2. OwnsOK /\ SmallInv /\ ~Plenty /\ p \in Owners /\ r \in PageRuns
            /\ r \notin Holds(p) /\ b \in Nat \ {0}
        BY <1>0, <2>3
      <4>3. QED
        BY ONLY <3>1, <4>1, <4>2, GivePages
    <3>3. QED
      BY <1>1, <3>2, Zenon
  <2>6. Partition(F, slob, Holdings, HeldBy, npage)
    BY <1>0, <2>2, FreeFinite
  <2>7. Partition(F \ (b .. b + n - 1), slob, Holdings \cup {<<p, r>>}, HeldBy', npage)
    BY <2>3, <2>5, <2>6, PartitionTake
  <2>8. PagesInv'
    BY <1>2, <2>3, <2>5, <2>7 DEF PagesInv, Plenty
  <2>9. QED
    BY <2>3, <2>4, <2>5, <2>8 DEF MemInv
<1>3. CASE NoPages(n, r)
  BY <1>3, NoPagesStep
<1>4. QED
  BY <1>1, <1>2, <1>3 DEF AllocPages

(* and so a call takes one thing after another,                             *)
LEMMA TakeStep == ASSUME CallInv, MemInv, Take PROVE CallInv' /\ MemInv'
<1>1. /\ Doing("get", "") /\ ~Plenty /\ UNCHANGED <<status, npage>>
      /\ IF Op.what \in Objects THEN Kmalloc(Op.of, Op.what) ELSE AllocPages(Op.of, Op.what)
  BY DEF Take, tree
<1>2. PICK p, r : p = Op.of /\ r = Op.what
  OBVIOUS
<1>3. p \in Owners /\ r \in Resources /\ r \notin Holds(p)
  BY <1>1, <1>2, TakesFresh DEF Fresh
<1>4. CASE r \in Objects
  BY <1>1, <1>2, <1>3, <1>4, KmallocStep
<1>5. CASE r \notin Objects
  <2>1. r \in PageRuns
    BY <1>3, <1>5, RunFacts
  <2>2. QED
    BY <1>1, <1>2, <1>3, <1>5, <2>1, AllocStep
<1>6. QED
  BY <1>4, <1>5

(* With plenty of memory.                                                  *)
LEMMA TakeAllStep == ASSUME CallInv, MemInv, TakeAll PROVE CallInv' /\ MemInv'
<1>1. /\ Plenty /\ Doing("get", "") /\ GiveAll(Leading("get"), 1)
      /\ todo' = SubSeq(todo, Leading("get") + 1, Len(todo))
      /\ call' = IF todo' = <<>> THEN "none" ELSE call
      /\ UNCHANGED <<status, caller, memory, npage, panic>>
  BY DEF TakeAll, Continue, tree
<1>2. Had
  BY <1>1 DEF Had
<1>3. CallInv'
  BY <1>1, <1>2, HadCall
<1>4. SmallInv'
  <2>1. PICK N : N = Named(todo, Leading("get"))
    OBVIOUS
  <2>2. owns' = [p \in Owners |-> [r \in Resources |-> IF <<p, r>> \in N THEN 1 ELSE owns[p][r]]]
    BY <1>1, <2>1, GivesAll, Zenon
  <2>3. \A p \in Owners, r \in Resources : owns[p][r] \in {0, 1}
    BY <1>1 DEF MemInv, SmallInv
  <2>4. \A p \in Owners, r \in Resources : owns'[p][r] \in {0, 1}
    BY <2>2, <2>3
  <2>5. QED
    BY <2>4 DEF SmallInv
<1>5. FreeInv' /\ PagesInv'
  BY <1>1 DEF MemInv, FreeInv, PagesInv, Plenty, memory
<1>6. QED
  BY <1>3, <1>4, <1>5 DEF MemInv

FreeStates == [list : Seq(Blocks), nr : Nat, ok : BOOLEAN]

(* After i releases F and back[1] .. back[i] are free, and no assertion    *)
(* has failed.                                                             *)
Freed(i, m, F, back) ==
  /\ m \in FreeStates
  /\ Apart(m.list) /\ IsFiniteSet(FreePages(m.list))
  /\ m.nr = Cardinality(FreePages(m.list)) /\ m.ok = TRUE
  /\ \A x : x \in FreePages(m.list) <=> x \in F \/ \E j \in 1..i : x \in back[j]

(* What is released now has not been free, nor released before.            *)
CanFree(i, e, F, back) ==
  /\ e.what \in Resources
  /\ e.what \in Objects \/ Plenty => back[i] = {}
  /\ ~(e.what \in Objects \/ Plenty) =>
       /\ owns[e.of][e.what] \in Nat \ {0}
       /\ back[i] = owns[e.of][e.what] .. owns[e.of][e.what] + Pages(e.what) - 1
       /\ back[i] \cap F = {} /\ \A j \in 1..i-1 : back[i] \cap back[j] = {}

(* default_free_pages, once,                                                *)
LEMMA FreeStep ==
  ASSUME NEW i \in Nat \ {0}, NEW m, NEW e, NEW F, NEW back,
         Freed(i-1, m, F, back), CanFree(i, e, F, back)
  PROVE  Freed(i, Free(m, e), F, back)
<1>1. \A x : (\E j \in 1..i : x \in back[j]) <=> (\E j \in 1..i-1 : x \in back[j]) \/ x \in back[i]
  <2>1. 1..i = (1..i-1) \cup {i}
    OBVIOUS
  <2>2. QED
    BY <2>1
<1>2. CASE e.what \in Objects \/ Plenty
  <2>1. back[i] = {}
    BY <1>2 DEF CanFree
  <2>2. Free(m, e) = m
    BY <1>2 DEF Free
  <2>3. QED
    BY <1>1, <2>1, <2>2 DEF Freed
<1>3. CASE ~(e.what \in Objects \/ Plenty)
  <2>1. PICK b, n : b = owns[e.of][e.what] /\ n = Pages(e.what)
    OBVIOUS
  <2>2. b \in Nat \ {0} /\ n \in Nat \ {0}
    BY <1>3, <2>1, RunFacts DEF CanFree
  <2>3. back[i] = b .. b + n - 1 /\ back[i] \cap F = {} /\ \A j \in 1..i-1 : back[i] \cap back[j] = {}
    BY <1>3, <2>1 DEF CanFree
  <2>4. PICK l : l = m.list
    OBVIOUS
  <2>5. /\ l \in Seq(Blocks) /\ m.nr \in Nat /\ Apart(l) /\ IsFiniteSet(FreePages(l))
        /\ m.nr = Cardinality(FreePages(l)) /\ m.ok = TRUE
        /\ \A x : x \in FreePages(l) <=> x \in F \/ \E j \in 1..i-1 : x \in back[j]
    BY <2>4 DEF Freed, FreeStates
  <2>6. FreePages(l) \cap (b .. b + n - 1) = {}
    BY <2>3, <2>5
  <2>7. PICK a : a = AfterFree(l, b, n)
    OBVIOUS
  <2>8. /\ a \in Seq(Blocks) /\ Apart(a) /\ FreePages(a) = FreePages(l) \cup (b .. b + n - 1)
        /\ FreeAsserts(l, a, b, n)
    BY <2>2, <2>5, <2>6, <2>7, FreeFacts
  <2>9. IsFiniteSet(FreePages(a)) /\ Cardinality(FreePages(a)) = m.nr + n
    <3>1. PICK G : G = FreePages(l)
      OBVIOUS
    <3>2. IsFiniteSet(G) /\ G \cap (b .. b + n - 1) = {} /\ b \in Nat
      BY <2>2, <2>5, <2>6, <3>1
    <3>3. /\ IsFiniteSet(G \cup (b .. b + n - 1))
          /\ Cardinality(G \cup (b .. b + n - 1)) = Cardinality(G) + n
      BY <2>2, <3>2, RunCount
    <3>4. QED
      BY <2>5, <2>8, <3>1, <3>3
  <2>10. Free(m, e) = [list |-> a, nr |-> m.nr + n, ok |-> TRUE]
    <3>1. Free(m, e) = [list |-> a, nr |-> m.nr + n, ok |-> m.ok /\ FreeAsserts(l, a, b, n)]
      BY <1>3, <2>1, <2>4, <2>7 DEF Free
    <3>2. (m.ok /\ FreeAsserts(l, a, b, n)) = TRUE
      BY <2>5, <2>8
    <3>3. QED
      BY <3>1, <3>2
  <2>11. PICK r : r = [list |-> a, nr |-> m.nr + n, ok |-> TRUE]
    OBVIOUS
  <2>12. r.list = a /\ r.nr = m.nr + n /\ r.ok = TRUE /\ r \in FreeStates
    BY <2>2, <2>5, <2>8, <2>11 DEF FreeStates
  <2>13. \A x : x \in FreePages(a) <=> x \in F \/ \E j \in 1..i : x \in back[j]
    BY <1>1, <2>3, <2>5, <2>8
  <2>14. Freed(i, r, F, back)
    BY <2>8, <2>9, <2>12, <2>13 DEF Freed
  <2>15. QED
    BY <2>10, <2>11, <2>14
<1>4. QED
  BY <1>2, <1>3

(* and once for each of the releases that come next.                        *)
LEMMA FreeAll ==
  ASSUME NEW n \in Nat, NEW g, NEW F, NEW back, Freed(0, g[0], F, back),
         \A i \in 1..n : CanFree(i, todo[i], F, back),
         \A i \in 1..n : Freed(i-1, g[i-1], F, back) => g[i] = Free(g[i-1], todo[i])
  PROVE  \A i \in 0..n : Freed(i, g[i], F, back)
<1> DEFINE T == {i \in Nat : i <= n => Freed(i, g[i], F, back)}
<1>1. 0 \in T
  OBVIOUS
<1>2. ASSUME NEW k \in T PROVE k + 1 \in T
  <2>1. SUFFICES ASSUME k + 1 <= n PROVE Freed(k + 1, g[k+1], F, back)
    OBVIOUS
  <2>2. k \in Nat /\ k <= n /\ Freed(k, g[k], F, back)
    BY <1>2, <2>1
  <2>3. PICK i \in 1..n : i = k + 1
    BY <2>1, <2>2
  <2>4. i \in Nat \ {0} /\ k = i - 1
    BY <2>2, <2>3
  <2> HIDE DEF T
  <2>5. Freed(i-1, g[i-1], F, back) /\ CanFree(i, todo[i], F, back)
    BY <2>2, <2>4
  <2>6. g[i] = Free(g[i-1], todo[i])
    BY <2>5
  <2>7. Freed(i, Free(g[i-1], todo[i]), F, back)
    BY <2>4, <2>5, FreeStep
  <2>8. QED
    BY <2>3, <2>6, <2>7
<1>3. T = Nat
  <2> HIDE DEF T
  <2>1. T \in SUBSET Nat
    BY DEF T
  <2>2. QED
    BY <1>1, <1>2, <2>1, Induction
<1>4. QED
  BY <1>3

(* There is one, and it frees all.                                         *)
FreesFrom(f, n, start) ==
  f = [i \in 0..n |-> IF i = 0 THEN start ELSE Free(f[i-1], todo[i])]

(* The list that the releases leave exists.                                 *)
LEMMA FreesExist ==
  ASSUME NEW n \in Nat, NEW start, NEW F, NEW back, Freed(0, start, F, back),
         \A i \in 1..n : CanFree(i, todo[i], F, back)
  PROVE  \E f : FreesFrom(f, n, start)
<1> DEFINE A == FreeStates
           S == [x \in (1..n) \X A |-> IF Free(x[2], todo[x[1]]) \in A
                                         THEN Free(x[2], todo[x[1]]) ELSE x[2]]
<1>1. start \in A
  BY DEF Freed
<1>2. StepOf(S, n, A)
  <2> HIDE DEF A
  <2> QED BY DEF StepOf
<1> HIDE DEF A
<1>3. PICK f : Iterates(f, S, n, A, start)
  <2> HIDE DEF S
  <2> QED BY <1>1, <1>2, Recursion
<1>4. f \in [0..n -> A] /\ f[0] = start /\ \A i \in 1..n : f[i] = S[<<i, f[i-1]>>]
  <2> HIDE DEF S
  <2> QED BY <1>3 DEF Iterates
<1>5. ASSUME NEW i \in 1..n, Free(f[i-1], todo[i]) \in A
      PROVE  f[i] = Free(f[i-1], todo[i])
  <2>1. i-1 \in 0..n
    OBVIOUS
  <2>2. PICK a \in A : a = f[i-1]
    BY <1>4, <2>1
  <2>3. S[<<i, a>>] = Free(a, todo[i])
    BY <1>5, <2>2
  <2>4. f[i] = S[<<i, f[i-1]>>]
    <3> HIDE DEF S
    <3> QED BY <1>4
  <2> HIDE DEF S
  <2>5. QED
    BY <2>2, <2>3, <2>4
<1>6. ASSUME NEW i \in 1..n, Freed(i-1, f[i-1], F, back)
      PROVE  f[i] = Free(f[i-1], todo[i])
  <2>1. Freed(i, Free(f[i-1], todo[i]), F, back)
    <3>1. i \in Nat \ {0} /\ CanFree(i, todo[i], F, back)
      OBVIOUS
    <3>2. QED
      BY <1>6, <3>1, FreeStep
  <2>2. Free(f[i-1], todo[i]) \in A
    BY <2>1 DEF Freed, A
  <2>3. QED
    BY <2>2, <1>5
<1>7. \A i \in 0..n : Freed(i, f[i], F, back)
  <2>1. Freed(0, f[0], F, back)
    BY <1>4
  <2> HIDE DEF S
  <2>2. QED
    BY <1>6, <2>1, FreeAll
<1>8. \A i \in 1..n : f[i] = Free(f[i-1], todo[i])
  <2>1. \A i \in 1..n : i-1 \in 0..n
    OBVIOUS
  <2> HIDE DEF S
  <2>2. QED
    BY <1>6, <1>7, <2>1
<1>9. FreesFrom(f, n, start)
  <2> HIDE DEF S
  <2> QED BY <1>4, <1>8 DEF FreesFrom
<1>10. QED
  BY <1>9

(* The pages of the i-th release.                                          *)
Back(i) == IF todo[i].what \in Objects \/ Plenty THEN {}
           ELSE PagesHeld(<<todo[i].of, todo[i].what>>)

(* None of what is given back is free, and no page of it given back twice.  *)
LEMMA AllCanFree ==
  ASSUME OwnsOK, FreeInv, PagesInv, NEW D, GivesBack(D), NEW n, n = Leading("put"),
         NEW back, back = [i \in 1..n |-> Back(i)], NEW i \in 1..n
  PROVE  CanFree(i, todo[i], FreePages(free_list), back)
<1>0. n \in Nat /\ i \in Nat
  BY DEF GivesBack
<1>1. PICK p \in Owners, r \in Resources : p = todo[i].of /\ r = todo[i].what
  BY DEF GivesBack
<1>2. back[i] = Back(i)
  OBVIOUS
<1>3. CASE r \in Objects \/ Plenty
  BY <1>1, <1>2, <1>3 DEF CanFree, Back
<1>4. CASE ~(r \in Objects \/ Plenty)
  <2>1. back[i] = PagesHeld(<<p, r>>)
    BY <1>1, <1>2, <1>4 DEF Back
  <2>2. <<p, r>> \in Things
    BY <1>1 DEF GivesBack, Named
  <2>3. owns[p][r] # 0 /\ owns[p][r] \in Nat /\ r \in PageRuns
    BY <1>1, <1>4, <2>2, RunFacts DEF Things, Holds, OwnsOK
  <2>4. <<p, r>> \in Holdings
    BY <2>3 DEF Holdings
  <2>5. PICK F : F = FreePages(free_list)
    OBVIOUS
  <2>6. Partition(F, slob, Holdings, HeldBy, npage)
    BY <1>4, <2>5, FreeFinite
  <2>7. HeldBy[<<p, r>>] = back[i]
    BY <2>1, <2>4 DEF HeldBy
  <2>8. back[i] \cap F = {}
    BY <2>4, <2>6, <2>7 DEF Partition
  <2>9. ASSUME NEW j \in 1..i-1 PROVE back[i] \cap back[j] = {}
    <3>1. j \in 1..n /\ j # i
      BY <1>0
    <3>2. PICK q \in Owners, s \in Resources : q = todo[j].of /\ s = todo[j].what
      BY <3>1 DEF GivesBack
    <3>3. back[j] = Back(j)
      BY <3>1
    <3>4. CASE s \in Objects
      BY <3>2, <3>3, <3>4 DEF Back
    <3>5. CASE s \notin Objects
      <4>1. back[j] = PagesHeld(<<q, s>>) /\ s \in PageRuns
        BY <1>4, <3>2, <3>3, <3>5, RunFacts DEF Back
      <4>2. <<q, s>> \in Things
        BY <3>1, <3>2 DEF GivesBack, Named
      <4>3. <<q, s>> \in Holdings
        BY <4>1, <4>2 DEF Things, Holds, Holdings
      <4>4. HeldBy[<<q, s>>] = back[j]
        BY <4>1, <4>3 DEF HeldBy
      <4>5. <<q, s>> # <<p, r>>
        BY <1>1, <3>1, <3>2 DEF GivesBack
      <4>6. \A e, f \in Holdings : e # f => HeldBy[e] \cap HeldBy[f] = {}
        BY <2>6, Zenon DEF Partition
      <4>7. HeldBy[<<p, r>>] \cap HeldBy[<<q, s>>] = {}
        BY <2>4, <4>3, <4>5, <4>6, Zenon
      <4>8. QED
        BY <2>7, <4>4, <4>7
    <3>6. QED
      BY <3>4, <3>5
  <2>10. PICK e : e = todo[i]
    OBVIOUS
  <2>11. /\ owns[e.of][e.what] \in Nat \ {0} /\ e.what \in Resources
         /\ ~(e.what \in Objects \/ Plenty)
         /\ back[i] = owns[e.of][e.what] .. owns[e.of][e.what] + Pages(e.what) - 1
    BY <1>1, <1>4, <2>1, <2>3, <2>10 DEF PagesHeld
  <2>12. CanFree(i, e, F, back)
    BY <2>8, <2>9, <2>11 DEF CanFree
  <2>13. QED
    BY <2>5, <2>10, <2>12
<1>5. QED
  BY <1>3, <1>4

(* All that is given back is free then.                                    *)
LEMMA ReleaseFrees ==
  ASSUME OwnsOK, FreeInv, PagesInv, Release, NEW D, GivesBack(D),
         NEW n, n = Leading("put")
  PROVE  /\ FreeInv' /\ Returned /\ GiveAll(n, 0) /\ IsFiniteSet(FreePages(free_list))'
         /\ call' = IF todo' = <<>> THEN "none" ELSE call
         /\ UNCHANGED <<status, caller, slob, npage>>
         /\ \A x : x \in FreePages(free_list)' <=>
                     x \in FreePages(free_list) \/ \E j \in 1..n : x \in Back(j)
<1> DEFINE start == [list |-> free_list, nr |-> nr_free, ok |-> TRUE]
           loop == CHOOSE f : FreesFrom(f, n, start)
           F == FreePages(free_list)
           back == [i \in 1..n |-> Back(i)]
           m == loop[n]
<1>0. n \in Nat \ {0}
  BY DEF GivesBack
<1>1. /\ GiveAll(n, 0) /\ free_list' = m.list /\ nr_free' = m.nr
      /\ IF m.ok THEN Continue(SubSeq(todo, n + 1, Len(todo))) /\ UNCHANGED panic
                 ELSE Panic("assert")
      /\ UNCHANGED <<status, npage, slob>>
  BY DEF Release, FreesFrom, tree
<1>2. Freed(0, start, F, back)
  <2>1. IsFiniteSet(F)
    <3>1. CASE Plenty
      <4>1. free_list = <<>>
        BY <3>1 DEF PagesInv
      <4>2. F = {}
        BY <4>1 DEF FreePages
      <4>3. QED
        BY <4>2, FS_EmptySet
    <3>2. CASE ~Plenty
      BY <3>2, FreeFinite
    <3>3. QED
      BY <3>1, <3>2
  <2>2. nr_free \in Nat /\ nr_free = Cardinality(F) /\ free_list \in Seq(Blocks) /\ Apart(free_list)
    BY <2>1, FS_CardinalityType DEF FreeInv
  <2>3. start.list = free_list /\ start.nr = nr_free /\ start.ok = TRUE /\ start \in FreeStates
    BY <2>2 DEF FreeStates
  <2>4. \A x : x \in FreePages(start.list) <=> x \in F \/ \E j \in 1..0 : x \in back[j]
    BY <2>3
  <2> HIDE DEF start, back
  <2>5. FreePages(start.list) = F
    BY <2>3
  <2>6. QED
    BY <2>1, <2>2, <2>3, <2>4, <2>5 DEF Freed
<1>3. \A i \in 1..n : CanFree(i, todo[i], F, back)
  BY AllCanFree
<1> HIDE DEF back, start
<1>4. FreesFrom(loop, n, start)
  <2>1. \E f : FreesFrom(f, n, start)
    BY <1>0, <1>2, <1>3, FreesExist
  <2>2. QED
    BY <2>1
<1> HIDE DEF loop
<1>5. loop[0] = start /\ \A i \in 1..n : loop[i] = Free(loop[i-1], todo[i])
  BY <1>0, <1>4 DEF FreesFrom
<1>6. Freed(n, m, F, back)
  <2>1. \A i \in 0..n : Freed(i, loop[i], F, back)
    BY <1>0, <1>2, <1>3, <1>5, FreeAll
  <2>2. n \in 0..n
    BY <1>0
  <2>3. QED
    BY <2>1, <2>2
<1> HIDE DEF m
<1>7. /\ m.list \in Seq(Blocks) /\ Apart(m.list) /\ m.nr = Cardinality(FreePages(m.list))
      /\ m.ok = TRUE /\ IsFiniteSet(FreePages(m.list))
      /\ \A x : x \in FreePages(m.list) <=> x \in F \/ \E j \in 1..n : x \in back[j]
  BY <1>6 DEF Freed, FreeStates
<1>8. Continue(SubSeq(todo, n + 1, Len(todo))) /\ UNCHANGED panic
  BY <1>1, <1>7
<1>9. FreeInv'
  BY <1>1, <1>7, <1>8 DEF FreeInv
<1>10. Returned /\ UNCHANGED caller /\ call' = IF todo' = <<>> THEN "none" ELSE call
  BY <1>1, <1>8 DEF Returned, Continue
<1>11. \A j \in 1..n : back[j] = Back(j)
  BY DEF back
<1>12. \A x : x \in FreePages(free_list)' <=> x \in F \/ \E j \in 1..n : x \in Back(j)
  BY <1>1, <1>7, <1>11
<1>13. IsFiniteSet(FreePages(free_list))'
  BY <1>1, <1>7
<1>14. QED
  BY <1>1, <1>9, <1>10, <1>12, <1>13

(* What is given back is not held any more, the rest is where it was.      *)
LEMMA GivenBack ==
  ASSUME OwnsOK, SmallInv, NEW n, NEW D, D = Named(todo, n), GiveAll(n, 0), UNCHANGED npage
  PROVE  /\ Holdings' = Holdings \ D
         /\ \A e \in Holdings \ D : HeldBy'[e] = HeldBy[e]
         /\ SmallInv'
<1>1. owns' = [p \in Owners |-> [r \in Resources |-> IF <<p, r>> \in D THEN 0 ELSE owns[p][r]]]
  BY GivesAll, Zenon
<1>2. PageRuns \subseteq Resources
  BY RunFacts
<1>3. \A p \in Owners, r \in Resources : owns'[p][r] = IF <<p, r>> \in D THEN 0 ELSE owns[p][r]
  BY <1>1
<1>4. Holdings' = Holdings \ D
  <2>1. ASSUME NEW p \in Owners, NEW r \in PageRuns
        PROVE  <<p, r>> \in Holdings' <=> <<p, r>> \in Holdings /\ <<p, r>> \notin D
    <3>1. <<p, r>> \in Holdings' <=> owns'[p][r] # 0
      BY DEF Holdings
    <3>2. <<p, r>> \in Holdings <=> owns[p][r] # 0
      BY DEF Holdings
    <3>3. QED
      BY <1>2, <1>3, <3>1, <3>2
  <2>2. Holdings' \subseteq Owners \X PageRuns /\ Holdings \subseteq Owners \X PageRuns
    BY DEF Holdings
  <2>3. QED
    BY <2>1, <2>2
<1>5. ASSUME NEW e \in Holdings \ D PROVE HeldBy'[e] = HeldBy[e]
  <2>1. PICK p \in Owners, r \in PageRuns : e = <<p, r>>
    BY DEF Holdings
  <2>2. owns'[p][r] = owns[p][r]
    BY <1>2, <1>3, <2>1
  <2>3. PagesHeld(e)' = PagesHeld(e)
    BY <2>1, <2>2 DEF PagesHeld
  <2>4. QED
    BY <1>4, <2>3 DEF HeldBy
<1>6. SmallInv'
  BY <1>3 DEF SmallInv, Plenty
<1>7. QED
  BY <1>4, <1>5, <1>6

(* No page is in an empty list only.                                       *)
LEMMA NoBlocks ==
  ASSUME NEW l \in Seq(Blocks), FreePages(l) = {}
  PROVE  l = <<>>
<1>1. Len(l) = 0
  <2>1. SUFFICES ASSUME Len(l) # 0 PROVE FALSE
    OBVIOUS
  <2>2. 1 \in 1..Len(l)
    BY <2>1, BlockFacts
  <2>3. /\ l[1].base \in Nat \ {0} /\ l[1].property \in Nat \ {0}
        /\ End(l[1]) = l[1].base + l[1].property
    BY <2>2, BlockFacts DEF End
  <2>4. l[1].base < End(l[1])
    BY <2>3
  <2>5. l[1].base \in FreePages(l)
    BY <2>2, <2>3, <2>4, BlockFacts
  <2>6. QED
    BY <2>5
<1>2. QED
  BY <1>1, EmptySeq

(* What is given back was held, and nothing else is free after it.          *)
LEMMA ReleaseStep == ASSUME CallInv, MemInv, Release PROVE CallInv' /\ MemInv'
<1>0. OwnsOK /\ FreeInv /\ SmallInv /\ PagesInv
  BY DEF CallInv, MemInv
<1>1. Doing("put", "")
  BY DEF Release
<1>2. PICK D : GivesBack(D)
  BY <1>1, ReleasesHeld
<1>3. PICK n : n = Leading("put")
  OBVIOUS
<1>4. /\ FreeInv' /\ Returned /\ GiveAll(n, 0) /\ IsFiniteSet(FreePages(free_list))'
      /\ call' = IF todo' = <<>> THEN "none" ELSE call
      /\ UNCHANGED <<status, caller, slob, npage>>
      /\ \A x : x \in FreePages(free_list)' <=>
                  x \in FreePages(free_list) \/ \E j \in 1..n : x \in Back(j)
  BY <1>0, <1>2, <1>3, ReleaseFrees
<1>5. CallInv'
  BY <1>1, <1>4, ReturnedCall
<1>6. /\ Holdings' = Holdings \ D
      /\ \A e \in Holdings \ D : HeldBy'[e] = HeldBy[e]
      /\ SmallInv'
  <2>1. D = Named(todo, n)
    BY <1>2, <1>3 DEF GivesBack
  <2>2. QED
    BY <1>0, <1>4, <2>1, GivenBack
<1>7. PagesInv'
  <2>1. CASE Plenty
    <3>1. \A j \in 1..n : Back(j) = {}
      BY <2>1 DEF Back
    <3>2. FreePages(free_list) = {} /\ slob = {}
      <4>1. free_list = <<>> /\ slob = {}
        BY <1>0, <2>1 DEF PagesInv
      <4>2. QED
        BY <4>1 DEF FreePages
    <3>3. FreePages(free_list)' = {}
      BY <1>4, <3>1, <3>2
    <3>4. free_list' = <<>>
      <4>1. PICK l : l = free_list'
        OBVIOUS
      <4>2. l \in Seq(Blocks) /\ FreePages(l) = {}
        BY <1>4, <3>3, <4>1 DEF FreeInv
      <4>3. QED
        BY <4>1, <4>2, NoBlocks
    <3>5. QED
      BY <1>4, <2>1, <3>2, <3>4 DEF PagesInv, Plenty
  <2>2. CASE ~Plenty
    <3>1. PICK F, E : F = FreePages(free_list) /\ E = FreePages(free_list)'
      OBVIOUS
    <3>2. Partition(F, slob, Holdings, HeldBy, npage)
      BY <1>0, <2>2, <3>1, FreeFinite
    <3> DEFINE G == Holdings \cap D
    <3>3. ASSUME NEW x PROVE (\E j \in 1..n : x \in Back(j)) <=> \E e \in G : x \in HeldBy[e]
      <4>1. ASSUME NEW j \in 1..n, x \in Back(j) PROVE \E e \in G : x \in HeldBy[e]
        <5>1. PICK p \in Owners, r \in Resources : p = todo[j].of /\ r = todo[j].what
          BY <1>2, <1>3 DEF GivesBack
        <5>2. r \notin Objects /\ x \in PagesHeld(<<p, r>>)
          BY <4>1, <5>1 DEF Back
        <5>3. <<p, r>> \in D /\ <<p, r>> \in Things
          BY <1>2, <1>3, <5>1 DEF GivesBack, Named
        <5>4. r \in PageRuns
          BY <5>2, RunFacts
        <5>5. <<p, r>> \in Holdings
          BY <5>3, <5>4 DEF Things, Holds, Holdings
        <5>6. x \in HeldBy[<<p, r>>]
          BY <5>2, <5>5 DEF HeldBy
        <5>7. QED
          BY <5>3, <5>5, <5>6
      <4>2. ASSUME NEW e \in G, x \in HeldBy[e] PROVE \E j \in 1..n : x \in Back(j)
        <5>1. PICK p \in Owners, r \in PageRuns : e = <<p, r>>
          BY DEF Holdings
        <5>2. PICK j \in 1..n : <<todo[j].of, todo[j].what>> = <<p, r>>
          BY <1>2, <1>3, <5>1 DEF GivesBack, Named
        <5>3. todo[j].of = p /\ todo[j].what = r /\ r \notin Objects
          BY <5>2, RunFacts
        <5>4. x \in PagesHeld(<<p, r>>)
          BY <4>2, <5>1 DEF HeldBy
        <5>5. Back(j) = PagesHeld(<<p, r>>)
          BY <2>2, <5>3 DEF Back
        <5>6. QED
          BY <5>4, <5>5
      <4>3. QED
        BY <4>1, <4>2
    <3>4. \A x : x \in E <=> x \in F \/ \E e \in G : x \in HeldBy[e]
      BY <1>4, <3>1, <3>3
    <3>5. Holdings \ G = Holdings' /\ \A e \in Holdings \ G : HeldBy'[e] = HeldBy[e]
      BY <1>6
    <3>6. G \subseteq Holdings
      OBVIOUS
    <3> HIDE DEF G
    <3>7. Partition(E, slob, Holdings \ G, HeldBy', npage)
      BY <3>2, <3>4, <3>5, <3>6, PartitionGive
    <3>8. QED
      BY <1>4, <2>2, <3>1, <3>5, <3>7 DEF PagesInv, Plenty
  <2>3. QED
    BY <2>1, <2>2
<1>8. QED
  BY <1>4, <1>5, <1>6, <1>7 DEF MemInv

-----------------------------------------------------------------------------
(* What no process has yet becomes a process's.                            *)
Moves(p, R) ==
  /\ R \subseteq Resources /\ Holds(New) \subseteq R /\ Holds(p) \cap R = {}
  /\ owns' \in [Owners -> [Resources -> Nat]]
  /\ \A q \in Owners, r \in Resources :
       owns'[q][r] = IF q = New THEN 0
                     ELSE IF q = p /\ r \in R THEN owns[New][r] ELSE owns[q][r]

(* What one had another has: no page is lost.                               *)
LEMMA MemMoves ==
  ASSUME OwnsOK, MemInv, UNCHANGED <<memory, npage, panic>>, NEW p \in Pids, NEW R, Moves(p, R)
  PROVE  MemInv'
<1> USE OwnerFacts DEF Moves
<1>0. /\ free_list' = free_list /\ nr_free' = nr_free /\ slob' = slob
      /\ npage' = npage /\ panic' = panic /\ p # New /\ PageRuns \subseteq Resources
  BY RunFacts DEF memory
<1>1. FreeInv'
  BY <1>0 DEF MemInv, FreeInv
<1>2. SmallInv'
  BY <1>0 DEF MemInv, SmallInv, Plenty
<1>3. CASE Plenty
  BY <1>0, <1>1, <1>2, <1>3 DEF MemInv, PagesInv, Plenty
<1>4. CASE ~Plenty
  <2> DEFINE m == [e \in Holdings' |-> IF e[1] = p /\ e[2] \in R THEN <<New, e[2]>> ELSE e]
  <2>1. ASSUME NEW q \in Owners, NEW r \in PageRuns
        PROVE  /\ <<q, r>> \in Holdings' <=> owns'[q][r] # 0
               /\ <<q, r>> \in Holdings <=> owns[q][r] # 0
    BY DEF Holdings
  <2>2. \A r \in PageRuns : /\ owns[New][r] # 0 => r \in R
                            /\ owns[p][r] # 0 => r \notin R
    BY <1>0 DEF Holds
  <2>3. ASSUME NEW q \in Owners, NEW r \in PageRuns, <<q, r>> \in Holdings'
        PROVE  /\ q # New
               /\ m[<<q, r>>] = IF q = p /\ r \in R THEN <<New, r>> ELSE <<q, r>>
               /\ m[<<q, r>>] \in Holdings
               /\ HeldBy'[<<q, r>>] = HeldBy[m[<<q, r>>]]
    <3>1. owns'[q][r] # 0
      BY <2>1, <2>3
    <3>2. q # New /\ owns'[q][r] = IF q = p /\ r \in R THEN owns[New][r] ELSE owns[q][r]
      BY <1>0, <3>1
    <3>3. m[<<q, r>>] = IF q = p /\ r \in R THEN <<New, r>> ELSE <<q, r>>
      BY <2>3
    <3>4. HeldBy'[<<q, r>>] = PagesHeld(<<q, r>>)'
      BY <2>3 DEF HeldBy
    <3>5. PagesHeld(<<q, r>>)' = owns'[q][r] .. owns'[q][r] + Pages(r) - 1
      BY DEF PagesHeld
    <3>6. CASE q = p /\ r \in R
      <4>1. <<New, r>> \in Holdings /\ owns'[q][r] = owns[New][r]
        BY <2>1, <3>1, <3>2, <3>6
      <4>2. HeldBy[<<New, r>>] = owns[New][r] .. owns[New][r] + Pages(r) - 1
        BY <4>1 DEF HeldBy, PagesHeld
      <4>3. QED
        BY <3>2, <3>3, <3>4, <3>5, <3>6, <4>1, <4>2
    <3>7. CASE ~(q = p /\ r \in R)
      <4>1. <<q, r>> \in Holdings /\ owns'[q][r] = owns[q][r]
        BY <2>1, <3>1, <3>2, <3>7
      <4>2. HeldBy[<<q, r>>] = owns[q][r] .. owns[q][r] + Pages(r) - 1
        BY <4>1 DEF HeldBy, PagesHeld
      <4>3. m[<<q, r>>] = <<q, r>>
        BY <3>3, <3>7
      <4>4. QED
        BY <3>2, <3>3, <3>4, <3>5, <4>1, <4>2, <4>3
    <3>8. QED
      BY <3>6, <3>7
  <2> HIDE DEF m
  <2>4. /\ \A e \in Holdings' : \E q \in Owners, r \in PageRuns : e = <<q, r>>
        /\ \A e \in Holdings : \E q \in Owners, r \in PageRuns : e = <<q, r>>
    BY DEF Holdings
  <2>5. \A e \in Holdings' : m[e] \in Holdings /\ HeldBy'[e] = HeldBy[m[e]]
    <3>1. SUFFICES ASSUME NEW e \in Holdings'
                   PROVE  m[e] \in Holdings /\ HeldBy'[e] = HeldBy[m[e]]
      OBVIOUS
    <3>2. PICK q \in Owners, r \in PageRuns : e = <<q, r>>
      BY <2>4
    <3>3. <<q, r>> \in Holdings'
      BY <3>2
    <3>4. m[<<q, r>>] \in Holdings /\ HeldBy'[<<q, r>>] = HeldBy[m[<<q, r>>]]
      BY <2>3, <3>3
    <3>5. QED
      BY <3>2, <3>4
  <2>6. ASSUME NEW e \in Holdings', NEW f \in Holdings', m[e] = m[f] PROVE e = f
    <3>1. PICK q \in Owners, r \in PageRuns : e = <<q, r>>
      BY <2>4
    <3>2. PICK u \in Owners, v \in PageRuns : f = <<u, v>>
      BY <2>4
    <3>3. q # New /\ m[e] = IF q = p /\ r \in R THEN <<New, r>> ELSE <<q, r>>
      BY <2>3, <3>1
    <3>4. u # New /\ m[f] = IF u = p /\ v \in R THEN <<New, v>> ELSE <<u, v>>
      BY <2>3, <3>2
    <3>5. q = u /\ r = v
      <4>1. CASE (q = p /\ r \in R) /\ (u = p /\ v \in R)
        <5>1. <<New, r>> = <<New, v>>
          BY <2>6, <3>3, <3>4, <4>1
        <5>2. QED
          BY <4>1, <5>1
      <4>2. CASE (q = p /\ r \in R) /\ ~(u = p /\ v \in R)
        <5>1. <<New, r>> = <<u, v>>
          BY <2>6, <3>3, <3>4, <4>2
        <5>2. QED
          BY <3>4, <5>1
      <4>3. CASE ~(q = p /\ r \in R) /\ (u = p /\ v \in R)
        <5>1. <<q, r>> = <<New, v>>
          BY <2>6, <3>3, <3>4, <4>3
        <5>2. QED
          BY <3>3, <5>1
      <4>4. CASE ~(q = p /\ r \in R) /\ ~(u = p /\ v \in R)
        <5>1. <<q, r>> = <<u, v>>
          BY <2>6, <3>3, <3>4, <4>4
        <5>2. QED
          BY <5>1
      <4>5. QED
        BY <4>1, <4>2, <4>3, <4>4
    <3>6. QED
      BY <3>1, <3>2, <3>5
  <2>7. ASSUME NEW h \in Holdings PROVE \E e \in Holdings' : m[e] = h
    <3>1. PICK q \in Owners, r \in PageRuns : h = <<q, r>>
      BY <2>4
    <3>2. owns[q][r] # 0 /\ r \in Resources
      BY <1>0, <2>1, <3>1
    <3>3. CASE q = New
      <4>1. r \in R /\ owns'[p][r] = owns[New][r]
        BY <1>0, <2>2, <3>2, <3>3
      <4>2. <<p, r>> \in Holdings'
        BY <2>1, <3>2, <3>3, <4>1
      <4>3. m[<<p, r>>] = <<New, r>>
        BY <2>3, <4>1, <4>2
      <4>4. QED
        BY <3>1, <3>3, <4>2, <4>3
    <3>4. CASE q # New
      <4>1. ~(q = p /\ r \in R)
        BY <2>2, <3>2
      <4>2. owns'[q][r] = owns[q][r]
        BY <3>2, <3>4, <4>1
      <4>3. <<q, r>> \in Holdings'
        BY <2>1, <3>2, <4>2
      <4>4. m[<<q, r>>] = <<q, r>>
        BY <2>3, <4>1, <4>3
      <4>5. QED
        BY <3>1, <4>3, <4>4
    <3>5. QED
      BY <3>3, <3>4
  <2>8. PICK F : F = FreePages(free_list)
    OBVIOUS
  <2>9. Partition(F, slob, Holdings, HeldBy, npage)
    BY <1>4, <2>8, FreeFinite DEF MemInv
  <2>10. Partition(F, slob, Holdings', HeldBy', npage)
    BY <2>5, <2>6, <2>7, <2>9, PartitionMove
  <2>11. PagesInv'
    BY <1>0, <1>4, <2>8, <2>10 DEF PagesInv, Plenty
  <2>12. QED
    BY <1>1, <1>2, <2>11 DEF MemInv
<1>5. QED
  BY <1>3, <1>4

(* The process takes over what the fork has,                                *)
LEMMA SetLinksMem ==
  ASSUME CallInv, MemInv, SetLinks, NEW pid \in Pids, pid = last_pid, status[pid] = "free"
  PROVE  MemInv'
<1> USE OwnerFacts
<1>1. /\ owns' = [owns EXCEPT ![pid] = owns[New], ![New] = Nothing]
      /\ Doing("do", "get_pid") /\ UNCHANGED <<memory, npage, panic>>
  BY DEF SetLinks
<1>2. OwnsOK /\ ForkTakes
  BY <1>1, PhaseOf DEF CallInv
<1>3. Holds(pid) = {}
  <2>1. Settled(pid)
    BY <1>2 DEF ForkTakes, Forks, AllSettled
  <2>2. QED
    BY <2>1 DEF Settled
<1>4. /\ \A r \in Resources : owns'[pid][r] = owns[New][r] /\ owns'[New][r] = 0
      /\ \A q \in Owners : q # pid /\ q # New => owns'[q] = owns[q]
      /\ owns' \in [Owners -> [Resources -> Nat]]
  BY <1>1, <1>2, SetLinksOwns
<1>5. \A q \in Owners, r \in Resources :
        owns'[q][r] = IF q = New THEN 0
                      ELSE IF q = pid /\ r \in Resources THEN owns[New][r] ELSE owns[q][r]
  BY <1>4
<1>6. Holds(New) \subseteq Resources /\ Holds(pid) \cap Resources = {} /\ Resources \subseteq Resources
  BY <1>3 DEF Holds
<1>7. Moves(pid, Resources)
  BY <1>4, <1>5, <1>6 DEF Moves
<1>8. QED
  BY <1>1, <1>2, <1>7, MemMoves

(* and the caller what load_icode has built.                                *)
LEMMA SetMmMem == ASSUME CallInv, MemInv, SetMm PROVE MemInv'
<1> USE OwnerFacts
<1>1. PICK c \in Pids : c = caller
  BY DEF CallInv, CallerInv
<1>2. /\ Holds(c) = Base /\ Holds(New) = UserSpace
      /\ \A r \in Resources : /\ owns'[c][r] = IF r \in UserSpace THEN owns[New][r] ELSE owns[c][r]
                              /\ owns'[New][r] = 0
      /\ \A q \in Owners : q # c /\ q # New => owns'[q] = owns[q]
      /\ owns' \in [Owners -> [Resources -> Nat]]
  BY <1>1, SetMmOwns
<1>3. \A q \in Owners, r \in Resources :
        owns'[q][r] = IF q = New THEN 0
                      ELSE IF q = c /\ r \in UserSpace THEN owns[New][r] ELSE owns[q][r]
  BY <1>2
<1>4. Holds(New) \subseteq UserSpace /\ Holds(c) \cap UserSpace = {} /\ UserSpace \subseteq Resources
  BY <1>2, ResourceFacts
<1>5. OwnsOK /\ UNCHANGED <<memory, npage, panic>>
  BY DEF CallInv, SetMm
<1>6. Moves(c, UserSpace)
  BY <1>2, <1>3, <1>4 DEF Moves
<1>7. QED
  BY <1>5, <1>6, MemMoves

(* After boot no call is in progress, and all memory is free.               *)
LEMMA CallInit == Init => CallInv
<1> SUFFICES ASSUME Init PROVE CallInv
  OBVIOUS
<1>0. /\ owns = [p \in Owners |-> Nothing]
      /\ status = [p \in Pids |-> IF p = init THEN "live" ELSE "free"]
      /\ call = "none" /\ caller = init /\ todo = <<>>
  BY DEF Init
<1>1. Nothing \in [Resources -> Nat] /\ \A r \in Resources : Nothing[r] = 0
  BY DEF Nothing
<1>2. OwnsOK /\ \A p \in Owners : Holds(p) = {}
  <2> HIDE DEF Nothing
  <2> QED BY <1>0, <1>1 DEF OwnsOK, Holds
<1>3. CallerInv
  BY <1>0, OwnerFacts DEF CallerInv
<1>4. AllSettled
  BY <1>0, <1>2, OwnerFacts DEF AllSettled, Settled
<1>5. AtRest
  BY <1>0, <1>2, <1>4, OwnerFacts DEF AtRest, NoArgs, Owners
<1>6. QED
  BY <1>2, <1>3, <1>5 DEF CallInv, Phases

LEMMA MemInit == Init => MemInv
<1> SUFFICES ASSUME Init PROVE MemInv
  OBVIOUS
<1>0. /\ owns = [p \in Owners |-> Nothing]
      /\ npage \in Memory
      /\ free_list = IF npage = 0 THEN <<>> ELSE <<Block(1, npage)>>
      /\ nr_free = npage /\ slob = {} /\ panic = "none"
  BY DEF Init
<1>1. npage \in Nat
  BY <1>0, TableAssumption
<1>2. \A p \in Owners, r \in Resources : owns[p][r] = 0
  BY <1>0 DEF Nothing
<1>3. SmallInv
  BY <1>2 DEF SmallInv
<1>4. CASE npage = 0
  <2>1. free_list = <<>> /\ FreePages(free_list) = {}
    BY <1>0, <1>4 DEF FreePages
  <2>2. free_list \in Seq(Blocks) /\ Apart(free_list)
    BY <2>1 DEF Apart
  <2>3. nr_free = Cardinality(FreePages(free_list))
    BY <1>0, <1>4, <2>1, FS_EmptySet
  <2>4. QED
    BY <1>0, <1>1, <1>3, <1>4, <2>1, <2>2, <2>3 DEF MemInv, FreeInv, PagesInv, Plenty
<1>5. CASE npage # 0
  <2>1. PICK b : b = Block(1, npage)
    OBVIOUS
  <2>2. npage \in Nat \ {0} /\ 1 \in Nat \ {0}
    BY <1>1, <1>5
  <2>3. b \in Blocks /\ b.base = 1 /\ b.property = npage /\ End(b) = 1 + npage
    BY <2>1, <2>2, BlockIs
  <2>4. PICK l : l = <<b>>
    OBVIOUS
  <2>5. l \in Seq(Blocks) /\ Len(l) = 1 /\ l[1] = b /\ free_list = l
    BY <1>0, <1>5, <2>1, <2>3, <2>4
  <2>6. Apart(l)
    <3>1. \A i, j \in 1..1 : ~(i < j)
      OBVIOUS
    <3>2. QED
      BY <2>5, <3>1 DEF Apart
  <2>7. FreePages(l) = 1..npage
    <3>1. \A x : x \in FreePages(l) <=> x \in Nat /\ 1 <= x /\ x < 1 + npage
      <4>1. \A x : x \in FreePages(l) <=>
              x \in Nat /\ \E i \in 1..Len(l) : l[i].base <= x /\ x < End(l[i])
        BY <2>5, BlockFacts
      <4>2. \A i : i \in 1..1 <=> i = 1
        OBVIOUS
      <4>3. QED
        BY <2>3, <2>5, <4>1, <4>2
    <3>2. \A x : x \in 1..npage <=> x \in Nat /\ 1 <= x /\ x < 1 + npage
      BY <1>1
    <3>3. QED
      BY <3>1, <3>2
  <2>8. Cardinality(1..npage) = npage
    <3>1. 1 \in Int /\ npage \in Int /\ ~(1 > npage) /\ npage - 1 + 1 = npage
      BY <2>2
    <3>2. QED
      BY <3>1, FS_Interval
  <2>9. FreeInv
    BY <1>0, <1>1, <2>5, <2>6, <2>7, <2>8 DEF FreeInv
  <2>10. Holdings = {}
    <3>1. PageRuns \subseteq Resources
      BY RunFacts
    <3>2. QED
      BY <1>2, <3>1 DEF Holdings
  <2>11. Partition(FreePages(free_list), slob, Holdings, HeldBy, npage)
    BY <1>0, <2>5, <2>7, <2>10 DEF Partition
  <2>12. QED
    BY <1>3, <1>5, <2>9, <2>11 DEF MemInv, PagesInv, Plenty
<1>6. QED
  BY <1>4, <1>5

(* What has no part in it.                                                 *)
LEMMA OtherSteps ==
  ASSUME CallInv, MemInv,
         \/ ForkPid \/ Copy \/ UserMainFails \/ Zombie \/ Adopt
         \/ \E what \in {"open", "elf", "read"} : TryFile(what)
         \/ \E p \in Pids : Fork(p) \/ Exec(p) \/ Exit(p) \/ \E c \in Pids : Wait(p, c)
         \/ UNCHANGED vars
  PROVE  CallInv' /\ MemInv'
<1>0. panic # "assert"
  BY DEF MemInv, FreeInv
<1>1. CASE ForkPid
  BY <1>0, <1>1, CallStutter, MemSame DEF ForkPid, tree
<1>2. CASE UserMainFails
  BY <1>0, <1>2, CallStutter, MemSame DEF UserMainFails, Panic, tree
<1>3. CASE Zombie
  BY <1>0, <1>3, ZombieCall, MemSame DEF Zombie
<1>4. CASE Adopt
  BY <1>0, <1>4, AdoptCall, MemSame DEF Adopt
<1>5. ASSUME NEW what \in {"open", "elf", "read"}, TryFile(what) PROVE CallInv' /\ MemInv'
  <2>1. UNCHANGED <<memory, owns, npage>> /\ panic' # "assert"
    BY <1>0, <1>5 DEF TryFile
  <2>2. CallInv'
    BY <1>5, OpenCall, ElfCall, ReadCall
  <2>3. QED
    BY <2>1, <2>2, MemSame
<1>6. ASSUME NEW p \in Pids, Fork(p) PROVE CallInv' /\ MemInv'
  BY <1>0, <1>6, ForkCall, MemSame DEF Fork
<1>7. ASSUME NEW p \in Pids, Exec(p) PROVE CallInv' /\ MemInv'
  BY <1>0, <1>7, ExecCall, MemSame DEF Exec
<1>8. ASSUME NEW p \in Pids, Exit(p) PROVE CallInv' /\ MemInv'
  BY <1>0, <1>8, ExitCall, MemSame DEF Exit
<1>9. ASSUME NEW p \in Pids, NEW c \in Pids, Wait(p, c) PROVE CallInv' /\ MemInv'
  BY <1>0, <1>9, WaitCall, MemSame DEF Wait
<1>10. CASE UNCHANGED vars
  BY <1>0, <1>10, CallStutter, MemSame DEF vars, tree
<1>11. CASE Copy
  BY <1>0, <1>11, CopyCall, MemSame DEF Copy
<1>12. QED
  BY <1>1, <1>2, <1>3, <1>4, <1>5, <1>6, <1>7, <1>8, <1>9, <1>10, <1>11

(* Every step keeps both.                                                   *)
LEMMA CallNext ==
  ASSUME CallInv, MemInv, [Next]_vars,
         SetLinks => last_pid \in Pids /\ status[last_pid] = "free"
  PROVE  CallInv' /\ MemInv'
<1>1. CASE SetLinks
  <2>1. PICK pid \in Pids : pid = last_pid /\ status[pid] = "free"
    BY <1>1
  <2>2. QED
    BY <1>1, <2>1, SetLinksCall, SetLinksMem
<1>2. CASE SetMm
  BY <1>2, SetMmCall, SetMmMem
<1>3. CASE ~SetLinks /\ ~SetMm
  BY <1>3, TakeStep, TakeAllStep, ReleaseStep, OtherSteps DEF Next
<1>4. QED
  BY <1>1, <1>2, <1>3

-----------------------------------------------------------------------------
(* How many there are.                                                      *)

(* As many as their images.                                                 *)
LEMMA ImageCount ==
  ASSUME NEW H, NEW b, NEW T, T = {b[e] : e \in H}, IsFiniteSet(T),
         \A e, f \in H : b[e] = b[f] => e = f
  PROVE  IsFiniteSet(H) /\ Cardinality(H) = Cardinality(T)
<1> DEFINE g == [t \in T |-> CHOOSE e \in H : b[e] = t]
<1>1. \A t \in T : g[t] \in H /\ b[g[t]] = t
  <2>1. ASSUME NEW t \in T PROVE g[t] \in H /\ b[g[t]] = t
    <3>1. \E e \in H : b[e] = t
      OBVIOUS
    <3>2. QED
      BY <3>1
  <2>2. QED
    BY <2>1
<1>2. g \in [T -> H]
  BY <1>1
<1> HIDE DEF g
<1>3. IsInjective(g)
  <2>1. DOMAIN g = T
    BY <1>2
  <2>2. \A x, y \in T : g[x] = g[y] => x = y
    BY <1>1
  <2>3. QED
    BY <2>1, <2>2, Zenon DEF IsInjective
<1>4. \A e \in H : \E t \in T : g[t] = e
  <2>1. ASSUME NEW e \in H PROVE g[b[e]] = e /\ b[e] \in T
    <3>1. b[e] \in T
      OBVIOUS
    <3>2. g[b[e]] \in H /\ b[g[b[e]]] = b[e]
      BY <1>1, <3>1
    <3>3. QED
      BY <3>1, <3>2
  <2>2. QED
    BY <2>1
<1>5. ExistsBijection(T, H)
  <2>1. g \in Bijection(T, H)
    BY <1>2, <1>3, <1>4, Zenon DEF Bijection, Injection, Surjection
  <2>2. QED
    BY <2>1 DEF ExistsBijection
<1>6. QED
  BY <1>5, FS_Bijection

(* Two sets that have nothing in common.                                    *)
LEMMA DisjointCount ==
  ASSUME NEW S, NEW T, IsFiniteSet(S), IsFiniteSet(T), S \cap T = {}
  PROVE  /\ IsFiniteSet(S \cup T)
         /\ Cardinality(S \cup T) = Cardinality(S) + Cardinality(T)
<1>1. Cardinality(S \cap T) = 0
  BY FS_EmptySet
<1>2. Cardinality(S) \in Nat /\ Cardinality(T) \in Nat
  BY FS_CardinalityType
<1>3. /\ IsFiniteSet(S \cup T)
      /\ Cardinality(S \cup T) = Cardinality(S) + Cardinality(T) - Cardinality(S \cap T)
  BY FS_Union
<1>4. QED
  BY <1>1, <1>2, <1>3

(* q[e] is the run of k[e] pages from b[e] on.                             *)
RunsOf(H, q, b, k) ==
  \A e \in H : b[e] \in Nat /\ k[e] \in {1, 2} /\ q[e] = b[e] .. b[e] + k[e] - 1

(* Runs of one or two pages: as many pages as runs, and those of two again.*)
LEMMA PartitionCount ==
  ASSUME NEW F, NEW S, NEW H, NEW q, NEW n \in Nat, Partition(F, S, H, q, n),
         NEW b, NEW k, RunsOf(H, q, b, k)
  PROVE  n = Cardinality(F) + Cardinality(S) + Cardinality(H)
               + Cardinality({e \in H : k[e] = 2})
<1> DEFINE H2 == {e \in H : k[e] = 2}
           c == [e \in H |-> b[e] + 1]
           T1 == {b[e] : e \in H}
           T2 == {c[e] : e \in H2}
<1>0. /\ S \cap F = {}
      /\ \A e \in H : q[e] \cap (F \cup S) = {}
      /\ \A e, f \in H : e # f => q[e] \cap q[f] = {}
      /\ \A x : x \in 1..n <=> x \in F \/ x \in S \/ \E e \in H : x \in q[e]
  BY DEF Partition
<1>1. ASSUME NEW e \in H
      PROVE  /\ \A x : x \in q[e] <=> x = b[e] \/ (e \in H2 /\ x = c[e])
             /\ c[e] # b[e]
  <2>0. b[e] \in Nat /\ k[e] \in {1, 2} /\ q[e] = b[e] .. b[e] + k[e] - 1
    BY DEF RunsOf
  <2>1. b[e] \in Nat /\ c[e] = b[e] + 1 /\ c[e] # b[e]
    BY <2>0
  <2>2. CASE k[e] = 1
    <3>1. b[e] + k[e] - 1 = b[e] /\ e \notin H2
      BY <2>1, <2>2
    <3>2. q[e] = b[e] .. b[e]
      BY <2>0, <3>1
    <3>3. \A x : x \in b[e] .. b[e] <=> x = b[e]
      BY <2>1
    <3>4. QED
      BY <2>1, <3>1, <3>2, <3>3
  <2>3. CASE k[e] = 2
    <3>1. b[e] + k[e] - 1 = c[e] /\ e \in H2
      BY <2>1, <2>3
    <3>2. q[e] = b[e] .. b[e] + 1
      BY <2>0, <2>1, <3>1
    <3>3. \A x : x \in b[e] .. b[e] + 1 <=> x = b[e] \/ x = b[e] + 1
      BY <2>1
    <3>4. QED
      BY <2>1, <3>1, <3>2, <3>3
  <2>4. QED
    BY <2>0, <2>2, <2>3
<1> HIDE DEF c
<1>2. /\ \A e, f \in H : b[e] = b[f] => e = f
      /\ \A e, f \in H2 : c[e] = c[f] => e = f
      /\ \A e \in H, f \in H2 : b[e] # c[f]
  <2>1. \A e \in H : b[e] \in q[e] /\ (e \in H2 => c[e] \in q[e])
    BY <1>1
  <2>2. QED
    BY <1>0, <1>1, <2>1
<1>3. \A x : x \in 1..n <=> x \in F \/ x \in S \/ x \in T1 \/ x \in T2
  BY <1>0, <1>1
<1>4. T1 \cap T2 = {} /\ \A x \in T1 \cup T2 : x \notin F /\ x \notin S
  <2>1. T1 \cap T2 = {}
    BY <1>2
  <2>2. \A e \in H : b[e] \in q[e] /\ (e \in H2 => c[e] \in q[e])
    BY <1>1
  <2>3. \A x \in T1 \cup T2 : x \notin F /\ x \notin S
    BY <1>0, <2>2
  <2>4. QED
    BY <2>1, <2>3
<1>5. /\ IsFiniteSet(F) /\ IsFiniteSet(S) /\ IsFiniteSet(T1) /\ IsFiniteSet(T2)
      /\ Cardinality(1..n) = n
  <2>1. IsFiniteSet(1..n) /\ Cardinality(1..n) = n
    <3>1. 1 \in Int /\ n \in Int /\ (IF 1 > n THEN 0 ELSE n - 1 + 1) = n
      OBVIOUS
    <3>2. QED
      BY <3>1, FS_Interval
  <2>2. F \in SUBSET (1..n) /\ S \in SUBSET (1..n) /\ T1 \in SUBSET (1..n) /\ T2 \in SUBSET (1..n)
    <3> HIDE DEF T1, T2
    <3> QED BY <1>3
  <2> HIDE DEF T1, T2
  <2>3. QED
    BY <2>1, <2>2, FS_Subset
<1>6. Cardinality(H) = Cardinality(T1) /\ Cardinality(H2) = Cardinality(T2)
  <2>0. /\ \A e, f \in H : b[e] = b[f] => e = f
        /\ \A e, f \in H2 : c[e] = c[f] => e = f
    BY <1>2
  <2>f. IsFiniteSet(T1) /\ IsFiniteSet(T2)
    BY <1>5
  <2> HIDE DEF H2
  <2>t. T1 = {b[e] : e \in H} /\ T2 = {c[e] : e \in H2}
    OBVIOUS
  <2> HIDE DEF T1, T2
  <2>1. Cardinality(H) = Cardinality(T1)
    BY ONLY <2>0, <2>f, <2>t, ImageCount, Zenon
  <2>2. Cardinality(H2) = Cardinality(T2)
    BY ONLY <2>0, <2>f, <2>t, ImageCount, Zenon
  <2>3. QED
    BY ONLY <2>1, <2>2
<1> HIDE DEF T1, T2
<1>7. /\ IsFiniteSet(T1 \cup T2)
      /\ Cardinality(T1 \cup T2) = Cardinality(T1) + Cardinality(T2)
  BY <1>4, <1>5, DisjointCount
<1>8. IsFiniteSet(F \cup S) /\ Cardinality(F \cup S) = Cardinality(F) + Cardinality(S)
  BY <1>0, <1>5, DisjointCount
<1>9. /\ Cardinality((F \cup S) \cup (T1 \cup T2)) = Cardinality(F \cup S) + Cardinality(T1 \cup T2)
  <2>1. (F \cup S) \cap (T1 \cup T2) = {}
    BY <1>4
  <2>2. QED
    BY <1>7, <1>8, <2>1, DisjointCount
<1>10. (F \cup S) \cup (T1 \cup T2) = 1..n
  BY <1>3
<1>11. /\ Cardinality(F) \in Nat /\ Cardinality(S) \in Nat
       /\ Cardinality(T1) \in Nat /\ Cardinality(T2) \in Nat
  BY <1>5, FS_CardinalityType
<1>12. n = Cardinality(F) + Cardinality(S) + Cardinality(T1) + Cardinality(T2)
  <2>1. n = Cardinality(F \cup S) + Cardinality(T1 \cup T2)
    BY ONLY <1>5, <1>9, <1>10, Zenon
  <2>2. PICK f, s, t, u \in Nat : /\ f = Cardinality(F) /\ s = Cardinality(S)
                                  /\ t = Cardinality(T1) /\ u = Cardinality(T2)
    BY ONLY <1>11
  <2>3. PICK x, y : x = Cardinality(F \cup S) /\ y = Cardinality(T1 \cup T2)
    OBVIOUS
  <2>4. x = f + s /\ y = t + u
    BY ONLY <1>7, <1>8, <2>2, <2>3
  <2>5. n = x + y
    BY ONLY <2>1, <2>3
  <2>6. x + y = f + s + t + u
    BY ONLY <2>4, f \in Nat, s \in Nat, t \in Nat, u \in Nat
  <2>7. QED
    BY ONLY <2>2, <2>5, <2>6
<1>13. QED
  BY <1>6, <1>11, <1>12

-----------------------------------------------------------------------------
(* What the invariants say.                                                 *)

(* What the phases say of a state between calls.                           *)
LEMMA RestHolds == CallInv => HoldsExact
<1> SUFFICES ASSUME CallInv, call = "none" PROVE HoldsExact
  BY DEF HoldsExact
<1>1. Holds(New) = {} /\ NoArgs /\ AllSettled
  BY AtRestFacts DEF AtRest
<1>2. ASSUME NEW p \in Pids \ {init}
      PROVE  CASE status[p] = "free" -> Holds(p) = {}
               [] status[p] = "zombie" -> Holds(p) = {"proc", "kstack"}
               [] OTHER -> Holds(p) \ {"proc", "kstack", "files", "files_bb"} \in {{}, UserSpace}
                             /\ {"proc", "kstack", "files", "files_bb"} \subseteq Holds(p)
  <2>1. CASE status[p] = "free"
    BY <1>1, <2>1 DEF AllSettled, Settled
  <2>2. CASE status[p] = "zombie"
    BY <1>1, <2>2 DEF AllSettled, Settled, Keep
  <2>3. CASE status[p] # "free" /\ status[p] # "zombie"
    <3>1. Holds(p) = Base \/ Holds(p) = Base \cup UserSpace
      BY <1>1, <2>3 DEF AllSettled, Settled, Normal
    <3>2. Base = {"proc", "kstack", "files", "files_bb"} /\ Base \cap UserSpace = {}
      BY ResourceFacts DEF Base
    <3>3. Holds(p) \ Base \in {{}, UserSpace} /\ Base \subseteq Holds(p)
      BY <3>1, <3>2
    <3>4. QED
      BY <2>3, <3>2, <3>3
  <2>4. QED
    BY <2>1, <2>2, <2>3
<1>3. QED
  BY <1>1, <1>2 DEF HoldsExact, NoArgs

(* The free list is sorted and merged.                                      *)
LEMMA FreeListIs == MemInv => FreeListExact
<1> SUFFICES ASSUME MemInv PROVE FreeListExact
  OBVIOUS
<1>1. /\ panic # "assert" /\ nr_free = Cardinality(FreePages(free_list))
      /\ free_list \in Seq(Blocks) /\ Apart(free_list)
  BY DEF MemInv, FreeInv
<1>2. Len(free_list) \in Nat
  BY <1>1, LenProperties
<1>3. ASSUME NEW i \in 1..Len(free_list)-1 PROVE End(free_list[i]) < free_list[i+1].base
  <2>1. i \in 1..Len(free_list) /\ i+1 \in 1..Len(free_list) /\ i < i+1
    BY <1>2
  <2>2. QED
    BY <1>1, <2>1 DEF Apart
<1>4. Merged(free_list)
  BY <1>3 DEF Merged, End
<1>5. QED
  BY <1>1, <1>4 DEF FreeListExact

(* The run of an extent, as its address and its length.                    *)
RunBase == [e \in Holdings |-> owns[e[1]][e[2]]]
RunLen == [e \in Holdings |-> Pages(e[2])]

(* A run that is held begins at its address.                                *)
LEMMA RunsAre ==
  ASSUME OwnsOK
  PROVE  RunsOf(Holdings, HeldBy, RunBase, RunLen)
<1>1. SUFFICES ASSUME NEW e \in Holdings
               PROVE  /\ RunBase[e] \in Nat /\ RunLen[e] \in {1, 2}
                      /\ HeldBy[e] = RunBase[e] .. RunBase[e] + RunLen[e] - 1
  BY DEF RunsOf
<1>2. e[1] \in Owners /\ e[2] \in Resources
  BY RunFacts DEF Holdings
<1>3. owns[e[1]][e[2]] \in Nat
  BY <1>2 DEF OwnsOK
<1>4. QED
  BY <1>3, RunFacts DEF RunBase, RunLen, HeldBy, PagesHeld

(* Every page is free, of kmalloc, or held once.                            *)
LEMMA PagesAre == OwnsOK /\ MemInv => PagesExact
<1> SUFFICES ASSUME OwnsOK, MemInv, ~Plenty PROVE PagesExact
  BY DEF PagesExact
<1>1. Extents = Holdings
  BY DEF OwnsOK, Extents, Holdings
<1>2. /\ Partition(FreePages(free_list), slob, Holdings, HeldBy, npage)
      /\ npage \in Nat /\ nr_free = Cardinality(FreePages(free_list))
  BY DEF MemInv, FreeInv, PagesInv
<1> DEFINE U == UNION {PagesHeld(e) : e \in Extents}
           T == {e \in Extents : Pages(e[2]) = 2}
<1>3. U \cup FreePages(free_list) \cup slob = 1..npage
  <2>1. \A x : x \in 1..npage <=> x \in FreePages(free_list) \/ x \in slob
                                    \/ \E e \in Holdings : x \in HeldBy[e]
    BY <1>2 DEF Partition
  <2>2. \A e \in Holdings : HeldBy[e] = PagesHeld(e)
    BY DEF HeldBy
  <2>3. \A x : x \in U <=> \E e \in Holdings : x \in PagesHeld(e)
    BY <1>1
  <2> HIDE DEF U
  <2>4. \A x : x \in U <=> \E e \in Holdings : x \in HeldBy[e]
    BY <2>2, <2>3, Zenon
  <2>5. QED
    BY ONLY <2>1, <2>4
<1>4. npage = nr_free + Cardinality(slob) + Cardinality(Extents) + Cardinality(T)
  <2>1. {e \in Holdings : RunLen[e] = 2} = T
    BY <1>1 DEF RunLen
  <2> HIDE DEF T
  <2>2. npage = Cardinality(FreePages(free_list)) + Cardinality(slob) + Cardinality(Holdings)
                  + Cardinality({e \in Holdings : RunLen[e] = 2})
    <3>1. RunsOf(Holdings, HeldBy, RunBase, RunLen)
      BY RunsAre
    <3>2. PICK F, S, H, q, b, k :
            /\ F = FreePages(free_list) /\ S = slob /\ H = Holdings /\ q = HeldBy
            /\ b = RunBase /\ k = RunLen
      OBVIOUS
    <3>3. PICK n \in Nat : n = npage
      BY <1>2
    <3>4. Partition(F, S, H, q, n) /\ RunsOf(H, q, b, k)
      BY ONLY <1>2, <3>1, <3>2, <3>3, Zenon
    <3>5. n = Cardinality(F) + Cardinality(S) + Cardinality(H) + Cardinality({e \in H : k[e] = 2})
      BY ONLY n \in Nat, <3>4, PartitionCount
    <3>6. QED
      BY ONLY <3>2, <3>3, <3>5
  <2>3. QED
    BY ONLY <1>1, <1>2, <2>1, <2>2, Zenon
<1> HIDE DEF U, T
<1>5. \/ Plenty
      \/ /\ U \cup FreePages(free_list) \cup slob = 1..npage
         /\ npage = nr_free + Cardinality(slob) + Cardinality(Extents) + Cardinality(T)
  BY <1>3, <1>4
<1>6. QED
  BY <1>5, Zenon DEF PagesExact, U, T

(* The addresses are those of pages that there are.                        *)
LEMMA OwnsAre == OwnsOK /\ MemInv => owns \in [Owners -> [Resources -> 0..npage+1]]
<1> SUFFICES ASSUME OwnsOK, MemInv, NEW p \in Owners, NEW r \in Resources
             PROVE  owns[p][r] \in 0..npage+1
  BY DEF OwnsOK
<1>1. npage \in Nat /\ owns[p][r] \in Nat
  BY DEF OwnsOK, MemInv, FreeInv
<1>2. CASE r \in Objects \/ Plenty
  <2>1. owns[p][r] \in {0, 1}
    BY <1>2 DEF MemInv, SmallInv
  <2>2. QED
    BY <1>1, <2>1
<1>3. CASE ~(r \in Objects \/ Plenty) /\ owns[p][r] # 0
  <2>1. PICK e : e = <<p, r>>
    OBVIOUS
  <2>2. e[1] = p /\ e[2] = r /\ e \in Owners \X PageRuns
    BY <1>3, <2>1, RunFacts
  <2>3. e \in Holdings /\ RunBase[e] = owns[p][r]
    BY <1>3, <2>2 DEF Holdings, RunBase
  <2>4. RunBase[e] \in HeldBy[e]
    <3>1. RunBase[e] \in Nat /\ RunLen[e] \in {1, 2}
          /\ HeldBy[e] = RunBase[e] .. RunBase[e] + RunLen[e] - 1
      BY <2>3, RunsAre DEF RunsOf
    <3>2. \A b \in Nat, k \in {1, 2} : b \in b .. b + k - 1
      OBVIOUS
    <3>3. QED
      BY <3>1, <3>2
  <2>5. RunBase[e] \in 1..npage
    BY <1>3, <2>3, <2>4 DEF MemInv, PagesInv, Partition
  <2>6. QED
    BY <1>1, <2>3, <2>5
<1>4. CASE owns[p][r] = 0
  BY <1>1, <1>4
<1>5. QED
  BY <1>2, <1>3, <1>4

(* The pages of kmalloc are pages.                                          *)
LEMMA SlobIs == MemInv => slob \subseteq 1..npage
<1>1. ASSUME MemInv, Plenty PROVE slob = {}
  BY <1>1 DEF MemInv, PagesInv
<1>2. ASSUME MemInv, ~Plenty PROVE slob \subseteq 1..npage
  BY <1>2 DEF MemInv, PagesInv, Partition
<1>3. QED
  BY <1>1, <1>2

-----------------------------------------------------------------------------
(* The links are pids, and panic is one of those there are.                *)
TypesInv ==
  /\ parent \in [Pids -> {0} \cup Pids]
  /\ cptr \in [{0} \cup Pids -> {None} \cup Pids]
  /\ optr \in [Pids -> {None} \cup Pids]
  /\ yptr \in [Pids -> {None} \cup Pids]
  /\ panic \in {"none", "swap_out", "no memory", "user_main", "assert"}

(* A step that leaves the links alone.                                      *)
LEMMA TypesSame ==
  ASSUME TypesInv, UNCHANGED <<parent, cptr, optr, yptr>>,
         panic' = panic \/ panic' \in {"none", "swap_out", "no memory", "user_main", "assert"}
  PROVE  TypesInv'
BY DEF TypesInv

(* After boot,                                                              *)
LEMMA TypesInit == Init => TypesInv
<1>1. init \in Pids
  BY PidAssumption DEF init, Pids
<1>2. QED
  BY <1>1 DEF Init, TypesInv, None

(* after set_links,                                                         *)
LEMMA SetLinksTypes ==
  ASSUME TypesInv, SetLinks, caller \in Pids, last_pid \in Pids
  PROVE  TypesInv'
<1>1. PICK c \in Pids, pid \in Pids : c = caller /\ pid = last_pid
  OBVIOUS
<1>2. PICK e \in {None} \cup Pids : e = cptr[c]
  BY DEF TypesInv
<1>3. /\ parent' = [parent EXCEPT ![pid] = c]
      /\ optr' = [optr EXCEPT ![pid] = e]
      /\ yptr' = [q \in Pids |-> IF q = pid THEN None ELSE IF q = e THEN pid ELSE yptr[q]]
      /\ cptr' = [cptr EXCEPT ![c] = pid, ![pid] = None]
      /\ panic' = panic
  BY <1>1, <1>2 DEF SetLinks
<1>4. QED
  BY <1>3 DEF TypesInv

(* after a child is handed over,                                            *)
LEMMA AdoptTypes ==
  ASSUME TypesInv, Adopt, caller \in Pids
  PROVE  TypesInv'
<1>1. init \in Pids
  BY PidAssumption DEF init, Pids
<1>2. PICK d \in Pids, i \in Pids : d = caller /\ i = init
  BY <1>1
<1>3. PICK c \in {None} \cup Pids, e \in {None} \cup Pids : c = cptr[d] /\ e = cptr[i]
  BY DEF TypesInv
<1>4. CASE c # None
  <2>1. /\ c \in Pids
        /\ cptr' = [cptr EXCEPT ![d] = optr[c], ![i] = c]
        /\ yptr' = [q \in Pids |-> IF q = c THEN None ELSE IF q = e THEN c ELSE yptr[q]]
        /\ optr' = [optr EXCEPT ![c] = e]
        /\ parent' = [parent EXCEPT ![c] = i]
        /\ panic' = panic
    BY <1>2, <1>3, <1>4 DEF Adopt
  <2>2. QED
    BY <2>1 DEF TypesInv
<1>5. CASE c = None
  BY <1>2, <1>3, <1>5, TypesSame DEF Adopt
<1>6. QED
  BY <1>4, <1>5

(* after remove_links,                                                      *)
LEMMA WaitTypes ==
  ASSUME TypesInv, NEW p \in Pids, NEW c \in Pids, Wait(p, c)
  PROVE  TypesInv'
<1>1. /\ yptr' = [q \in Pids |-> IF q = optr[c] THEN yptr[c] ELSE yptr[q]]
      /\ optr' = [q \in Pids |-> IF q = yptr[c] THEN optr[c] ELSE optr[q]]
      /\ cptr' = IF yptr[c] = None THEN [cptr EXCEPT ![p] = optr[c]] ELSE cptr
      /\ parent' = parent /\ panic' = panic
  BY DEF Wait
<1>2. QED
  BY <1>1 DEF TypesInv

(* and after any step.                                                      *)
LEMMA TypesNext ==
  ASSUME TypesInv, [Next]_vars, caller \in Pids, SetLinks => last_pid \in Pids
  PROVE  TypesInv'
<1>1. CASE Take
  BY <1>1, TypesSame DEF Take, Kmalloc, AllocPages, NoPages, Panic, tree
<1>2. CASE Release
  BY <1>2, TypesSame DEF Release, Panic, tree
<1>3. CASE TakeAll \/ ForkPid \/ Copy
  BY <1>3, TypesSame DEF TakeAll, ForkPid, Copy, tree
<1>4. CASE SetMm \/ UserMainFails \/ Zombie
  BY <1>4, TypesSame DEF SetMm, UserMainFails, Zombie, Panic, tree
<1>5. ASSUME NEW what, TryFile(what) PROVE TypesInv'
  BY <1>5, TypesSame DEF TryFile, tree
<1>6. ASSUME NEW p \in Pids, Fork(p) \/ Exec(p) \/ Exit(p) PROVE TypesInv'
  BY <1>6, TypesSame DEF Fork, Exec, Exit, tree
<1>7. CASE UNCHANGED vars
  BY <1>7, TypesSame DEF vars, tree
<1>8. QED
  BY <1>1, <1>2, <1>3, <1>4, <1>5, <1>6, <1>7, SetLinksTypes, AdoptTypes, WaitTypes DEF Next

-----------------------------------------------------------------------------
(* The tree of processes: the list of children that cptr, optr and yptr     *)
(* make.                                                                    *)

(* The i-th of the list, or NULL.                                          *)
At(L, i) == IF i \in 1..Len(L) THEN L[i] ELSE None
Members(L) == {L[i] : i \in 1..Len(L)}

(* L is the list of children that starts at e and goes on in o; y leads    *)
(* back, from the first too when the list is whole.                        *)
Linked(L, e, o, y, whole) ==
  /\ L \in Seq(Pids)
  /\ \A i, j \in 1..Len(L) : L[i] = L[j] => i = j
  /\ e = At(L, 1)
  /\ \A i \in 1..Len(L) : o[L[i]] = At(L, i+1)
  /\ \A i \in 1..Len(L) : i > 1 \/ whole => y[L[i]] = At(L, i-1)

(* A list of processes, entry by entry.                                     *)
LEMMA AtFacts ==
  ASSUME NEW L \in Seq(Pids)
  PROVE  /\ Len(L) \in Nat
         /\ \A i \in 1..Len(L) : L[i] \in Pids /\ At(L, i) = L[i] /\ L[i] # None
         /\ \A i : i \notin 1..Len(L) => At(L, i) = None
<1>1. Len(L) \in Nat /\ \A i \in 1..Len(L) : L[i] \in Pids
  BY LenProperties, ElementOfSeq
<1>2. None \notin Pids
  BY DEF None, Pids
<1>3. QED
  BY <1>1, <1>2 DEF At

(* What holds of the list rests on the links of its members alone.          *)
LEMMA LinkedSame ==
  ASSUME NEW L, NEW e, NEW o, NEW y, NEW whole, Linked(L, e, o, y, whole),
         NEW p, NEW z, NEW firm, firm => whole,
         \A c \in Members(L) : p[c] = o[c] /\ z[c] = y[c]
  PROVE  Linked(L, e, p, z, firm)
<1>1. \A i \in 1..Len(L) : L[i] \in Members(L)
  BY DEF Members
<1>2. QED
  BY <1>1 DEF Linked

(* c comes before e, and nothing else changes for K.                       *)
InFront(c, e, o, y, p, z, K) ==
  /\ p[c] = e /\ z[c] = None
  /\ \A d \in K : p[d] = o[d] /\ z[d] = IF d = e THEN c ELSE y[d]

(* A new first.                                                             *)
LEMMA LinkedCons ==
  ASSUME NEW L, NEW e, NEW o, NEW y, Linked(L, e, o, y, TRUE),
         NEW c \in Pids, c \notin Members(L), NEW p, NEW z,
         InFront(c, e, o, y, p, z, Members(L))
  PROVE  /\ Linked(<<c>> \o L, c, p, z, TRUE)
         /\ Members(<<c>> \o L) = Members(L) \cup {c}
<1> DEFINE M == <<c>> \o L
<1>0. /\ p[c] = e /\ z[c] = None
      /\ \A d \in Members(L) : p[d] = o[d] /\ z[d] = IF d = e THEN c ELSE y[d]
  BY DEF InFront
<1>1. L \in Seq(Pids) /\ e = At(L, 1)
  BY DEF Linked
<1>2. PICK n \in Nat : n = Len(L)
  BY <1>1, AtFacts
<1>3. /\ M \in Seq(Pids) /\ Len(M) = n + 1
      /\ \A j \in 1..n+1 : M[j] = IF j = 1 THEN c ELSE L[j-1]
  BY <1>1, <1>2, ConsFacts
<1> HIDE DEF M
<1>4. \A j \in 1..n+1 : (j = 1 /\ M[j] = c)
                          \/ (j > 1 /\ j-1 \in 1..n /\ M[j] = L[j-1] /\ M[j] \in Members(L))
  BY <1>2, <1>3 DEF Members
<1>5. \A i \in 1..n : i+1 \in 1..n+1 /\ M[i+1] = L[i]
  BY <1>3
<1>7. ASSUME NEW i \in 1..n+1, NEW j \in 1..n+1, M[i] = M[j] PROVE i = j
  <2>1. CASE i = 1 \/ j = 1
    BY <1>4, <1>7, <2>1
  <2>2. CASE i # 1 /\ j # 1
    <3>1. i-1 \in 1..n /\ j-1 \in 1..n /\ L[i-1] = L[j-1]
      BY <1>4, <1>7, <2>2
    <3>2. i-1 = j-1
      BY <1>2, <3>1 DEF Linked
    <3>3. QED
      BY <3>2
  <2>3. QED
    BY <2>1, <2>2
<1>8. At(M, 1) = c
  BY <1>3, <1>2 DEF At
<1>9. ASSUME NEW i \in 1..n+1 PROVE p[M[i]] = At(M, i+1)
  <2>1. CASE i = 1
    <3>1. p[M[i]] = At(L, 1)
      BY <1>0, <1>1, <1>4, <2>1
    <3>2. At(L, 1) = At(M, 2)
      BY <1>2, <1>3, <1>5 DEF At
    <3>3. QED
      BY <2>1, <3>1, <3>2
  <2>2. CASE i # 1
    <3>1. i-1 \in 1..n /\ M[i] = L[i-1] /\ M[i] \in Members(L)
      BY <1>4, <2>2
    <3>2. o[L[i-1]] = At(L, i)
      <4>1. (i-1)+1 = i
        OBVIOUS
      <4>2. o[L[i-1]] = At(L, (i-1)+1)
        BY <1>2, <3>1 DEF Linked
      <4>3. QED
        BY <4>1, <4>2
    <3>3. At(L, i) = At(M, i+1)
      BY <1>2, <1>3, <1>5 DEF At
    <3>4. p[M[i]] = o[L[i-1]]
      BY <1>0, <3>1
    <3>5. QED
      BY <3>2, <3>3, <3>4
  <2>3. QED
    BY <2>1, <2>2
<1>10. ASSUME NEW i \in 1..n+1 PROVE z[M[i]] = At(M, i-1)
  <2>1. CASE i = 1
    <3>1. At(M, 0) = None
      BY <1>3 DEF At
    <3>2. QED
      BY <1>0, <2>1, <1>4, <3>1
  <2>2. CASE i = 2
    <3>1. 1 \in 1..n /\ M[i] = L[1] /\ M[i] \in Members(L)
      BY <1>4, <2>2
    <3>2. L[1] = e
      BY <1>1, <1>2, <3>1 DEF At
    <3>3. z[M[i]] = c
      BY <1>0, <3>1, <3>2
    <3>4. QED
      BY <1>8, <2>2, <3>3
  <2>3. CASE i > 2
    <3>1. i-1 \in 1..n /\ i-2 \in 1..n /\ 1 \in 1..n /\ i-1 # 1 /\ M[i] = L[i-1] /\ M[i] \in Members(L)
      BY <1>4, <2>3
    <3>2. L[i-1] # L[1] /\ L[1] = e
      BY <1>1, <1>2, <3>1 DEF At, Linked
    <3>3. z[M[i]] = y[L[i-1]]
      BY <1>0, <3>1, <3>2
    <3>4. y[L[i-1]] = At(L, i-2)
      <4>1. (i-1)-1 = i-2
        OBVIOUS
      <4>2. y[L[i-1]] = At(L, (i-1)-1)
        BY <1>2, <3>1 DEF Linked
      <4>3. QED
        BY <4>1, <4>2
    <3>5. At(L, i-2) = At(M, i-1)
      <4>1. M[(i-2)+1] = L[i-2] /\ (i-2)+1 = i-1 /\ i-1 \in 1..n+1
        BY <1>5, <3>1
      <4>2. QED
        BY <1>2, <1>3, <3>1, <4>1 DEF At
    <3>6. QED
      BY <3>3, <3>4, <3>5
  <2>4. QED
    BY <2>1, <2>2, <2>3
<1>11. Linked(M, c, p, z, TRUE)
  BY <1>3, <1>7, <1>8, <1>9, <1>10 DEF Linked
<1>12. Members(M) = Members(L) \cup {c}
  <2>1. Members(M) = {M[j] : j \in 1..n+1} /\ Members(L) = {L[j] : j \in 1..n}
    BY <1>2, <1>3 DEF Members
  <2>2. 1 \in 1..n+1 /\ M[1] = c
    BY <1>3
  <2>3. Members(M) \subseteq Members(L) \cup {c}
    BY <1>4, <2>1
  <2>4. Members(L) \cup {c} \subseteq Members(M)
    BY <1>5, <2>1, <2>2
  <2>5. QED
    BY <2>3, <2>4
<1>13. QED
  BY <1>11, <1>12 DEF M

(* Nothing changes for K.                                                  *)
Kept(o, y, p, z, K) == \A d \in K : p[d] = o[d] /\ z[d] = y[d]

(* The first leaves.                                                        *)
LEMMA LinkedTail ==
  ASSUME NEW L, NEW e, NEW o, NEW y, NEW whole, Linked(L, e, o, y, whole), e # None,
         NEW p, NEW z, Kept(o, y, p, z, Members(L) \ {e})
  PROVE  /\ e \in Members(L) /\ e \in Pids
         /\ Linked(Tail(L), o[e], p, z, FALSE)
         /\ Members(Tail(L)) = Members(L) \ {e}
<1> DEFINE M == Tail(L)
<1>0. \A d \in Members(L) \ {e} : p[d] = o[d] /\ z[d] = y[d]
  BY DEF Kept
<1>1. L \in Seq(Pids) /\ e = At(L, 1)
  BY DEF Linked
<1>2. PICK n \in Nat : n = Len(L)
  BY <1>1, AtFacts
<1>3. 1 \in 1..n /\ L[1] = e /\ e \in Pids
  BY <1>1, <1>2, AtFacts
<1>4. M \in Seq(Pids) /\ Len(M) = n-1 /\ \A i \in 1..n-1 : M[i] = L[i+1]
  <2>1. L # <<>>
    BY <1>2, <1>3
  <2>2. QED
    BY <1>1, <1>2, <2>1, HeadTailProperties
<1> HIDE DEF M
<1>5. ASSUME NEW i \in 1..n, NEW j \in 1..n, L[i] = L[j] PROVE i = j
  BY <1>2, <1>5 DEF Linked
<1>6. ASSUME NEW i \in 1..n-1
      PROVE  i+1 \in 1..n /\ M[i] = L[i+1] /\ M[i] # e /\ M[i] \in Members(L) \ {e}
  <2>1. i+1 \in 1..n /\ i+1 # 1 /\ M[i] = L[i+1]
    BY <1>4
  <2>2. L[i+1] # L[1]
    BY <1>3, <1>5, <2>1
  <2>3. QED
    BY <1>2, <1>3, <2>1, <2>2 DEF Members
<1>7. ASSUME NEW i \in 1..n-1, NEW j \in 1..n-1, M[i] = M[j] PROVE i = j
  <2>1. i+1 = j+1
    BY <1>5, <1>6, <1>7
  <2>2. QED
    BY <2>1
<1>8. \A i \in Nat \ {0} : At(M, i) = At(L, i+1)
  BY <1>2, <1>4 DEF At
<1>9. o[e] = At(M, 1)
  <2>1. o[L[1]] = At(L, 1+1)
    BY <1>2, <1>3 DEF Linked
  <2>2. At(M, 1) = At(L, 1+1)
    BY <1>8
  <2>3. QED
    BY <1>3, <2>1, <2>2
<1>10. ASSUME NEW i \in 1..n-1 PROVE p[M[i]] = At(M, i+1)
  <2>1. o[L[i+1]] = At(L, (i+1)+1)
    BY <1>2, <1>6 DEF Linked
  <2>2. At(M, i+1) = At(L, (i+1)+1)
    BY <1>8
  <2>3. QED
    BY <1>0, <1>6, <2>1, <2>2
<1>11. ASSUME NEW i \in 1..n-1, i > 1 PROVE z[M[i]] = At(M, i-1)
  <2>1. y[L[i+1]] = At(L, (i+1)-1)
    BY <1>2, <1>6 DEF Linked
  <2>2. At(M, i-1) = At(L, (i-1)+1) /\ (i-1)+1 = i /\ (i+1)-1 = i
    BY <1>8, <1>11
  <2>3. QED
    BY <1>0, <1>6, <2>1, <2>2
<1>12. Linked(M, o[e], p, z, FALSE)
  BY <1>4, <1>7, <1>9, <1>10, <1>11 DEF Linked
<1>13. Members(M) = Members(L) \ {e}
  <2>1. Members(M) = {M[j] : j \in 1..n-1} /\ Members(L) = {L[j] : j \in 1..n}
    BY <1>2, <1>4 DEF Members
  <2>2. Members(M) \subseteq Members(L) \ {e}
    BY <1>6, <2>1
  <2>3. ASSUME NEW j \in 1..n, L[j] # e PROVE j-1 \in 1..n-1 /\ M[j-1] = L[j]
    <3>1. j-1 \in 1..n-1 /\ (j-1)+1 = j
      BY <1>3, <2>3
    <3>2. QED
      BY <1>4, <3>1
  <2>4. Members(L) \ {e} \subseteq Members(M)
    BY <2>1, <2>3
  <2>5. QED
    BY <2>2, <2>4
<1>14. e \in Members(L)
  BY <1>2, <1>3 DEF Members
<1>15. QED
  BY <1>3, <1>12, <1>13, <1>14 DEF M

(* c leaves: its neighbours are joined, and nothing else changes for K.    *)
Joins(c, e, o, y, f, p, z, K) ==
  /\ f = IF y[c] = None THEN o[c] ELSE e
  /\ \A d \in K \ {c} : /\ p[d] = IF d = y[c] THEN o[c] ELSE o[d]
                        /\ z[d] = IF d = o[c] THEN y[c] ELSE y[d]

Listed(K, e, o, y, whole) == \E L : Linked(L, e, o, y, whole) /\ Members(L) = K

(* Any member leaves a list that is whole.                                  *)
LEMMA LinkedRemove ==
  ASSUME NEW L, NEW e, NEW o, NEW y, Linked(L, e, o, y, TRUE),
         NEW c, c \in Members(L), NEW f, NEW p, NEW z,
         Joins(c, e, o, y, f, p, z, Members(L))
  PROVE  Listed(Members(L) \ {c}, f, p, z, TRUE)
<1>0. \A d \in Members(L) \ {c} : /\ p[d] = IF d = y[c] THEN o[c] ELSE o[d]
                                  /\ z[d] = IF d = o[c] THEN y[c] ELSE y[d]
  BY DEF Joins
<1>1. L \in Seq(Pids) /\ e = At(L, 1)
  BY DEF Linked
<1>2. PICK n \in Nat : n = Len(L)
  BY <1>1, AtFacts
<1>3. PICK k \in 1..n : L[k] = c
  BY <1>2 DEF Members
<1>4. PICK M : M = RemoveAt(L, k)
  OBVIOUS
<1>5. /\ M \in Seq(Pids) /\ Len(M) = n-1
      /\ \A j \in 1..n-1 : M[j] = IF j < k THEN L[j] ELSE L[j+1]
  BY <1>1, <1>2, <1>3, <1>4, RemoveAtFacts
<1>6. ASSUME NEW i \in 1..n, NEW j \in 1..n, L[i] = L[j] PROVE i = j
  BY <1>2, <1>6 DEF Linked
<1>7. o[c] = At(L, k+1) /\ y[c] = At(L, k-1)
  BY <1>2, <1>3 DEF Linked
<1>8. ASSUME NEW j \in 1..n-1
      PROVE  \/ j < k /\ M[j] = L[j] /\ j \in 1..n
             \/ j >= k /\ M[j] = L[j+1] /\ j+1 \in 1..n
  BY <1>3, <1>5
<1>9. ASSUME NEW j \in 1..n, j # k PROVE L[j] \in Members(L) \ {c}
  BY <1>2, <1>3, <1>6, <1>9 DEF Members
<1>10. \A i \in Nat : At(M, i) = IF i < k THEN At(L, i) ELSE At(L, i+1)
  BY <1>2, <1>3, <1>5, <1>8 DEF At
<1>11. ASSUME NEW j \in 1..n, j # k
       PROVE  /\ p[L[j]] = IF j = k-1 THEN At(L, k+1) ELSE At(L, j+1)
              /\ z[L[j]] = IF j = k+1 THEN At(L, k-1) ELSE At(L, j-1)
  <2>1. L[j] \in Members(L) \ {c} /\ L[j] \in Pids /\ L[j] # None
    BY <1>1, <1>2, <1>9, <1>11, AtFacts
  <2>2. o[L[j]] = At(L, j+1) /\ y[L[j]] = At(L, j-1)
    BY <1>2 DEF Linked
  <2>3. L[j] = At(L, k-1) <=> j = k-1
    BY <1>2, <1>3, <1>6, <2>1 DEF At
  <2>4. L[j] = At(L, k+1) <=> j = k+1
    BY <1>2, <1>3, <1>6, <2>1 DEF At
  <2>5. p[L[j]] = (IF L[j] = y[c] THEN o[c] ELSE o[L[j]])
        /\ z[L[j]] = (IF L[j] = o[c] THEN y[c] ELSE y[L[j]])
    BY <1>0, <2>1
  <2>6. QED
    BY ONLY <1>7, <2>2, <2>3, <2>4, <2>5
<1>12. ASSUME NEW i \in 1..n-1 PROVE p[M[i]] = At(M, i+1) /\ z[M[i]] = At(M, i-1)
  <2>0. i+1 \in Nat /\ i-1 \in Nat /\ (i+1)+1 = i+2 /\ (i-1)+1 = i /\ (i+1)-1 = i
    OBVIOUS
  <2>1. CASE i < k
    <3>1. M[i] = L[i] /\ i \in 1..n /\ i # k
      BY <1>8, <2>1
    <3>2. /\ p[L[i]] = IF i = k-1 THEN At(L, k+1) ELSE At(L, i+1)
          /\ z[L[i]] = IF i = k+1 THEN At(L, k-1) ELSE At(L, i-1)
      BY <1>11, <3>1
    <3>3. At(M, i-1) = At(L, i-1)
      BY <1>10, <2>0, <2>1
    <3>4. CASE i = k-1
      <4>1. At(M, i+1) = At(L, i+2) /\ i+2 = k+1
        BY <1>10, <2>0, <3>4
      <4>2. QED
        BY <3>1, <3>2, <3>3, <3>4, <4>1
    <3>5. CASE i # k-1
      <4>1. At(M, i+1) = At(L, i+1)
        BY <1>10, <2>0, <2>1, <3>5
      <4>2. QED
        BY <2>1, <3>1, <3>2, <3>3, <3>5, <4>1
    <3>6. QED
      BY <3>4, <3>5
  <2>2. CASE i >= k
    <3>1. M[i] = L[i+1] /\ i+1 \in 1..n /\ i+1 # k
      BY <1>8, <2>2
    <3>2. /\ p[L[i+1]] = IF i+1 = k-1 THEN At(L, k+1) ELSE At(L, (i+1)+1)
          /\ z[L[i+1]] = IF i+1 = k+1 THEN At(L, k-1) ELSE At(L, (i+1)-1)
      BY <1>11, <3>1
    <3>3. p[M[i]] = At(M, i+1)
      <4>1. At(M, i+1) = At(L, (i+1)+1)
        BY <1>10, <2>0, <2>2
      <4>2. QED
        BY <2>2, <3>1, <3>2, <4>1
    <3>4. z[M[i]] = At(M, i-1)
      <4>1. CASE i = k
        <5>1. At(M, i-1) = At(L, k-1)
          BY <1>10, <2>0, <4>1
        <5>2. QED
          BY <3>1, <3>2, <4>1, <5>1
      <4>2. CASE i > k
        <5>1. At(M, i-1) = At(L, i) /\ i+1 # k+1
          BY <1>10, <2>0, <4>2
        <5>2. QED
          BY <2>0, <3>1, <3>2, <5>1
      <4>3. QED
        BY <2>2, <4>1, <4>2
    <3>5. QED
      BY <3>3, <3>4
  <2>3. QED
    BY <2>1, <2>2
<1>13. ASSUME NEW i \in 1..n-1, NEW j \in 1..n-1, M[i] = M[j] PROVE i = j
  BY <1>6, <1>8, <1>13
<1>14. f = At(M, 1)
  <2>0. f = IF y[c] = None THEN o[c] ELSE e
    BY DEF Joins
  <2>1. CASE k = 1
    <3>1. y[c] = None /\ At(M, 1) = At(L, 1+1)
      BY <1>7, <1>10, <2>1 DEF At
    <3>2. QED
      BY <1>7, <2>0, <2>1, <3>1
  <2>2. CASE k # 1
    <3>1. y[c] # None /\ At(M, 1) = At(L, 1)
      <4>1. k-1 \in 1..n /\ 1 < k
        BY <2>2
      <4>2. y[c] = L[k-1] /\ L[k-1] # None
        BY <1>1, <1>2, <1>7, <4>1, AtFacts
      <4>3. QED
        BY <1>10, <4>1, <4>2
    <3>2. QED
      BY <1>1, <2>0, <3>1
  <2>3. QED
    BY <2>1, <2>2
<1>15. Linked(M, f, p, z, TRUE)
  BY <1>5, <1>12, <1>13, <1>14 DEF Linked
<1>16. Members(M) = Members(L) \ {c}
  <2>1. Members(M) = {M[j] : j \in 1..n-1} /\ Members(L) = {L[j] : j \in 1..n}
    BY <1>2, <1>5 DEF Members
  <2>2. ASSUME NEW j \in 1..n-1 PROVE M[j] \in Members(L) \ {c}
    <3>1. CASE j < k
      BY <1>8, <1>9, <3>1
    <3>2. CASE j >= k
      BY <1>8, <1>9, <3>2
    <3>3. QED
      BY <3>1, <3>2
  <2>3. ASSUME NEW j \in 1..n, L[j] # c PROVE \E i \in 1..n-1 : M[i] = L[j]
    <3>1. CASE j < k
      <4>1. j \in 1..n-1 /\ M[j] = L[j]
        BY <1>5, <3>1
      <4>2. QED
        BY <4>1
    <3>2. CASE j > k
      <4>1. j-1 \in 1..n-1 /\ M[j-1] = L[j]
        BY <1>5, <3>2
      <4>2. QED
        BY <4>1
    <3>3. QED
      BY <1>3, <2>3, <3>1, <3>2
  <2>4. QED
    BY <2>1, <2>2, <2>3
<1>17. QED
  BY <1>15, <1>16 DEF Listed

(* A list has as many members as it is long, and less than MAX_PID.        *)
LEMMA MemberCount ==
  ASSUME NEW L, NEW e, NEW o, NEW y, NEW whole, Linked(L, e, o, y, whole)
  PROVE  Cardinality(Members(L)) = Len(L) /\ Len(L) \in Nat /\ Len(L) < MAX_PID
<1>1. L \in Seq(Pids) /\ \A i, j \in 1..Len(L) : L[i] = L[j] => i = j
  BY DEF Linked
<1>2. PICK n \in Nat : n = Len(L)
  BY <1>1, AtFacts
<1>3. PICK m \in Nat : m = MAX_PID /\ m >= 1
  BY PidAssumption
<1>4. IsFiniteSet(Pids) /\ Cardinality(Pids) = m - 1
  <2>1. 1 \in Int /\ m-1 \in Int /\ (IF 1 > m-1 THEN 0 ELSE (m-1) - 1 + 1) = m-1
    BY <1>3
  <2>2. IsFiniteSet(1..m-1) /\ Cardinality(1..m-1) = m-1
    BY <2>1, FS_Interval
  <2>3. QED
    BY <1>3, <2>2 DEF Pids
<1>5. Members(L) \in SUBSET Pids
  BY <1>1, <1>2, AtFacts DEF Members
<1>6. IsFiniteSet(Members(L)) /\ Cardinality(Members(L)) <= Cardinality(Pids)
  BY <1>4, <1>5, FS_Subset
<1>7. Cardinality(1..n) = Cardinality(Members(L))
  <2>1. Members(L) = {L[i] : i \in 1..n} /\ \A i, j \in 1..n : L[i] = L[j] => i = j
    BY <1>1, <1>2 DEF Members
  <2>2. PICK T : T = Members(L)
    OBVIOUS
  <2>3. PICK H : H = 1..n
    OBVIOUS
  <2>4. T = {L[i] : i \in H} /\ IsFiniteSet(T) /\ \A i, j \in H : L[i] = L[j] => i = j
    BY <1>6, <2>1, <2>2, <2>3
  <2>5. Cardinality(H) = Cardinality(T)
    BY ONLY <2>4, ImageCount, Zenon
  <2>6. QED
    BY ONLY <2>2, <2>3, <2>5
<1>8. Cardinality(1..n) = n
  <2>1. 1 \in Int /\ n \in Int /\ (IF 1 > n THEN 0 ELSE n - 1 + 1) = n
    OBVIOUS
  <2>2. QED
    BY <2>1, FS_Interval
<1>9. QED
  BY <1>2, <1>3, <1>4, <1>6, <1>7, <1>8

(* Following optr from cptr[p] finds the list.                             *)
ChainFrom(f, e, o, m) ==
  f = [n \in 1..m |-> IF n = 1 THEN e
                      ELSE LET c == f[n-1] IN IF c = None THEN None ELSE o[c]]

LEMMA ChainIs ==
  ASSUME NEW p, NEW L, NEW whole, Linked(L, cptr[p], optr, yptr, whole)
  PROVE  \A n \in 1..MAX_PID : Chain(p)[n] = At(L, n)
<1>0. PICK m \in Nat : m = MAX_PID
  BY PidAssumption
<1>1. PICK e, o : e = cptr[p] /\ o = optr
  OBVIOUS
<1>2. L \in Seq(Pids) /\ e = At(L, 1) /\ \A i \in 1..Len(L) : o[L[i]] = At(L, i+1)
  BY <1>1 DEF Linked
<1>3. Len(L) \in Nat /\ \A i \in 1..Len(L) : L[i] # None /\ At(L, i) = L[i]
  BY <1>2, AtFacts
<1>4. ASSUME NEW n \in 2..m
      PROVE  At(L, n) = IF At(L, n-1) = None THEN None ELSE o[At(L, n-1)]
  <2>1. CASE n-1 \in 1..Len(L)
    <3>1. At(L, n-1) = L[n-1] /\ L[n-1] # None /\ (n-1)+1 = n
      BY <1>3, <2>1
    <3>2. o[L[n-1]] = At(L, (n-1)+1)
      BY <1>2, <2>1
    <3>3. QED
      BY <3>1, <3>2
  <2>2. CASE n-1 \notin 1..Len(L)
    <3>1. At(L, n-1) = None /\ At(L, n) = None
      BY <1>3, <2>2 DEF At
    <3>2. QED
      BY <3>1
  <2>3. QED
    BY <2>1, <2>2
<1> DEFINE g == [n \in 1..m |-> At(L, n)]
<1>5. ChainFrom(g, e, o, m)
  <2>1. \A n \in 1..m : g[n] = At(L, n) /\ (n # 1 => n-1 \in 1..m /\ n \in 2..m /\ g[n-1] = At(L, n-1))
    OBVIOUS
  <2>2. g = [n \in 1..m |-> g[n]]
    OBVIOUS
  <2>3. \A n \in 1..m : g[n] = IF n = 1 THEN e
                      ELSE LET c == g[n-1] IN IF c = None THEN None ELSE o[c]
    <3> HIDE DEF g
    <3> QED BY <1>2, <1>4, <2>1
  <2> HIDE DEF g
  <2>4. QED
    BY <2>2, <2>3 DEF ChainFrom
<1> HIDE DEF g
<1>6. Chain(p) = CHOOSE f : ChainFrom(f, e, o, m)
  BY <1>0, <1>1 DEF Chain, ChainFrom
<1>7. PICK f : f = Chain(p)
  OBVIOUS
<1>8. ChainFrom(f, e, o, m)
  BY <1>5, <1>6, <1>7, Zenon
<1>9. \A n \in 1..m : f[n] = IF n = 1 THEN e ELSE IF f[n-1] = None THEN None ELSE o[f[n-1]]
  BY <1>8, Zenon DEF ChainFrom
<1> DEFINE T == {n \in Nat : n+1 \in 1..m => f[n+1] = At(L, n+1)}
<1>10. 0 \in T
  BY <1>2, <1>9
<1>11. ASSUME NEW n \in T PROVE n+1 \in T
  <2>1. SUFFICES ASSUME (n+1)+1 \in 1..m PROVE f[(n+1)+1] = At(L, (n+1)+1)
    OBVIOUS
  <2>2. n+1 \in 1..m /\ (n+1)+1 \in 2..m /\ (n+1)+1 # 1 /\ ((n+1)+1)-1 = n+1
    BY <2>1
  <2>3. f[n+1] = At(L, n+1)
    BY <2>2
  <2>4. PICK k \in 2..m : k = (n+1)+1
    BY <2>2
  <2>5. k # 1 /\ k \in 1..m /\ k-1 = n+1
    BY <2>2, <2>4
  <2>6. f[k] = IF f[k-1] = None THEN None ELSE o[f[k-1]]
    BY <1>9, <2>5, Zenon
  <2>7. QED
    BY <1>4, <2>3, <2>4, <2>5, <2>6
<1> HIDE DEF T
<1>12. T = Nat
  <2>1. T \in SUBSET Nat
    BY DEF T
  <2>2. QED
    BY <1>10, <1>11, <2>1, Induction
<1>13. ASSUME NEW n \in 1..m PROVE f[n] = At(L, n)
  <2>1. n-1 \in T /\ (n-1)+1 = n
    BY <1>12
  <2>2. QED
    BY <2>1 DEF T
<1>14. QED
  BY <1>0, <1>7, <1>13

(* What LinksExact says of a process, from its list.                       *)
KidsLinked(p) ==
  /\ {Chain(p)[n] : n \in 1..Cardinality(Kids(p))} = Kids(p)
  /\ Chain(p)[Cardinality(Kids(p)) + 1] = None
  /\ \A c \in Kids(p) \ {cptr[p]} : yptr[c] # None /\ optr[yptr[c]] = c
  /\ cptr[p] # None /\ (p = 0 \/ status[p] = "live") => yptr[cptr[p]] = None

(* LinksExact for p is read off its list.                                   *)
LEMMA LinkedKids ==
  ASSUME NEW p, NEW L, NEW whole \in BOOLEAN, Linked(L, cptr[p], optr, yptr, whole),
         Members(L) = Kids(p), p = 0 \/ status[p] = "live" => whole
  PROVE  KidsLinked(p)
<1>1. L \in Seq(Pids) /\ cptr[p] = At(L, 1)
  BY DEF Linked
<1>2. PICK n \in Nat : n = Len(L) /\ n = Cardinality(Kids(p)) /\ n < MAX_PID
  BY MemberCount
<1>3. PICK f : f = Chain(p)
  OBVIOUS
<1>4. \A i \in 1..n+1 : f[i] = At(L, i)
  <2>1. \A i \in 1..n+1 : i \in 1..MAX_PID
    BY <1>2, PidAssumption
  <2>2. QED
    BY <1>3, <2>1, ChainIs
<1>5. \A i \in 1..n : At(L, i) = L[i] /\ L[i] # None
  BY <1>1, <1>2, AtFacts
<1>6. At(L, n+1) = None
  BY <1>2 DEF At
<1>7. {f[i] : i \in 1..n} = Kids(p)
  <2>1. Kids(p) = {L[i] : i \in 1..n}
    BY <1>2 DEF Members
  <2>2. \A i \in 1..n : f[i] = L[i]
    BY <1>4, <1>5
  <2>3. QED
    BY <2>1, <2>2
<1>8. f[n+1] = None
  BY <1>4, <1>6
<1>9. ASSUME NEW c \in Kids(p) \ {cptr[p]} PROVE yptr[c] # None /\ optr[yptr[c]] = c
  <2>1. PICK i \in 1..n : L[i] = c
    BY <1>2, <1>9 DEF Members
  <2>2. i # 1
    BY <1>1, <1>5, <1>9, <2>1
  <2>3. i-1 \in 1..n /\ (i-1)+1 = i /\ i > 1
    BY <2>2
  <2>4. yptr[c] = At(L, i-1)
    BY <1>2, <2>1, <2>3 DEF Linked
  <2>5. yptr[c] = L[i-1] /\ L[i-1] # None
    BY <1>5, <2>3, <2>4
  <2>6. optr[L[i-1]] = At(L, (i-1)+1)
    BY <1>2, <2>3 DEF Linked
  <2>7. QED
    BY <1>5, <2>1, <2>3, <2>5, <2>6
<1>10. ASSUME cptr[p] # None, whole PROVE yptr[cptr[p]] = None
  <2>1. 1 \in 1..n /\ L[1] = cptr[p]
    BY <1>1, <1>2, <1>10 DEF At
  <2>2. yptr[L[1]] = At(L, 1-1)
    BY <1>2, <1>10, <2>1 DEF Linked
  <2>3. At(L, 1-1) = None
    BY <1>2 DEF At
  <2>4. QED
    BY <2>1, <2>2, <2>3
<1>11. PICK k : k = Cardinality(Kids(p)) /\ k = n
  BY <1>2
<1>12. {f[i] : i \in 1..k} = Kids(p) /\ f[k+1] = None
  BY <1>7, <1>8, <1>11
<1>13. {Chain(p)[i] : i \in 1..Cardinality(Kids(p))} = Kids(p)
       /\ Chain(p)[Cardinality(Kids(p))+1] = None
  BY ONLY <1>3, <1>11, <1>12
<1>14. QED
  BY <1>9, <1>10, <1>13 DEF KidsLinked

-----------------------------------------------------------------------------
(* Everybody has a list of its children and a live parent, or one that      *)
(* hands them over.                                                         *)

(* The caller is a zombie that hands its children over.                    *)
Handing(u) == u = caller /\ status[u] = "zombie" /\ todo = Do("adopt")

Exists(p) == p = 0 \/ status[p] # "free"
Whole(p) == p = 0 \/ status[p] = "live"

Rooted ==
  /\ parent[init] = 0 /\ status[init] = "live"
  /\ \A c \in Pids \ {init} : status[c] # "free" =>
       parent[c] \in Pids /\ (status[parent[c]] = "live" \/ Handing(parent[c]))

(* No process is its own ancestor.                                         *)
Ranked(r) ==
  /\ r \in [Pids -> Nat] /\ r[init] = 0
  /\ \A c \in Pids \ {init} : status[c] # "free" => r[parent[c]] < r[c]

Family(p, L) == Linked(L, cptr[p], optr, yptr, Whole(p)) /\ Members(L) = Kids(p)
Families == \A p \in {0} \cup Pids : Exists(p) => \E L : Family(p, L)

TreeInv == Rooted /\ (\E r : Ranked(r)) /\ Families

Steady == \A u \in Pids : ~Handing(u)

(* NULL and idleproc are no pids.                                           *)
LEMMA PidFacts == init \in Pids /\ 0 \notin Pids /\ None \notin Pids /\ None = 0
  BY PidAssumption DEF init, Pids, None

(* After boot init is the only child of idleproc.                           *)
LEMMA TreeInit == Init => TreeInv
<1> SUFFICES ASSUME Init PROVE TreeInv
  OBVIOUS
<1>0. /\ status = [p \in Pids |-> IF p = init THEN "live" ELSE "free"]
      /\ parent = [p \in Pids |-> 0]
      /\ cptr = [p \in {0} \cup Pids |-> IF p = 0 THEN init ELSE None]
      /\ optr = [p \in Pids |-> None] /\ yptr = [p \in Pids |-> None]
  BY DEF Init
<1>1. /\ \A p \in Pids : status[p] = "free" \/ p = init
      /\ status[init] = "live" /\ parent[init] = 0
  BY <1>0, PidFacts
<1>2. Rooted
  BY <1>1 DEF Rooted
<1>3. Ranked([p \in Pids |-> 0])
  BY <1>1, PidFacts DEF Ranked
<1>4. Kids(0) = {init} /\ Kids(init) = {}
  <2>1. \A c : c \in Kids(0) <=> c \in Pids /\ status[c] # "free" /\ parent[c] = 0
    BY DEF Kids
  <2>2. \A c : c \in Kids(init) <=> c \in Pids /\ status[c] # "free" /\ parent[c] = init
    BY DEF Kids
  <2>3. init # 0 /\ \A c \in Pids : parent[c] = 0
    BY <1>0, PidFacts
  <2>4. QED
    BY <1>1, <2>1, <2>2, <2>3, PidFacts
<1>5. PICK L : L = <<init>>
  OBVIOUS
<1>6. L \in Seq(Pids) /\ Len(L) = 1 /\ L[1] = init /\ \A i : i \in 1..1 <=> i = 1
  BY <1>5, PidFacts
<1>7. Family(0, L)
  <2>1. cptr[0] = init /\ optr[init] = None /\ yptr[init] = None
    BY <1>0, PidFacts
  <2>2. At(L, 1) = init /\ At(L, 1+1) = None /\ At(L, 1-1) = None
    BY <1>6 DEF At
  <2>3. Linked(L, cptr[0], optr, yptr, Whole(0))
    BY <1>6, <2>1, <2>2 DEF Linked
  <2>4. Members(L) = {init}
    BY <1>6 DEF Members
  <2>5. QED
    BY <1>4, <2>3, <2>4 DEF Family
<1>8. PICK M \in Seq(Pids) : Len(M) = 0 /\ \A i : i \notin 1..0
  <2>1. <<>> \in Seq(Pids) /\ Len(<<>>) = 0 /\ \A i : i \notin 1..0
    BY EmptyFacts
  <2>2. QED
    BY <2>1
<1>9. Family(init, M)
  <2>1. cptr[init] = None
    BY <1>0, PidFacts
  <2>2. Linked(M, cptr[init], optr, yptr, Whole(init))
    BY <1>8, <2>1 DEF Linked, At
  <2>3. Members(M) = {}
    BY <1>8 DEF Members
  <2>4. QED
    BY <1>4, <2>2, <2>3 DEF Family
<1>10. Families
  BY <1>1, <1>7, <1>9 DEF Families, Exists
<1>11. QED
  BY <1>2, <1>3, <1>10 DEF TreeInv

(* A step that leaves the tree alone.                                      *)
LEMMA TreeSame ==
  ASSUME TreeInv, UNCHANGED tree, Steady \/ UNCHANGED <<caller, todo>>
  PROVE  TreeInv'
<1>1. /\ status' = status /\ parent' = parent /\ cptr' = cptr
      /\ optr' = optr /\ yptr' = yptr
  BY DEF tree
<1>2. Rooted'
  <2>1. ASSUME NEW u \in Pids, Handing(u) PROVE Handing(u)'
    <3>1. UNCHANGED <<caller, todo>>
      BY <2>1 DEF Steady
    <3>2. QED
      BY <1>1, <2>1, <3>1 DEF Handing
  <2>2. Rooted
    BY DEF TreeInv
  <2>3. \A u \in Pids : Handing(u) => Handing(u)'
    BY <2>1
  <2>4. QED
    BY <1>1, <2>2, <2>3 DEF Rooted
<1>3. \E r : Ranked(r)'
  <2>1. PICK r : Ranked(r)
    BY DEF TreeInv
  <2>2. Ranked(r)'
    BY <1>1, <2>1 DEF Ranked
  <2>3. QED
    BY <2>2
<1>4. Families'
  <2>1. \A p : (Exists(p)' <=> Exists(p)) /\ (Whole(p)' <=> Whole(p)) /\ Kids(p)' = Kids(p)
    BY <1>1 DEF Exists, Whole, Kids
  <2>2. \A p, L : Family(p, L) => Family(p, L)'
    BY <1>1, <2>1 DEF Family, Linked
  <2>3. Families
    BY DEF TreeInv
  <2>4. QED
    BY <2>1, <2>2, <2>3 DEF Families
<1>5. QED
  BY <1>2, <1>3, <1>4 DEF TreeInv

-----------------------------------------------------------------------------
(* What keeps the tree and what changes it.                                 *)

(* Only Adopt goes on when the caller hands its children over.             *)
LEMMA SteadyFacts ==
  ASSUME CallInv
  PROVE  /\ call = "none" => Steady
         /\ Doing("get", "") \/ Doing("put", "") => Steady
         /\ \A what : what # "adopt" /\ Doing("do", what) => Steady
<1>1. ASSUME NEW u, Handing(u) PROVE call # "none" /\ todo # <<>> /\ Op.do = "do" /\ Op.what = "adopt"
  <2>1. todo = Do("adopt") /\ "adopt" \in Steps
    BY <1>1 DEF Handing, Steps
  <2>2. todo # <<>> /\ Op = [do |-> "do", what |-> "adopt", of |-> New]
    BY <2>1, DoFacts DEF Op
  <2>3. call # "none"
    BY <2>2, AtRestFacts DEF AtRest
  <2>4. QED
    BY <2>2, <2>3
<1>2. ASSUME call = "none" PROVE Steady
  BY <1>1, <1>2 DEF Steady
<1>3. ASSUME Doing("get", "") \/ Doing("put", "") PROVE Steady
  <2>1. Op.do = "get" \/ Op.do = "put"
    BY <1>3 DEF Doing
  <2>2. QED
    BY <1>1, <2>1 DEF Steady
<1>4. ASSUME NEW what, what # "adopt", Doing("do", what) PROVE Steady
  <2>1. Op.what = what
    BY <1>4 DEF Doing
  <2>2. QED
    BY <1>1, <1>4, <2>1 DEF Steady
<1>5. QED
  BY <1>2, <1>3, <1>4

LEMMA QuietTree ==
  ASSUME TreeInv, CallInv,
         \/ Take \/ TakeAll \/ Release \/ ForkPid \/ Copy \/ SetMm \/ UserMainFails
         \/ \E what \in {"open", "elf", "read"} : TryFile(what)
         \/ \E p \in Pids : Fork(p) \/ Exec(p) \/ Exit(p)
         \/ UNCHANGED vars
  PROVE  TreeInv'
<1>1. CASE Take \/ TakeAll
  <2>1. Doing("get", "") /\ UNCHANGED tree
    BY <1>1 DEF Take, TakeAll
  <2>2. QED
    BY <2>1, SteadyFacts, TreeSame
<1>2. CASE Release
  <2>1. Doing("put", "") /\ UNCHANGED tree
    BY <1>2 DEF Release
  <2>2. QED
    BY <2>1, SteadyFacts, TreeSame
<1>3. CASE ForkPid \/ Copy \/ SetMm \/ UserMainFails
  <2>1. (\E what : what # "adopt" /\ Doing("do", what)) /\ UNCHANGED tree
    BY <1>3 DEF ForkPid, Copy, SetMm, UserMainFails
  <2>2. QED
    BY <2>1, SteadyFacts, TreeSame
<1>4. ASSUME NEW what \in {"open", "elf", "read"}, TryFile(what) PROVE TreeInv'
  <2>1. what # "adopt" /\ Doing("do", what) /\ UNCHANGED tree
    BY <1>4 DEF TryFile
  <2>2. QED
    BY <2>1, SteadyFacts, TreeSame
<1>5. ASSUME NEW p \in Pids, Fork(p) \/ Exec(p) \/ Exit(p) PROVE TreeInv'
  <2>1. call = "none" /\ UNCHANGED tree
    BY <1>5 DEF Fork, Exec, Exit, Enter
  <2>2. QED
    BY <2>1, SteadyFacts, TreeSame
<1>6. CASE UNCHANGED vars
  BY <1>6, TreeSame DEF vars
<1>7. QED
  BY <1>1, <1>2, <1>3, <1>4, <1>5, <1>6

(* The first of a list is a member, and so are a member's neighbours.      *)
LEMMA LinkedMembers ==
  ASSUME NEW L, NEW e, NEW o, NEW y, NEW whole, Linked(L, e, o, y, whole)
  PROVE  /\ e \in Members(L) \cup {None} /\ Members(L) \subseteq Pids
         /\ \A c \in Members(L) : /\ o[c] \in Members(L) \cup {None}
                                  /\ whole => y[c] \in Members(L) \cup {None}
<1>1. L \in Seq(Pids) /\ e = At(L, 1)
  BY DEF Linked
<1>2. Len(L) \in Nat /\ \A i \in 1..Len(L) : L[i] \in Pids
  BY <1>1, AtFacts
<1>3. \A i : At(L, i) \in Members(L) \cup {None}
  BY DEF At, Members
<1>4. ASSUME NEW c \in Members(L)
      PROVE  o[c] \in Members(L) \cup {None} /\ (whole => y[c] \in Members(L) \cup {None})
  <2>1. PICK i \in 1..Len(L) : L[i] = c
    BY DEF Members
  <2>2. o[L[i]] = At(L, i+1) /\ (whole => y[L[i]] = At(L, i-1))
    BY DEF Linked
  <2>3. QED
    BY <1>3, <2>1, <2>2
<1>5. QED
  BY <1>1, <1>2, <1>3, <1>4 DEF Members

(* do_exit: the zombie's list is no longer whole.                          *)
LEMMA ZombieTree == ASSUME TreeInv, CallInv, Zombie PROVE TreeInv'
<1>1. /\ Doing("do", "zombie") /\ status' = [status EXCEPT ![caller] = "zombie"]
      /\ todo' = Do("adopt") /\ caller' = caller
      /\ parent' = parent /\ cptr' = cptr /\ optr' = optr /\ yptr' = yptr
  BY DEF Zombie, Continue
<1>2. Dies /\ CallerInv /\ Steady
  BY <1>1, PhaseOf, SteadyFacts DEF CallInv
<1>3. PICK k \in Pids : k = caller /\ k # init /\ status[k] = "live"
  BY <1>2 DEF CallerInv, Dies, Live
<1>4. \A p \in Pids : status'[p] = IF p = k THEN "zombie" ELSE status[p]
  BY <1>1, <1>2, <1>3 DEF CallerInv
<1>5. \A p \in Pids : status'[p] = "free" <=> status[p] = "free"
  BY <1>3, <1>4
<1>6. Rooted'
  <2>1. Handing(k)'
    BY <1>1, <1>3, <1>4 DEF Handing
  <2>2. \A c \in Pids \ {init} : status[c] # "free" =>
          parent[c] \in Pids /\ status[parent[c]] = "live"
    BY <1>2 DEF TreeInv, Rooted, Steady
  <2>3. parent'[init] = 0 /\ status'[init] = "live"
    BY <1>1, <1>3, <1>4, PidFacts DEF TreeInv, Rooted
  <2>4. ASSUME NEW c \in Pids \ {init}, status'[c] # "free"
        PROVE  parent'[c] \in Pids /\ (status'[parent'[c]] = "live" \/ Handing(parent[c])')
    <3>1. PICK u \in Pids : u = parent[c] /\ u = parent'[c] /\ status[u] = "live"
      BY <1>1, <1>5, <2>2, <2>4
    <3>2. status'[u] = "live" \/ u = k
      BY <1>4, <3>1
    <3>3. QED
      BY <1>1, <2>1, <3>1, <3>2 DEF Handing
  <2>5. QED
    BY <1>1, <2>3, <2>4 DEF Rooted, Handing
<1>7. \E r : Ranked(r)'
  <2>1. PICK r : Ranked(r)
    BY DEF TreeInv
  <2>2. Ranked(r)'
    BY <1>1, <1>5, <2>1 DEF Ranked
  <2>3. QED
    BY <2>2
<1>8. Families'
  <2>1. \A p : Kids(p)' = Kids(p)
    BY <1>1, <1>5 DEF Kids
  <2>2. ASSUME NEW p \in {0} \cup Pids, Exists(p)' PROVE \E L : Family(p, L)'
    <3>1. Exists(p) /\ (Whole(p)' => Whole(p))
      BY <1>4, <1>5, <2>2 DEF Exists, Whole
    <3>2. PICK L : Family(p, L)
      BY <3>1 DEF TreeInv, Families
    <3>3. PICK v, w : v = Whole(p) /\ w = Whole(p)'
      OBVIOUS
    <3>4. Linked(L, cptr[p], optr, yptr, v) /\ Members(L) = Kids(p) /\ (w => v)
      BY <3>1, <3>2, <3>3 DEF Family
    <3>5. Linked(L, cptr[p], optr, yptr, w)
      BY <3>4, LinkedSame
    <3>6. Family(p, L)'
      BY <1>1, <2>1, <3>3, <3>4, <3>5 DEF Family
    <3>7. QED
      BY <3>6
  <2>3. QED
    BY <2>2 DEF Families
<1>9. QED
  BY <1>6, <1>7, <1>8 DEF TreeInv

(* set_links: the new process is its parent's first child.                 *)
LEMMA SetLinksTree ==
  ASSUME TreeInv, CallInv, TypesInv, SetLinks,
         NEW pid \in Pids, pid = last_pid, status[pid] = "free"
  PROVE  TreeInv'
<1>1. Doing("do", "get_pid") /\ "get_pid" # "adopt"
  BY DEF SetLinks
<1>2. ForkTakes /\ CallerInv /\ Steady
  BY <1>1, PhaseOf, SteadyFacts DEF CallInv
<1>3. PICK k \in Pids : k = caller /\ status[k] = "live"
  BY <1>2 DEF CallerInv, ForkTakes, Forks, Live
<1>4. PICK e \in {None} \cup Pids : e = cptr[k]
  BY DEF TypesInv
<1>5. /\ status' = [status EXCEPT ![pid] = "live"]
      /\ parent' = [parent EXCEPT ![pid] = k]
      /\ optr' = [optr EXCEPT ![pid] = e]
      /\ yptr' = [q \in Pids |-> IF q = pid THEN None ELSE IF q = e THEN pid ELSE yptr[q]]
      /\ cptr' = [cptr EXCEPT ![k] = pid, ![pid] = None]
  BY <1>3, <1>4 DEF SetLinks
<1>6. k # pid /\ k # 0 /\ pid # 0 /\ pid # None
  BY <1>3, PidFacts
<1>7. \A p \in Pids : /\ status'[p] = IF p = pid THEN "live" ELSE status[p]
                      /\ parent'[p] = IF p = pid THEN k ELSE parent[p]
                      /\ optr'[p] = IF p = pid THEN e ELSE optr[p]
                      /\ yptr'[p] = IF p = pid THEN None ELSE IF p = e THEN pid ELSE yptr[p]
  BY <1>2, <1>5 DEF TypesInv, CallerInv
<1>8. \A p \in {0} \cup Pids :
        cptr'[p] = IF p = pid THEN None ELSE IF p = k THEN pid ELSE cptr[p]
  BY <1>5, <1>6 DEF TypesInv
<1>9. /\ \A p, c : c \in Kids(p) <=> c \in Pids /\ status[c] # "free" /\ parent[c] = p
      /\ \A p, c : c \in Kids(p)' <=> c \in Pids /\ status'[c] # "free" /\ parent'[c] = p
  BY DEF Kids
<1>10. \A c \in Pids \ {init} : status[c] # "free" =>
         parent[c] \in Pids /\ status[parent[c]] = "live"
  BY <1>2 DEF TreeInv, Rooted, Steady
<1>11. parent[init] = 0 /\ status[init] = "live" /\ init \in Pids
  BY PidFacts DEF TreeInv, Rooted
<1>12. Rooted'
  <2>1. parent'[init] = 0 /\ status'[init] = "live"
    BY <1>7, <1>11
  <2>2. ASSUME NEW c \in Pids \ {init}, status'[c] # "free"
        PROVE  parent'[c] \in Pids /\ status'[parent'[c]] = "live"
    <3>1. CASE c = pid
      BY <1>3, <1>7, <3>1
    <3>2. CASE c # pid
      <4>1. PICK u \in Pids : u = parent[c] /\ u = parent'[c] /\ status[u] = "live"
        BY <1>7, <1>10, <2>2, <3>2
      <4>2. QED
        BY <1>7, <4>1
    <3>3. QED
      BY <3>1, <3>2
  <2>3. QED
    BY <2>1, <2>2 DEF Rooted
<1>13. \E r : Ranked(r)'
  <2>1. PICK r : Ranked(r)
    BY DEF TreeInv
  <2>2. PICK s : s = [r EXCEPT ![pid] = r[k] + 1]
    OBVIOUS
  <2>3. /\ r \in [Pids -> Nat] /\ r[init] = 0
        /\ \A c \in Pids \ {init} : status[c] # "free" => r[parent[c]] < r[c]
    BY <2>1 DEF Ranked
  <2>4. s \in [Pids -> Nat] /\ \A p \in Pids : s[p] = IF p = pid THEN r[k] + 1 ELSE r[p]
    BY <2>2, <2>3
  <2>5. s[init] = 0
    BY <1>11, <2>3, <2>4
  <2>6. ASSUME NEW c \in Pids \ {init}, status'[c] # "free" PROVE s[parent'[c]] < s[c]
    <3>1. CASE c = pid
      <4>1. s[parent'[c]] = r[k] /\ s[c] = r[k] + 1 /\ r[k] \in Nat
        BY <1>6, <1>7, <2>3, <2>4, <3>1
      <4>2. QED
        BY <4>1
    <3>2. CASE c # pid
      <4>1. PICK u \in Pids : u = parent[c] /\ u = parent'[c] /\ status[u] = "live"
        BY <1>7, <1>10, <2>6, <3>2
      <4>2. u # pid /\ status[c] # "free"
        BY <1>7, <2>6, <3>2, <4>1
      <4>3. s[u] = r[u] /\ s[c] = r[c] /\ r[u] < r[c]
        BY <2>3, <2>4, <3>2, <4>1, <4>2
      <4>4. QED
        BY <4>1, <4>3
    <3>3. QED
      BY <3>1, <3>2
  <2>7. Ranked(s)'
    BY <2>4, <2>5, <2>6 DEF Ranked
  <2>8. QED
    BY <2>7
<1>14. PICK o, y : o = optr' /\ y = yptr'
  OBVIOUS
<1>15. ASSUME NEW p \in {0} \cup Pids, Exists(p)' PROVE \E L : Family(p, L)'
  <2>1. CASE p = pid
    <3>1. PICK M \in Seq(Pids) : Len(M) = 0 /\ \A i : i \notin 1..0
      <4>1. <<>> \in Seq(Pids) /\ Len(<<>>) = 0 /\ \A i : i \notin 1..0
        BY EmptyFacts
      <4>2. QED
        BY <4>1
    <3>2. Kids(p)' = {}
      <4>1. ASSUME NEW c \in Kids(p)' PROVE FALSE
        <5>1. c \in Pids /\ status'[c] # "free" /\ parent'[c] = pid
          BY <1>9, <2>1, <4>1
        <5>2. c # pid /\ parent[c] = pid /\ status[c] # "free"
          BY <1>6, <1>7, <5>1
        <5>3. c # init
          BY <1>6, <1>11, <5>2
        <5>4. QED
          BY <1>10, <5>1, <5>2, <5>3
      <4>2. QED
        BY <4>1
    <3>3. cptr'[p] = None
      BY <1>8, <2>1
    <3>4. Linked(M, cptr'[p], o, y, Whole(p)')
      BY <3>1, <3>3 DEF Linked, At
    <3>5. Members(M) = {}
      BY <3>1 DEF Members
    <3>6. Family(p, M)'
      BY <1>14, <3>2, <3>4, <3>5 DEF Family
    <3>7. QED
      BY <3>6
  <2>2. CASE p = k
    <3>1. Exists(k) /\ Whole(k) = TRUE
      BY <1>3 DEF Exists, Whole
    <3>2. PICK L : Family(k, L)
      BY <3>1 DEF TreeInv, Families
    <3>3. Linked(L, e, optr, yptr, TRUE) /\ Members(L) = Kids(k)
      BY <1>4, <3>1, <3>2 DEF Family
    <3>4. pid \notin Members(L)
      BY <1>9, <3>3
    <3>5. \A d \in Members(L) : o[d] = optr[d] /\ y[d] = IF d = e THEN pid ELSE yptr[d]
      BY <1>7, <1>9, <1>14, <3>3, <3>4
    <3>6. o[pid] = e /\ y[pid] = None
      BY <1>7, <1>14
    <3>61. InFront(pid, e, optr, yptr, o, y, Members(L))
      BY ONLY <3>5, <3>6 DEF InFront
    <3>7. Linked(<<pid>> \o L, pid, o, y, TRUE) /\ Members(<<pid>> \o L) = Members(L) \cup {pid}
      BY ONLY <3>3, <3>4, <3>61, pid \in Pids, LinkedCons, Zenon
    <3>8. Whole(k)' = TRUE
      BY <1>3, <1>6, <1>7 DEF Whole
    <3>9. cptr'[k] = pid
      BY <1>6, <1>8
    <3>10. Kids(k)' = Kids(k) \cup {pid}
      BY <1>3, <1>7, <1>9
    <3>11. Family(k, <<pid>> \o L)'
      BY <1>14, <3>3, <3>7, <3>8, <3>9, <3>10 DEF Family
    <3>12. QED
      BY <2>2, <3>11
  <2>3. CASE p # pid /\ p # k
    <3>1. Exists(p) /\ (Whole(p)' <=> Whole(p))
      BY <1>7, <1>15, <2>3 DEF Exists, Whole
    <3>2. PICK L : Family(p, L)
      BY <3>1 DEF TreeInv, Families
    <3>3. PICK w : w = Whole(p) /\ w = Whole(p)'
      BY <3>1 DEF Whole
    <3>4. Linked(L, cptr[p], optr, yptr, w) /\ Members(L) = Kids(p)
      BY <3>2, <3>3 DEF Family
    <3>5. e \in Kids(k) \cup {None}
      <4>1. Exists(k)
        BY <1>3 DEF Exists
      <4>2. PICK M : Family(k, M)
        BY <4>1 DEF TreeInv, Families
      <4>3. PICK v : Linked(M, e, optr, yptr, v) /\ Members(M) = Kids(k)
        BY <1>4, <4>2 DEF Family
      <4>4. QED
        BY <4>3, LinkedMembers
    <3>6. \A d \in Members(L) : o[d] = optr[d] /\ y[d] = yptr[d]
      <4>1. ASSUME NEW d \in Kids(p) PROVE d # pid /\ d # e /\ d \in Pids
        BY <1>9, <2>3, <3>5, PidFacts
      <4>2. QED
        BY <1>7, <1>14, <3>4, <4>1
    <3>7. Linked(L, cptr[p], o, y, w)
      BY <3>4, <3>6, LinkedSame
    <3>8. cptr'[p] = cptr[p]
      BY <1>8, <2>3
    <3>9. Kids(p)' = Kids(p)
      BY <1>7, <1>9, <2>3
    <3>10. Family(p, L)'
      BY <1>14, <3>3, <3>4, <3>7, <3>8, <3>9 DEF Family
    <3>11. QED
      BY <3>10
  <2>4. QED
    BY <2>1, <2>2, <2>3
<1>16. Families'
  BY <1>15 DEF Families
<1>17. QED
  BY <1>12, <1>13, <1>16 DEF TreeInv

(* do_exit's loop: the first child of the zombie goes in front of          *)
(* initproc's, until there is none.                                        *)
LEMMA AdoptTree == ASSUME TreeInv, CallInv, TypesInv, Adopt PROVE TreeInv'
<1>1. Doing("do", "adopt") /\ status' = status
  BY DEF Adopt
<1>2. Adopts /\ CallerInv
  BY <1>1, PhaseOf DEF CallInv
<1>3. PICK k \in Pids : k = caller /\ k # init /\ status[k] = "zombie" /\ todo = Do("adopt")
  BY <1>2 DEF CallerInv, Adopts
<1>4. PICK c \in {None} \cup Pids, e \in {None} \cup Pids : c = cptr[k] /\ e = cptr[init]
  BY PidFacts DEF TypesInv
<1>5. /\ parent[init] = 0 /\ status[init] = "live" /\ init \in Pids
      /\ \A b \in Pids \ {init} : status[b] # "free" =>
           parent[b] \in Pids /\ (status[parent[b]] = "live" \/ parent[b] = k)
  BY <1>3, PidFacts DEF TreeInv, Rooted, Handing
<1>6. PICK r : Ranked(r)
  BY DEF TreeInv
<1>7. PICK L : Family(k, L)
  BY <1>3 DEF TreeInv, Families, Exists
<1>8. Linked(L, c, optr, yptr, FALSE) /\ Members(L) = Kids(k)
  <2>1. Whole(k) = FALSE
    BY <1>3, PidFacts DEF Whole
  <2>2. QED
    BY <1>4, <1>7, <2>1 DEF Family
<1>9. /\ \A p, b : b \in Kids(p) <=> b \in Pids /\ status[b] # "free" /\ parent[b] = p
      /\ \A p, b : b \in Kids(p)' <=> b \in Pids /\ status'[b] # "free" /\ parent'[b] = p
  BY DEF Kids
<1>10. CASE c = None
  <2>1. /\ todo' = Tail(todo) /\ parent' = parent /\ cptr' = cptr
        /\ optr' = optr /\ yptr' = yptr
    BY <1>3, <1>4, <1>10 DEF Adopt, Continue
  <2>2. Kids(k) = {}
    <3>1. At(L, 1) = None /\ L \in Seq(Pids)
      BY <1>8, <1>10 DEF Linked
    <3>2. 1 \notin 1..Len(L) /\ Len(L) \in Nat
      BY <3>1, AtFacts
    <3>3. \A i : i \notin 1..Len(L)
      BY <3>2
    <3>4. QED
      BY <1>8, <3>3 DEF Members
  <2>3. Rooted'
    <3>1. ASSUME NEW b \in Pids \ {init}, status[b] # "free"
          PROVE  parent[b] \in Pids /\ status[parent[b]] = "live"
      <4>1. parent[b] # k
        BY <1>9, <2>2, <3>1
      <4>2. QED
        BY <1>5, <3>1, <4>1
    <3>2. QED
      BY <1>1, <1>5, <2>1, <3>1 DEF Rooted
  <2>4. Ranked(r)'
    BY <1>1, <1>6, <2>1 DEF Ranked
  <2>5. Families'
    <3>1. \A p : (Exists(p)' <=> Exists(p)) /\ (Whole(p)' <=> Whole(p)) /\ Kids(p)' = Kids(p)
      BY <1>1, <2>1 DEF Exists, Whole, Kids
    <3>2. \A p, M : Family(p, M) => Family(p, M)'
      BY <2>1, <3>1 DEF Family, Linked
    <3>3. Families
      BY DEF TreeInv
    <3>4. QED
      BY <3>1, <3>2, <3>3 DEF Families
  <2>6. QED
    BY <2>3, <2>4, <2>5 DEF TreeInv
<1>11. CASE c # None
  <2>1. /\ cptr' = [cptr EXCEPT ![k] = optr[c], ![init] = c]
        /\ yptr' = [q \in Pids |-> IF q = c THEN None ELSE IF q = e THEN c ELSE yptr[q]]
        /\ optr' = [optr EXCEPT ![c] = e]
        /\ parent' = [parent EXCEPT ![c] = init]
        /\ todo' = todo /\ caller' = caller
    BY <1>3, <1>4, <1>11 DEF Adopt
  <2>2. c \in Pids /\ c \in Kids(k)
    <3>1. PICK v : Linked(L, c, optr, yptr, v)
      BY <1>8
    <3>2. c \in Members(L) \cup {None} /\ Members(L) \subseteq Pids
      BY <3>1, LinkedMembers
    <3>3. QED
      BY <1>8, <1>11, <3>2
  <2>3. status[c] # "free" /\ parent[c] = k /\ c # init
    BY <1>5, <1>9, <2>2, PidFacts
  <2>4. \A p \in Pids : /\ parent'[p] = IF p = c THEN init ELSE parent[p]
                        /\ optr'[p] = IF p = c THEN e ELSE optr[p]
                        /\ yptr'[p] = IF p = c THEN None ELSE IF p = e THEN c ELSE yptr[p]
    BY <2>1, <2>2 DEF TypesInv
  <2>5. \A p \in {0} \cup Pids :
          cptr'[p] = IF p = init THEN c ELSE IF p = k THEN optr[c] ELSE cptr[p]
    BY <1>3, <2>1, PidFacts DEF TypesInv
  <2>6. Rooted'
    <3>1. Handing(k)'
      BY <1>1, <1>3, <2>1 DEF Handing
    <3>2. parent'[init] = 0
      BY <1>5, <2>3, <2>4
    <3>3. ASSUME NEW b \in Pids \ {init}, status'[b] # "free"
          PROVE  parent'[b] \in Pids /\ (status'[parent'[b]] = "live" \/ Handing(parent[b])' )
      <4>1. CASE b = c
        BY <1>1, <1>5, <2>4, <4>1
      <4>2. CASE b # c
        <5>1. PICK u \in Pids : u = parent[b] /\ u = parent'[b] /\ (status[u] = "live" \/ u = k)
          BY <1>1, <1>5, <2>4, <3>3, <4>2
        <5>2. status'[u] = "live" \/ Handing(u)'
          BY <1>1, <3>1, <5>1
        <5>3. QED
          BY <5>1, <5>2 DEF Handing
      <4>3. QED
        BY <4>1, <4>2
    <3>4. QED
      BY <1>1, <1>5, <3>2, <3>3 DEF Rooted, Handing
  <2>7. Ranked(r)'
    <3>1. /\ r \in [Pids -> Nat] /\ r[init] = 0
          /\ \A b \in Pids \ {init} : status[b] # "free" => r[parent[b]] < r[b]
      BY <1>6 DEF Ranked
    <3>2. r[init] < r[c]
      <4>1. r[k] < r[c] /\ r[k] \in Nat /\ r[c] \in Nat
        BY <2>2, <2>3, <3>1
      <4>2. QED
        BY <3>1, <4>1
    <3>3. ASSUME NEW b \in Pids \ {init}, status'[b] # "free" PROVE r[parent'[b]] < r[b]
      BY <1>1, <2>4, <3>1, <3>2, <3>3
    <3>4. QED
      BY <3>1, <3>3 DEF Ranked
  <2>8. PICK o, y : o = optr' /\ y = yptr'
    OBVIOUS
  <2>9. PICK N : Family(init, N)
    BY <1>5 DEF TreeInv, Families, Exists
  <2>10. Linked(N, e, optr, yptr, TRUE) /\ Members(N) = Kids(init) /\ Whole(init)' = TRUE
    <3>1. Whole(init) = TRUE /\ Whole(init)' = TRUE
      BY <1>1, <1>5 DEF Whole
    <3>2. QED
      BY <1>4, <2>9, <3>1 DEF Family
  <2>11. e \in Kids(init) \cup {None}
    BY <2>10, LinkedMembers
  <2>12. ASSUME NEW p \in {0} \cup Pids, Exists(p)' PROVE \E M : Family(p, M)'
    <3>1. CASE p = k
      <4>1. \A d \in Members(L) \ {c} : o[d] = optr[d] /\ y[d] = yptr[d]
        <5>1. ASSUME NEW d \in Kids(k) \ {c} PROVE d # c /\ d # e /\ d \in Pids
          BY <1>3, <1>9, <2>11, PidFacts
        <5>2. QED
          BY <1>8, <2>4, <2>8, <5>1
      <4>2. /\ Linked(Tail(L), optr[c], o, y, FALSE)
            /\ Members(Tail(L)) = Members(L) \ {c}
        <5>1. Kept(optr, yptr, o, y, Members(L) \ {c})
          BY <4>1 DEF Kept
        <5>2. QED
          BY ONLY <1>8, <1>11, <5>1, LinkedTail, Zenon
      <4>3. Whole(k)' = FALSE /\ cptr'[k] = optr[c]
        BY <1>1, <1>3, <2>5, PidFacts DEF Whole
      <4>4. Kids(k)' = Kids(k) \ {c}
        BY <1>1, <1>3, <1>9, <2>4
      <4>5. Family(k, Tail(L))'
        BY <1>8, <2>8, <4>2, <4>3, <4>4 DEF Family
      <4>6. QED
        BY <3>1, <4>5
    <3>2. CASE p = init
      <4>1. c \notin Members(N)
        BY <1>3, <1>9, <2>3, <2>10
      <4>2. \A d \in Members(N) : o[d] = optr[d] /\ y[d] = IF d = e THEN c ELSE yptr[d]
        BY <1>9, <2>4, <2>8, <2>10, <4>1
      <4>3. o[c] = e /\ y[c] = None
        BY <2>2, <2>4, <2>8
      <4>4. InFront(c, e, optr, yptr, o, y, Members(N))
        BY ONLY <4>2, <4>3 DEF InFront
      <4>5. Linked(<<c>> \o N, c, o, y, TRUE) /\ Members(<<c>> \o N) = Members(N) \cup {c}
        BY ONLY <2>2, <2>10, <4>1, <4>4, LinkedCons, Zenon
      <4>6. cptr'[init] = c
        BY <1>5, <2>5
      <4>7. Kids(init)' = Kids(init) \cup {c}
        BY <1>1, <1>9, <2>2, <2>3, <2>4
      <4>8. Family(init, <<c>> \o N)'
        BY <2>8, <2>10, <4>5, <4>6, <4>7 DEF Family
      <4>9. QED
        BY <3>2, <4>8
    <3>3. CASE p # k /\ p # init
      <4>1. Exists(p) /\ (Whole(p)' <=> Whole(p))
        BY <1>1, <2>12 DEF Exists, Whole
      <4>2. PICK M : Family(p, M)
        BY <4>1 DEF TreeInv, Families
      <4>3. PICK w : w = Whole(p) /\ w = Whole(p)'
        BY <4>1 DEF Whole
      <4>4. Linked(M, cptr[p], optr, yptr, w) /\ Members(M) = Kids(p)
        BY <4>2, <4>3 DEF Family
      <4>5. \A d \in Members(M) : o[d] = optr[d] /\ y[d] = yptr[d]
        <5>1. ASSUME NEW d \in Kids(p) PROVE d # c /\ d # e /\ d \in Pids
          BY <1>9, <2>3, <2>11, <3>3, PidFacts
        <5>2. QED
          BY <2>4, <2>8, <4>4, <5>1
      <4>6. Linked(M, cptr[p], o, y, w)
        BY <4>4, <4>5, LinkedSame
      <4>7. cptr'[p] = cptr[p]
        BY <2>5, <3>3
      <4>8. Kids(p)' = Kids(p)
        <5>1. ASSUME NEW b PROVE b \in Kids(p)' <=> b \in Kids(p)
          <6>1. CASE b = c
            BY <1>9, <2>2, <2>3, <2>4, <3>3, <6>1
          <6>2. CASE b # c
            BY <1>1, <1>9, <2>4, <6>2
          <6>3. QED
            BY <6>1, <6>2
        <5>2. QED
          BY <5>1
      <4>9. Family(p, M)'
        BY <2>8, <4>3, <4>4, <4>6, <4>7, <4>8 DEF Family
      <4>10. QED
        BY <4>9
    <3>4. QED
      BY <3>1, <3>2, <3>3
  <2>13. Families'
    BY <2>12 DEF Families
  <2>14. QED
    BY <2>6, <2>7, <2>13 DEF TreeInv
<1>12. QED
  BY <1>10, <1>11

(* do_wait: remove_links takes the zombie, which has no children left, out *)
(* of its parent's list.                                                   *)
LEMMA WaitTree ==
  ASSUME TreeInv, CallInv, TypesInv, NEW p \in Pids, NEW c \in Pids, Wait(p, c)
  PROVE  TreeInv'
<1>1. /\ call = "none" /\ status[p] = "live" /\ status[c] = "zombie" /\ parent[c] = p
      /\ parent' = parent
  BY DEF Wait, Enter
<1>2. CallerInv /\ Steady
  BY <1>1, SteadyFacts DEF CallInv
<1>3. PICK a, b : a = optr[c] /\ b = yptr[c]
  OBVIOUS
<1>4. /\ status' = [status EXCEPT ![c] = "free"]
      /\ yptr' = [q \in Pids |-> IF q = a THEN b ELSE yptr[q]]
      /\ optr' = [q \in Pids |-> IF q = b THEN a ELSE optr[q]]
      /\ cptr' = IF b = None THEN [cptr EXCEPT ![p] = a] ELSE cptr
  BY <1>3 DEF Wait
<1>5. /\ parent[init] = 0 /\ status[init] = "live" /\ init \in Pids
      /\ \A d \in Pids \ {init} : status[d] # "free" =>
           parent[d] \in Pids /\ status[parent[d]] = "live"
  BY <1>2, PidFacts DEF TreeInv, Rooted, Steady
<1>6. c # p /\ c # init /\ c # 0 /\ p # 0
  BY <1>1, <1>5, PidFacts
<1>7. \A q \in Pids : /\ status'[q] = IF q = c THEN "free" ELSE status[q]
                      /\ yptr'[q] = IF q = a THEN b ELSE yptr[q]
                      /\ optr'[q] = IF q = b THEN a ELSE optr[q]
  BY <1>2, <1>4 DEF CallerInv
<1>8. \A q \in {0} \cup Pids : cptr'[q] = IF b = None /\ q = p THEN a ELSE cptr[q]
  BY <1>4 DEF TypesInv
<1>9. /\ \A q, d : d \in Kids(q) <=> d \in Pids /\ status[d] # "free" /\ parent[d] = q
      /\ \A q, d : d \in Kids(q)' <=> d \in Pids /\ status'[d] # "free" /\ parent'[d] = q
  BY DEF Kids
<1>10. \A q, d : d \in Kids(q)' <=> d \in Kids(q) /\ d # c
  BY <1>1, <1>7, <1>9
<1>11. Rooted'
  <2>1. ASSUME NEW d \in Pids \ {init}, status'[d] # "free"
        PROVE  parent'[d] \in Pids /\ status'[parent'[d]] = "live"
    <3>1. PICK u \in Pids : u = parent[d] /\ u = parent'[d] /\ status[u] = "live"
      BY <1>1, <1>5, <1>7, <2>1
    <3>2. u # c
      BY <1>1, <3>1
    <3>3. QED
      BY <1>7, <3>1, <3>2
  <2>2. parent'[init] = 0 /\ status'[init] = "live"
    BY <1>1, <1>5, <1>6, <1>7
  <2>3. QED
    BY <2>1, <2>2 DEF Rooted
<1>12. \E r : Ranked(r)'
  <2>1. PICK r : Ranked(r)
    BY DEF TreeInv
  <2>2. \A d \in Pids : status'[d] # "free" => status[d] # "free"
    BY <1>7
  <2>3. Ranked(r)'
    BY <1>1, <2>1, <2>2 DEF Ranked
  <2>4. QED
    BY <2>3
<1>13. PICK o, y : o = optr' /\ y = yptr'
  OBVIOUS
<1>14. PICK N : Family(p, N)
  BY <1>1 DEF TreeInv, Families, Exists
<1>15. Linked(N, cptr[p], optr, yptr, TRUE) /\ Members(N) = Kids(p) /\ Whole(p)' = TRUE
  <2>1. Whole(p) = TRUE /\ Whole(p)' = TRUE
    BY <1>1, <1>6, <1>7 DEF Whole
  <2>2. QED
    BY <1>14, <2>1 DEF Family
<1>16. c \in Members(N)
  BY <1>1, <1>9, <1>15
<1>17. a \in Kids(p) \cup {None} /\ b \in Kids(p) \cup {None}
  <2>1. /\ \A d \in Members(N) : /\ optr[d] \in Members(N) \cup {None}
                                 /\ TRUE => yptr[d] \in Members(N) \cup {None}
    BY ONLY <1>15, LinkedMembers, Zenon
  <2>2. QED
    BY <1>3, <1>15, <1>16, <2>1
<1>18. ASSUME NEW q \in {0} \cup Pids, Exists(q)' PROVE \E M : Family(q, M)'
  <2>1. CASE q = p
    <3>1. \A d \in Members(N) \ {c} : /\ o[d] = IF d = b THEN a ELSE optr[d]
                                      /\ y[d] = IF d = a THEN b ELSE yptr[d]
      BY <1>7, <1>9, <1>13, <1>15
    <3>2. PICK f, e : f = cptr'[p] /\ e = cptr[p]
      OBVIOUS
    <3>3. f = IF b = None THEN a ELSE e
      BY <1>8, <3>2
    <3>4. Joins(c, e, optr, yptr, f, o, y, Members(N))
      BY <1>3, <3>1, <3>3 DEF Joins
    <3>5. Kids(p)' = Kids(p) \ {c}
      BY <1>10
    <3>6. PICK M : Linked(M, f, o, y, TRUE) /\ Members(M) = Members(N) \ {c}
      <4>1. Linked(N, e, optr, yptr, TRUE)
        BY <1>15, <3>2
      <4>2. QED
        <5>1. Listed(Members(N) \ {c}, f, o, y, TRUE)
          BY ONLY <1>16, <3>4, <4>1, LinkedRemove, Zenon
        <5>2. QED
          BY <5>1 DEF Listed
    <3>7. Family(p, M)'
      BY <1>13, <1>15, <3>2, <3>5, <3>6 DEF Family
    <3>8. QED
      BY <2>1, <3>7
  <2>2. CASE q # p
    <3>1. Exists(q) /\ (Whole(q)' => Whole(q)) /\ (Whole(q)' \in BOOLEAN) /\ (Whole(q) \in BOOLEAN)
      BY <1>7, <1>18 DEF Exists, Whole
    <3>2. PICK M : Family(q, M)
      BY <3>1 DEF TreeInv, Families
    <3>3. PICK v, w : v = Whole(q) /\ w = Whole(q)'
      OBVIOUS
    <3>4. Linked(M, cptr[q], optr, yptr, v) /\ Members(M) = Kids(q) /\ (w => v)
      BY <3>1, <3>2, <3>3 DEF Family
    <3>5. \A d \in Members(M) : o[d] = optr[d] /\ y[d] = yptr[d]
      <4>1. ASSUME NEW d \in Kids(q) PROVE d # a /\ d # b /\ d \in Pids
        BY <1>9, <1>17, <2>2, PidFacts
      <4>2. QED
        BY <1>7, <1>13, <3>4, <4>1
    <3>6. Linked(M, cptr[q], o, y, w)
      BY <3>4, <3>5, LinkedSame
    <3>7. cptr'[q] = cptr[q]
      BY <1>8, <2>2
    <3>8. Kids(q)' = Kids(q)
      BY <1>1, <1>9, <1>10, <2>2
    <3>9. Family(q, M)'
      BY <1>13, <3>3, <3>4, <3>6, <3>7, <3>8 DEF Family
    <3>10. QED
      BY <3>9
  <2>3. QED
    BY <2>1, <2>2
<1>19. Families'
  BY <1>18 DEF Families
<1>20. QED
  BY <1>11, <1>12, <1>19 DEF TreeInv

-----------------------------------------------------------------------------
(* The tree and the table together.                                         *)

(* Every step keeps the tree,                                               *)
LEMMA TreeNext ==
  ASSUME TreeInv, CallInv, TypesInv, [Next]_vars,
         SetLinks => last_pid \in Pids /\ status[last_pid] = "free"
  PROVE  TreeInv'
<1>1. CASE SetLinks
  BY <1>1, SetLinksTree
<1>2. CASE Zombie \/ Adopt
  BY <1>2, ZombieTree, AdoptTree
<1>3. ASSUME NEW p \in Pids, NEW c \in Pids, Wait(p, c) PROVE TreeInv'
  BY <1>3, WaitTree
<1>4. CASE \/ Take \/ TakeAll \/ Release \/ ForkPid \/ Copy \/ SetMm \/ UserMainFails
           \/ \E what \in {"open", "elf", "read"} : TryFile(what)
           \/ \E p \in Pids : Fork(p) \/ Exec(p) \/ Exit(p)
           \/ UNCHANGED vars
  BY <1>4, QuietTree
<1>5. QED
  BY <1>1, <1>2, <1>3, <1>4 DEF Next

(* With no list to go down from init, no rank above its own has a process. *)
LEMMA InitAlone ==
  ASSUME TreeInv, Steady, cptr[init] = None, NEW c \in Pids, status[c] # "free"
  PROVE  c = init
<1>1. PICK r : Ranked(r)
  BY DEF TreeInv
<1>2. /\ r \in [Pids -> Nat]
      /\ \A b \in Pids \ {init} : status[b] # "free" => r[parent[b]] < r[b]
  BY <1>1 DEF Ranked
<1>3. /\ status[init] = "live" /\ init \in Pids
      /\ \A b \in Pids \ {init} : status[b] # "free" =>
           parent[b] \in Pids /\ status[parent[b]] = "live"
  BY PidFacts DEF TreeInv, Rooted, Steady
<1>4. Kids(init) = {}
  <2>1. PICK L : Family(init, L)
    BY <1>3 DEF TreeInv, Families, Exists
  <2>2. L \in Seq(Pids) /\ At(L, 1) = None /\ Members(L) = Kids(init)
    BY <2>1 DEF Family, Linked
  <2>3. 1 \notin 1..Len(L) /\ Len(L) \in Nat
    BY <2>2, AtFacts
  <2>4. \A i : i \notin 1..Len(L)
    BY <2>3
  <2>5. QED
    BY <2>2, <2>4 DEF Members
<1> DEFINE T == {r[b] : b \in {d \in Pids \ {init} : status[d] # "free"}}
<1>5. SUFFICES ASSUME c # init PROVE FALSE
  OBVIOUS
<1>6. T \in SUBSET Nat /\ r[c] \in T
  BY <1>2, <1>5
<1>7. PICK m \in T : \A n \in T : m <= n
  <2> HIDE DEF T
  <2> QED BY <1>6, Least
<1>8. PICK b \in Pids \ {init} : status[b] # "free" /\ r[b] = m
  BY <1>7
<1>9. PICK u \in Pids : u = parent[b] /\ status[u] = "live"
  BY <1>3, <1>8
<1>10. u # init
  BY <1>4, <1>8, <1>9 DEF Kids
<1>11. r[u] \in T
  BY <1>9, <1>10
<1>12. r[u] < r[b] /\ r[u] \in Nat /\ r[b] \in Nat
  BY <1>2, <1>8, <1>9
<1>13. m <= r[u]
  <2> HIDE DEF T
  <2> QED BY <1>7, <1>11
<1>14. QED
  BY <1>8, <1>12, <1>13

(* So proc_list has nobody else,                                            *)
LEMMA LastIs == ASSUME TableInv, TreeInv, CallInv PROVE InitIsLast
<1> SUFFICES ASSUME call = "none", cptr[init] = None PROVE proc_list = <<init>>
  BY DEF InitIsLast
<1>1. Steady
  BY SteadyFacts
<1>2. Used = {p \in Pids : status[p] # "free"} /\ PidTypeOK /\ PidUnique
  BY DEF TableInv, PidInv
<1>3. \A p : p \in Used <=> p = init
  <2>1. init \in Pids /\ status[init] = "live"
    BY PidFacts DEF TreeInv, Rooted
  <2>2. \A p \in Used : p = init
    BY <1>1, <1>2, InitAlone
  <2>3. QED
    BY <1>2, <2>1, <2>2
<1>4. proc_list \in Seq(Pids) /\ \A i, j \in DOMAIN proc_list : proc_list[i] = proc_list[j] => i = j
  BY <1>2 DEF PidTypeOK, PidUnique
<1>5. PICK n \in Nat : n = Len(proc_list) /\ DOMAIN proc_list = 1..n
  BY <1>4, LenProperties
<1>6. \A i \in 1..n : proc_list[i] = init
  BY <1>3, <1>5 DEF Used, Range
<1>7. n >= 1
  <2>1. \E i \in 1..n : proc_list[i] = init
    BY <1>3, <1>5 DEF Used, Range
  <2>2. QED
    BY <2>1
<1>8. n = 1
  <2>1. SUFFICES ASSUME 2 \in 1..n PROVE FALSE
    BY <1>7
  <2>2. proc_list[1] = proc_list[2] /\ 1 \in 1..n
    BY <1>6, <2>1
  <2>3. QED
    BY <1>4, <1>5, <2>1, <2>2
<1>9. Len(<<init>>) = 1 /\ <<init>>[1] = init /\ <<init>> \in Seq(Pids)
  BY PidFacts
<1>10. QED
  BY <1>4, <1>5, <1>6, <1>8, <1>9, SeqEqual

(* and all of LinksExact holds.                                             *)
LEMMA LinksAre == ASSUME TableInv, TreeInv, CallInv PROVE LinksExact
<1>1. ASSUME NEW p \in {0} \cup Used PROVE KidsLinked(p)
  <2>1. p \in {0} \cup Pids /\ Exists(p)
    BY DEF TableInv, Exists
  <2>2. PICK L : Family(p, L)
    BY <2>1 DEF TreeInv, Families
  <2>3. PICK w \in BOOLEAN : w = Whole(p)
    BY DEF Whole
  <2>4. Linked(L, cptr[p], optr, yptr, w) /\ Members(L) = Kids(p)
    BY <2>2, <2>3 DEF Family
  <2>5. p = 0 \/ status[p] = "live" => w
    BY <2>3 DEF Whole
  <2>6. QED
    BY <2>4, <2>5, LinkedKids
<1>2. InitIsLast
  BY LastIs
<1>3. QED
  BY <1>1, <1>2 DEF LinksExact, KidsLinked

-----------------------------------------------------------------------------
(* The table, the call in progress and the memory together: that set_links *)
(* is given a pid nobody has rests on the first, that what is given back   *)
(* is held on the second, and that its pages are not free on the third.    *)
CallsInv == TableInv /\ CallInv /\ MemInv /\ TypesInv

LEMMA SetLinksPid == TableInv /\ SetLinks => last_pid \in Pids /\ status[last_pid] = "free"
  BY DEF TableInv, PidInv, PidUnique, SetLinks, ListAdd

LEMMA CallsInit == Init => CallsInv
  BY TableInit, CallInit, MemInit, TypesInit DEF CallsInv

LEMMA CallsNext == CallsInv /\ [Next]_vars => CallsInv'
<1> SUFFICES ASSUME CallsInv, [Next]_vars PROVE CallsInv'
  OBVIOUS
<1>1. TableInv /\ CallInv /\ MemInv /\ TypesInv /\ caller \in Pids
  BY DEF CallsInv, TableInv, CallerInv
<1>2. SetLinks => last_pid \in Pids /\ status[last_pid] = "free"
  BY <1>1, SetLinksPid
<1>3. TableInv' /\ CallInv' /\ MemInv' /\ TypesInv'
  BY <1>1, <1>2, TableNext, CallNext, TypesNext
<1>4. QED
  BY <1>3 DEF CallsInv

LEMMA CallKinds == Phases => call \in {"none", "fork", "exec", "exit", "wait"}
  BY DEF Phases, AtRest, ForkTakes, ForkUndoes, Forks, ExecCopies, ExecArgs, ExecOpens,
         ExecUndoes, Copies, ExecDrops, LoadsMm, LoadsText, LoadsStack, Loads, Execs,
         Dies, Adopts, Reaps

LEMMA TypesAre == CallsInv => TypeOK
<1> SUFFICES ASSUME CallsInv PROVE TypeOK
  OBVIOUS
<1>1. PidTypeOK /\ status \in [Pids -> {"free", "live", "zombie"}] /\ caller \in Pids
  BY DEF CallsInv, TableInv, PidInv, CallerInv
<1>2. call \in {"none", "fork", "exec", "exit", "wait"}
  BY CallKinds DEF CallsInv, CallInv
<1>3. owns \in [Owners -> [Resources -> 0..npage+1]] /\ slob \subseteq 1..npage
  BY OwnsAre, SlobIs DEF CallsInv, CallInv
<1>4. QED
  BY <1>1, <1>2, <1>3 DEF TypeOK, CallsInv, TypesInv

(* Between calls a process holds what its state says and no more, whichever*)
(* of the allocations of a call failed: the first, a later one of do_fork  *)
(* or load_icode, or the buffer of any argument of an exec.                *)
THEOREM HoldingsAreExact == Spec => []HoldsExact
<1>1. CallsInv => HoldsExact
  BY RestHolds DEF CallsInv
<1>2. QED
  BY CallsInit, CallsNext, <1>1, PTL DEF Spec

(* At every step of a call each page is free, kmalloc's, or held by one,   *)
(* the free list is sorted and merged, and the assertions of free_pages    *)
(* hold.                                                                   *)
THEOREM MemoryIsExact == Spec => []MemoryExact
<1>1. CallsInv => MemoryExact
  BY TypesAre, FreeListIs, PagesAre DEF CallsInv, CallInv, MemoryExact
<1>2. QED
  BY CallsInit, CallsNext, <1>1, PTL DEF Spec

(* Whatever the order of forks, exits and waits, and at every step of a    *)
(* reparenting: each process has all its children in its list, once, and   *)
(* no orphan is lost.                                                      *)
THEOREM LinksAreExact == Spec => []LinksExact
<1>1. Init => CallsInv /\ TreeInv
  BY CallsInit, TreeInit
<1>2. CallsInv /\ TreeInv /\ [Next]_vars => CallsInv' /\ TreeInv'
  <2>1. SUFFICES ASSUME CallsInv, TreeInv, [Next]_vars PROVE CallsInv' /\ TreeInv'
    OBVIOUS
  <2>2. SetLinks => last_pid \in Pids /\ status[last_pid] = "free"
    BY <2>1, SetLinksPid DEF CallsInv
  <2>3. TreeInv'
    BY <2>1, <2>2, TreeNext DEF CallsInv
  <2>4. QED
    BY <2>1, <2>3, CallsNext
<1>3. CallsInv /\ TreeInv => LinksExact
  BY LinksAre DEF CallsInv
<1>4. QED
  BY <1>1, <1>2, <1>3, PTL DEF Spec
=============================================================================
