----------------------------- MODULE ProcTable ------------------------------
(***************************************************************************)
(* What fork, exec, exit and wait of the ucore kernel (kern/process/proc.c)*)
(* take, give back and link: pids (module PidAlloc), pages (FirstFit), the *)
(* objects of kmalloc, and the tree of processes in cptr, optr and yptr.   *)
(*                                                                         *)
(* A call runs to its end without another process coming in between (the   *)
(* kernel is not preemptible and nothing here sleeps), but each thing it   *)
(* takes may be the one that cannot be had.  todo is what the call in      *)
(* progress still has to do, one entry per allocation, release or check;   *)
(* a step does the next and, when it fails, puts the call's cleanup in the *)
(* place of the rest.                                                      *)
(*                                                                         *)
(* owns[p] is what process p holds, owns[New] what the call holds that no  *)
(* process has yet, owns[Arg(i)] the buffer of the i-th argument of an     *)
(* exec; for pages, the address.  A user process has two areas of memory,  *)
(* text and stack, each of one page with its page table.                   *)
(***************************************************************************)
EXTENDS PidAlloc, FirstFit, FiniteSets

CONSTANTS Memory,     \* the sizes of memory to look at, in pages; 0: see Plenty
          SlobSize,   \* how many objects of kmalloc a page has room for
          EXEC_MAX_ARG_NUM,  \* libs/unistd.h
          MaxCalls    \* bound: the calls made on a memory that may not suffice

ASSUME TableAssumption ==
  /\ Memory \subseteq Nat
  /\ SlobSize \in Nat \ {0}
  /\ EXEC_MAX_ARG_NUM \in Nat \ {0}
  /\ MaxCalls \in Nat

VARIABLES status, parent, cptr, optr, yptr,
          owns,
          free_list, nr_free,   \* default_pmm.c
          slob,                 \* the pages kmalloc has cut into objects
          npage,
          started,              \* init_main has created user_main
          call, caller, todo,
          calls,                \* how many were made
          panic

tree == <<status, parent, cptr, optr, yptr>>
memory == <<free_list, nr_free, slob>>
vars == <<pidVars, tree, owns, memory, npage, started, call, caller, todo, calls, panic>>

None == 0         \* a NULL pointer; idleproc, pid 0, is nobody's child
New == 0          \* where owns has what belongs to no process yet
init == 1

Arg(i) == MAX_PID - 1 + i          \* kargv[i-1]
Args == {Arg(i) : i \in 1..EXEC_MAX_ARG_NUM}
Owners == {New} \cup Pids \cup Args

Objects == {"proc", "files_bb", "mm", "text_vma", "stack_vma", "kargv_bb"}
PageRuns == {"kstack", "files", "pgdir", "text_pt", "text", "stack_pt", "stack", "kargv"}
Resources == Objects \cup PageRuns

(* KSTACKPAGE.  Everything else is a page, find_order of a files_struct    *)
(* and of the EXEC_MAX_ARG_LEN + 1 bytes of an argument being 0.           *)
Pages(r) == IF r = "kstack" THEN 2 ELSE 1

Plenty == npage = 0

Nothing == [r \in Resources |-> 0]

Holds(p) == {r \in Resources : owns[p][r] # 0}

UserSpace == {"mm", "pgdir", "text_vma", "text_pt", "text", "stack_vma", "stack_pt", "stack"}

Get(p, rs) == [i \in DOMAIN rs |-> [do |-> "get", what |-> rs[i], of |-> p]]
Put(p, rs) == [i \in DOMAIN rs |-> [do |-> "put", what |-> rs[i], of |-> p]]
Do(what) == <<[do |-> "do", what |-> what, of |-> New]>>
-----------------------------------------------------------------------------
(* After boot: initproc has been forked, its own memory is not counted.    *)
Init ==
  /\ proc_list = <<init>> /\ last_pid = init /\ next_safe = MAX_PID /\ le = 0
  /\ status = [p \in Pids |-> IF p = init THEN "live" ELSE "free"]
  /\ parent = [p \in Pids |-> 0]
  /\ cptr = [p \in {0} \cup Pids |-> IF p = 0 THEN init ELSE None]
  /\ optr = [p \in Pids |-> None]
  /\ yptr = [p \in Pids |-> None]
  /\ owns = [p \in Owners |-> Nothing]
  /\ npage \in Memory
  /\ free_list = IF npage = 0 THEN <<>> ELSE <<Block(1, npage)>>
  /\ nr_free = npage
  /\ slob = {}
  /\ started = FALSE
  /\ call = "none" /\ caller = init /\ todo = <<>> /\ calls = 0
  /\ panic = "none"

IsUser(p) == owns[p]["mm"] # 0

Enter(p, name, ops) ==
  /\ panic = "none" /\ call = "none"
  /\ status[p] = "live"
  /\ \/ Plenty /\ UNCHANGED calls
     \/ ~Plenty /\ calls < MaxCalls /\ calls' = calls + 1
  /\ call' = name /\ caller' = p /\ todo' = ops

(* The next thing is done; the call ends with the last.                    *)
Continue(ops) ==
  /\ todo' = ops
  /\ call' = IF ops = <<>> THEN "none" ELSE call
  /\ UNCHANGED <<caller, calls>>

Panic(why) ==
  /\ panic' = why
  /\ UNCHANGED <<todo, call, caller, calls>>

Op == Head(todo)
Doing(do, what) ==
  panic = "none" /\ todo # <<>> /\ Op.do = do /\ (do = "do" => Op.what = what)
-----------------------------------------------------------------------------
(* exit_mmap unmaps the pages of the areas, then frees their page tables;  *)
(* put_pgdir; mm_destroy frees the areas and the mm.  What is not there is *)
(* skipped.                                                                *)
Held(p, r) == IF owns[p][r] # 0 THEN <<r>> ELSE <<>>

ExitMmap(p) ==
  Held(p, "text") \o Held(p, "stack") \o Held(p, "text_pt") \o Held(p, "stack_pt")
MmDestroy(p) == Held(p, "text_vma") \o Held(p, "stack_vma") \o <<"mm">>

DropMm(p) ==
  IF IsUser(p) THEN Put(p, ExitMmap(p) \o <<"pgdir">> \o MmDestroy(p)) ELSE <<>>

(* do_exit: the memory, put_fs, and then the zombie is linked.             *)
ExitOps(p) == DropMm(p) \o Put(p, <<"files", "files_bb">>) \o Do("zombie")

(* The labels at the end of do_fork, files_create and copy_mm, when r      *)
(* could not be had.                                                       *)
CleanupProc == <<"proc">>
CleanupKstack == <<"kstack">> \o CleanupProc
CleanupFs == <<"files", "files_bb">> \o CleanupKstack

MmCleanup(r) ==
  CASE r = "mm" -> <<>>
    [] r = "pgdir" -> <<"mm">>
    [] OTHER -> ExitMmap(New) \o <<"pgdir">> \o MmDestroy(New)

ForkCleanup(r) ==
  CASE r = "proc" -> <<>>
    [] r = "kstack" -> CleanupProc
    [] r = "files_bb" -> CleanupKstack
    [] r = "files" -> <<"files_bb">> \o CleanupKstack
    [] OTHER -> MmCleanup(r) \o CleanupFs

(* The arguments that have their buffer, and put_kargv, which frees them   *)
(* from the last: a page each, and the object that says where it is.       *)
argc == Cardinality({a \in Args : owns[a]["kargv"] # 0})

PutKargvMutant ==
  [k \in 1..2 * (argc - 1) |->
    [do |-> "put",
     what |-> IF k % 2 = 1 THEN "kargv" ELSE "kargv_bb",
     of |-> Arg(argc - (k - 1) \div 2)]]

PutKargv ==
  [k \in 1..2 * argc |->
    [do |-> "put",
     what |-> IF k % 2 = 1 THEN "kargv" ELSE "kargv_bb",
     of |-> Arg(argc - (k - 1) \div 2)]]

ExecveExit == PutKargv \o ExitOps(caller)

(* load_icode failed: its labels, then execve_exit.                        *)
LoadCleanup(r) == Put(New, MmCleanup(r)) \o ExecveExit

(* A kmalloc of copy_kargv failed, the first or a later one: do_execve     *)
(* frees the buffers it has and returns -E_NO_MEM, which user_main does    *)
(* not expect.                                                             *)
ArgCleanup(r) ==
  (IF r = "kargv" THEN Put(Op.of, <<"kargv_bb">>) ELSE <<>>)
    \o PutKargv
    \o (IF IsUser(caller) THEN <<>> ELSE Do("user_main"))

Cleanup(r) ==
  IF call = "fork"
    THEN Put(New, ForkCleanup(r)) \o (IF caller = init THEN Do("user_main") ELSE <<>>)
  ELSE IF r \in {"kargv_bb", "kargv"} THEN ArgCleanup(r)
  ELSE LoadCleanup(r)

(* The allocations that an assertion expects to succeed: the page of       *)
(* copy_range, and those of the stack in load_icode.                       *)
MustGet(r) ==
  IF call = "fork" THEN r \in {"text", "stack"} ELSE r \in {"stack", "stack_pt"}
-----------------------------------------------------------------------------
(* alloc_pages(n) finds nothing.  For one page, with swap_init_ok, which   *)
(* swap_init sets, it asks swap_out to make room with a check_mm_struct    *)
(* that is NULL since boot; without it the callers get their NULL.         *)
NoPages(n, r) ==
  /\ \/ n = 1 /\ Panic("swap_out")
     \/ MustGet(r) /\ Panic("no memory")
     \/ ~MustGet(r) /\ Continue(Cleanup(r)) /\ UNCHANGED panic
  /\ UNCHANGED <<memory, owns>>

TakePages(n) ==
  /\ free_list' = AfterAlloc(free_list, n)
  /\ nr_free' = nr_free - n

Give(p, r, x) == owns' = [owns EXCEPT ![p][r] = x]

(* kmalloc: an object has room in the pages of slob, or slob_alloc gets    *)
(* one more.  They are never given back.                                   *)
NrObjects == Cardinality({e \in (DOMAIN owns) \X Objects : owns[e[1]][e[2]] # 0})
SlobRoom == NrObjects < SlobSize * Cardinality(slob)

Kmalloc(p, r) ==
  \/ /\ SlobRoom
     /\ UNCHANGED memory
     /\ Give(p, r, 1) /\ Continue(Tail(todo)) /\ UNCHANGED panic
  \/ /\ ~SlobRoom /\ Fits(free_list, 1)
     /\ TakePages(1) /\ slob' = slob \cup {AllocBase(free_list, 1)}
     /\ Give(p, r, 1) /\ Continue(Tail(todo)) /\ UNCHANGED panic
  \/ ~SlobRoom /\ ~Fits(free_list, 1) /\ NoPages(1, r)

AllocPages(p, r) ==
  \/ /\ Fits(free_list, Pages(r))
     /\ TakePages(Pages(r)) /\ UNCHANGED slob
     /\ Give(p, r, AllocBase(free_list, Pages(r)))
     /\ Continue(Tail(todo)) /\ UNCHANGED panic
  \/ ~Fits(free_list, Pages(r)) /\ NoPages(Pages(r), r)

Take ==
  /\ ~Plenty /\ Doing("get", "")
  /\ IF Op.what \in Objects THEN Kmalloc(Op.of, Op.what)
                               ELSE AllocPages(Op.of, Op.what)
  /\ UNCHANGED <<pidVars, tree, npage, started>>

(* With plenty of memory no allocation fails: those that come next are one *)
(* step, and no page is told from another.                                 *)
Leading(do) ==
  CHOOSE n \in DOMAIN todo :
    /\ \A i \in 1..n : todo[i].do = do
    /\ n < Len(todo) => todo[n+1].do # do

(* What the first n entries take or give back is x from now on.            *)
Moved(n, p) == {todo[i].what : i \in {j \in 1..n : todo[j].of = p}}

GiveAll(n, x) ==
  owns' = [p \in Owners |->
    LET moved == Moved(n, p)
    IN [r \in Resources |-> IF r \in moved THEN x ELSE owns[p][r]]]

TakeAll ==
  /\ Plenty /\ Doing("get", "")
  /\ LET n == Leading("get")
     IN GiveAll(n, 1) /\ Continue(SubSeq(todo, n + 1, Len(todo)))
  /\ UNCHANGED <<pidVars, tree, memory, npage, started, panic>>

(* kfree and free_pages, which cannot fail: the releases that come next    *)
(* are one step too.                                                       *)
Free(m, e) ==
  LET base == owns[e.of][e.what]
      list == AfterFree(m.list, base, Pages(e.what))
  IN IF e.what \in Objects \/ Plenty THEN m
     ELSE [list |-> list,
           nr |-> m.nr + Pages(e.what),
           ok |-> m.ok /\ FreeAsserts(m.list, list, base, Pages(e.what))]

Release ==
  /\ Doing("put", "")
  /\ LET n == Leading("put")
         after[i \in 0..n] ==
           IF i = 0 THEN [list |-> free_list, nr |-> nr_free, ok |-> TRUE]
                    ELSE Free(after[i-1], todo[i])
         m == after[n]
     IN /\ GiveAll(n, 0) /\ free_list' = m.list /\ nr_free' = m.nr
        /\ IF m.ok THEN Continue(SubSeq(todo, n + 1, Len(todo))) /\ UNCHANGED panic
                   ELSE Panic("assert")
  /\ UNCHANGED <<pidVars, tree, npage, slob, started>>
-----------------------------------------------------------------------------
(* do_fork by a user process, or by init_main for user_main.  copy_mm      *)
(* copies the areas from the last to the first.                            *)
Fork(p) ==
  /\ Len(proc_list) + 1 < MAX_PROCESS
  /\ IF p = init THEN ~started ELSE IsUser(p)
  /\ Enter(p, "fork",
       Get(New, <<"proc", "kstack", "files_bb", "files">>
                \o IF IsUser(p)
                     THEN <<"mm", "pgdir", "stack_vma", "stack_pt", "stack",
                            "text_vma", "text_pt", "text">>
                     ELSE <<>>)
       \o Do("get_pid"))
  /\ started' = TRUE
  /\ UNCHANGED <<pidVars, tree, owns, memory, npage, panic>>

(* The end of do_fork: get_pid, hash_proc, set_links, wakeup_proc.         *)
ForkPid ==
  /\ Doing("do", "get_pid")
  /\ GetPid \/ Skip \/ Restart \/ Pass
  /\ UNCHANGED <<tree, owns, memory, npage, started, call, caller, todo, calls, panic>>

SetLinks ==
  /\ Doing("do", "get_pid")
  /\ ListAdd
  /\ LET pid == last_pid
         eldest == cptr[caller]
     IN /\ status' = [status EXCEPT ![pid] = "live"]
        /\ parent' = [parent EXCEPT ![pid] = caller]
        /\ optr' = [optr EXCEPT ![pid] = eldest]
        /\ yptr' = [q \in Pids |-> IF q = pid THEN None
                                   ELSE IF q = eldest THEN pid ELSE yptr[q]]
        /\ cptr' = [cptr EXCEPT ![caller] = pid, ![pid] = None]
        /\ owns' = [owns EXCEPT ![pid] = owns[New], ![New] = Nothing]
  /\ Continue(Tail(todo))
  /\ UNCHANGED <<memory, npage, started, panic>>

Exec(p) ==
  /\ p # init
  /\ Enter(p, "exec", Do("copy"))
  /\ UNCHANGED <<pidVars, tree, owns, memory, npage, started, panic>>

(* do_execve checks argc, name and argv, and copy_kargv copies one string  *)
(* after the other, each into a buffer it has just got, until all are      *)
(* copied.  A process may pass what it cannot read; the call then returns  *)
(* -E_INVAL, and the buffers go, the one just got among them.              *)
Copy ==
  /\ Doing("do", "copy")
  /\ \/ /\ argc < EXEC_MAX_ARG_NUM
        /\ Continue(Get(Arg(argc + 1), <<"kargv_bb", "kargv">>) \o Do("copy"))
     \/ argc > 0 /\ Continue(Do("open"))
     \/ IsUser(caller) /\ Continue(PutKargv)
  /\ UNCHANGED <<pidVars, tree, owns, memory, npage, started, panic>>

(* It is there: the old memory is dropped, and load_icode builds the new   *)
(* one, which the process has at the end.                                  *)
FileIsRead(what) ==
  CASE what = "open" -> DropMm(caller) \o Get(New, <<"mm", "pgdir">>) \o Do("elf")
    [] what = "elf" -> Get(New, <<"text_vma", "text", "text_pt">>) \o Do("read")
    [] OTHER -> Get(New, <<"stack_vma", "stack", "stack_pt">>) \o Do("set_mm")

(* The file may be missing, its header wrong, or its segments too short.   *)
FileCleanup(what) ==
  CASE what = "open" -> ExecveExit
    [] what = "elf" -> Put(New, <<"pgdir", "mm">>) \o ExecveExit
    [] OTHER -> LoadCleanup("read")

TryFile(what) ==
  /\ Doing("do", what)
  /\ Continue(FileIsRead(what)) \/ Continue(FileCleanup(what))
  /\ UNCHANGED <<pidVars, tree, owns, memory, npage, started, panic>>

SetMm ==
  /\ Doing("do", "set_mm")
  /\ owns' = [owns EXCEPT
       ![caller] = [r \in Resources |-> IF r \in UserSpace THEN owns[New][r] ELSE @[r]],
       ![New] = Nothing]
  /\ Continue(PutKargv)
  /\ UNCHANGED <<pidVars, tree, memory, npage, started, panic>>

(* init_main could not fork user_main, or kernel_execve has returned to it.*)
UserMainFails ==
  /\ Doing("do", "user_main")
  /\ Panic("user_main")
  /\ UNCHANGED <<pidVars, tree, owns, memory, npage, started>>

Exit(p) ==
  /\ p # init /\ IsUser(p)
  /\ Enter(p, "exit", ExitOps(p))
  /\ UNCHANGED <<pidVars, tree, owns, memory, npage, started, panic>>

(* do_exit: the process is a zombie, and hands its children over to        *)
(* initproc, from the newest; each becomes initproc's newest.              *)
Zombie ==
  /\ Doing("do", "zombie")
  /\ status' = [status EXCEPT ![caller] = "zombie"]
  /\ Continue(Do("adopt"))
  /\ UNCHANGED <<pidVars, parent, cptr, optr, yptr, owns, memory, npage, started, panic>>

AdoptMutant ==
  /\ Doing("do", "adopt")
  /\ LET c == cptr[caller]
         newest == cptr[init]
     IN \/ /\ c # None
           /\ cptr' = [cptr EXCEPT ![caller] = optr[c], ![init] = c]
           /\ yptr' = [q \in Pids |-> IF q = newest THEN c ELSE yptr[q]]
           /\ optr' = [optr EXCEPT ![c] = newest]
           /\ parent' = [parent EXCEPT ![c] = init]
           /\ UNCHANGED <<todo, call, caller, calls>>
        \/ /\ c = None
           /\ Continue(Tail(todo))
           /\ UNCHANGED <<parent, cptr, optr, yptr>>
  /\ UNCHANGED <<pidVars, status, owns, memory, npage, started, panic>>

Adopt ==
  /\ Doing("do", "adopt")
  /\ LET c == cptr[caller]
         newest == cptr[init]
     IN \/ /\ c # None
           /\ cptr' = [cptr EXCEPT ![caller] = optr[c], ![init] = c]
           /\ yptr' = [q \in Pids |-> IF q = c THEN None
                                      ELSE IF q = newest THEN c ELSE yptr[q]]
           /\ optr' = [optr EXCEPT ![c] = newest]
           /\ parent' = [parent EXCEPT ![c] = init]
           /\ UNCHANGED <<todo, call, caller, calls>>
        \/ /\ c = None
           /\ Continue(Tail(todo))
           /\ UNCHANGED <<parent, cptr, optr, yptr>>
  /\ UNCHANGED <<pidVars, status, owns, memory, npage, started, panic>>

(* The children of p as its list has them: the n-th from the newest.       *)
Chain(p) ==
  LET child[n \in 1..MAX_PID] ==
        IF n = 1 THEN cptr[p]
        ELSE LET c == child[n-1] IN IF c = None THEN None ELSE optr[c]
  IN child

FirstZombie(p, c) ==
  \E n \in 1..MAX_PID :
    /\ Chain(p)[n] = c
    /\ \A k \in 1..n-1 : status[Chain(p)[k]] # "zombie"

(* do_wait finds the zombie c: unhash_proc, remove_links, and then its     *)
(* stack and proc_struct are freed.  initproc waits for any child.         *)
Wait(p, c) ==
  /\ p = init \/ IsUser(p)
  /\ status[c] = "zombie" /\ parent[c] = p
  /\ p = init => FirstZombie(p, c)
  /\ Enter(p, "wait", Put(c, <<"kstack", "proc">>))
  /\ ListDel(c)
  /\ status' = [status EXCEPT ![c] = "free"]
  /\ yptr' = [q \in Pids |-> IF q = optr[c] THEN yptr[c] ELSE yptr[q]]
  /\ optr' = [q \in Pids |-> IF q = yptr[c] THEN optr[c] ELSE optr[q]]
  /\ cptr' = IF yptr[c] = None THEN [cptr EXCEPT ![p] = optr[c]] ELSE cptr
  /\ UNCHANGED <<parent, owns, memory, npage, started, panic>>

Next ==
  \/ Take \/ Release \/ TakeAll
  \/ ForkPid \/ SetLinks \/ Copy \/ SetMm \/ UserMainFails \/ Zombie \/ Adopt
  \/ \E what \in {"open", "elf", "read"} : TryFile(what)
  \/ \E p \in Pids : \/ Fork(p) \/ Exec(p) \/ Exit(p)
                      \/ \E c \in Pids : Wait(p, c)

Spec == Init /\ [][Next]_vars
-----------------------------------------------------------------------------
TypeOK ==
  /\ PidTypeOK
  /\ status \in [Pids -> {"free", "live", "zombie"}]
  /\ parent \in [Pids -> {0} \cup Pids]
  /\ cptr \in [{0} \cup Pids -> {None} \cup Pids]
  /\ optr \in [Pids -> {None} \cup Pids]
  /\ yptr \in [Pids -> {None} \cup Pids]
  /\ owns \in [Owners -> [Resources -> 0..npage+1]]
  /\ slob \subseteq 1..npage
  /\ call \in {"none", "fork", "exec", "exit", "wait"}
  /\ caller \in Pids
  /\ panic \in {"none", "swap_out", "no memory", "user_main", "assert"}

(* The pids of the processes are what proc_list has, each once, and        *)
(* get_pid finds one that is free whatever its caches say; see PidAlloc.   *)
PidsExact ==
  /\ PidUnique /\ CacheSafe
  /\ Used = {p \in Pids : status[p] # "free"}

Kids(p) == {c \in Pids : status[c] # "free" /\ parent[c] = p}

(* When init_main's do_wait finds no child, no process is left but idleproc*)
(* and initproc (the assertions at proc.c:1025), as orphans come to it.    *)
InitIsLast ==
  started /\ call = "none" /\ cptr[init] = None => proc_list = <<init>>

(* cptr, optr and yptr are the tree: the list that starts at cptr[p] has   *)
(* every child of p once, and yptr leads back.  It holds after every step  *)
(* of a reparenting, for the children already moved and those left, but    *)
(* for the yptr of the next to go, which may name the one that has gone.   *)
(* And no orphan is lost: InitIsLast.                                      *)
LinksExact ==
  /\ InitIsLast
  /\ \A p \in {0} \cup Used :
       /\ {Chain(p)[n] : n \in 1..Cardinality(Kids(p))} = Kids(p)
       /\ Chain(p)[Cardinality(Kids(p)) + 1] = None
       /\ \A c \in Kids(p) \ {cptr[p]} : yptr[c] # None /\ optr[yptr[c]] = c
       /\ cptr[p] # None /\ (p = 0 \/ status[p] = "live") => yptr[cptr[p]] = None

(* The free list is sorted and merged, its pages are nr_free, and the      *)
(* assertions of default_free_pages hold.                                  *)
FreeListExact ==
  /\ panic # "assert"
  /\ Merged(free_list)
  /\ nr_free = Cardinality(FreePages(free_list))

(* Every page is free, kmalloc's, or held once.                            *)
Extents == {e \in (DOMAIN owns) \X PageRuns : owns[e[1]][e[2]] # 0}
PagesHeld(e) == owns[e[1]][e[2]] .. owns[e[1]][e[2]] + Pages(e[2]) - 1

PagesExact ==
  LET held == UNION {PagesHeld(e) : e \in Extents}
  IN Plenty \/
     /\ held \cup FreePages(free_list) \cup slob = 1..npage
     /\ npage = nr_free + Cardinality(slob) + Cardinality(Extents)
                 + Cardinality({e \in Extents : Pages(e[2]) = 2})

(* The page allocator under fork, exec, exit and wait, whichever of them   *)
(* fails half way: nothing is leaked, freed twice, or given to two, and    *)
(* free neighbours are always one block.                                   *)
MemoryExact == TypeOK /\ FreeListExact /\ PagesExact

(* Between calls a process holds what its state says and no more: a fork,  *)
(* an exec or an exit that stopped half way has undone what it had done.   *)
HoldsExact ==
  call = "none" =>
    /\ \A p \in {New} \cup Args : Holds(p) = {}
    /\ \A p \in Pids \ {init} :
         CASE status[p] = "free" -> Holds(p) = {}
           [] status[p] = "zombie" -> Holds(p) = {"proc", "kstack"}
           [] OTHER -> Holds(p) \ {"proc", "kstack", "files", "files_bb"} \in {{}, UserSpace}
                         /\ {"proc", "kstack", "files", "files_bb"} \subseteq Holds(p)
=============================================================================
