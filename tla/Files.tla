------------------------------- MODULE Files -------------------------------
(***************************************************************************)
(* Descriptor tables over the simple file system: the tables of fs/file.c  *)
(* and fs/fs.c, the counts the VFS keeps on a cached inode, and the block  *)
(* accounting of fs/sfs/sfs_inode.c.  Nothing here sleeps (disk0 is polled *)
(* and the kernel is not preempted), so every call is one step; what is    *)
(* hard is what one call leaves for another process's call to find: a      *)
(* position that another opener's truncation left beyond the end, an       *)
(* inode grown half way when the disk filled up, a block count bumped in   *)
(* memory without marking the inode dirty.                                 *)
(*                                                                         *)
(* Lengths and positions are counted in units of which BLK make a block.   *)
(* Block numbers are not told apart: a block is used or free.  A table     *)
(* entry is FD_OPENED or FD_NONE; FD_INIT and FD_CLOSED live only inside a *)
(* call.  Files exist from the start (vop_create is not implemented) and   *)
(* are never unlinked.                                                     *)
(***************************************************************************)
EXTENDS Integers, FiniteSets, FiniteSetsExt

CONSTANTS Proc,     \* processes
          Ino,      \* files on the disk
          NFD,      \* entries of a descriptor table (FILES_STRUCT_NENTRY)
          KEPT,     \* descriptors exec keeps open: stdin and stdout
          BLK,      \* units in a block (SFS_BLKSIZE)
          NDIRECT,  \* direct blocks of an inode (SFS_NDIRECT)
          NENTRY,   \* entries of the indirect block (SFS_BLK_NENTRY)
          MAXSIZE,  \* SFS_MAX_FILE_SIZE
          TOTAL,    \* blocks the disk has for data
          MODES,    \* access modes an open asks for
          LENS,     \* lengths a read or a write asks for, at most a buffer
          SEEKS,    \* positions a seek asks for
          MAXOPEN,  \* bound: descriptors open in the system at once
          MAXLEAK   \* bound: references lost to failed exclusive opens

ASSUME FilesAssumption ==
  /\ IsFiniteSet(Ino)
  /\ NFD \in Nat /\ KEPT \in 0 .. NFD /\ BLK \in Nat \ {0}
  /\ NDIRECT \in Nat \ {0} /\ NENTRY \in Nat /\ MAXSIZE \in Nat
  /\ TOTAL \in Nat /\ MAXOPEN \in Nat /\ MAXLEAK \in Nat
  /\ MODES \subseteq {"RDONLY", "WRONLY", "RDWR"}
  /\ LENS \subseteq 1 .. BLK /\ SEEKS \subseteq Nat

VARIABLES live,     \* processes that have a descriptor table
          fd,       \* the tables: fd[p][f] is a struct file
          ref,      \* ref_count of a cached inode; 0: not in memory
          open,     \* open_count of a cached inode
          mem,      \* the in-memory sfs_disk_inode (equal to disk if not cached)
          dirty,    \* sin->dirty
          disk,     \* the sfs_disk_inode on the disk
          ents,     \* slots of the file's indirect block that hold a block
          unused,   \* super.unused_blocks
          panic     \* "none", or the assertion or panic that stopped the kernel

vars == <<live, fd, ref, open, mem, dirty, disk, ents, unused, panic>>

FD == 0 .. NFD - 1
None == [on |-> FALSE]
File(i, mode, pos) == [on |-> TRUE, node |-> i, mode |-> mode, pos |-> pos]
Empty == [size |-> 0, blocks |-> 0, ind |-> FALSE]
CeilDiv(n, d) == (n + d - 1) \div d

Opened(p, f) == p \in live /\ fd[p][f].on
Entries(i) == {x \in live \X FD : fd[x[1]][x[2]].on /\ fd[x[1]][x[2]].node = i}
Holds(p, i, F) == Cardinality({f \in F : fd[p][f].on /\ fd[p][f].node = i})

TypeOK ==
  /\ live \subseteq Proc
  /\ fd \in [Proc -> [FD -> {None} \cup
               [on : {TRUE}, node : Ino, mode : MODES, pos : 0 .. MAXSIZE]]]
  /\ ref \in [Ino -> Nat] /\ open \in [Ino -> Nat]
  /\ {mem, disk} \subseteq
       [Ino -> [size : 0 .. MAXSIZE, blocks : 0 .. NDIRECT + NENTRY, ind : BOOLEAN]]
  /\ dirty \in [Ino -> BOOLEAN]
  /\ ents \in [Ino -> SUBSET (0 .. NENTRY - 1)]
  /\ unused \in 0 .. TOTAL
  /\ panic \in {"none", "index", "range", "truncate", "create"}

Init ==
  /\ \E p \in Proc : live = {p}
  /\ fd = [p \in Proc |-> [f \in FD |-> None]]
  /\ ref = [i \in Ino |-> 0] /\ open = [i \in Ino |-> 0]
  /\ mem = [i \in Ino |-> Empty] /\ disk = mem
  /\ dirty = [i \in Ino |-> FALSE]
  /\ ents = [i \in Ino |-> {}]
  /\ unused = TOTAL
  /\ panic = "none"

(* A failed assertion or a panic() stops the kernel. *)
Panic(why) == panic' = why
              /\ UNCHANGED <<live, fd, ref, open, mem, dirty, disk, ents, unused>>

-----------------------------------------------------------------------------
(* The blocks of an inode *)

CostMutant(i, n) ==
  Cardinality({k \in mem[i].blocks .. n - 1 : k < NDIRECT \/ k - NDIRECT \notin ents[i]})

(* Blocks the disk must give for file i to grow to n blocks: one per block *)
(* whose slot holds none yet, and the indirect block itself.               *)
Cost(i, n) ==
  Cardinality({k \in mem[i].blocks .. n - 1 : k < NDIRECT \/ k - NDIRECT \notin ents[i]})
  + IF n > NDIRECT /\ ~mem[i].ind THEN 1 ELSE 0

(* How far sfs_bmap_load_nolock, called for one block after another, gets  *)
(* towards n blocks.                                                       *)
Reach(i, n) ==
  Max({mem[i].blocks} \cup
      {k \in mem[i].blocks .. n : k <= NDIRECT + NENTRY /\ Cost(i, k) <= unused})

(* The next block is beyond the indirect block: sfs_bmap_get_nolock panics. *)
OutOfRange(i, n) == Reach(i, n) = NDIRECT + NENTRY /\ n > NDIRECT + NENTRY

(* Blocks given back when file i shrinks to n blocks: an entry of the      *)
(* indirect block may hold none, and the indirect block itself is kept.    *)
Freed(i, n) ==
  Cardinality({k \in n .. mem[i].blocks - 1 : k < NDIRECT \/ k - NDIRECT \in ents[i]})

(* The inode comes to have k blocks and size s.  A direct block or a new   *)
(* indirect block marks it dirty, a block entered in an existing indirect  *)
(* block does not; changed says whether the caller marks it.               *)
Resize(i, k, s, changed) ==
  LET old == mem[i].blocks
      given == IF k > old THEN Cost(i, k) ELSE 0
      Slots(a, b) == {j \in 0 .. NENTRY - 1 : j + NDIRECT \in a .. b - 1}
  IN /\ mem' = [mem EXCEPT ![i] = [size |-> s, blocks |-> k, ind |-> @.ind \/ k > NDIRECT]]
     /\ ents' = [ents EXCEPT ![i] = (@ \ Slots(k, old)) \cup Slots(old, k)]
     /\ unused' = unused - given + Freed(i, k)
     /\ dirty' = [dirty EXCEPT ![i] = \/ @ \/ changed
                                        \/ (k > old /\ old < NDIRECT)
                                        \/ (k > NDIRECT /\ ~mem[i].ind)]

TruncateMutant(i, len) ==
  LET n == CeilDiv(len, BLK)
  IN IF mem[i].size = len THEN UNCHANGED <<mem, ents, unused, dirty>>
     ELSE Resize(i, IF n < mem[i].blocks THEN n ELSE Reach(i, n), len, TRUE)

(* sfs_truncfile: a disk that fills up while the file grows leaves the     *)
(* blocks it already has and the old size.                                 *)
TruncateAsserts(i, len) == mem[i].size = len => mem[i].blocks = CeilDiv(len, BLK)
TruncateFits(i, len) ==
  mem[i].size = len \/ CeilDiv(len, BLK) <= mem[i].blocks
    \/ Reach(i, CeilDiv(len, BLK)) = CeilDiv(len, BLK)
Truncate(i, len) ==
  LET n == CeilDiv(len, BLK)
  IN IF mem[i].size = len THEN UNCHANGED <<mem, ents, unused, dirty>>
     ELSE IF TruncateFits(i, len) THEN Resize(i, n, len, TRUE)
     ELSE Resize(i, Reach(i, n), mem[i].size, FALSE)

-----------------------------------------------------------------------------
(* The counts of an inode *)

Hold(n) == /\ ref' = [i \in Ino |-> ref[i] + n[i]]
           /\ open' = [i \in Ino |-> open[i] + n[i]]
           /\ SumFunction(open') <= MAXOPEN

FlushedMutant(i, n) == n[i] > 0 /\ ref[i] = n[i] /\ dirty[i]

(* The last close writes a dirty inode back (sfs_close). *)
Flushed(i, n) == n[i] > 0 /\ open[i] = n[i] /\ dirty[i]

(* The last reference drops the inode from memory (sfs_reclaim), and with  *)
(* it what the disk was not told.                                          *)
Gone(i, n) == n[i] > 0 /\ ref[i] = n[i]

(* vfs_close, n[i] times for file i. *)
Release(n) ==
  /\ open' = [i \in Ino |-> open[i] - n[i]]
  /\ ref' = [i \in Ino |-> ref[i] - n[i]]
  /\ disk' = [i \in Ino |-> IF Flushed(i, n) THEN mem[i] ELSE disk[i]]
  /\ dirty' = [i \in Ino |-> dirty[i] /\ ~Flushed(i, n)]
  /\ mem' = [i \in Ino |-> IF Gone(i, n) THEN disk'[i] ELSE mem[i]]
  /\ UNCHANGED <<ents, unused, panic>>

One(i) == [j \in Ino |-> IF j = i THEN 1 ELSE 0]

(* fd_array_alloc: the lowest free descriptor *)
Free(p) == {f \in FD : ~fd[p][f].on}

-----------------------------------------------------------------------------
(* The system calls on files *)

(* file_open of a file that exists.  O_CREAT alone truncates too, and the  *)
(* O_EXCL failure keeps the reference that the lookup took.                *)
Open(p, i, mode, excl, creat, trunc, append) ==
  /\ p \in live /\ Free(p) # {}
  /\ trunc => mode # "RDONLY"
  /\ IF excl /\ creat
     THEN /\ ref[i] - open[i] < MAXLEAK
          /\ ref' = [ref EXCEPT ![i] = @ + 1]
          /\ UNCHANGED <<live, fd, open, mem, dirty, disk, ents, unused, panic>>
     ELSE IF (trunc \/ creat) /\ ~TruncateAsserts(i, 0)
     THEN Panic("truncate")
     ELSE /\ Hold(One(i))
          /\ IF trunc \/ creat THEN Truncate(i, 0) ELSE UNCHANGED <<mem, ents, unused, dirty>>
          /\ fd' = [fd EXCEPT ![p][Min(Free(p))] =
                      File(i, mode, IF append THEN mem'[i].size ELSE 0)]
          /\ UNCHANGED <<live, disk, panic>>

(* file_open of a name no file has: with O_CREAT, vop_create is not there. *)
OpenMissing(p) == /\ p \in live /\ Free(p) # {}
                  /\ Panic("create")

Close(p, f) ==
  /\ Opened(p, f)
  /\ fd' = [fd EXCEPT ![p][f] = None]
  /\ Release(One(fd[p][f].node))
  /\ UNCHANGED live

DupMutant(p, f, g) ==
  /\ Opened(p, f) /\ g \in Free(p)
  /\ fd' = [fd EXCEPT ![p][g] = fd[p][f]]
  /\ open' = [open EXCEPT ![fd[p][f].node] = @ + 1]
  /\ UNCHANGED <<live, ref, mem, dirty, disk, ents, unused, panic>>

(* file_dup onto a descriptor, or onto the lowest free one (NO_FD). *)
Dup(p, f, g) ==
  /\ Opened(p, f) /\ g \in Free(p)
  /\ fd' = [fd EXCEPT ![p][g] = fd[p][f]]
  /\ Hold(One(fd[p][f].node))
  /\ UNCHANGED <<live, mem, dirty, disk, ents, unused, panic>>

(* sfs_io_nolock up to the position end, and the descriptor's position     *)
(* moved by what was copied.                                               *)
Transfer(p, f, end) ==
  LET i == fd[p][f].node
      off == fd[p][f].pos
      n == CeilDiv(end, BLK)
      k == Reach(i, n)
      alen == Max({0, Min({end, k * BLK}) - off})
  IN IF off \div BLK > mem[i].blocks THEN Panic("index")
     ELSE IF OutOfRange(i, n) THEN Panic("range")
     ELSE /\ Resize(i, k, Max({mem[i].size, off + alen}), off + alen > mem[i].size)
          /\ fd' = [fd EXCEPT ![p][f].pos = off + alen]
          /\ UNCHANGED <<live, ref, open, disk, panic>>

(* file_write and file_read, which the system calls repeat one buffer at a *)
(* time.                                                                   *)
Write(p, f, len) ==
  /\ Opened(p, f) /\ fd[p][f].mode # "RDONLY" /\ fd[p][f].pos < MAXSIZE
  /\ Transfer(p, f, Min({fd[p][f].pos + len, MAXSIZE}))

Read(p, f, len) ==
  /\ Opened(p, f) /\ fd[p][f].mode # "WRONLY"
  /\ fd[p][f].pos < mem[fd[p][f].node].size
  /\ Transfer(p, f, Min({fd[p][f].pos + len, mem[fd[p][f].node].size}))

(* file_seek: beyond the end it grows the file, for a reader too. *)
Seek(p, f, pos) ==
  /\ Opened(p, f) /\ pos < MAXSIZE
  /\ LET i == fd[p][f].node
         n == CeilDiv(pos, BLK)
     IN IF pos > mem[i].size /\ OutOfRange(i, n) THEN Panic("range")
        ELSE /\ IF pos > mem[i].size THEN Truncate(i, pos)
                ELSE UNCHANGED <<mem, ents, unused, dirty>>
             /\ fd' = IF pos > mem[i].size => TruncateFits(i, pos)
                      THEN [fd EXCEPT ![p][f].pos = pos] ELSE fd
             /\ UNCHANGED <<live, ref, open, disk, panic>>

Fsync(p, f) ==
  /\ Opened(p, f)
  /\ LET i == fd[p][f].node
     IN /\ dirty[i]
        /\ disk' = [disk EXCEPT ![i] = mem[i]]
        /\ dirty' = [dirty EXCEPT ![i] = FALSE]
  /\ UNCHANGED <<live, fd, ref, open, mem, ents, unused, panic>>

-----------------------------------------------------------------------------
(* What processes do to tables *)

ForkMutant(p, c) ==
  /\ p \in live /\ c \notin live
  /\ live' = live \cup {c}
  /\ fd' = [fd EXCEPT ![c] = fd[p]]
  /\ Hold([i \in Ino |-> Holds(p, i, KEPT .. NFD - 1)])
  /\ UNCHANGED <<mem, dirty, disk, ents, unused, panic>>

(* dup_files: the child's descriptors have positions of their own. *)
Fork(p, c) ==
  /\ p \in live /\ c \notin live
  /\ live' = live \cup {c}
  /\ fd' = [fd EXCEPT ![c] = fd[p]]
  /\ Hold([i \in Ino |-> Holds(p, i, FD)])
  /\ UNCHANGED <<mem, dirty, disk, ents, unused, panic>>

(* files_closeall on exec, which skips stdin and stdout; the program's own *)
(* descriptor is opened and closed again before exec returns.              *)
Exec(p) ==
  /\ p \in live
  /\ fd' = [fd EXCEPT ![p] = [f \in FD |-> IF f < KEPT THEN @[f] ELSE None]]
  /\ Release([i \in Ino |-> Holds(p, i, KEPT .. NFD - 1)])
  /\ UNCHANGED live

(* files_destroy when the process exits, or when exec fails. *)
Exit(p) ==
  /\ p \in live
  /\ live' = live \ {p}
  /\ fd' = [fd EXCEPT ![p] = [f \in FD |-> None]]
  /\ Release([i \in Ino |-> Holds(p, i, FD)])

Next ==
  /\ panic = "none"
  /\ \E p \in Proc :
       \/ \E i \in Ino, mode \in MODES, excl, creat, trunc, append \in BOOLEAN :
            Open(p, i, mode, excl, creat, trunc, append)
       \/ OpenMissing(p)
       \/ \E f \in FD : \/ Close(p, f)
                        \/ \E g \in FD : Dup(p, f, g)
                        \/ \E len \in LENS : Write(p, f, len)
                        \/ \E len \in LENS : Read(p, f, len)
                        \/ \E pos \in SEEKS : Seek(p, f, pos)
                        \/ Fsync(p, f)
       \/ \E c \in Proc : Fork(p, c)
       \/ Exec(p)
       \/ Exit(p)

Spec == Init /\ [][Next]_vars

-----------------------------------------------------------------------------
(* Properties *)

(* Over opens, dups, forks, execs and exits of any processes, the inode's  *)
(* open_count is the number of descriptors open on it, so vop_close runs at*)
(* the last close and not before.                                          *)
OpenExact == TypeOK /\ \A i \in Ino : open[i] = Cardinality(Entries(i))

(* References other than the descriptors' only ever come from an exclusive *)
(* open that failed, and nothing gives them back: no other call leaks or   *)
(* drops one.                                                              *)
RefsKept ==
  [][\A i \in Ino : \/ ref'[i] - open'[i] = ref[i] - open[i]
                    \/ ref'[i] = ref[i] + 1 /\ UNCHANGED <<open, fd>>]_vars

(* Blocks each file has: direct ones, those its indirect block holds, and  *)
(* the indirect block.                                                     *)
Taken == [i \in Ino |-> Min({mem[i].blocks, NDIRECT}) + Cardinality(ents[i])
                         + IF mem[i].ind THEN 1 ELSE 0]

(* The free blocks and those the files hold always make up the disk: none  *)
(* is lost or freed twice, also when a growth fails half way or an inode   *)
(* leaves memory with blocks that the disk's copy does not count.          *)
SpaceExact == unused + SumFunction(Taken) = TOTAL

(* A position within the file never fails the assertion of                 *)
(* sfs_bmap_load_nolock, and each of the file's blocks is a block: both    *)
(* hold of the inode in memory and, when it is clean, of the copy on disk. *)
BlocksReach ==
  \A i \in Ino : \A d \in {mem[i]} \cup (IF dirty[i] THEN {} ELSE {disk[i]}) :
    /\ d.size \div BLK <= d.blocks
    /\ \A k \in NDIRECT .. d.blocks - 1 : d.ind /\ k - NDIRECT \in ents[i]

(* A clean inode's size and direct blocks are those on the disk, and a file*)
(* nobody has open is clean: what was written survives the inode's removal *)
(* from memory.                                                            *)
Synced ==
  \A i \in Ino :
    /\ open[i] = 0 => ~dirty[i]
    /\ ~dirty[i] => /\ mem[i].size = disk[i].size /\ mem[i].ind = disk[i].ind
                    /\ Min({mem[i].blocks, NDIRECT}) = Min({disk[i].blocks, NDIRECT})

(* The assertion of sfs_bmap_load_nolock, index <= din->blocks, does not   *)
(* fail.  It does: a descriptor keeps its position when another opener     *)
(* truncates the file.                                                     *)
BmapIndexInFile == panic # "index"

=============================================================================
