------------------------------ MODULE FirstFit ------------------------------
(***************************************************************************)
(* The page allocator of the ucore kernel, kern/mm/default_pmm.c, as       *)
(* operators on its free list: a sequence of blocks [base, property], in   *)
(* the order of the list.  A page has PageProperty when it is the base of  *)
(* a block of the list.                                                    *)
(***************************************************************************)
EXTENDS Naturals, Sequences, SequencesExt

Block(b, n) == [base |-> b, property |-> n]

PagesOf(b) == b.base .. b.base + b.property - 1

(* default_alloc_pages(n): the first block that is large enough.           *)
Fits(list, n) == \E i \in DOMAIN list : list[i].property >= n

First(list, n) ==
  CHOOSE i \in DOMAIN list :
    list[i].property >= n /\ \A j \in 1..i-1 : list[j].property < n

(* The page it returns, and the list it leaves: what the block has more    *)
(* takes the block's place.                                                *)
AllocBase(list, n) == list[First(list, n)].base

AfterAlloc(list, n) ==
  LET i == First(list, n)
      b == list[i]
  IN IF b.property > n
       THEN [list EXCEPT ![i] = Block(b.base + n, b.property - n)]
       ELSE RemoveAt(list, i)

(* default_free_pages(base, n), the first loop: free is the block being    *)
(* freed, which grows by its neighbours, kept the others.                  *)
MergeMutant(acc, b) ==
  IF acc.free.base + acc.free.property = b.base
    THEN [acc EXCEPT !.free = Block(@.base, @.property + b.property)]
    ELSE [acc EXCEPT !.kept = Append(@, b)]

Merge(acc, b) ==
  IF acc.free.base + acc.free.property = b.base
    THEN [acc EXCEPT !.free = Block(@.base, @.property + b.property)]
  ELSE IF b.base + b.property = acc.free.base
    THEN [acc EXCEPT !.free = Block(b.base, b.property + @.property)]
  ELSE [acc EXCEPT !.kept = Append(@, b)]

(* The second loop: where the block goes.                                  *)
AfterFree(list, base, n) ==
  LET loop[i \in 0..Len(list)] ==
        IF i = 0 THEN [free |-> Block(base, n), kept |-> <<>>]
                 ELSE Merge(loop[i-1], list[i])
      m == loop[Len(list)]
      end == m.free.base + m.free.property
      Later(b) == end <= b.base
  IN IF \E i \in DOMAIN m.kept : Later(m.kept[i])
       THEN InsertAt(m.kept, CHOOSE i \in DOMAIN m.kept :
                               /\ Later(m.kept[i])
                               /\ \A j \in 1..i-1 : ~Later(m.kept[j]), m.free)
       ELSE Append(m.kept, m.free)

(* The assertions of default_free_pages hold: no page that is freed is the *)
(* base of a free block, and the block that follows does not touch it.     *)
FreeAsserts(list, after, base, n) ==
  /\ \A i \in DOMAIN list : list[i].base \notin base..base+n-1
  /\ \A i \in 1..Len(after)-1 :
       base \in PagesOf(after[i]) =>
         after[i].base + after[i].property # after[i+1].base
-----------------------------------------------------------------------------
(* The list is what the free pages F make it: its blocks are the runs of   *)
(* free pages, each as long as can be, in the order of their addresses.    *)
FreePages(list) == UNION {PagesOf(list[i]) : i \in DOMAIN list}

Merged(list) ==
  \A i \in 1..Len(list)-1 :
    list[i].base + list[i].property < list[i+1].base
=============================================================================
