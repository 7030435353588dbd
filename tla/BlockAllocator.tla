--------------------------- MODULE BlockAllocator ---------------------------
(***************************************************************************)
(* LinkerBlockAllocator: the allocator of the system linker's list entries *)
(* and soinfos, which fake-linker drives through the linker's own object.  *)
(* Pages are mapped one at a time and never given back except by purge;    *)
(* the free list is threaded through the free blocks themselves, one       *)
(* record for each run of neighbours.                                      *)
(***************************************************************************)
EXTENDS Integers, Sequences, FiniteSets

CONSTANTS
  Page,           (* addresses mmap can return for a page                  *)
  BlocksPerPage,  (* (get_block_alloca_size() - 16) / block_size_          *)
  Counts          (* TRUE from Android Q on, where allocated_ exists       *)

ASSUME BlockAllocatorAssumption ==
  /\ BlocksPerPage \in Nat \ {0}
  /\ Counts \in BOOLEAN

VARIABLES
  pages,      (* the pages of page_list_                                   *)
  free,       (* free_block_list_: runs [page, first, num]                 *)
  allocated,  (* allocated_                                                *)
  live        (* the blocks given out (no variable of the code)            *)

vars == <<pages, free, allocated, live>>

(* A block is its page and its place in the page.                          *)
Block == Page \X (1 .. BlocksPerPage)

(* A run of neighbouring blocks stays in its page.                         *)
Run == {run \in [page : Page, first : 1 .. BlocksPerPage,
                              num : 1 .. BlocksPerPage] :
           run.first + run.num - 1 <= BlocksPerPage}

BlocksOf(run) == {run.page} \X (run.first .. run.first + run.num - 1)

(* The blocks a list of runs offers, and whether it offers each one once.  *)
Covered(list) == UNION {BlocksOf(list[k]) : k \in DOMAIN list}

Disjoint(list) ==
  \A j, k \in DOMAIN list :
     j # k => BlocksOf(list[j]) \cap BlocksOf(list[k]) = {}

-----------------------------------------------------------------------------
Init ==
  /\ pages = {}
  /\ free = <<>>
  /\ allocated = 0
  /\ live = {}

(* Mutant of WithoutFirst: num_free_blocks of the rest is not reduced.     *)
WithoutFirstKeepsNum(list) ==
  LET head == Head(list) IN
  IF head.num > 1 THEN <<[head EXCEPT !.first = @ + 1]>> \o Tail(list)
                  ELSE Tail(list)

(* What a list is once its first block is taken off.                       *)
WithoutFirst(list) ==
  LET head == Head(list) IN
  IF head.num > 1
    THEN <<[page |-> head.page, first |-> head.first + 1,
            num |-> head.num - 1]>> \o Tail(list)
    ELSE Tail(list)

(* create_new_page: all of page p becomes the first run of the free list.  *)
WithNewPage(p) == <<[page |-> p, first |-> 1, num |-> BlocksPerPage]>> \o free

(* Take the first block of the list, give it to the caller.                *)
TakeFirst(list) ==
  /\ live' = live \cup {<<Head(list).page, Head(list).first>>}
  /\ free' = WithoutFirst(list)
  /\ allocated' = IF Counts THEN allocated + 1 ELSE allocated

Alloc ==
  \/ /\ free # <<>>
     /\ TakeFirst(free)
     /\ UNCHANGED pages
  \/ /\ free = <<>>
     /\ \E p \in Page \ pages :
          /\ pages' = pages \cup {p}
          /\ TakeFirst(WithNewPage(p))

(* free(block), of a block alloc has given out and nobody has freed since. *)
Free(b) ==
  /\ b \in live
  /\ live' = live \ {b}
  /\ free' = <<[page |-> b[1], first |-> b[2], num |-> 1]>> \o free
  /\ allocated' = IF Counts THEN allocated - 1 ELSE allocated
  /\ UNCHANGED pages

(* Mutant of Purge: the pages go whatever is still allocated.              *)
PurgeAlways ==
  /\ pages' = {}
  /\ free' = <<>>
  /\ UNCHANGED <<allocated, live>>

Purge ==
  /\ ~(Counts /\ allocated # 0)
  /\ pages' = {}
  /\ free' = <<>>
  /\ UNCHANGED <<allocated, live>>

Next == Alloc \/ Purge \/ \E b \in Block : Free(b)

Spec == Init /\ [][Next]_vars

-----------------------------------------------------------------------------
TypeOK ==
  /\ pages \in SUBSET Page
  /\ free \in Seq(Run)
  /\ allocated \in Nat
  /\ live \in SUBSET Block

(* NoOverlap: no block is free and given out at once, and none is on the   *)
(* free list twice, so two allocations never share memory.                 *)
NoOverlap ==
  /\ live \cap Covered(free) = {}
  /\ Disjoint(free)

(* NothingLost: every block of a mapped page is either given out or can be *)
(* given out, and there are no others.                                     *)
NothingLost == live \cup Covered(free) = pages \X (1 .. BlocksPerPage)

(* Partition: blocks given out and blocks on the free list make up the     *)
(* mapped pages, each block once.                                          *)
Partition == NoOverlap /\ NothingLost

(* CountExact: allocated_ is the number of blocks given out, which purge   *)
(* relies on.                                                              *)
CountExact == Counts => allocated = Cardinality(live)

(* RefinesAllocator: to its callers the allocator gives out blocks nobody  *)
(* else owns and keeps them mapped, purge included.                        *)
A == INSTANCE Allocator WITH mapped <- pages \X (1 .. BlocksPerPage)

RefinesAllocator == A!Spec
=============================================================================
