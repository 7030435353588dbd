------------------------- MODULE LinkedListsProofs --------------------------
(***************************************************************************)
(* What the linker's block allocator and the lists over it promise from    *)
(* Android Q on, for any number of pages, of blocks in a page and of       *)
(* elements.                                                               *)
(***************************************************************************)
EXTENDS LinkedLists, SequenceTheorems, FiniteSetTheorems,
        WellFoundedInduction, TLAPS

-----------------------------------------------------------------------------
(***************************************************************************)
(* BlockAllocator.                                                         *)
(***************************************************************************)
(* A free list is its first run and the rest.                              *)
LEMMA ConsRun ==
  ASSUME NEW r \in Run, NEW s \in Seq(Run)
  PROVE  LET c == <<r>> \o s IN
         /\ c \in Seq(Run) /\ c # <<>>
         /\ Head(c) = r /\ Tail(c) = s
         /\ Covered(c) = BlocksOf(r) \cup Covered(s)
         /\ Disjoint(c) <=> Disjoint(s) /\ BlocksOf(r) \cap Covered(s) = {}
<1> DEFINE c == <<r>> \o s
<1>1. c \in Seq(Run) /\ Len(c) = Len(s) + 1
  OBVIOUS
<1>2. c[1] = r /\ \A k \in 1 .. Len(s) : c[k + 1] = s[k]
  OBVIOUS
<1>3. DOMAIN c = 1 .. Len(s) + 1 /\ DOMAIN s = 1 .. Len(s) /\ Len(s) \in Nat
  BY <1>1
<1>4. c # <<>> /\ Head(c) = r /\ Tail(c) = s
  BY <1>1, <1>2
<1> HIDE DEF c
<1>5. \A k \in DOMAIN c : k = 1 \/ (k - 1 \in DOMAIN s /\ c[k] = s[k - 1])
  BY <1>2, <1>3
<1>6. 1 \in DOMAIN c /\ \A k \in DOMAIN s : k + 1 \in DOMAIN c
  BY <1>3
<1>7. Covered(c) = BlocksOf(r) \cup Covered(s)
  <2>1. Covered(c) \subseteq BlocksOf(r) \cup Covered(s)
    BY <1>2, <1>5 DEF Covered
  <2>2. BlocksOf(r) \subseteq Covered(c)
    BY <1>2, <1>6 DEF Covered
  <2>3. Covered(s) \subseteq Covered(c)
    BY <1>2, <1>3, <1>6 DEF Covered
  <2>4. QED BY <2>1, <2>2, <2>3
<1>8. ASSUME Disjoint(c)
      PROVE  Disjoint(s) /\ BlocksOf(r) \cap Covered(s) = {}
  <2>1. Disjoint(s)
    <3>1. ASSUME NEW j \in DOMAIN s, NEW k \in DOMAIN s, j # k
          PROVE  BlocksOf(s[j]) \cap BlocksOf(s[k]) = {}
      <4>1. j + 1 \in DOMAIN c /\ k + 1 \in DOMAIN c /\ j + 1 # k + 1
        BY <1>3, <1>6, <3>1
      <4>2. c[j + 1] = s[j] /\ c[k + 1] = s[k]
        BY <1>2, <1>3
      <4>3. QED BY <1>8, <4>1, <4>2 DEF Disjoint
    <3>2. QED BY <3>1 DEF Disjoint
  <2>2. ASSUME NEW k \in DOMAIN s PROVE BlocksOf(r) \cap BlocksOf(s[k]) = {}
    <3>1. k + 1 \in DOMAIN c /\ 1 \in DOMAIN c /\ k + 1 # 1
      BY <1>3, <1>6
    <3>2. c[k + 1] = s[k]
      BY <1>2, <1>3
    <3>3. QED BY <1>2, <1>8, <3>1, <3>2 DEF Disjoint
  <2>3. QED BY <2>1, <2>2 DEF Covered
<1>9. ASSUME Disjoint(s), BlocksOf(r) \cap Covered(s) = {}
      PROVE  Disjoint(c)
  <2>1. ASSUME NEW k \in DOMAIN s PROVE BlocksOf(r) \cap BlocksOf(s[k]) = {}
    BY <1>9 DEF Covered
  <2>2. ASSUME NEW j \in DOMAIN c, NEW k \in DOMAIN c, j # k
        PROVE  BlocksOf(c[j]) \cap BlocksOf(c[k]) = {}
    <3>1. CASE j = 1
      BY <1>2, <1>5, <2>1, <2>2, <3>1
    <3>2. CASE k = 1
      BY <1>2, <1>5, <2>1, <2>2, <3>2
    <3>3. CASE j # 1 /\ k # 1
      <4>1. j - 1 \in DOMAIN s /\ k - 1 \in DOMAIN s /\ j - 1 # k - 1
        BY <1>3, <1>5, <2>2, <3>3
      <4>2. c[j] = s[j - 1] /\ c[k] = s[k - 1]
        BY <1>5, <3>3
      <4>3. QED BY <1>9, <4>1, <4>2 DEF Disjoint
    <3>4. QED BY <3>1, <3>2, <3>3
  <2>3. QED BY <2>2 DEF Disjoint
<1>10. QED BY <1>1, <1>4, <1>7, <1>8, <1>9 DEF c

(* A run is its first block and a run of one block less.                   *)
LEMMA SplitRun ==
  ASSUME NEW r \in Run
  PROVE  LET b    == <<r.page, r.first>>
             rest == [page |-> r.page, first |-> r.first + 1, num |-> r.num - 1] IN
         /\ b \in Block /\ b \in BlocksOf(r)
         /\ BlocksOf(r) \subseteq Block
         /\ r.num > 1 => /\ rest \in Run
                         /\ BlocksOf(rest) = BlocksOf(r) \ {b}
         /\ ~(r.num > 1) => BlocksOf(r) = {b}
<1> USE BlockAllocatorAssumption
<1> DEFINE b    == <<r.page, r.first>>
           rest == [page |-> r.page, first |-> r.first + 1, num |-> r.num - 1]
<1>1. /\ r.page \in Page /\ r.first \in 1 .. BlocksPerPage
      /\ r.num \in 1 .. BlocksPerPage
      /\ r.first + r.num - 1 <= BlocksPerPage
      /\ r.first \in Nat /\ r.num \in Nat
  BY DEF Run
<1>2. \A x : x \in BlocksOf(r) <=>
         \E n \in r.first .. r.first + r.num - 1 : x = <<r.page, n>>
  BY DEF BlocksOf
<1>3. b \in Block /\ b \in BlocksOf(r) /\ BlocksOf(r) \subseteq Block
  BY <1>1, <1>2 DEF Block
<1>4. ASSUME r.num > 1
      PROVE  rest \in Run /\ BlocksOf(rest) = BlocksOf(r) \ {b}
  <2>1. rest \in Run
    BY <1>1, <1>4 DEF Run
  <2>2. \A x : x \in BlocksOf(rest) <=>
           \E n \in r.first + 1 .. r.first + r.num - 1 : x = <<r.page, n>>
    BY <1>1 DEF BlocksOf
  <2>3. QED BY <1>1, <1>2, <2>1, <2>2
<1>5. ASSUME ~(r.num > 1) PROVE BlocksOf(r) = {b}
  <2>1. r.num = 1
    BY <1>1, <1>5
  <2>2. QED BY <1>1, <1>2, <2>1
<1>6. QED BY <1>3, <1>4, <1>5

(* Taking the first block off a list takes that block and no other.        *)
LEMMA FirstTaken ==
  ASSUME NEW list \in Seq(Run), list # <<>>, Disjoint(list)
  PROVE  LET b == <<Head(list).page, Head(list).first>> IN
         /\ b \in Block /\ b \in Covered(list)
         /\ WithoutFirst(list) \in Seq(Run)
         /\ Covered(WithoutFirst(list)) = Covered(list) \ {b}
         /\ Disjoint(WithoutFirst(list))
<1> DEFINE h    == Head(list)
           t    == Tail(list)
           b    == <<h.page, h.first>>
           rest == [page |-> h.page, first |-> h.first + 1, num |-> h.num - 1]
<1>1. h \in Run /\ t \in Seq(Run) /\ list = <<h>> \o t
  OBVIOUS
<1>2. /\ Covered(list) = BlocksOf(h) \cup Covered(t)
      /\ Disjoint(t) /\ BlocksOf(h) \cap Covered(t) = {}
  <2> HIDE DEF h, t
  <2>1. QED BY <1>1, ConsRun
<1>3. /\ b \in Block /\ b \in BlocksOf(h)
      /\ h.num > 1 => rest \in Run /\ BlocksOf(rest) = BlocksOf(h) \ {b}
      /\ ~(h.num > 1) => BlocksOf(h) = {b}
  <2> HIDE DEF h
  <2>1. QED BY <1>1, SplitRun
<1>4. WithoutFirst(list) = IF h.num > 1 THEN <<rest>> \o t ELSE t
  BY DEF WithoutFirst
<1> HIDE DEF h, t, rest, b
<1>5. CASE h.num > 1
  <2>1. BlocksOf(rest) \cap Covered(t) = {}
    BY <1>2, <1>3, <1>5
  <2>2. /\ <<rest>> \o t \in Seq(Run)
        /\ Covered(<<rest>> \o t) = BlocksOf(rest) \cup Covered(t)
        /\ Disjoint(<<rest>> \o t)
    BY <1>1, <1>2, <1>3, <1>5, <2>1, ConsRun
  <2>3. QED BY <1>2, <1>3, <1>4, <1>5, <2>2 DEF b, h
<1>6. CASE ~(h.num > 1)
  BY <1>1, <1>2, <1>3, <1>4, <1>6 DEF b, h
<1>7. QED BY <1>5, <1>6

-----------------------------------------------------------------------------
(* The free blocks and the blocks given out divide the pages between them, *)
(* and allocated_ counts the latter.                                       *)
Inv ==
  /\ TypeOK
  /\ NoOverlap
  /\ NothingLost
  /\ IsFiniteSet(live)
  /\ CountExact

(* The effect of TakeFirst on a list that is disjoint from live.           *)
LEMMA TakeFirstStep ==
  ASSUME Inv, NEW list \in Seq(Run), list # <<>>, Disjoint(list),
         live \cap Covered(list) = {}, TakeFirst(list)
  PROVE  LET b == <<Head(list).page, Head(list).first>> IN
         /\ b \in Block /\ b \notin live /\ live' = live \cup {b}
         /\ free' \in Seq(Run) /\ allocated' \in Nat /\ live' \in SUBSET Block
         /\ live' \cap Covered(free)' = {} /\ Disjoint(free)'
         /\ live' \cup Covered(free)' = live \cup Covered(list)
         /\ IsFiniteSet(live') /\ CountExact'
<1> DEFINE b == <<Head(list).page, Head(list).first>>
<1>1. /\ b \in Block /\ b \in Covered(list)
      /\ WithoutFirst(list) \in Seq(Run)
      /\ Covered(WithoutFirst(list)) = Covered(list) \ {b}
      /\ Disjoint(WithoutFirst(list))
  BY FirstTaken
<1>2. /\ live' = live \cup {b}
      /\ free' = WithoutFirst(list)
      /\ allocated' = IF Counts THEN allocated + 1 ELSE allocated
  BY DEF TakeFirst
<1> HIDE DEF b
<1>3. b \notin live /\ live \in SUBSET Block /\ allocated \in Nat
      /\ IsFiniteSet(live)
  BY <1>1 DEF Inv, TypeOK
<1>4. Covered(free)' = Covered(list) \ {b} /\ Disjoint(free)'
  BY <1>1, <1>2 DEF Covered, Disjoint
<1>5. IsFiniteSet(live') /\ Cardinality(live') = Cardinality(live) + 1
  BY <1>2, <1>3, FS_AddElement
<1>6. CountExact'
  BY <1>2, <1>5 DEF Inv, CountExact
<1>7. live' \in SUBSET Block /\ allocated' \in Nat
  BY <1>1, <1>2, <1>3
<1>8. QED BY <1>1, <1>2, <1>3, <1>4, <1>5, <1>6, <1>7 DEF b

LEMMA AllocStep == Inv /\ Alloc => Inv'
<1> SUFFICES ASSUME Inv, Alloc PROVE Inv'
  OBVIOUS
<1>1. CASE free # <<>> /\ TakeFirst(free) /\ UNCHANGED pages
  <2>1. free \in Seq(Run) /\ Disjoint(free) /\ live \cap Covered(free) = {}
    BY DEF Inv, TypeOK, NoOverlap
  <2>2. QED BY <1>1, <2>1, TakeFirstStep
            DEF Inv, TypeOK, NoOverlap, NothingLost
<1>2. ASSUME NEW pg \in Page \ pages, free = <<>>, pages' = pages \cup {pg},
             TakeFirst(WithNewPage(pg))
      PROVE  Inv'
  <2> DEFINE r == [page |-> pg, first |-> 1, num |-> BlocksPerPage]
  <2>1. r \in Run
    BY BlockAllocatorAssumption DEF Run
  <2>2. BlocksOf(r) = {pg} \X (1 .. BlocksPerPage)
    BY BlockAllocatorAssumption DEF BlocksOf
  <2>3. Covered(free) = {} /\ Disjoint(free) /\ free \in Seq(Run)
    BY <1>2 DEF Covered, Disjoint, Inv, TypeOK
  <2>4. live = pages \X (1 .. BlocksPerPage)
    BY <2>3 DEF Inv, NothingLost
  <2>5. WithNewPage(pg) = <<r>> \o free
    BY DEF WithNewPage
  <2> HIDE DEF r
  <2>6. /\ WithNewPage(pg) \in Seq(Run) /\ WithNewPage(pg) # <<>>
        /\ Covered(WithNewPage(pg)) = {pg} \X (1 .. BlocksPerPage)
        /\ Disjoint(WithNewPage(pg))
    BY <2>1, <2>2, <2>3, <2>5, ConsRun
  <2>7. live \cap Covered(WithNewPage(pg)) = {}
    BY <1>2, <2>4, <2>6
  <2>8. live \cup Covered(WithNewPage(pg)) = pages' \X (1 .. BlocksPerPage)
    BY <1>2, <2>4, <2>6
  <2>9. QED BY <1>2, <2>6, <2>7, <2>8, TakeFirstStep
            DEF Inv, TypeOK, NoOverlap, NothingLost
<1>3. QED BY <1>1, <1>2 DEF Alloc

LEMMA FreeStep == ASSUME NEW b \in Block PROVE Inv /\ Free(b) => Inv'
<1> SUFFICES ASSUME Inv, Free(b) PROVE Inv'
  OBVIOUS
<1> DEFINE r == [page |-> b[1], first |-> b[2], num |-> 1]
<1>1. r \in Run /\ BlocksOf(r) = {b}
  <2>1. b[1] \in Page /\ b[2] \in 1 .. BlocksPerPage /\ b = <<b[1], b[2]>>
    BY DEF Block
  <2>2. b[2] + 1 - 1 = b[2] /\ b[2] .. b[2] = {b[2]} /\ b[2] <= BlocksPerPage
    BY <2>1, BlockAllocatorAssumption
  <2>3. r \in Run
    BY <2>1, <2>2, BlockAllocatorAssumption DEF Run
  <2>4. BlocksOf(r) = {b[1]} \X {b[2]}
    BY <2>2 DEF BlocksOf
  <2>5. QED BY <2>1, <2>3, <2>4
<1>2. free' = <<r>> \o free /\ live' = live \ {b} /\ b \in live
      /\ pages' = pages
  BY DEF Free
<1> HIDE DEF r
<1>3. free \in Seq(Run) /\ Disjoint(free) /\ BlocksOf(r) \cap Covered(free) = {}
  BY <1>1, <1>2 DEF Inv, TypeOK, NoOverlap
<1>4. /\ free' \in Seq(Run) /\ Disjoint(free)'
      /\ Covered(free)' = {b} \cup Covered(free)
  <2>1. /\ <<r>> \o free \in Seq(Run) /\ Disjoint(<<r>> \o free)
        /\ Covered(<<r>> \o free) = {b} \cup Covered(free)
    BY <1>1, <1>3, ConsRun
  <2>2. QED BY <1>2, <2>1 DEF Covered, Disjoint
<1>5. NoOverlap' /\ NothingLost'
  BY <1>2, <1>4 DEF Inv, NoOverlap, NothingLost
<1>6. /\ IsFiniteSet(live') /\ Cardinality(live') = Cardinality(live) - 1
      /\ Cardinality(live) \in Nat /\ Cardinality(live') \in Nat
  BY <1>2, FS_RemoveElement, FS_CardinalityType DEF Inv
<1>7. CountExact' /\ allocated' \in Nat
  BY <1>6 DEF Free, Inv, CountExact, TypeOK
<1>8. QED BY <1>2, <1>4, <1>5, <1>6, <1>7 DEF Inv, TypeOK

LEMMA PurgeStep == ASSUME Counts PROVE Inv /\ Purge => Inv'
<1> SUFFICES ASSUME Inv, Purge PROVE Inv'
  OBVIOUS
<1>1. live = {}
  BY FS_EmptySet DEF Purge, Inv, CountExact
<1>2. Covered(<<>>) = {} /\ Disjoint(<<>>) /\ <<>> \in Seq(Run)
  BY DEF Covered, Disjoint
<1>3. free' = <<>> /\ pages' = {} /\ live' = live /\ allocated' = allocated
  BY DEF Purge
<1>4. Covered(free)' = {} /\ Disjoint(free)'
  BY <1>2, <1>3 DEF Covered, Disjoint
<1>5. QED BY <1>1, <1>2, <1>3, <1>4
          DEF Inv, TypeOK, NoOverlap, NothingLost, CountExact

LEMMA InvInit == Init => Inv
<1> SUFFICES ASSUME Init PROVE Inv
  OBVIOUS
<1>1. Covered(<<>>) = {} /\ Disjoint(<<>>) /\ <<>> \in Seq(Run)
  BY DEF Covered, Disjoint
<1>2. QED BY <1>1, FS_EmptySet
          DEF Init, Inv, TypeOK, NoOverlap, NothingLost, CountExact

LEMMA InvStep == ASSUME Counts PROVE Inv /\ [Next]_vars => Inv'
<1> SUFFICES ASSUME Inv, [Next]_vars PROVE Inv'
  OBVIOUS
<1>1. CASE UNCHANGED vars
  BY <1>1 DEF vars, Inv, TypeOK, NoOverlap, NothingLost, CountExact, Covered,
              Disjoint
<1>2. QED BY <1>1, AllocStep, FreeStep, PurgeStep DEF Next

LEMMA InvAlways == ASSUME Counts PROVE Spec => []Inv
BY InvInit, InvStep, PTL DEF Spec

(* TypeCorrect: every run of the free list stays within its page.          *)
THEOREM TypeCorrect == ASSUME Counts PROVE Spec => []TypeOK
BY InvAlways, PTL DEF Inv

(* PartitionCorrect: from Android Q on, every block of a mapped page is    *)
(* given out or on the free list, never both and never twice, and no other *)
(* block is.                                                               *)
THEOREM PartitionCorrect == ASSUME Counts PROVE Spec => []Partition
BY InvAlways, PTL DEF Inv, Partition

(* CountExactCorrect: allocated_ always counts the blocks given out.       *)
THEOREM CountExactCorrect == ASSUME Counts PROVE Spec => []CountExact
BY InvAlways, PTL DEF Inv

-----------------------------------------------------------------------------
(***************************************************************************)
(* Each step is one of Allocator's.                                        *)
(***************************************************************************)
Mapped == pages \X (1 .. BlocksPerPage)

LEMMA StepMaps == ASSUME Counts PROVE Inv /\ [Next]_vars => [A!Next]_(A!vars)
<1> SUFFICES ASSUME Inv, [Next]_vars PROVE [A!Next]_(A!vars)
  OBVIOUS
<1> USE DEF A!Next, A!vars
<1>0. Mapped \in SUBSET Block
  BY DEF Inv, TypeOK, Block, Mapped
<1>1. CASE Alloc
  <2>1. ASSUME free # <<>>, TakeFirst(free), UNCHANGED pages
        PROVE  \E b \in Block : A!Give(b)
    <3>1. free \in Seq(Run) /\ Disjoint(free) /\ live \cap Covered(free) = {}
      BY DEF Inv, TypeOK, NoOverlap
    <3> DEFINE b == <<Head(free).page, Head(free).first>>
    <3>2. b \in Block /\ b \notin live /\ live' = live \cup {b}
      BY <2>1, <3>1, TakeFirstStep
    <3>3. b \in Mapped
      BY <2>1, <3>1, FirstTaken DEF Inv, NothingLost, Mapped
    <3> HIDE DEF b
    <3>4. Mapped' = Mapped
      BY <2>1 DEF Mapped
    <3>5. QED BY <1>0, <3>2, <3>3, <3>4 DEF A!Give, Mapped
  <2>2. ASSUME NEW pg \in Page \ pages, pages' = pages \cup {pg}, free = <<>>,
               TakeFirst(WithNewPage(pg))
        PROVE  \E b \in Block : A!Give(b)
    <3> DEFINE b == <<pg, 1>>
    <3>1. b \in Block /\ b \in Mapped' /\ Mapped \subseteq Mapped'
          /\ Mapped' \in SUBSET Block
      BY <2>2, BlockAllocatorAssumption DEF Block, Mapped, Inv, TypeOK
    <3>2. Head(WithNewPage(pg)) = [page |-> pg, first |-> 1,
                                  num |-> BlocksPerPage]
      BY <2>2 DEF WithNewPage
    <3>3. live' = live \cup {b}
      BY <2>2, <3>2 DEF TakeFirst
    <3>4. b \notin live
      BY <2>2 DEF Inv, NothingLost
    <3> HIDE DEF b
    <3>5. QED BY <3>1, <3>3, <3>4 DEF A!Give, Mapped
  <2>3. QED BY <1>1, <2>1, <2>2 DEF Alloc
<1>2. ASSUME NEW b \in Block, Free(b) PROVE A!TakeBack(b)
  BY <1>2 DEF Free, A!TakeBack
<1>3. CASE Purge
  <2>1. live = {}
    BY <1>3, FS_EmptySet DEF Purge, Inv, CountExact
  <2>2. pages' \X (1 .. BlocksPerPage) = {} /\ live' = live
    BY <1>3 DEF Purge
  <2>3. QED BY <2>1, <2>2 DEF A!Unmap
<1>4. CASE UNCHANGED vars
  BY <1>4 DEF vars
<1>5. QED BY <1>1, <1>2, <1>3, <1>4 DEF Next

(* RefinesAllocatorCorrect: LinkerBlockAllocator implements Allocator from *)
(* Android Q on.                                                           *)
THEOREM RefinesAllocatorCorrect == ASSUME Counts PROVE Spec => RefinesAllocator
<1>1. Init => A!Init
  BY DEF Init, A!Init
<1>2. QED BY <1>1, StepMaps, InvAlways, PTL DEF Spec, RefinesAllocator, A!Spec

-----------------------------------------------------------------------------
(***************************************************************************)
(* The entries of a list, in order: an invariant that every step keeps.    *)
(***************************************************************************)
(* The k-th entry of a list, null before the first and after the last.     *)
EntryOf(q, k) == IF k \in 1 .. Len(q) THEN q[k] ELSE Null

(* The entries are q, in this order; remove_if is behind entry k of them.  *)
Chained(q) ==
  /\ q \in Seq(Block)
  /\ \A i, j \in 1 .. Len(q) : q[i] = q[j] => i = j
  /\ head = EntryOf(q, 1)
  /\ \A i \in 1 .. Len(q) : next[q[i]] = EntryOf(q, i + 1)
  /\ \A i \in 1 .. Len(q) : element[q[i]] \in Element

Owned(q) ==
  /\ \A i \in 1 .. Len(q) : q[i] \in used \ {header}
  /\ \A b \in used : b = header \/ \E i \in 1 .. Len(q) : q[i] = b

Tailed(q) == pc # "clear" => tail = EntryOf(q, Len(q))

Pointed(q) ==
  /\ pc = "remove" => \E k \in 0 .. Len(q) :
       p = EntryOf(q, k) /\ e = EntryOf(q, k + 1)
  /\ pc # "remove" => p = Null /\ e = Null

Represents(q) == Chained(q) /\ Owned(q) /\ Tailed(q) /\ Pointed(q)

ListType ==
  /\ next \in [Block -> Block \cup {Null}]
  /\ element \in [Block -> Element \cup {Null}]
  /\ used \subseteq live
  /\ header \in Block \cup {Null, NoHeader}
  /\ header \in Block => header \in used
  /\ pc \in {"idle", "header", "entry", "clear", "remove"}
  /\ pc = "header" => header = Null
  /\ pc = "entry" => header # Null
  /\ pc \in {"header", "entry"} => pushed.element \in Element

ListInv == Inv /\ ListType /\ \E q : Represents(q)

-----------------------------------------------------------------------------
LEMMA EntryFacts ==
  ASSUME NEW q \in Seq(Block), NEW k \in Int
  PROVE  /\ EntryOf(q, k) \in Block \cup {Null}
         /\ k \in 1 .. Len(q) => EntryOf(q, k) = q[k] /\ q[k] \in Block
         /\ k \notin 1 .. Len(q) => EntryOf(q, k) = Null
         /\ EntryOf(q, k) = Null <=> k \notin 1 .. Len(q)
<1>1. k \in 1 .. Len(q) => q[k] \in Block
  OBVIOUS
<1> QED BY <1>1, LinkedListsAssumption DEF EntryOf

(* The block alloc gives is one that nobody has.                           *)
LEMMA GivenIsNew ==
  ASSUME Inv, Alloc
  PROVE  Given \in Block /\ Given \notin live /\ live' = live \cup {Given}
<1>1. \E b \in Block : b \notin live /\ live' = live \cup {b}
  <2>1. CASE free # <<>> /\ TakeFirst(free)
    <3>1. free \in Seq(Run) /\ Disjoint(free) /\ live \cap Covered(free) = {}
      BY DEF Inv, TypeOK, NoOverlap
    <3> QED BY <2>1, <3>1, TakeFirstStep
  <2>2. ASSUME NEW pg \in Page \ pages, free = <<>>, TakeFirst(WithNewPage(pg))
        PROVE  \E b \in Block : b \notin live /\ live' = live \cup {b}
    <3> DEFINE b == <<pg, 1>>
    <3>1. b \in Block /\ b \notin live
      <4>1. b \in Block
        BY <2>2, BlockAllocatorAssumption DEF Block
      <4>2. b \notin live
        BY <2>2 DEF Inv, NothingLost, Covered
      <4> QED BY <4>1, <4>2
    <3>2. Head(WithNewPage(pg)) = [page |-> pg, first |-> 1, num |-> BlocksPerPage]
      BY <2>2 DEF WithNewPage
    <3>3. live' = live \cup {b}
      BY <2>2, <3>2 DEF TakeFirst
    <3> QED BY <3>1, <3>3
  <2> QED BY <2>1, <2>2 DEF Alloc
<1> QED BY <1>1 DEF Given

LEMMA Consed ==
  ASSUME NEW q \in Seq(Block), NEW b \in Block
  PROVE  LET c == <<b>> \o q IN
         /\ c \in Seq(Block) /\ Len(c) = Len(q) + 1
         /\ c[1] = b /\ \A i \in 1 .. Len(q) : c[i + 1] = q[i]
         /\ \A i \in 1 .. Len(c) : i = 1 \/ (i - 1 \in 1 .. Len(q) /\ c[i] = q[i - 1])
<1> DEFINE c == <<b>> \o q
<1>1. c \in Seq(Block) /\ Len(c) = Len(q) + 1
  OBVIOUS
<1>2. c[1] = b /\ \A i \in 1 .. Len(q) : c[i + 1] = q[i]
  OBVIOUS
<1>3. Len(q) \in Nat
  OBVIOUS
<1> HIDE DEF c
<1>4. \A i \in 1 .. Len(c) : i = 1 \/ (i - 1 \in 1 .. Len(q) /\ c[i] = q[i - 1])
  <2> TAKE i \in 1 .. Len(c)
  <2>1. i # 1 => i - 1 \in 1 .. Len(q) /\ (i - 1) + 1 = i
    BY <1>1, <1>3
  <2> QED BY <1>2, <2>1
<1> QED BY <1>1, <1>2, <1>4 DEF c

LEMMA Appended ==
  ASSUME NEW q \in Seq(Block), NEW b \in Block
  PROVE  LET c == Append(q, b) IN
         /\ c \in Seq(Block) /\ Len(c) = Len(q) + 1
         /\ c[Len(c)] = b /\ \A i \in 1 .. Len(q) : c[i] = q[i]
         /\ \A i \in 1 .. Len(c) : i = Len(q) + 1 \/ i \in 1 .. Len(q)
OBVIOUS

(* A list without its entry k + 1.                                         *)
Cut(q, k) == [i \in 1 .. Len(q) - 1 |-> IF i <= k THEN q[i] ELSE q[i + 1]]

LEMMA CutFacts ==
  ASSUME NEW q \in Seq(Block), NEW k \in 0 .. Len(q) - 1
  PROVE  /\ Cut(q, k) \in Seq(Block) /\ Len(Cut(q, k)) = Len(q) - 1
         /\ \A i \in 1 .. Len(q) - 1 :
              /\ i <= k => i \in 1 .. Len(q) /\ Cut(q, k)[i] = q[i]
              /\ i > k => i + 1 \in 1 .. Len(q) /\ Cut(q, k)[i] = q[i + 1]
         /\ Len(q) \in Nat \ {0}
<1>1. Len(q) \in Nat /\ Len(q) - 1 \in Nat
  OBVIOUS
<1>2. \A i \in 1 .. Len(q) - 1 : (IF i <= k THEN q[i] ELSE q[i + 1]) \in Block
  BY <1>1
<1>3. Cut(q, k) \in [1 .. Len(q) - 1 -> Block]
  BY <1>2 DEF Cut
<1>4. Cut(q, k) \in Seq(Block) /\ Len(Cut(q, k)) = Len(q) - 1
  BY <1>1, <1>3, SeqDef, LenProperties
<1> QED BY <1>1, <1>4 DEF Cut

-----------------------------------------------------------------------------
(* The steps that leave the entries and the fields that hold them alone.   *)
sameList == <<header, head, tail, next, element, used, pc, pushed, e, p>>

LEMMA Frame ==
  ASSUME ListType, NEW q, Represents(q), UNCHANGED sameList, used \subseteq live'
  PROVE  ListType' /\ Represents(q)'
BY DEF ListType, Represents, Chained, Owned, Tailed, Pointed, sameList, EntryOf

(* Inv says nothing of the list.                                           *)
LEMMA InvFrame == ASSUME Inv, UNCHANGED vars PROVE Inv'
BY DEF vars, Inv, TypeOK, NoOverlap, NothingLost, CountExact, Covered, Disjoint

LEMMA InitStep == ListInit => ListInv
<1> SUFFICES ASSUME ListInit PROVE ListInv
  OBVIOUS
<1>1. Inv
  BY InvInit DEF ListInit
<1>2. ListType
  BY LinkedListsAssumption DEF ListInit, ListType
<1>3. Len(<<>>) = 0 /\ <<>> \in Seq(Block) /\ 1 .. 0 = {}
  OBVIOUS
<1>4. Represents(<<>>)
  BY <1>3 DEF Represents, Chained, Owned, Tailed, Pointed, EntryOf, ListInit
<1> QED BY <1>1, <1>2, <1>4 DEF ListInv

LEMMA PushStep ==
  ASSUME ListInv, NEW q, Represents(q),
         NEW x \in Element, NEW back \in BOOLEAN, Push(x, back)
  PROVE  ListInv' /\ Represents(q)'
<1>1. Inv'
  BY InvFrame DEF Push, ListInv
<1>2. ListType'
  BY DEF Push, ListInv, ListType, vars
<1>3. Represents(q)'
  BY DEF Push, Represents, Chained, Owned, Tailed, Pointed, EntryOf
<1> QED BY <1>1, <1>2, <1>3 DEF ListInv

LEMMA AllocHeaderStep ==
  ASSUME ListInv, NEW q, Represents(q), AllocHeader
  PROVE  ListInv' /\ Represents(q)'
<1>1. Inv'
  BY AllocStep DEF AllocHeader, ListInv
<1>2. PICK b : b = Given
  OBVIOUS
<1>3. b \in Block /\ b \notin live /\ live' = live \cup {b}
  BY <1>2, GivenIsNew DEF AllocHeader, ListInv
<1>4. /\ pc = "header" /\ pc' = "entry" /\ header' = b /\ used' = used \cup {b}
      /\ UNCHANGED <<head, tail, next, element, pushed, e, p, doomed>>
  BY <1>2 DEF AllocHeader
<1>5. ListType'
  BY <1>3, <1>4, LinkedListsAssumption DEF ListInv, ListType
<1>6. Represents(q)'
  <2>1. Chained(q)' /\ Tailed(q)' /\ Pointed(q)'
    BY <1>4 DEF Represents, Chained, Tailed, Pointed, EntryOf
  <2>2. header = Null /\ used \subseteq live /\ used \subseteq Block
    BY <1>4 DEF ListInv, ListType, Inv, TypeOK
  <2>3. Owned(q)'
    BY <1>3, <1>4, <2>2, LinkedListsAssumption DEF Represents, Owned
  <2> QED BY <2>1, <2>3 DEF Represents
<1> QED BY <1>1, <1>5, <1>6 DEF ListInv

(* What the two ends of a push have in common.                             *)
LEMMA EnteredStep ==
  ASSUME ListInv, NEW b, b = Given, Entered,
         next' \in [Block -> Block \cup {Null}]
  PROVE  /\ Inv' /\ ListType'
         /\ b \in Block /\ b \notin used /\ b # header
         /\ used' = used \cup {b}
         /\ element' = [element EXCEPT ![b] = pushed.element]
         /\ pushed.element \in Element
         /\ pc = "entry" /\ pc' = "idle"
         /\ UNCHANGED <<header, e, p>>
<1>1. Inv'
  BY AllocStep DEF Entered, ListInv
<1>2. b \in Block /\ b \notin live /\ live' = live \cup {b}
  BY GivenIsNew DEF Entered, ListInv
<1>3. /\ pc = "entry" /\ pc' = "idle" /\ used' = used \cup {b}
      /\ element' = [element EXCEPT ![b] = pushed.element]
      /\ UNCHANGED <<header, e, p>>
  BY DEF Entered
<1>4. pushed.element \in Element /\ b \notin used /\ b # header
  BY <1>2, <1>3, LinkedListsAssumption DEF ListInv, ListType
<1>5. ListType'
  BY <1>2, <1>3, <1>4, LinkedListsAssumption DEF ListInv, ListType
<1> QED BY <1>1, <1>2, <1>3, <1>4, <1>5

LEMMA PushFrontStep ==
  ASSUME ListInv, NEW q, Represents(q), NEW b, b = Given, PushFront
  PROVE  ListInv' /\ Represents(<<b>> \o q)'
<1> DEFINE c == <<b>> \o q
<1>1. next' \in [Block -> Block \cup {Null}]
  <2>1. next \in [Block -> Block \cup {Null}] /\ head \in Block \cup {Null}
    BY EntryFacts DEF Represents, Chained, ListInv, ListType
  <2> QED BY <2>1 DEF PushFront
<1>2. /\ Inv' /\ ListType' /\ b \in Block /\ b \notin used /\ b # header
      /\ used' = used \cup {b}
      /\ element' = [element EXCEPT ![b] = pushed.element]
      /\ pushed.element \in Element
      /\ pc = "entry" /\ pc' = "idle" /\ UNCHANGED <<header, e, p>>
  BY <1>1, EnteredStep DEF PushFront
<1>3. /\ next' = [next EXCEPT ![b] = head] /\ head' = b
      /\ tail' = IF tail = Null THEN b ELSE tail
  BY DEF PushFront
<1>4. q \in Seq(Block) /\ Len(q) \in Nat /\ \A i \in 1 .. Len(q) : q[i] \in Block
  BY DEF Represents, Chained
<1>5. /\ c \in Seq(Block) /\ Len(c) = Len(q) + 1
      /\ c[1] = b /\ \A i \in 1 .. Len(q) : c[i + 1] = q[i]
      /\ \A i \in 1 .. Len(c) : i = 1 \/ (i - 1 \in 1 .. Len(q) /\ c[i] = q[i - 1])
  BY <1>2, <1>4, Consed
<1> HIDE DEF c
<1>6. \A i \in 1 .. Len(c) : EntryOf(c, i + 1) = EntryOf(q, i)
  BY <1>4, <1>5 DEF EntryOf
<1>7. /\ \A i \in 1 .. Len(q) : q[i] \in used \ {header} /\ q[i] # b
      /\ \A x \in used : x = header \/ \E i \in 1 .. Len(q) : q[i] = x
  BY <1>2 DEF Represents, Owned
<1>8. Owned(c)'
  <2>1. \A i \in 1 .. Len(c) : c[i] \in used' \ {header'}
    BY <1>2, <1>5, <1>7
  <2>2. ASSUME NEW x \in used' PROVE x = header' \/ \E i \in 1 .. Len(c) : c[i] = x
    <3>1. CASE x = b
      BY <1>4, <1>5, <3>1
    <3>2. ASSUME NEW i \in 1 .. Len(q), q[i] = x PROVE \E j \in 1 .. Len(c) : c[j] = x
      <4>1. i + 1 \in 1 .. Len(c) /\ c[i + 1] = x
        BY <1>4, <1>5, <3>2
      <4> QED BY <4>1
    <3> QED BY <1>2, <1>7, <2>2, <3>1, <3>2
  <2> QED BY <2>1, <2>2 DEF Owned
<1>9. Chained(c)'
  <2>1. \A i, j \in 1 .. Len(c) : c[i] = c[j] => i = j
    <3> TAKE i, j \in 1 .. Len(c)
    <3>1. \A m, n \in 1 .. Len(q) : q[m] = q[n] => m = n
      BY DEF Represents, Chained
    <3>2. \A m \in 1 .. Len(q) : q[m] # b
      BY <1>7
    <3>3. /\ i = 1 \/ (i - 1 \in 1 .. Len(q) /\ c[i] = q[i - 1])
          /\ j = 1 \/ (j - 1 \in 1 .. Len(q) /\ c[j] = q[j - 1])
          /\ c[1] = b
      BY <1>5
    <3>4. i # 1 /\ j # 1 /\ c[i] = c[j] => i - 1 = j - 1
      BY <3>1, <3>3
    <3>5. i = 1 /\ j # 1 => c[i] # c[j]
      BY <3>2, <3>3
    <3>6. i # 1 /\ j = 1 => c[i] # c[j]
      BY <3>2, <3>3
    <3> QED BY <1>4, <1>5, <3>4, <3>5, <3>6
  <2>2. head' = EntryOf(c, 1)
    BY <1>3, <1>4, <1>5 DEF EntryOf
  <2>3. ASSUME NEW i \in 1 .. Len(c)
        PROVE  next'[c[i]] = EntryOf(c, i + 1) /\ element'[c[i]] \in Element
    <3>1. /\ head = EntryOf(q, 1)
          /\ \A m \in 1 .. Len(q) : next[q[m]] = EntryOf(q, m + 1)
          /\ \A m \in 1 .. Len(q) : element[q[m]] \in Element
      BY DEF Represents, Chained
    <3>2. next \in [Block -> Block \cup {Null}] /\ element \in [Block -> Element \cup {Null}]
      BY DEF ListInv, ListType
    <3>3. CASE i = 1
      <4>1. c[i] = b /\ EntryOf(c, i + 1) = head
        BY <1>5, <1>6, <3>1, <3>3
      <4> QED BY <1>2, <1>3, <3>2, <4>1
    <3>4. CASE i # 1
      <4>1. i - 1 \in 1 .. Len(q) /\ c[i] = q[i - 1] /\ q[i - 1] # b /\ q[i - 1] \in Block
        BY <1>4, <1>5, <1>7, <3>4
      <4>2. EntryOf(c, i + 1) = EntryOf(q, (i - 1) + 1)
        BY <1>5, <1>6
      <4> QED BY <1>2, <1>3, <3>1, <3>2, <4>1, <4>2
    <3> QED BY <3>3, <3>4
  <2> QED BY <1>5, <2>1, <2>2, <2>3 DEF Chained, EntryOf
<1>10. Tailed(c)'
  <2>1. tail = EntryOf(q, Len(q))
    BY <1>2 DEF Represents, Tailed
  <2>2. tail' = EntryOf(c, Len(c))
    <3>1. CASE Len(q) = 0
      BY <1>3, <1>4, <1>5, <2>1, <3>1 DEF EntryOf
    <3>2. CASE Len(q) # 0
      BY <1>3, <1>4, <1>5, <1>6, <2>1, <3>2, EntryFacts
    <3> QED BY <3>1, <3>2
  <2> QED BY <2>2 DEF Tailed, EntryOf
<1>11. Pointed(c)'
  BY <1>2 DEF Pointed, Represents
<1> QED BY <1>2, <1>8, <1>9, <1>10, <1>11 DEF ListInv, Represents, c

LEMMA PushBackStep ==
  ASSUME ListInv, NEW q, Represents(q), NEW b, b = Given, PushBack
  PROVE  ListInv' /\ Represents(Append(q, b))'
<1> DEFINE c == Append(q, b)
<1>1. q \in Seq(Block) /\ Len(q) \in Nat /\ \A i \in 1 .. Len(q) : q[i] \in Block
  BY DEF Represents, Chained
<1>2. tail = EntryOf(q, Len(q)) /\ head = EntryOf(q, 1)
  BY DEF Represents, Tailed, Chained, PushBack, Entered
<1>3. /\ next' = IF Len(q) = 0 THEN [next EXCEPT ![b] = Null]
                 ELSE [next EXCEPT ![b] = Null, ![q[Len(q)]] = b]
      /\ head' = IF Len(q) = 0 THEN b ELSE head
      /\ tail' = b
  <2>1. tail = Null <=> Len(q) = 0
    BY <1>1, <1>2, EntryFacts
  <2>2. Len(q) # 0 => tail = q[Len(q)]
    BY <1>1, <1>2, EntryFacts
  <2> QED BY <2>1, <2>2 DEF PushBack
<1>4. b \in Block
  BY GivenIsNew DEF PushBack, Entered, ListInv
<1>5. next \in [Block -> Block \cup {Null}] /\ element \in [Block -> Element \cup {Null}]
  BY DEF ListInv, ListType
<1>6. next' \in [Block -> Block \cup {Null}]
  BY <1>3, <1>4, <1>5
<1>7. /\ Inv' /\ ListType' /\ b \in Block /\ b \notin used /\ b # header
      /\ used' = used \cup {b}
      /\ element' = [element EXCEPT ![b] = pushed.element]
      /\ pushed.element \in Element
      /\ pc = "entry" /\ pc' = "idle" /\ UNCHANGED <<header, e, p>>
  BY <1>6, EnteredStep DEF PushBack
<1>8. /\ c \in Seq(Block) /\ Len(c) = Len(q) + 1
      /\ c[Len(c)] = b /\ \A i \in 1 .. Len(q) : c[i] = q[i]
      /\ \A i \in 1 .. Len(c) : i = Len(q) + 1 \/ i \in 1 .. Len(q)
  BY <1>1, <1>7, Appended
<1> HIDE DEF c
<1>9. /\ \A i \in 1 .. Len(q) : q[i] \in used \ {header} /\ q[i] # b
      /\ \A x \in used : x = header \/ \E i \in 1 .. Len(q) : q[i] = x
      /\ \A i, j \in 1 .. Len(q) : q[i] = q[j] => i = j
      /\ \A i \in 1 .. Len(q) : next[q[i]] = EntryOf(q, i + 1)
      /\ \A i \in 1 .. Len(q) : element[q[i]] \in Element
  BY <1>7 DEF Represents, Owned, Chained
<1>10. Owned(c)'
  <2>1. \A i \in 1 .. Len(c) : c[i] \in used' \ {header'}
    BY <1>1, <1>7, <1>8, <1>9
  <2>2. ASSUME NEW x \in used' PROVE x = header' \/ \E i \in 1 .. Len(c) : c[i] = x
    <3>1. CASE x = b
      BY <1>1, <1>8, <3>1
    <3>2. ASSUME NEW i \in 1 .. Len(q), q[i] = x PROVE \E j \in 1 .. Len(c) : c[j] = x
      BY <1>1, <1>8, <3>2
    <3> QED BY <1>7, <1>9, <2>2, <3>1, <3>2
  <2> QED BY <2>1, <2>2 DEF Owned
<1>11. Chained(c)'
  <2>1. \A i, j \in 1 .. Len(c) : c[i] = c[j] => i = j
    <3> TAKE i, j \in 1 .. Len(c)
    <3>1. i \in 1 .. Len(q) /\ j \in 1 .. Len(q) /\ c[i] = c[j] => i = j
      BY <1>8, <1>9
    <3>2. i \in 1 .. Len(q) /\ j = Len(q) + 1 => c[i] # c[j]
      BY <1>8, <1>9
    <3>3. i = Len(q) + 1 /\ j \in 1 .. Len(q) => c[i] # c[j]
      BY <1>8, <1>9
    <3> QED BY <1>8, <3>1, <3>2, <3>3
  <2>2. head' = EntryOf(c, 1)
    BY <1>1, <1>2, <1>3, <1>8 DEF EntryOf
  <2>3. ASSUME NEW i \in 1 .. Len(c)
        PROVE  next'[c[i]] = EntryOf(c, i + 1) /\ element'[c[i]] \in Element
    <3>1. CASE i = Len(q) + 1
      <4>1. c[i] = b /\ EntryOf(c, i + 1) = Null /\ (Len(q) # 0 => q[Len(q)] # b)
        BY <1>1, <1>8, <1>9, <3>1 DEF EntryOf
      <4> QED BY <1>1, <1>3, <1>4, <1>5, <1>7, <4>1
    <3>2. CASE i = Len(q)
      <4>1. c[i] = q[Len(q)] /\ EntryOf(c, i + 1) = b /\ q[Len(q)] # b /\ Len(q) # 0
            /\ q[Len(q)] \in Block /\ element[q[Len(q)]] \in Element
        BY <1>1, <1>8, <1>9, <3>2 DEF EntryOf
      <4> QED BY <1>3, <1>4, <1>5, <1>7, <4>1
    <3>3. CASE i \in 1 .. Len(q) - 1
      <4>1. /\ c[i] = q[i] /\ EntryOf(c, i + 1) = EntryOf(q, i + 1)
            /\ q[i] # b /\ q[i] \in Block /\ Len(q) # 0
            /\ element[q[i]] \in Element /\ next[q[i]] = EntryOf(q, i + 1)
        <5>1. i \in 1 .. Len(q) /\ i + 1 \in 1 .. Len(q) /\ i + 1 \in 1 .. Len(c)
          BY <1>1, <1>8, <3>3
        <5> QED BY <1>1, <1>8, <1>9, <5>1 DEF EntryOf
      <4>2. q[i] # q[Len(q)]
        BY <1>1, <1>9, <3>3
      <4> QED BY <1>3, <1>4, <1>5, <1>7, <4>1, <4>2
    <3> QED BY <1>1, <1>8, <3>1, <3>2, <3>3
  <2> QED BY <1>8, <2>1, <2>2, <2>3 DEF Chained, EntryOf
<1>12. Tailed(c)'
  BY <1>1, <1>3, <1>8 DEF Tailed, EntryOf
<1>13. Pointed(c)'
  BY <1>7 DEF Pointed, Represents
<1> QED BY <1>7, <1>10, <1>11, <1>12, <1>13 DEF ListInv, Represents, c

-----------------------------------------------------------------------------
(* The entries of a list that has lost one.                                *)
LEMMA CutEntries ==
  ASSUME NEW q \in Seq(Block), NEW k \in 0 .. Len(q) - 1
  PROVE  /\ \A j \in 1 .. k : EntryOf(Cut(q, k), j) = EntryOf(q, j)
         /\ \A j \in k + 1 .. Len(q) : EntryOf(Cut(q, k), j) = EntryOf(q, j + 1)
<1>1. /\ Cut(q, k) \in Seq(Block) /\ Len(Cut(q, k)) = Len(q) - 1
      /\ \A i \in 1 .. Len(q) - 1 :
           /\ i <= k => i \in 1 .. Len(q) /\ Cut(q, k)[i] = q[i]
           /\ i > k => i + 1 \in 1 .. Len(q) /\ Cut(q, k)[i] = q[i + 1]
      /\ Len(q) \in Nat \ {0}
  BY CutFacts
<1>2. ASSUME NEW j \in 1 .. k PROVE EntryOf(Cut(q, k), j) = EntryOf(q, j)
  <2>1. j \in 1 .. Len(q) - 1 /\ j <= k
    BY <1>1
  <2> QED BY <1>1, <2>1 DEF EntryOf
<1>3. ASSUME NEW j \in k + 1 .. Len(q) PROVE EntryOf(Cut(q, k), j) = EntryOf(q, j + 1)
  <2>1. CASE j = Len(q)
    BY <1>1, <2>1 DEF EntryOf
  <2>2. CASE j # Len(q)
    <3>1. j \in 1 .. Len(q) - 1 /\ j > k
      BY <1>1, <2>2
    <3> QED BY <1>1, <3>1 DEF EntryOf
  <2> QED BY <2>1, <2>2
<1> QED BY <1>2, <1>3

(* What pop_front, clear and remove_if have in common.                     *)
LEMMA CutStep ==
  ASSUME ListInv, NEW q, Represents(q), NEW k \in 0 .. Len(q) - 1,
         Freed(q[k + 1], IF k = 0 THEN next
                         ELSE [next EXCEPT ![q[k]] = next[q[k + 1]]]),
         head' = IF k = 0 THEN next[q[k + 1]] ELSE head,
         UNCHANGED header
  PROVE  /\ Inv' /\ Chained(Cut(q, k))' /\ Owned(Cut(q, k))'
         /\ next' \in [Block -> Block \cup {Null}]
         /\ element' \in [Block -> Element \cup {Null}]
         /\ used' \subseteq live'
         /\ header' \in Block => header' \in used'
         /\ Len(Cut(q, k)) = Len(q) - 1
<1> DEFINE c == Cut(q, k)
           d == q[k + 1]
<1>1. /\ q \in Seq(Block) /\ Len(q) \in Nat \ {0}
      /\ \A i, j \in 1 .. Len(q) : q[i] = q[j] => i = j
      /\ head = EntryOf(q, 1)
      /\ \A i \in 1 .. Len(q) : next[q[i]] = EntryOf(q, i + 1)
      /\ \A i \in 1 .. Len(q) : element[q[i]] \in Element
      /\ \A i \in 1 .. Len(q) : q[i] \in used \ {header}
      /\ \A b \in used : b = header \/ \E i \in 1 .. Len(q) : q[i] = b
  BY CutFacts DEF Represents, Chained, Owned
<1>2. \A i \in 1 .. Len(q) : q[i] \in Block
  BY <1>1
<1>3. /\ c \in Seq(Block) /\ Len(c) = Len(q) - 1
      /\ \A i \in 1 .. Len(q) - 1 :
           /\ i <= k => i \in 1 .. Len(q) /\ c[i] = q[i]
           /\ i > k => i + 1 \in 1 .. Len(q) /\ c[i] = q[i + 1]
  BY <1>1, CutFacts
<1>4. /\ \A j \in 1 .. k : EntryOf(c, j) = EntryOf(q, j)
      /\ \A j \in k + 1 .. Len(q) : EntryOf(c, j) = EntryOf(q, j + 1)
  BY <1>1, CutEntries
<1>5. k + 1 \in 1 .. Len(q) /\ d \in Block /\ d # header
      /\ next[d] = EntryOf(q, k + 2) /\ (k # 0 => k \in 1 .. Len(q))
  <2>1. k + 1 \in 1 .. Len(q) /\ (k # 0 => k \in 1 .. Len(q)) /\ (k + 1) + 1 = k + 2
    BY <1>1
  <2> QED BY <1>1, <1>2, <2>1
<1>6. /\ next \in [Block -> Block \cup {Null}]
      /\ element \in [Block -> Element \cup {Null}]
      /\ used \subseteq live /\ (header \in Block => header \in used)
  BY DEF ListInv, ListType
<1>7. /\ Free(d) /\ used' = used \ {d} /\ live' = live \ {d}
      /\ element' = [element EXCEPT ![d] = Null]
      /\ header' = header
  BY DEF Freed, Free
<1>8. next' = [IF k = 0 THEN next ELSE [next EXCEPT ![q[k]] = next[d]] EXCEPT ![d] = Null]
  BY DEF Freed
<1>9. /\ next[d] \in Block \cup {Null}
      /\ k # 0 => q[k] \in Block /\ q[k] # d
  <2>1. k # 0 => q[k] # d
    <3>1. k # k + 1
      OBVIOUS
    <3> QED BY <1>1, <1>5, <3>1
  <2> QED BY <1>2, <1>5, <1>6, <2>1
<1>10. \A b \in Block : b # d =>
         /\ next'[b] = IF k # 0 /\ b = q[k] THEN next[d] ELSE next[b]
         /\ element'[b] = element[b]
  BY <1>5, <1>6, <1>7, <1>8, <1>9
<1>11. /\ next' \in [Block -> Block \cup {Null}]
       /\ element' \in [Block -> Element \cup {Null}]
  BY <1>5, <1>6, <1>7, <1>8, <1>9
<1>12. Inv'
  BY <1>5, <1>7, FreeStep DEF ListInv
<1> HIDE DEF c
<1>13. Owned(c)'
  <2>1. ASSUME NEW i \in 1 .. Len(c) PROVE c[i] \in used' \ {header'}
    <3>1. CASE i <= k
      <4>1. i \in 1 .. Len(q) /\ c[i] = q[i] /\ i # k + 1
        BY <1>1, <1>3, <3>1
      <4> QED BY <1>1, <1>5, <1>7, <4>1
    <3>2. CASE i > k
      <4>1. i + 1 \in 1 .. Len(q) /\ c[i] = q[i + 1] /\ i + 1 # k + 1
        BY <1>1, <1>3, <3>2
      <4> QED BY <1>1, <1>5, <1>7, <4>1
    <3> QED BY <1>1, <1>3, <3>1, <3>2
  <2>2. ASSUME NEW x \in used' PROVE x = header' \/ \E i \in 1 .. Len(c) : c[i] = x
    <3>1. ASSUME NEW i \in 1 .. Len(q), q[i] = x PROVE \E j \in 1 .. Len(c) : c[j] = x
      <4>1. i # k + 1
        BY <1>7, <2>2, <3>1
      <4>2. CASE i <= k
        BY <1>1, <1>3, <3>1, <4>2
      <4>3. CASE i > k + 1
        <5>1. i - 1 \in 1 .. Len(c) /\ i - 1 > k /\ (i - 1) + 1 = i
          BY <1>1, <1>3, <3>1, <4>3
        <5> QED BY <1>3, <3>1, <5>1
      <4> QED BY <4>1, <4>2, <4>3
    <3> QED BY <1>1, <1>7, <2>2, <3>1
  <2> QED BY <2>1, <2>2 DEF Owned
<1>14. Chained(c)'
  <2>1. \A i, j \in 1 .. Len(c) : c[i] = c[j] => i = j
    <3> TAKE i, j \in 1 .. Len(c)
    <3>0. ASSUME NEW a \in 1 .. Len(c)
          PROVE  \E m \in 1 .. Len(q) : /\ c[a] = q[m] /\ (m = a \/ m = a + 1)
                                        /\ (m = a <=> a <= k)
      <4>1. a \in 1 .. Len(q) - 1 /\ a \in Int /\ k \in Int
        BY <1>1, <1>3
      <4>2. CASE a <= k
        BY <1>3, <4>1, <4>2
      <4>3. CASE a > k
        <5>1. a + 1 \in 1 .. Len(q) /\ c[a] = q[a + 1] /\ a + 1 # a /\ ~(a <= k)
          BY <1>3, <4>1, <4>3
        <5> QED BY <5>1
      <4> QED BY <4>1, <4>2, <4>3
    <3>1. PICK m \in 1 .. Len(q) : c[i] = q[m] /\ (m = i \/ m = i + 1)
                                  /\ (m = i <=> i <= k)
      BY <3>0
    <3>2. PICK n \in 1 .. Len(q) : c[j] = q[n] /\ (n = j \/ n = j + 1)
                                  /\ (n = j <=> j <= k)
      BY <3>0
    <3>3. c[i] = c[j] => m = n
      <4>1. \A a, b \in 1 .. Len(q) : q[a] = q[b] => a = b
        BY <1>1
      <4> QED BY <3>1, <3>2, <4>1
    <3>4. i \in Int /\ j \in Int /\ k \in Int
      OBVIOUS
    <3>5. m = n => i = j
      BY <3>1, <3>2, <3>4
    <3> QED BY <3>3, <3>5
  <2>2. head' = EntryOf(c, 1)
    <3>1. CASE k = 0
      <4>1. k + 1 \in k + 1 .. Len(q) /\ (k + 1) + 1 = k + 2
        BY <1>5
      <4>2. EntryOf(c, k + 1) = EntryOf(q, k + 2)
        BY <1>4, <4>1
      <4> QED BY <1>5, <3>1, <4>2
    <3>2. CASE k # 0
      <4>1. 1 \in 1 .. k
        BY <1>1, <3>2
      <4> QED BY <1>1, <1>4, <3>2, <4>1
    <3> QED BY <3>1, <3>2
  <2>3. ASSUME NEW i \in 1 .. Len(c)
        PROVE  next'[c[i]] = EntryOf(c, i + 1) /\ element'[c[i]] \in Element
    <3>1. CASE i <= k
      <4>1. i \in 1 .. Len(q) /\ c[i] = q[i] /\ q[i] \in Block /\ q[i] # d
        <5>1. i \in 1 .. Len(q) /\ c[i] = q[i] /\ i # k + 1
          BY <1>1, <1>3, <3>1
        <5> QED BY <1>1, <1>2, <1>5, <5>1
      <4>2. CASE i = k
        <5>1. EntryOf(c, i + 1) = EntryOf(q, k + 2)
          <6>1. k + 1 \in k + 1 .. Len(q) /\ (k + 1) + 1 = k + 2
            BY <1>5
          <6> QED BY <1>4, <4>2, <6>1
        <5>2. next'[c[i]] = next[d] /\ element'[c[i]] = element[q[i]]
          BY <1>10, <3>1, <4>1, <4>2
        <5> QED BY <1>1, <1>5, <4>1, <5>1, <5>2
      <4>3. CASE i # k
        <5>1. k \in 1 .. Len(q) /\ k # 0 /\ i + 1 \in 1 .. k
          BY <1>5, <3>1, <4>3
        <5>2. q[i] # q[k] /\ EntryOf(c, i + 1) = EntryOf(q, i + 1)
          BY <1>1, <1>4, <4>1, <4>3, <5>1
        <5> QED BY <1>1, <1>10, <4>1, <5>2
      <4> QED BY <4>2, <4>3
    <3>2. CASE i > k
      <4>1. /\ i + 1 \in 1 .. Len(q) /\ c[i] = q[i + 1] /\ q[i + 1] \in Block
            /\ q[i + 1] # d /\ (k # 0 => q[i + 1] # q[k])
        <5>1. i + 1 \in 1 .. Len(q) /\ c[i] = q[i + 1] /\ i + 1 # k + 1 /\ i + 1 # k
          BY <1>1, <1>3, <3>2
        <5> QED BY <1>1, <1>2, <1>5, <5>1
      <4>2. EntryOf(c, i + 1) = EntryOf(q, (i + 1) + 1)
        BY <1>1, <1>3, <1>4, <3>2
      <4> QED BY <1>1, <1>10, <4>1, <4>2
    <3> QED BY <1>1, <1>3, <3>1, <3>2
  <2>4. c \in Seq(Block)
    BY <1>3
  <2> QED BY <2>1, <2>2, <2>3, <2>4 DEF Chained, EntryOf
<1>15. used' \subseteq live' /\ (header' \in Block => header' \in used')
  BY <1>5, <1>6, <1>7
<1>16. Len(c) = Len(q) - 1
  BY <1>3
<1> QED BY <1>11, <1>12, <1>13, <1>14, <1>15, <1>16 DEF c

LEMMA FirstCutStep ==
  ASSUME ListInv, NEW q, Represents(q), head # Null, Freed(head, next),
         head' = next[head], UNCHANGED header
  PROVE  /\ Inv' /\ Chained(Cut(q, 0))' /\ Owned(Cut(q, 0))'
         /\ next' \in [Block -> Block \cup {Null}]
         /\ element' \in [Block -> Element \cup {Null}]
         /\ used' \subseteq live'
         /\ header' \in Block => header' \in used'
         /\ Len(Cut(q, 0)) = Len(q) - 1
         /\ 0 \in 0 .. Len(q) - 1
<1>1. q \in Seq(Block) /\ Len(q) \in Nat /\ head = EntryOf(q, 1)
  BY DEF Represents, Chained
<1>2. 0 \in 0 .. Len(q) - 1 /\ head = q[0 + 1]
  BY <1>1, EntryFacts
<1> QED BY <1>2, CutStep

LEMMA PopFrontStep ==
  ASSUME ListInv, NEW q, Represents(q), PopFront
  PROVE  ListInv' /\ Represents(Cut(q, 0))'
<1>1. /\ Inv' /\ Chained(Cut(q, 0))' /\ Owned(Cut(q, 0))'
      /\ next' \in [Block -> Block \cup {Null}]
      /\ element' \in [Block -> Element \cup {Null}]
      /\ used' \subseteq live'
      /\ header' \in Block => header' \in used'
      /\ Len(Cut(q, 0)) = Len(q) - 1
      /\ 0 \in 0 .. Len(q) - 1
  BY FirstCutStep DEF PopFront
<1>2. pc = "idle" /\ UNCHANGED <<header, pc, pushed, e, p>>
      /\ tail' = IF head' = Null THEN Null ELSE tail
  BY DEF PopFront
<1>3. ListType'
  BY <1>1, <1>2 DEF ListInv, ListType
<1>4. Pointed(Cut(q, 0))'
  BY <1>2 DEF Represents, Pointed
<1>5. Tailed(Cut(q, 0))'
  <2>1. /\ q \in Seq(Block) /\ Len(q) \in Nat \ {0}
        /\ Cut(q, 0) \in Seq(Block)
    BY <1>1, CutFacts DEF Represents, Chained
  <2>2. head' = EntryOf(Cut(q, 0), 1) /\ tail = EntryOf(q, Len(q))
    BY <1>1, <1>2 DEF Represents, Chained, Tailed, EntryOf
  <2>3. head' = Null <=> Len(q) = 1
    BY <1>1, <2>1, <2>2, EntryFacts
  <2>4. CASE Len(q) = 1
    BY <1>1, <1>2, <2>3, <2>4 DEF Tailed, EntryOf
  <2>5. CASE Len(q) # 1
    <3>1. EntryOf(Cut(q, 0), Len(q) - 1) = EntryOf(q, (Len(q) - 1) + 1)
      <4>1. Len(q) - 1 \in 1 .. Len(q)
        <5>1. \A n \in Nat \ {0} : n # 1 => n - 1 \in 1 .. n
          OBVIOUS
        <5> QED BY <2>1, <2>5, <5>1
      <4>2. \A j \in 0 + 1 .. Len(q) : EntryOf(Cut(q, 0), j) = EntryOf(q, j + 1)
        BY <1>1, <2>1, CutEntries
      <4> QED BY <4>1, <4>2
    <3>2. tail' = EntryOf(Cut(q, 0), Len(Cut(q, 0)))
      BY <1>1, <1>2, <2>1, <2>2, <2>3, <2>5, <3>1
    <3> QED BY <3>2 DEF Tailed, EntryOf
  <2> QED BY <2>4, <2>5
<1> QED BY <1>1, <1>3, <1>4, <1>5 DEF ListInv, Represents

LEMMA ClearFirstStep ==
  ASSUME ListInv, NEW q, Represents(q), ClearFirst
  PROVE  ListInv' /\ Represents(Cut(q, 0))'
<1>1. /\ Inv' /\ Chained(Cut(q, 0))' /\ Owned(Cut(q, 0))'
      /\ next' \in [Block -> Block \cup {Null}]
      /\ element' \in [Block -> Element \cup {Null}]
      /\ used' \subseteq live'
      /\ header' \in Block => header' \in used'
  BY FirstCutStep DEF ClearFirst
<1>2. pc = "clear" /\ UNCHANGED <<header, pc, pushed, e, p>>
  BY DEF ClearFirst
<1>3. ListType'
  BY <1>1, <1>2 DEF ListInv, ListType
<1>4. Pointed(Cut(q, 0))' /\ Tailed(Cut(q, 0))'
  BY <1>2 DEF Represents, Pointed, Tailed
<1> QED BY <1>1, <1>3, <1>4 DEF ListInv, Represents

LEMMA RemoveThisStep ==
  ASSUME ListInv, NEW q, Represents(q), RemoveThis,
         NEW k \in 0 .. Len(q), p = EntryOf(q, k), e = EntryOf(q, k + 1)
  PROVE  /\ ListInv' /\ k \in 0 .. Len(q) - 1 /\ e = q[k + 1]
         /\ Represents(Cut(q, k))'
         /\ p' = EntryOf(Cut(q, k), k) /\ e' = EntryOf(Cut(q, k), k + 1)
<1>1. /\ q \in Seq(Block) /\ Len(q) \in Nat /\ tail = EntryOf(q, Len(q))
      /\ \A i, j \in 1 .. Len(q) : q[i] = q[j] => i = j
      /\ \A i \in 1 .. Len(q) : next[q[i]] = EntryOf(q, i + 1)
  BY DEF Represents, Chained, Tailed, RemoveThis, Unlinked
<1>2. k \in 0 .. Len(q) - 1 /\ k + 1 \in 1 .. Len(q) /\ e = q[k + 1]
  BY <1>1, EntryFacts DEF RemoveThis, Unlinked
<1>3. p = Null <=> k = 0
  BY <1>1, EntryFacts
<1>4. k # 0 => p = q[k]
  BY <1>1 DEF EntryOf
<1>5. /\ pc = "remove" /\ UNCHANGED <<header, pc, pushed, p>>
      /\ tail' = IF tail = e THEN p ELSE tail
      /\ e' = next[e]
      /\ head' = IF k = 0 THEN next[q[k + 1]] ELSE head
  BY <1>2, <1>3 DEF RemoveThis, Unlinked
<1>6. Freed(q[k + 1], IF k = 0 THEN next
                      ELSE [next EXCEPT ![q[k]] = next[q[k + 1]]])
  <2>1. CASE k = 0
    BY <1>2, <1>3, <2>1 DEF RemoveThis, Unlinked
  <2>2. CASE k # 0
    BY <1>2, <1>3, <1>4, <2>2 DEF RemoveThis, Unlinked
  <2> QED BY <2>1, <2>2
<1>7. /\ Inv' /\ Chained(Cut(q, k))' /\ Owned(Cut(q, k))'
      /\ next' \in [Block -> Block \cup {Null}]
      /\ element' \in [Block -> Element \cup {Null}]
      /\ used' \subseteq live'
      /\ header' \in Block => header' \in used'
      /\ Len(Cut(q, k)) = Len(q) - 1
  BY <1>2, <1>5, <1>6, CutStep
<1>8. /\ \A j \in 1 .. k : EntryOf(Cut(q, k), j) = EntryOf(q, j)
      /\ \A j \in k + 1 .. Len(q) : EntryOf(Cut(q, k), j) = EntryOf(q, j + 1)
  BY <1>1, <1>2, CutEntries
<1>9. p' = EntryOf(Cut(q, k), k) /\ e' = EntryOf(Cut(q, k), k + 1)
  <2>1. EntryOf(Cut(q, k), k) = EntryOf(q, k)
    BY <1>2, <1>8 DEF EntryOf
  <2>2. EntryOf(Cut(q, k), k + 1) = EntryOf(q, (k + 1) + 1)
    BY <1>2, <1>8
  <2> QED BY <1>1, <1>2, <1>5, <2>1, <2>2
<1>10. ListType'
  BY <1>5, <1>7 DEF ListInv, ListType
<1>11. Pointed(Cut(q, k))'
  <2>1. k \in 0 .. Len(Cut(q, k))
    BY <1>1, <1>2, <1>7
  <2> QED BY <1>5, <1>9, <2>1 DEF Pointed, EntryOf
<1>12. tail' = EntryOf(Cut(q, k), Len(q) - 1)
  <2>1. CASE k = Len(q) - 1
    <3>1. tail = e
      BY <1>1, <1>2, <2>1
    <3> QED BY <1>5, <1>9, <2>1, <3>1
  <2>2. CASE k # Len(q) - 1
    <3>1. Len(q) \in 1 .. Len(q) /\ k + 1 # Len(q) /\ Len(q) - 1 \in k + 1 .. Len(q)
      BY <1>1, <1>2, <2>2
    <3>2. tail # e
      BY <1>1, <1>2, <3>1 DEF EntryOf
    <3>3. EntryOf(Cut(q, k), Len(q) - 1) = EntryOf(q, (Len(q) - 1) + 1)
      BY <1>8, <3>1
    <3>4. (Len(q) - 1) + 1 = Len(q)
      BY <1>1
    <3> QED BY <1>1, <1>5, <3>2, <3>3, <3>4
  <2> QED BY <2>1, <2>2
<1>13. Tailed(Cut(q, k))'
  BY <1>7, <1>12 DEF Tailed, EntryOf
<1> QED BY <1>2, <1>7, <1>9, <1>10, <1>11, <1>13 DEF ListInv, Represents

-----------------------------------------------------------------------------
LEMMA KeepThisStep ==
  ASSUME ListInv, NEW q, Represents(q), KeepThis
  PROVE  ListInv' /\ Represents(q)'
<1>1. Inv'
  BY InvFrame DEF KeepThis, ListInv
<1>2. pc = "remove" /\ pc' = pc /\ p' = e /\ e' = next[e] /\ e # Null
      /\ UNCHANGED <<vars, header, head, tail, next, element, used, pushed>>
  BY DEF KeepThis
<1>3. ListType'
  BY <1>2 DEF ListInv, ListType, vars
<1>4. Chained(q)' /\ Owned(q)' /\ Tailed(q)'
  BY <1>2 DEF Represents, Chained, Owned, Tailed, EntryOf
<1>5. Pointed(q)'
  <2>1. PICK k \in 0 .. Len(q) : e = EntryOf(q, k + 1)
    BY <1>2 DEF Represents, Pointed
  <2>2. q \in Seq(Block) /\ Len(q) \in Nat
        /\ \A i \in 1 .. Len(q) : next[q[i]] = EntryOf(q, i + 1)
    BY DEF Represents, Chained
  <2>3. k + 1 \in 1 .. Len(q) /\ e = q[k + 1]
    BY <1>2, <2>1, <2>2, EntryFacts
  <2>4. k + 1 \in 0 .. Len(q) /\ p' = EntryOf(q, k + 1) /\ e' = EntryOf(q, (k + 1) + 1)
    BY <1>2, <2>1, <2>2, <2>3
  <2> QED BY <1>2, <2>4 DEF Pointed, EntryOf
<1> QED BY <1>1, <1>3, <1>4, <1>5 DEF ListInv, Represents

LEMMA RemoveDoneStep ==
  ASSUME ListInv, NEW q, Represents(q), RemoveDone
  PROVE  ListInv' /\ Represents(q)'
<1>1. Inv'
  BY InvFrame DEF RemoveDone, ListInv
<1>2. ListType'
  BY DEF RemoveDone, ListInv, ListType, vars
<1>3. Represents(q)'
  BY DEF RemoveDone, Represents, Chained, Owned, Tailed, Pointed, EntryOf
<1> QED BY <1>1, <1>2, <1>3 DEF ListInv

LEMMA RemoveIfStep ==
  ASSUME ListInv, NEW q, Represents(q), NEW S, RemoveIf(S)
  PROVE  ListInv' /\ Represents(q)'
<1>1. Inv'
  BY InvFrame DEF RemoveIf, ListInv
<1>2. ListType'
  BY DEF RemoveIf, ListInv, ListType, vars
<1>3. Chained(q)' /\ Owned(q)' /\ Tailed(q)'
  BY DEF RemoveIf, Represents, Chained, Owned, Tailed, EntryOf
<1>4. Pointed(q)'
  <2>1. q \in Seq(Block) /\ Len(q) \in Nat /\ head = EntryOf(q, 1)
    BY DEF Represents, Chained
  <2>2. pc' = "remove" /\ e' = EntryOf(q, 0 + 1) /\ p' = EntryOf(q, 0)
    BY <2>1, EntryFacts DEF RemoveIf
  <2>3. 0 \in 0 .. Len(q)
    BY <2>1
  <2> QED BY <2>2, <2>3 DEF Pointed, EntryOf
<1> QED BY <1>1, <1>2, <1>3, <1>4 DEF ListInv, Represents

LEMMA ClearStep ==
  ASSUME ListInv, NEW q, Represents(q), Clear
  PROVE  ListInv' /\ Represents(q)'
<1>1. Inv'
  BY InvFrame DEF Clear, ListInv
<1>2. ListType'
  BY DEF Clear, ListInv, ListType, vars
<1>3. Represents(q)'
  BY DEF Clear, Represents, Chained, Owned, Tailed, Pointed, EntryOf
<1> QED BY <1>1, <1>2, <1>3 DEF ListInv

LEMMA ClearDoneStep ==
  ASSUME ListInv, NEW q, Represents(q), ClearDone
  PROVE  ListInv' /\ Represents(q)' /\ q = <<>>
<1>1. Inv'
  BY InvFrame DEF ClearDone, ListInv
<1>2. ListType'
  BY DEF ClearDone, ListInv, ListType, vars
<1>3. Chained(q)' /\ Owned(q)' /\ Pointed(q)'
  BY DEF ClearDone, Represents, Chained, Owned, Pointed, EntryOf
<1>4. q \in Seq(Block) /\ Len(q) = 0
  <2>1. q \in Seq(Block) /\ Len(q) \in Nat /\ EntryOf(q, 1) = Null
    BY DEF Represents, Chained, ClearDone
  <2> QED BY <2>1, EntryFacts
<1>5. Tailed(q)'
  <2>1. tail' = EntryOf(q, Len(q))
    BY <1>4 DEF ClearDone, EntryOf
  <2> QED BY <2>1 DEF Tailed, EntryOf
<1> QED BY <1>1, <1>2, <1>3, <1>4, <1>5 DEF ListInv, Represents

LEMMA OthersStep ==
  ASSUME Counts, ListInv, NEW q, Represents(q), Others
  PROVE  ListInv' /\ Represents(q)'
<1>1. UNCHANGED listVars
  BY DEF Others
<1>2. Inv' /\ used \subseteq live'
  <2>1. CASE Alloc
    BY <2>1, AllocStep, GivenIsNew DEF ListInv, ListType
  <2>2. CASE Purge
    BY <2>2, PurgeStep DEF ListInv, ListType, Purge
  <2>3. ASSUME NEW b \in live \ used, Free(b) PROVE Inv' /\ used \subseteq live'
    <3>1. b \in Block
      BY DEF ListInv, Inv, TypeOK
    <3> QED BY <2>3, <3>1, FreeStep DEF ListInv, ListType, Free
  <2> QED BY <2>1, <2>2, <2>3 DEF Others
<1>3. ListType' /\ Represents(q)'
  BY <1>1, <1>2, Frame DEF listVars, sameList, ListInv
<1> QED BY <1>2, <1>3 DEF ListInv

LEMMA StutterStep ==
  ASSUME ListInv, NEW q, Represents(q), UNCHANGED <<vars, listVars>>
  PROVE  ListInv' /\ Represents(q)'
<1>1. Inv'
  BY InvFrame DEF ListInv
<1>2. ListType' /\ Represents(q)'
  BY Frame DEF listVars, sameList, ListInv, ListType, vars
<1> QED BY <1>1, <1>2 DEF ListInv

LEMMA ListStep == ASSUME Counts PROVE ListInv /\ [ListNext]_<<vars, listVars>> => ListInv'
<1> SUFFICES ASSUME ListInv, [ListNext]_<<vars, listVars>> PROVE ListInv'
  OBVIOUS
<1>1. PICK q : Represents(q)
  BY DEF ListInv
<1>2. CASE UNCHANGED <<vars, listVars>>
  BY <1>1, <1>2, StutterStep
<1>3. ASSUME NEW x \in Element, NEW back \in BOOLEAN, Push(x, back) PROVE ListInv'
  BY <1>1, <1>3, PushStep
<1>4. CASE AllocHeader
  BY <1>1, <1>4, AllocHeaderStep
<1>5. CASE PushFront
  BY <1>1, <1>5, PushFrontStep
<1>6. CASE PushBack
  BY <1>1, <1>6, PushBackStep
<1>7. CASE PopFront
  BY <1>1, <1>7, PopFrontStep
<1>8. CASE Clear \/ ClearFirst \/ ClearDone
  BY <1>1, <1>8, ClearStep, ClearFirstStep, ClearDoneStep
<1>9. ASSUME NEW S \in SUBSET Element, RemoveIf(S) PROVE ListInv'
  BY <1>1, <1>9, RemoveIfStep
<1>10. CASE RemoveThis
  <2>1. PICK k \in 0 .. Len(q) : p = EntryOf(q, k) /\ e = EntryOf(q, k + 1)
    BY <1>1, <1>10 DEF Represents, Pointed, RemoveThis, Unlinked
  <2> QED BY <1>1, <1>10, <2>1, RemoveThisStep
<1>11. CASE KeepThis \/ RemoveDone
  BY <1>1, <1>11, KeepThisStep, RemoveDoneStep
<1>12. CASE Others
  BY <1>1, <1>12, OthersStep
<1> QED BY <1>2, <1>3, <1>4, <1>5, <1>6, <1>7, <1>8, <1>9, <1>10, <1>11, <1>12
        DEF ListNext

LEMMA ListInvAlways == ASSUME Counts PROVE ListSpec => []ListInv
BY InitStep, ListStep, PTL DEF ListSpec

-----------------------------------------------------------------------------
(* What the recursive definitions say of a list that is well linked.       *)
LEMMA LeastNat ==
  ASSUME NEW T, T \subseteq Nat, T # {}
  PROVE  \E x \in T : \A y \in T : x <= y
<1>1. PICK x \in T : \A y \in T : ~(<<y, x>> \in OpToRel(<, Nat))
  BY WFMin, NatLessThanWellFounded
<1>2. \A y \in T : ~(y < x)
  BY <1>1 DEF OpToRel
<1> QED BY <1>2

LEMMA NatIsInductive ==
  ASSUME NEW S, 0 \in S, \A n \in Nat : n \in S => n + 1 \in S
  PROVE  Nat \subseteq S
<1> SUFFICES ASSUME Nat \ S # {} PROVE FALSE
  OBVIOUS
<1>1. PICK x \in Nat \ S : \A y \in Nat \ S : x <= y
  BY LeastNat
<1>2. x # 0 /\ x - 1 \in Nat /\ x - 1 \in S
  BY <1>1
<1> QED BY <1>1, <1>2

LEMMA ReachedIs ==
  ASSUME NEW q, Chained(q)
  PROVE  \A n \in Nat : Reached[n] = EntryOf(q, n + 1)
<1>1. /\ q \in Seq(Block) /\ Len(q) \in Nat /\ head = EntryOf(q, 1)
      /\ \A i \in 1 .. Len(q) : next[q[i]] = EntryOf(q, i + 1)
  BY DEF Chained
<1> DEFINE w == [n \in Nat |-> EntryOf(q, n + 1)]
<1>2. ASSUME NEW n \in Nat
      PROVE  w[n] = IF n = 0 THEN head
                    ELSE IF w[n - 1] = Null THEN Null ELSE next[w[n - 1]]
  <2>1. CASE n = 0
    BY <1>1, <2>1
  <2>2. CASE n # 0
    <3>1. n - 1 \in Nat /\ w[n - 1] = EntryOf(q, n) /\ w[n] = EntryOf(q, n + 1)
      BY <2>2
    <3>2. CASE n \in 1 .. Len(q)
      <4>1. EntryOf(q, n) = q[n] /\ EntryOf(q, n) # Null
        BY <1>1, <3>2, EntryFacts
      <4> QED BY <1>1, <2>2, <3>1, <3>2, <4>1
    <3>3. CASE n \notin 1 .. Len(q)
      <4>1. EntryOf(q, n) = Null /\ EntryOf(q, n + 1) = Null
        BY <1>1, <2>2, <3>3 DEF EntryOf
      <4> QED BY <2>2, <3>1, <4>1
    <3> QED BY <3>2, <3>3
  <2> QED BY <2>1, <2>2
<1>3. w = [n \in Nat |-> IF n = 0 THEN head
                         ELSE IF w[n - 1] = Null THEN Null ELSE next[w[n - 1]]]
  BY <1>2
<1> HIDE DEF w
<1>4. Reached = [n \in Nat |-> IF n = 0 THEN head
                               ELSE IF Reached[n - 1] = Null THEN Null
                               ELSE next[Reached[n - 1]]]
  BY <1>3 DEF Reached
<1> DEFINE S == {n \in Nat : Reached[n] = w[n]}
<1>5. 0 \in S
  BY <1>2, <1>4
<1>6. \A n \in Nat : n \in S => n + 1 \in S
  <2> SUFFICES ASSUME NEW n \in Nat, n \in S PROVE n + 1 \in S
    OBVIOUS
  <2>1. n + 1 \in Nat /\ n + 1 # 0 /\ (n + 1) - 1 = n
    OBVIOUS
  <2>2. Reached[n + 1] = IF Reached[n] = Null THEN Null ELSE next[Reached[n]]
    BY <1>4, <2>1
  <2>3. w[n + 1] = IF w[n] = Null THEN Null ELSE next[w[n]]
    BY <1>2, <2>1
  <2> QED BY <2>1, <2>2, <2>3
<1>7. Nat \subseteq S
  <2> HIDE DEF S
  <2> QED BY <1>5, <1>6, NatIsInductive
<1> QED BY <1>7 DEF w

LEMMA FiniteBlocks == IsFiniteSet(Block)
<1>1. IsFiniteSet(1 .. BlocksPerPage)
  BY BlockAllocatorAssumption, FS_Interval
<1>2. IsFiniteSet(Page)
  BY LinkedListsAssumption
<1>3. IsFiniteSet(Page \X (1 .. BlocksPerPage))
  BY <1>1, <1>2, FS_Product
<1> QED BY <1>3 DEF Block

LEMMA LengthBound ==
  ASSUME NEW q \in Seq(Block), \A i, j \in 1 .. Len(q) : q[i] = q[j] => i = j
  PROVE  Len(q) <= Cardinality(Block) /\ Cardinality(Block) \in Nat
<1>1. Len(q) \in Nat /\ q \in [1 .. Len(q) -> Block]
  OBVIOUS
<1>2. IsFiniteSet(1 .. Len(q)) /\ Cardinality(1 .. Len(q)) = Len(q)
  BY <1>1, FS_Interval
<1>3. q \in Injection(1 .. Len(q), Block)
  BY <1>1 DEF Injection, IsInjective
<1>4. Cardinality(1 .. Len(q)) <= Cardinality(Block)
  BY <1>2, <1>3, FiniteBlocks, FS_Injection
<1> QED BY <1>2, <1>4, FiniteBlocks, FS_CardinalityType

LEMMA ContentsAre ==
  ASSUME NEW q, Chained(q)
  PROVE  /\ Lengths # {} /\ Length = Len(q)
         /\ Chain = q
         /\ Contents = [i \in 1 .. Len(q) |-> element[q[i]]]
<1>1. q \in Seq(Block) /\ Len(q) \in Nat /\ DOMAIN q = 1 .. Len(q)
      /\ q = [i \in 1 .. Len(q) |-> q[i]]
  BY DEF Chained
<1>2. Len(q) <= Cardinality(Block) /\ Cardinality(Block) \in Nat
  BY LengthBound DEF Chained
<1>3. \A n \in Nat : Reached[n] = Null <=> n >= Len(q)
  <2> TAKE n \in Nat
  <2>1. Reached[n] = EntryOf(q, n + 1)
    BY ReachedIs
  <2> QED BY <1>1, <2>1, EntryFacts
<1>4. Lengths = Len(q) .. Cardinality(Block)
  BY <1>1, <1>2, <1>3 DEF Lengths
<1>5. Lengths # {} /\ Length = Len(q)
  <2>1. Len(q) \in Lengths /\ \A m \in Lengths : Len(q) <= m
    BY <1>1, <1>2, <1>4
  <2>2. \A n \in Lengths : (\A m \in Lengths : n <= m) => n = Len(q)
    BY <1>1, <1>2, <1>4
  <2> QED BY <2>1, <2>2 DEF Length
<1>6. \A i \in 1 .. Len(q) : Reached[i - 1] = q[i]
  <2> TAKE i \in 1 .. Len(q)
  <2>1. i - 1 \in Nat /\ (i - 1) + 1 = i
    BY <1>1
  <2>2. Reached[i - 1] = EntryOf(q, (i - 1) + 1)
    BY <2>1, ReachedIs
  <2> QED BY <2>1, <2>2 DEF EntryOf
<1>7. Chain = q /\ Contents = [i \in 1 .. Len(q) |-> element[q[i]]]
  BY <1>1, <1>5, <1>6 DEF Chain, Contents
<1> QED BY <1>5, <1>7

LEMMA InvIsWellLinked == ListInv => WellLinked
<1> SUFFICES ASSUME ListInv PROVE WellLinked
  OBVIOUS
<1>1. PICK q : Represents(q)
  BY DEF ListInv
<1>2. Lengths # {} /\ Chain = q
  BY <1>1, ContentsAre DEF Represents
<1>3. /\ q \in Seq(Block) /\ Len(q) \in Nat /\ DOMAIN q = 1 .. Len(q)
      /\ \A i, j \in 1 .. Len(q) : q[i] = q[j] => i = j
      /\ \A i \in 1 .. Len(q) : element[q[i]] \in Element
      /\ head = EntryOf(q, 1)
      /\ \A i \in 1 .. Len(q) : q[i] \in used \ {header}
      /\ \A b \in used : b = header \/ \E i \in 1 .. Len(q) : q[i] = b
  BY <1>1 DEF Represents, Chained, Owned
<1>4. used \subseteq live /\ live \subseteq Block /\ (header \in Block => header \in used)
  BY DEF ListInv, ListType, Inv, TypeOK
<1>5. Range(q) = {q[i] : i \in 1 .. Len(q)}
  BY <1>3 DEF Range
<1>6. IsInjective(Chain)
  BY <1>2, <1>3 DEF IsInjective
<1>7. \A b \in Range(Chain) : b \in used \ {header} /\ element[b] \in Element
  BY <1>2, <1>3, <1>5
<1>8. pc = "idle" => tail = IF head = Null THEN Null ELSE Last(Chain)
  <2>1. pc = "idle" => tail = EntryOf(q, Len(q))
    BY <1>1 DEF Represents, Tailed
  <2>2. head = Null <=> Len(q) = 0
    BY <1>3, EntryFacts
  <2>3. CASE Len(q) = 0
    BY <1>3, <2>1, <2>2, <2>3 DEF EntryOf
  <2>4. CASE Len(q) # 0
    BY <1>2, <1>3, <2>1, <2>2, <2>4 DEF EntryOf, Last
  <2> QED BY <2>3, <2>4
<1>9. used = Range(Chain) \cup ({header} \cap Block)
  BY <1>2, <1>3, <1>4, <1>5
<1>10. {e, p} \subseteq used \cup {Null}
  <2>1. \A k \in Int : EntryOf(q, k) \in used \cup {Null}
    BY <1>3 DEF EntryOf
  <2>2. CASE pc = "remove"
    BY <1>1, <2>1, <2>2 DEF Represents, Pointed
  <2>3. CASE pc # "remove"
    BY <1>1, <2>3 DEF Represents, Pointed
  <2> QED BY <2>2, <2>3
<1> QED BY <1>2, <1>4, <1>6, <1>7, <1>8, <1>9, <1>10 DEF WellLinked

THEOREM WellLinkedHolds == ASSUME Counts PROVE ListSpec => []WellLinked
BY ListInvAlways, InvIsWellLinked, PTL

-----------------------------------------------------------------------------
(***************************************************************************)
(* What stays of a sequence when the elements of a set leave it.           *)
(***************************************************************************)
(* What kept[n] is in terms of kept[n - 1].                                *)
Keeps(K, s, D, n) ==
  K[n] = IF n = 0 THEN <<>>
         ELSE IF s[n] \in D THEN K[n - 1] ELSE Append(K[n - 1], s[n])

LEMMA KeptUpTo ==
  ASSUME NEW X, NEW s \in Seq(X), NEW D
  PROVE  \A m \in Nat : m <= Len(s) =>
           \E K \in [0 .. m -> Seq(X)] : \A n \in 0 .. m : Keeps(K, s, D, n)
<1> DEFINE S == {m \in Nat : m <= Len(s) =>
                   \E K \in [0 .. m -> Seq(X)] : \A n \in 0 .. m : Keeps(K, s, D, n)}
<1>1. 0 \in S
  <2> DEFINE K == [n \in 0 .. 0 |-> <<>>]
  <2>1. K \in [0 .. 0 -> Seq(X)] /\ \A n \in 0 .. 0 : Keeps(K, s, D, n)
    BY DEF Keeps
  <2> QED BY <2>1
<1>2. ASSUME NEW m \in Nat, m \in S PROVE m + 1 \in S
  <2> SUFFICES ASSUME m + 1 <= Len(s)
               PROVE  \E K \in [0 .. m + 1 -> Seq(X)] :
                        \A n \in 0 .. m + 1 : Keeps(K, s, D, n)
    OBVIOUS
  <2>1. m <= Len(s) /\ s[m + 1] \in X
    BY LenProperties
  <2>2. PICK K \in [0 .. m -> Seq(X)] : \A n \in 0 .. m : Keeps(K, s, D, n)
    BY <1>2, <2>1
  <2> DEFINE last == IF s[m + 1] \in D THEN K[m] ELSE Append(K[m], s[m + 1])
             J    == [n \in 0 .. m + 1 |-> IF n <= m THEN K[n] ELSE last]
  <2>3. last \in Seq(X)
    <3>1. K[m] \in Seq(X)
      BY <2>2
    <3> QED BY <2>1, <3>1, AppendProperties
  <2> HIDE DEF last
  <2>4. J \in [0 .. m + 1 -> Seq(X)]
    BY <2>2, <2>3
  <2>5. ASSUME NEW n \in 0 .. m + 1 PROVE Keeps(J, s, D, n)
    <3>1. CASE n = m + 1
      <4>1. J[n] = last /\ J[n - 1] = K[m] /\ n # 0
        BY <3>1
      <4> QED BY <3>1, <4>1 DEF Keeps, last
    <3>2. CASE n # m + 1
      <4>1. n \in 0 .. m /\ J[n] = K[n] /\ (n # 0 => J[n - 1] = K[n - 1])
        BY <3>2
      <4>2. Keeps(K, s, D, n)
        BY <2>2, <4>1
      <4> HIDE DEF J
      <4> QED BY <4>1, <4>2 DEF Keeps
    <3> QED BY <3>1, <3>2
  <2> HIDE DEF J
  <2> QED BY <2>4, <2>5
<1>3. Nat \subseteq S
  <2> HIDE DEF S
  <2> QED BY <1>1, <1>2, NatIsInductive
<1> QED BY <1>3

LEMMA WithoutIs ==
  ASSUME NEW X, NEW s \in Seq(X), NEW D
  PROVE  \E K \in [0 .. Len(s) -> Seq(X)] :
           /\ \A n \in 0 .. Len(s) : Keeps(K, s, D, n)
           /\ Without(s, D) = K[Len(s)]
<1> DEFINE R(K) == [n \in 0 .. Len(s) |->
                      IF n = 0 THEN <<>>
                      ELSE IF s[n] \in D THEN K[n - 1]
                      ELSE Append(K[n - 1], s[n])]
           C == CHOOSE K : K = R(K)
<1>1. PICK w \in [0 .. Len(s) -> Seq(X)] : \A n \in 0 .. Len(s) : Keeps(w, s, D, n)
  <2>1. Len(s) \in Nat /\ Len(s) <= Len(s)
    BY LenProperties
  <2>2. \A m \in Nat : m <= Len(s) =>
          \E K \in [0 .. m -> Seq(X)] : \A n \in 0 .. m : Keeps(K, s, D, n)
    BY KeptUpTo
  <2> HIDE DEF C
  <2> QED BY <2>1, <2>2
<1>2. w = R(w)
  BY <1>1 DEF Keeps
<1>3. C = R(C)
  BY <1>2
<1>4. Without(s, D) = C[Len(s)]
  BY DEF Without
<1>5. \A n \in 0 .. Len(s) : Keeps(C, s, D, n)
  <2> HIDE DEF C
  <2> QED BY <1>3 DEF Keeps
<1>6. C \in [0 .. Len(s) -> Seq(X)]
  <2> DEFINE S == {n \in Nat : n <= Len(s) => C[n] = w[n]}
  <2> HIDE DEF C
  <2>0. Len(s) \in Nat
    BY LenProperties
  <2>1. 0 \in S
    BY <1>1, <1>5, <2>0 DEF Keeps
  <2>2. ASSUME NEW n \in Nat, n \in S PROVE n + 1 \in S
    <3> SUFFICES ASSUME n + 1 <= Len(s) PROVE C[n + 1] = w[n + 1]
      OBVIOUS
    <3>1. n + 1 \in 0 .. Len(s) /\ n + 1 # 0 /\ (n + 1) - 1 = n /\ C[n] = w[n]
      BY <2>0, <2>2
    <3>2. Keeps(C, s, D, n + 1) /\ Keeps(w, s, D, n + 1)
      BY <1>1, <1>5, <3>1
    <3> QED BY <3>1, <3>2 DEF Keeps
  <2>3. Nat \subseteq S
    <3> HIDE DEF S
    <3> QED BY <2>1, <2>2, NatIsInductive
  <2>4. \A n \in 0 .. Len(s) : C[n] \in Seq(X)
    BY <1>1, <2>3
  <2>5. C = R(C) /\ DOMAIN R(C) = 0 .. Len(s)
    BY <1>3
  <2>6. \A n \in 0 .. Len(s) : C[n] = R(C)[n]
    BY <2>5
  <2>7. R(C) \in [0 .. Len(s) -> Seq(X)]
    BY <2>4, <2>6
  <2> QED BY <2>5, <2>7
<1> HIDE DEF C
<1> QED BY <1>4, <1>5, <1>6

(* Nothing leaves: the sequence stays as it is.                            *)
LEMMA NoneLeaves ==
  ASSUME NEW X, NEW s \in Seq(X), NEW D, \A i \in 1 .. Len(s) : s[i] \notin D
  PROVE  Without(s, D) = s
<1>1. PICK K \in [0 .. Len(s) -> Seq(X)] :
         (\A n \in 0 .. Len(s) : Keeps(K, s, D, n)) /\ Without(s, D) = K[Len(s)]
  BY WithoutIs
<1>2. Len(s) \in Nat
  BY LenProperties
<1> DEFINE S == {n \in Nat : n <= Len(s) =>
                   Len(K[n]) = n /\ \A i \in 1 .. n : K[n][i] = s[i]}
<1>3. 0 \in S
  BY <1>1, <1>2, EmptySeq DEF Keeps
<1>4. ASSUME NEW n \in Nat, n \in S PROVE n + 1 \in S
  <2> SUFFICES ASSUME n + 1 <= Len(s)
               PROVE  /\ Len(K[n + 1]) = n + 1
                      /\ \A i \in 1 .. n + 1 : K[n + 1][i] = s[i]
    OBVIOUS
  <2>1. n + 1 \in 0 .. Len(s) /\ n \in 0 .. Len(s) /\ n + 1 # 0 /\ (n + 1) - 1 = n
        /\ s[n + 1] \notin D /\ s[n + 1] \in X /\ n + 1 \in 1 .. Len(s)
    BY <1>2, LenProperties
  <2>2. K[n + 1] = Append(K[n], s[n + 1]) /\ K[n] \in Seq(X)
    BY <1>1, <2>1 DEF Keeps
  <2>3. Len(K[n]) = n /\ \A i \in 1 .. n : K[n][i] = s[i]
    BY <1>4, <2>1
  <2>4. /\ Len(K[n + 1]) = n + 1
        /\ \A i \in 1 .. n : K[n + 1][i] = K[n][i]
        /\ K[n + 1][n + 1] = s[n + 1]
    BY <2>1, <2>2, <2>3, AppendProperties
  <2> QED BY <2>3, <2>4
<1>5. Nat \subseteq S
  <2> HIDE DEF S
  <2> QED BY <1>3, <1>4, NatIsInductive
<1>6. Len(K[Len(s)]) = Len(s) /\ \A i \in 1 .. Len(s) : K[Len(s)][i] = s[i]
  BY <1>2, <1>5
<1>7. K[Len(s)] \in Seq(X)
  BY <1>1, <1>2
<1> QED BY <1>1, <1>6, <1>7, SeqEqual

(* All leave: nothing stays.                                               *)
LEMMA AllLeave ==
  ASSUME NEW X, NEW s \in Seq(X), NEW D, \A i \in 1 .. Len(s) : s[i] \in D
  PROVE  Without(s, D) = <<>>
<1>1. PICK K \in [0 .. Len(s) -> Seq(X)] :
         (\A n \in 0 .. Len(s) : Keeps(K, s, D, n)) /\ Without(s, D) = K[Len(s)]
  BY WithoutIs
<1>2. Len(s) \in Nat
  BY LenProperties
<1> DEFINE S == {n \in Nat : n <= Len(s) => K[n] = <<>>}
<1>3. 0 \in S
  BY <1>1, <1>2 DEF Keeps
<1>4. ASSUME NEW n \in Nat, n \in S PROVE n + 1 \in S
  <2> SUFFICES ASSUME n + 1 <= Len(s) PROVE K[n + 1] = <<>>
    OBVIOUS
  <2>1. n + 1 \in 0 .. Len(s) /\ n + 1 # 0 /\ (n + 1) - 1 = n
        /\ s[n + 1] \in D /\ K[n] = <<>>
    BY <1>2, <1>4
  <2> QED BY <1>1, <2>1 DEF Keeps
<1>5. Nat \subseteq S
  <2> HIDE DEF S
  <2> QED BY <1>3, <1>4, NatIsInductive
<1> QED BY <1>1, <1>2, <1>5

(* An entry that would leave may as well be cut out first.                 *)
LEMMA CutLeaves ==
  ASSUME NEW X, NEW s \in Seq(X), NEW D, NEW k \in 0 .. Len(s) - 1,
         s[k + 1] \in D, Cut(s, k) \in Seq(X), Len(Cut(s, k)) = Len(s) - 1
  PROVE  Without(Cut(s, k), D) = Without(s, D)
<1> DEFINE c == Cut(s, k)
<1>1. PICK K \in [0 .. Len(s) -> Seq(X)] :
         (\A n \in 0 .. Len(s) : Keeps(K, s, D, n)) /\ Without(s, D) = K[Len(s)]
  BY WithoutIs
<1>2. Len(s) \in Nat \ {0} /\ k \in Nat /\ k + 1 \in 1 .. Len(s)
  BY LenProperties
<1>3. PICK J \in [0 .. Len(c) -> Seq(X)] :
         (\A n \in 0 .. Len(c) : Keeps(J, c, D, n)) /\ Without(c, D) = J[Len(c)]
  BY WithoutIs
<1>4. Len(c) = Len(s) - 1 /\ \A i \in 1 .. Len(s) - 1 :
         c[i] = IF i <= k THEN s[i] ELSE s[i + 1]
  BY DEF Cut
<1> HIDE DEF c
<1>5. K[k + 1] = K[k]
  <2>1. k + 1 \in 0 .. Len(s) /\ k + 1 # 0 /\ (k + 1) - 1 = k
    BY <1>2
  <2> QED BY <1>1, <2>1 DEF Keeps
<1> DEFINE S == {n \in Nat : n <= Len(c) =>
                   (n <= k => J[n] = K[n]) /\ (n >= k => J[n] = K[n + 1])}
<1>6. 0 \in S
  <2>1. J[0] = K[0]
    BY <1>1, <1>2, <1>3, <1>4 DEF Keeps
  <2>2. 0 >= k => k = 0
    BY <1>2
  <2> QED BY <1>5, <2>1, <2>2
<1>7. ASSUME NEW n \in Nat, n \in S PROVE n + 1 \in S
  <2> SUFFICES ASSUME n + 1 <= Len(c)
               PROVE  /\ n + 1 <= k => J[n + 1] = K[n + 1]
                      /\ n + 1 >= k => J[n + 1] = K[(n + 1) + 1]
    OBVIOUS
  <2>1. /\ n + 1 \in 0 .. Len(c) /\ n + 1 # 0 /\ (n + 1) - 1 = n
        /\ n + 1 \in 0 .. Len(s) /\ n + 2 \in 0 .. Len(s) /\ n + 2 # 0
        /\ (n + 2) - 1 = n + 1 /\ (n + 1) + 1 = n + 2
        /\ n + 1 \in 1 .. Len(s) - 1
    BY <1>2, <1>4
  <2>2. J[n + 1] = IF c[n + 1] \in D THEN J[n] ELSE Append(J[n], c[n + 1])
    BY <1>3, <2>1 DEF Keeps
  <2>3. K[n + 1] = IF s[n + 1] \in D THEN K[n] ELSE Append(K[n], s[n + 1])
    BY <1>1, <2>1 DEF Keeps
  <2>4. K[n + 2] = IF s[n + 2] \in D THEN K[n + 1] ELSE Append(K[n + 1], s[n + 2])
    BY <1>1, <2>1 DEF Keeps
  <2>5. CASE n + 1 <= k
    <3>1. J[n] = K[n] /\ c[n + 1] = s[n + 1]
      BY <1>2, <1>4, <1>7, <2>1, <2>5
    <3>2. J[n + 1] = K[n + 1]
      BY <2>2, <2>3, <3>1
    <3>3. n + 1 >= k => n + 1 = k
      BY <1>2, <2>5
    <3> QED BY <1>5, <3>2, <3>3
  <2>6. CASE n + 1 > k
    <3>0. n >= k /\ ~(n + 1 <= k) /\ n <= Len(c)
      <4>1. n \in Int /\ k \in Int /\ Len(c) \in Int /\ n + 1 <= Len(c)
        BY <1>2, <1>4, <2>1
      <4> QED BY <2>6, <4>1
    <3>1. J[n] = K[n + 1] /\ c[n + 1] = s[n + 2]
      BY <1>4, <1>7, <2>1, <3>0
    <3>2. J[n + 1] = K[n + 2]
      BY <2>2, <2>4, <3>1
    <3> QED BY <2>1, <3>0, <3>2
  <2> QED BY <1>2, <2>5, <2>6
<1>8. Nat \subseteq S
  <2> HIDE DEF S
  <2> QED BY <1>6, <1>7, NatIsInductive
<1>9. J[Len(c)] = K[Len(s)]
  <2>1. Len(c) \in Nat /\ Len(c) >= k /\ Len(c) + 1 = Len(s)
    BY <1>2, <1>4
  <2> QED BY <1>8, <2>1
<1> QED BY <1>1, <1>3, <1>9 DEF c

-----------------------------------------------------------------------------
(***************************************************************************)
(* Each step of a list is one of ElementList's.                            *)
(***************************************************************************)
(* The list as ElementList sees it.                                        *)
Shown == Without(Contents, doomed)

(* What the elements to remove have to do with the entries q.              *)
Scanned(q) ==
  /\ pc \in {"idle", "header", "entry"} => doomed = {}
  /\ pc = "clear" => doomed = Element
  /\ pc = "remove" => \E k \in 0 .. Len(q) :
       /\ p = EntryOf(q, k) /\ e = EntryOf(q, k + 1)
       /\ \A i \in 1 .. k : element[q[i]] \notin doomed
  /\ pc = "entry" /\ pushed.back /\ Dedup =>
       \A i \in 1 .. Len(q) : element[q[i]] # pushed.element

Shows == ListInv /\ \E q : Represents(q) /\ Scanned(q)

LEMMA ElementsIn ==
  \A q : Chained(q) =>
    /\ Contents = [i \in 1 .. Len(q) |-> element[q[i]]]
    /\ Contents \in Seq(Element) /\ Len(Contents) = Len(q) /\ Len(q) \in Nat
    /\ \A i \in 1 .. Len(q) : Contents[i] = element[q[i]]
<1> SUFFICES ASSUME NEW q, Chained(q)
             PROVE  /\ Contents = [i \in 1 .. Len(q) |-> element[q[i]]]
                    /\ Contents \in Seq(Element) /\ Len(Contents) = Len(q)
                    /\ Len(q) \in Nat
                    /\ \A i \in 1 .. Len(q) : Contents[i] = element[q[i]]
  OBVIOUS
<1>1. /\ q \in Seq(Block) /\ Len(q) \in Nat
      /\ \A i \in 1 .. Len(q) : element[q[i]] \in Element
  BY DEF Chained
<1>2. Contents = [i \in 1 .. Len(q) |-> element[q[i]]]
  BY ContentsAre
<1>3. Contents \in [1 .. Len(q) -> Element]
  BY <1>1, <1>2
<1>4. Contents \in Seq(Element)
  BY <1>1, <1>3, SeqDef
<1>5. Len(Contents) = Len(q)
  BY <1>1, <1>3, <1>4, LenProperties
<1> QED BY <1>1, <1>2, <1>4, <1>5

(* The same in the next state.                                             *)
LEMMA ElementsInNext ==
  (\A q : Chained(q) =>
    /\ Contents = [i \in 1 .. Len(q) |-> element[q[i]]]
    /\ Contents \in Seq(Element) /\ Len(Contents) = Len(q) /\ Len(q) \in Nat
    /\ \A i \in 1 .. Len(q) : Contents[i] = element[q[i]])'
BY ElementsIn, PTL

(* Between edits, and while something is pushed, the list shows all.       *)
LEMMA ShownIs ==
  \A q : Chained(q) => /\ doomed = {} => Shown = Contents
                       /\ doomed = Element => Shown = <<>>
<1> SUFFICES ASSUME NEW q, Chained(q)
             PROVE  /\ doomed = {} => Shown = Contents
                    /\ doomed = Element => Shown = <<>>
  OBVIOUS
<1>1. /\ Contents \in Seq(Element) /\ Len(Contents) = Len(q)
      /\ \A i \in 1 .. Len(Contents) : Contents[i] \in Element
  BY ElementsIn, ElementOfSeq
<1> QED BY <1>1, NoneLeaves, AllLeave DEF Shown

LEMMA ShownIsNext ==
  (\A q : Chained(q) => /\ doomed = {} => Shown = Contents
                        /\ doomed = Element => Shown = <<>>)'
BY ShownIs, PTL

LEMMA SameShown ==
  ASSUME NEW q, Chained(q), Chained(q)', UNCHANGED <<element, doomed>>
  PROVE  Shown' = Shown
<1>1. Contents' = Contents
  BY ElementsIn, ElementsInNext
<1> QED BY <1>1 DEF Shown

-----------------------------------------------------------------------------
LEMMA ShowsInit == ListInit => Shows /\ L!Init
<1> SUFFICES ASSUME ListInit PROVE Shows /\ L!Init
  OBVIOUS
<1>1. Inv /\ ListType
  BY InitStep DEF ListInit, ListInv
<1>2. Len(<<>>) = 0 /\ <<>> \in Seq(Block) /\ 1 .. 0 = {}
  OBVIOUS
<1>3. Represents(<<>>)
  BY <1>2 DEF Represents, Chained, Owned, Tailed, Pointed, EntryOf, ListInit
<1>4. Scanned(<<>>)
  BY <1>2 DEF Scanned, ListInit
<1>5. Shows
  BY <1>1, <1>3, <1>4 DEF Shows, ListInv
<1>6. Contents = <<>>
  BY <1>2, <1>3, ElementsIn DEF Represents
<1>7. Shown = <<>>
  BY <1>3, <1>6, ShownIs DEF Represents, ListInit
<1>8. Dedup \in BOOLEAN
  BY DEF Dedup
<1> QED BY <1>5, <1>7, <1>8 DEF L!Init, Shown

LEMMA PushShows ==
  ASSUME ListInv, NEW q, Represents(q), Scanned(q),
         NEW x \in Element, NEW back \in BOOLEAN, Push(x, back)
  PROVE  Shows' /\ Shown' = Shown /\ Dedup' = Dedup
<1>1. ListInv' /\ Represents(q)'
  BY PushStep
<1>2. /\ pc = "idle" /\ pc' \in {"header", "entry"}
      /\ header = Null => pc' = "header"
      /\ UNCHANGED <<element, doomed, header>>
      /\ pushed' = [element |-> x, back |-> back]
      /\ back /\ Dedup => ~Contains(Contents, x)
  BY DEF Push
<1>3. Dedup' = Dedup
  BY <1>2 DEF Dedup
<1>4. ASSUME back, Dedup PROVE \A i \in 1 .. Len(q) : element[q[i]] # x
  BY <1>2, <1>4, ElementsIn DEF Represents, Contains
<1>5. Scanned(q)'
  BY <1>2, <1>3, <1>4 DEF Scanned
<1>6. Shown' = Shown
  BY <1>1, <1>2, SameShown DEF Represents
<1> QED BY <1>1, <1>3, <1>5, <1>6 DEF Shows

LEMMA AllocHeaderShows ==
  ASSUME ListInv, NEW q, Represents(q), Scanned(q), AllocHeader
  PROVE  Shows' /\ Shown' = Shown /\ Dedup' = Dedup
<1>1. ListInv' /\ Represents(q)'
  BY AllocHeaderStep
<1>2. /\ pc = "header" /\ pc' = "entry" /\ header = Null /\ header' \in Block
      /\ UNCHANGED <<element, doomed, pushed>>
  BY GivenIsNew DEF AllocHeader, ListInv, ListType
<1>3. ~Dedup /\ ~Dedup' /\ Dedup \in BOOLEAN /\ Dedup' \in BOOLEAN
  BY <1>2, LinkedListsAssumption DEF Dedup
<1>4. Scanned(q)'
  BY <1>2, <1>3 DEF Scanned
<1>5. Shown' = Shown
  BY <1>1, <1>2, SameShown DEF Represents
<1> QED BY <1>1, <1>3, <1>4, <1>5 DEF Shows

LEMMA PushFrontShows ==
  ASSUME ListInv, NEW q, Represents(q), Scanned(q), PushFront
  PROVE  Shows' /\ L!Next
<1>1. PICK b : b = Given
  OBVIOUS
<1> DEFINE c == <<b>> \o q
<1>2. ListInv' /\ Represents(c)'
  BY <1>1, PushFrontStep
<1>3. b \in Block /\ b \notin used
  BY <1>1, GivenIsNew DEF PushFront, Entered, ListInv, ListType
<1>4. /\ pc = "entry" /\ pc' = "idle" /\ UNCHANGED <<doomed, header>>
      /\ element' = [element EXCEPT ![b] = pushed.element]
      /\ pushed.element \in Element
  BY <1>1 DEF PushFront, Entered, ListInv, ListType
<1>5. doomed = {} /\ doomed' = {} /\ Scanned(c)'
  BY <1>4 DEF Scanned
<1>6. /\ q \in Seq(Block) /\ Len(q) \in Nat /\ element \in [Block -> Element \cup {Null}]
      /\ \A i \in 1 .. Len(q) : q[i] \in Block /\ q[i] # b
  BY <1>3 DEF Represents, Chained, Owned, ListInv, ListType
<1>7. /\ c \in Seq(Block) /\ Len(c) = Len(q) + 1
      /\ c[1] = b /\ \A i \in 1 .. Len(q) : c[i + 1] = q[i]
      /\ \A i \in 1 .. Len(c) : i = 1 \/ (i - 1 \in 1 .. Len(q) /\ c[i] = q[i - 1])
  BY <1>3, <1>6, Consed
<1> HIDE DEF c
<1>8. /\ Contents \in Seq(Element) /\ Len(Contents) = Len(q)
      /\ \A i \in 1 .. Len(q) : Contents[i] = element[q[i]]
  BY ElementsIn DEF Represents
<1>9. /\ Contents' \in Seq(Element) /\ Len(Contents') = Len(c)
      /\ \A i \in 1 .. Len(c) : Contents'[i] = element'[c[i]]
  BY <1>2, ElementsInNext DEF Represents
<1>10. Contents' = <<pushed.element>> \o Contents
  <2> DEFINE new == <<pushed.element>> \o Contents
  <2>1. new \in Seq(Element) /\ Len(new) = Len(Contents) + 1
    BY <1>4, <1>8
  <2>2. new[1] = pushed.element /\ \A i \in 1 .. Len(Contents) : new[i + 1] = Contents[i]
    BY <1>4, <1>8
  <2> HIDE DEF new
  <2>3. ASSUME NEW i \in 1 .. Len(c) PROVE Contents'[i] = new[i]
    <3>1. CASE i = 1
      BY <1>3, <1>4, <1>6, <1>7, <1>9, <2>2, <3>1
    <3>2. CASE i # 1
      <4>1. i - 1 \in 1 .. Len(q) /\ (i - 1) + 1 = i /\ c[i] = q[i - 1]
        BY <1>6, <1>7, <3>2
      <4>2. new[i] = Contents[i - 1] /\ q[i - 1] \in Block /\ q[i - 1] # b
        BY <1>6, <1>8, <2>2, <4>1
      <4>3. element'[q[i - 1]] = element[q[i - 1]]
        BY <1>4, <1>6, <4>2
      <4> QED BY <1>8, <1>9, <4>1, <4>2, <4>3
    <3> QED BY <3>1, <3>2
  <2>4. Len(new) = Len(Contents')
    BY <1>7, <1>8, <1>9, <2>1
  <2>5. new = Contents'
    BY <1>9, <2>1, <2>3, <2>4, SeqEqual
  <2> QED BY <2>5 DEF new
<1>11. Shown = Contents /\ Shown' = Contents'
  BY <1>2, <1>5, ShownIs, ShownIsNext DEF Represents
<1>12. L!PushFront(pushed.element)
  BY <1>10, <1>11 DEF L!PushFront, Shown
<1>13. Dedup' = Dedup
  BY <1>4 DEF Dedup
<1> QED BY <1>2, <1>4, <1>5, <1>12, <1>13 DEF Shows, L!Next

LEMMA PushBackShows ==
  ASSUME ListInv, NEW q, Represents(q), Scanned(q), PushBack
  PROVE  Shows' /\ L!Next
<1>1. PICK b : b = Given
  OBVIOUS
<1> DEFINE c == Append(q, b)
<1>2. ListInv' /\ Represents(c)'
  BY <1>1, PushBackStep
<1>3. b \in Block /\ b \notin used
  BY <1>1, GivenIsNew DEF PushBack, Entered, ListInv, ListType
<1>4. /\ pc = "entry" /\ pc' = "idle" /\ UNCHANGED <<doomed, header>>
      /\ element' = [element EXCEPT ![b] = pushed.element]
      /\ pushed.element \in Element /\ pushed.back
  BY <1>1 DEF PushBack, Entered, ListInv, ListType
<1>5. doomed = {} /\ doomed' = {} /\ Scanned(c)'
  BY <1>4 DEF Scanned
<1>6. /\ q \in Seq(Block) /\ Len(q) \in Nat /\ element \in [Block -> Element \cup {Null}]
      /\ \A i \in 1 .. Len(q) : q[i] \in Block /\ q[i] # b
  BY <1>3 DEF Represents, Chained, Owned, ListInv, ListType
<1>7. /\ c \in Seq(Block) /\ Len(c) = Len(q) + 1
      /\ c[Len(c)] = b /\ \A i \in 1 .. Len(q) : c[i] = q[i]
      /\ \A i \in 1 .. Len(c) : i = Len(q) + 1 \/ i \in 1 .. Len(q)
  BY <1>3, <1>6, Appended
<1> HIDE DEF c
<1>8. /\ Contents \in Seq(Element) /\ Len(Contents) = Len(q)
      /\ \A i \in 1 .. Len(q) : Contents[i] = element[q[i]]
  BY ElementsIn DEF Represents
<1>9. /\ Contents' \in Seq(Element) /\ Len(Contents') = Len(c)
      /\ \A i \in 1 .. Len(c) : Contents'[i] = element'[c[i]]
  BY <1>2, ElementsInNext DEF Represents
<1>10. Contents' = Append(Contents, pushed.element)
  <2> DEFINE new == Append(Contents, pushed.element)
  <2>1. /\ new \in Seq(Element) /\ Len(new) = Len(Contents) + 1
        /\ new[Len(Contents) + 1] = pushed.element
        /\ \A i \in 1 .. Len(Contents) : new[i] = Contents[i]
    BY <1>4, <1>8, AppendProperties
  <2> HIDE DEF new
  <2>2. ASSUME NEW i \in 1 .. Len(c) PROVE Contents'[i] = new[i]
    <3>1. CASE i = Len(q) + 1
      BY <1>3, <1>4, <1>6, <1>7, <1>8, <1>9, <2>1, <3>1
    <3>2. CASE i \in 1 .. Len(q)
      <4>1. c[i] = q[i] /\ new[i] = Contents[i] /\ q[i] \in Block /\ q[i] # b
        BY <1>6, <1>7, <1>8, <2>1, <3>2
      <4>2. element'[q[i]] = element[q[i]]
        BY <1>4, <1>6, <4>1
      <4> QED BY <1>8, <1>9, <3>2, <4>1, <4>2
    <3> QED BY <1>7, <3>1, <3>2
  <2>3. Len(new) = Len(Contents')
    BY <1>7, <1>8, <1>9, <2>1
  <2>4. new = Contents'
    BY <1>9, <2>1, <2>2, <2>3, SeqEqual
  <2> QED BY <2>4 DEF new
<1>11. Shown = Contents /\ Shown' = Contents'
  BY <1>2, <1>5, ShownIs, ShownIsNext DEF Represents
<1>12. ~(Dedup /\ Contains(Contents, pushed.element))
  <2>1. Dedup => \A i \in 1 .. Len(q) : Contents[i] # pushed.element
    BY <1>4, <1>8 DEF Scanned
  <2> QED BY <1>8, <2>1 DEF Contains
<1>13. L!PushBack(pushed.element)
  BY <1>10, <1>11, <1>12 DEF L!PushBack, L!Contains, Contains, Shown
<1>14. Dedup' = Dedup
  BY <1>4 DEF Dedup
<1> QED BY <1>2, <1>4, <1>5, <1>13, <1>14 DEF Shows, L!Next

(* What a list shows once its first entry is gone.                         *)
LEMMA FirstGone ==
  ASSUME ListInv, NEW q, Represents(q), Represents(Cut(q, 0))',
         head # Null, Freed(head, next)
  PROVE  Contents # <<>> /\ Contents' = Tail(Contents)
<1> DEFINE c == Cut(q, 0)
<1>1. /\ q \in Seq(Block) /\ Len(q) \in Nat /\ head = EntryOf(q, 1)
      /\ \A i, j \in 1 .. Len(q) : q[i] = q[j] => i = j
  BY DEF Represents, Chained
<1>2. 1 \in 1 .. Len(q) /\ head = q[1] /\ 0 \in 0 .. Len(q) - 1
  BY <1>1, EntryFacts
<1>3. /\ Len(c) = Len(q) - 1
      /\ \A i \in 1 .. Len(q) - 1 :
           i > 0 => i + 1 \in 1 .. Len(q) /\ c[i] = q[i + 1]
  BY <1>1, <1>2, CutFacts
<1> HIDE DEF c
<1>4. /\ Contents \in Seq(Element) /\ Len(Contents) = Len(q)
      /\ \A i \in 1 .. Len(q) : Contents[i] = element[q[i]]
  BY ElementsIn DEF Represents
<1>5. /\ Contents' \in Seq(Element) /\ Len(Contents') = Len(c)
      /\ \A i \in 1 .. Len(c) : Contents'[i] = element'[c[i]]
  BY ElementsInNext DEF Represents, c
<1>6. Contents # <<>>
  BY <1>1, <1>2, <1>4
<1>7. /\ Tail(Contents) \in Seq(Element) /\ Len(Tail(Contents)) = Len(Contents) - 1
      /\ \A i \in 1 .. Len(Contents) - 1 : Tail(Contents)[i] = Contents[i + 1]
  BY <1>4, <1>6, HeadTailProperties
<1>8. element' = [element EXCEPT ![q[1]] = Null]
      /\ element \in [Block -> Element \cup {Null}]
  BY <1>2 DEF Freed, ListInv, ListType
<1>9. ASSUME NEW i \in 1 .. Len(q) - 1 PROVE Contents'[i] = Tail(Contents)[i]
  <2>1. i + 1 \in 1 .. Len(q) /\ c[i] = q[i + 1] /\ i + 1 # 1
    BY <1>1, <1>3
  <2>2. q[i + 1] # q[1] /\ q[i + 1] \in Block
    BY <1>1, <1>2, <2>1
  <2>3. element'[q[i + 1]] = element[q[i + 1]]
    BY <1>8, <2>2
  <2> QED BY <1>3, <1>4, <1>5, <1>7, <2>1, <2>3
<1>10. Len(Contents') = Len(Tail(Contents)) /\ Len(Contents') = Len(q) - 1
  BY <1>3, <1>4, <1>5, <1>7
<1> QED BY <1>5, <1>6, <1>7, <1>9, <1>10, SeqEqual

LEMMA PopFrontShows ==
  ASSUME ListInv, NEW q, Represents(q), Scanned(q), PopFront
  PROVE  Shows' /\ L!Next
<1>1. ListInv' /\ Represents(Cut(q, 0))'
  BY PopFrontStep
<1>2. pc = "idle" /\ pc' = "idle" /\ UNCHANGED <<doomed, header>>
      /\ head # Null /\ Freed(head, next)
  BY DEF PopFront
<1>3. doomed = {} /\ doomed' = {} /\ Scanned(Cut(q, 0))'
  BY <1>2 DEF Scanned
<1>4. Contents # <<>> /\ Contents' = Tail(Contents)
  BY <1>1, <1>2, FirstGone
<1>5. Shown = Contents /\ Shown' = Contents'
  BY <1>1, <1>3, ShownIs, ShownIsNext DEF Represents
<1>6. L!PopFront
  BY <1>4, <1>5 DEF L!PopFront, Shown
<1>7. Dedup' = Dedup
  BY <1>2 DEF Dedup
<1> QED BY <1>1, <1>3, <1>6, <1>7 DEF Shows, L!Next

LEMMA ClearShows ==
  ASSUME ListInv, NEW q, Represents(q), Scanned(q), Clear
  PROVE  Shows' /\ L!Next
<1>1. ListInv' /\ Represents(q)'
  BY ClearStep
<1>2. pc' = "clear" /\ doomed' = Element /\ header' = header
  BY DEF Clear
<1>3. Scanned(q)'
  BY <1>2 DEF Scanned
<1>4. Shown' = <<>>
  BY <1>1, <1>2, ShownIsNext DEF Represents
<1>5. L!Clear
  BY <1>4 DEF L!Clear, Shown
<1>6. Dedup' = Dedup
  BY <1>2 DEF Dedup
<1> QED BY <1>1, <1>3, <1>5, <1>6 DEF Shows, L!Next

LEMMA ClearFirstShows ==
  ASSUME ListInv, NEW q, Represents(q), Scanned(q), ClearFirst
  PROVE  Shows' /\ Shown' = Shown /\ Dedup' = Dedup
<1>1. ListInv' /\ Represents(Cut(q, 0))'
  BY ClearFirstStep
<1>2. pc = "clear" /\ pc' = "clear" /\ UNCHANGED <<doomed, header>>
  BY DEF ClearFirst
<1>3. doomed = Element /\ doomed' = Element /\ Scanned(Cut(q, 0))'
  BY <1>2 DEF Scanned
<1>4. Shown = <<>> /\ Shown' = <<>>
  BY <1>1, <1>3, ShownIs, ShownIsNext DEF Represents
<1>5. Dedup' = Dedup
  BY <1>2 DEF Dedup
<1> QED BY <1>1, <1>3, <1>4, <1>5 DEF Shows

LEMMA ClearDoneShows ==
  ASSUME ListInv, NEW q, Represents(q), Scanned(q), ClearDone
  PROVE  Shows' /\ Shown' = Shown /\ Dedup' = Dedup
<1>1. ListInv' /\ Represents(q)' /\ q = <<>>
  BY ClearDoneStep
<1>2. pc = "clear" /\ pc' = "idle" /\ doomed' = {} /\ header' = header
  BY DEF ClearDone
<1>3. doomed = Element /\ Scanned(q)'
  BY <1>2 DEF Scanned
<1>4. Contents' = <<>>
  BY <1>1, ElementsInNext DEF Represents
<1>5. Shown = <<>> /\ Shown' = Contents'
  BY <1>1, <1>2, <1>3, ShownIs, ShownIsNext DEF Represents
<1>6. Dedup' = Dedup
  BY <1>2 DEF Dedup
<1> QED BY <1>1, <1>3, <1>4, <1>5, <1>6 DEF Shows

LEMMA RemoveIfShows ==
  ASSUME ListInv, NEW q, Represents(q), Scanned(q),
         NEW S \in SUBSET Element, RemoveIf(S)
  PROVE  Shows' /\ L!Next
<1>1. ListInv' /\ Represents(q)'
  BY RemoveIfStep
<1>2. /\ pc = "idle" /\ pc' = "remove" /\ doomed' = S
      /\ UNCHANGED <<element, header>> /\ p' = Null /\ e' = head
  BY DEF RemoveIf
<1>3. q \in Seq(Block) /\ Len(q) \in Nat /\ head = EntryOf(q, 1)
  BY DEF Represents, Chained
<1>4. Scanned(q)'
  <2>1. 0 \in 0 .. Len(q) /\ p' = EntryOf(q, 0) /\ e' = EntryOf(q, 0 + 1) /\ 1 .. 0 = {}
    BY <1>2, <1>3 DEF EntryOf
  <2> QED BY <1>2, <2>1 DEF Scanned, EntryOf
<1>5. doomed = {} /\ Shown = Contents
  BY <1>2, ShownIs DEF Represents, Scanned
<1>6. Contents' = Contents
  BY <1>1, <1>2, ElementsIn, ElementsInNext DEF Represents
<1>7. Shown' = Without(Shown, S)
  BY <1>2, <1>5, <1>6 DEF Shown
<1>8. L!RemoveIf(S)
  BY <1>7 DEF L!RemoveIf, Shown, L!Without, Without
<1>9. Dedup' = Dedup
  BY <1>2 DEF Dedup
<1> QED BY <1>1, <1>4, <1>8, <1>9 DEF Shows, L!Next

LEMMA RemoveThisShows ==
  ASSUME ListInv, NEW q, Represents(q), Scanned(q), RemoveThis
  PROVE  Shows' /\ Shown' = Shown /\ Dedup' = Dedup
<1>1. PICK k \in 0 .. Len(q) : /\ p = EntryOf(q, k) /\ e = EntryOf(q, k + 1)
                               /\ \A i \in 1 .. k : element[q[i]] \notin doomed
  BY DEF Scanned, RemoveThis, Unlinked
<1> DEFINE c == Cut(q, k)
<1>2. /\ ListInv' /\ k \in 0 .. Len(q) - 1 /\ e = q[k + 1]
      /\ Represents(c)'
      /\ p' = EntryOf(c, k) /\ e' = EntryOf(c, k + 1)
  BY <1>1, RemoveThisStep
<1>3. /\ pc = "remove" /\ pc' = "remove" /\ UNCHANGED <<doomed, header>>
      /\ element[e] \in doomed
      /\ element' = [element EXCEPT ![e] = Null]
      /\ element \in [Block -> Element \cup {Null}]
  BY DEF RemoveThis, Unlinked, Freed, ListInv, ListType
<1>4. /\ q \in Seq(Block) /\ Len(q) \in Nat /\ k \in Nat /\ k + 1 \in 1 .. Len(q)
      /\ \A i, j \in 1 .. Len(q) : q[i] = q[j] => i = j
      /\ \A i \in 1 .. Len(q) : q[i] \in Block
  BY <1>2 DEF Represents, Chained
<1>5. /\ c \in Seq(Block) /\ Len(c) = Len(q) - 1
      /\ \A i \in 1 .. Len(q) - 1 :
           /\ i <= k => i \in 1 .. Len(q) /\ c[i] = q[i]
           /\ i > k => i + 1 \in 1 .. Len(q) /\ c[i] = q[i + 1]
  BY <1>2, <1>4, CutFacts
<1> HIDE DEF c
<1>6. \A i \in 1 .. Len(q) : i # k + 1 => element'[q[i]] = element[q[i]]
  <2> TAKE i \in 1 .. Len(q)
  <2>1. i # k + 1 => q[i] # e
    BY <1>2, <1>4
  <2> QED BY <1>3, <1>4, <2>1
<1>7. \A i \in 1 .. Len(c) :
        /\ i <= k => element'[c[i]] = element[q[i]]
        /\ i > k => element'[c[i]] = element[q[i + 1]]
  <2> TAKE i \in 1 .. Len(c)
  <2>1. i \in 1 .. Len(q) - 1 /\ i \in Int /\ k \in Int
    BY <1>4, <1>5
  <2>2. CASE i <= k
    <3>1. i \in 1 .. Len(q) /\ c[i] = q[i] /\ i # k + 1 /\ ~(i > k)
      BY <1>5, <2>1, <2>2
    <3> QED BY <1>6, <3>1
  <2>3. CASE i > k
    <3>1. i + 1 \in 1 .. Len(q) /\ c[i] = q[i + 1] /\ i + 1 # k + 1 /\ ~(i <= k)
      BY <1>5, <2>1, <2>3
    <3> QED BY <1>6, <3>1
  <2> QED BY <2>1, <2>2, <2>3
<1>8. Scanned(c)'
  <2>1. k \in 0 .. Len(c)
    BY <1>2, <1>4, <1>5
  <2>2. \A i \in 1 .. k : element'[c[i]] \notin doomed'
    <3> TAKE i \in 1 .. k
    <3>1. i \in 1 .. Len(c) /\ i <= k
      BY <2>1
    <3> QED BY <1>1, <1>3, <1>7, <3>1
  <2> QED BY <1>2, <1>3, <2>1, <2>2 DEF Scanned, EntryOf
<1>9. Contents' = Cut(Contents, k)
  <2>1. /\ Len(Contents) = Len(q)
        /\ \A i \in 1 .. Len(q) : Contents[i] = element[q[i]]
    BY ElementsIn DEF Represents
  <2>2. Contents' = [i \in 1 .. Len(c) |-> element'[c[i]]]
    BY <1>2, ElementsInNext DEF Represents
  <2>3. \A i \in 1 .. Len(c) :
          element'[c[i]] = IF i <= k THEN Contents[i] ELSE Contents[i + 1]
    <3> TAKE i \in 1 .. Len(c)
    <3>1. i \in 1 .. Len(q) /\ i + 1 \in 1 .. Len(q) /\ (i > k <=> ~(i <= k))
      BY <1>4, <1>5
    <3> QED BY <1>7, <2>1, <3>1
  <2> QED BY <1>5, <2>1, <2>2, <2>3 DEF Cut
<1>10. Shown' = Shown
  <2>1. /\ Contents \in Seq(Element) /\ Len(Contents) = Len(q)
        /\ Contents[k + 1] = element[q[k + 1]]
    BY <1>4, ElementsIn DEF Represents
  <2>2. Cut(Contents, k) \in Seq(Element) /\ Len(Cut(Contents, k)) = Len(Contents) - 1
    <3>1. Contents' \in Seq(Element) /\ Len(Contents') = Len(c)
      BY <1>2, ElementsInNext DEF Represents
    <3> QED BY <1>5, <1>9, <2>1, <3>1
  <2>3. Without(Cut(Contents, k), doomed) = Without(Contents, doomed)
    BY <1>2, <1>3, <2>1, <2>2, CutLeaves
  <2> QED BY <1>3, <1>9, <2>3 DEF Shown
<1>11. Dedup' = Dedup
  BY <1>3 DEF Dedup
<1> QED BY <1>2, <1>8, <1>10, <1>11 DEF Shows

LEMMA KeepThisShows ==
  ASSUME ListInv, NEW q, Represents(q), Scanned(q), KeepThis
  PROVE  Shows' /\ Shown' = Shown /\ Dedup' = Dedup
<1>1. ListInv' /\ Represents(q)'
  BY KeepThisStep
<1>2. /\ pc = "remove" /\ pc' = "remove" /\ UNCHANGED <<element, doomed, header>>
      /\ e # Null /\ element[e] \notin doomed /\ p' = e /\ e' = next[e]
  BY DEF KeepThis
<1>3. PICK k \in 0 .. Len(q) : /\ p = EntryOf(q, k) /\ e = EntryOf(q, k + 1)
                               /\ \A i \in 1 .. k : element[q[i]] \notin doomed
  BY <1>2 DEF Scanned
<1>4. /\ q \in Seq(Block) /\ Len(q) \in Nat
      /\ \A i \in 1 .. Len(q) : next[q[i]] = EntryOf(q, i + 1)
  BY DEF Represents, Chained
<1>5. k + 1 \in 1 .. Len(q) /\ e = q[k + 1]
  BY <1>2, <1>3, <1>4, EntryFacts
<1>6. Scanned(q)'
  <2>1. k + 1 \in 0 .. Len(q) /\ p' = EntryOf(q, k + 1) /\ e' = EntryOf(q, (k + 1) + 1)
    BY <1>2, <1>3, <1>4, <1>5
  <2>2. \A i \in 1 .. k + 1 : element'[q[i]] \notin doomed'
    <3> TAKE i \in 1 .. k + 1
    <3>1. i = k + 1 \/ i \in 1 .. k
      OBVIOUS
    <3> QED BY <1>2, <1>3, <1>5, <3>1
  <2> QED BY <1>2, <2>1, <2>2 DEF Scanned, EntryOf
<1>7. Shown' = Shown
  BY <1>1, <1>2, SameShown DEF Represents
<1>8. Dedup' = Dedup
  BY <1>2 DEF Dedup
<1> QED BY <1>1, <1>6, <1>7, <1>8 DEF Shows

LEMMA RemoveDoneShows ==
  ASSUME ListInv, NEW q, Represents(q), Scanned(q), RemoveDone
  PROVE  Shows' /\ Shown' = Shown /\ Dedup' = Dedup
<1>1. ListInv' /\ Represents(q)'
  BY RemoveDoneStep
<1>2. /\ pc = "remove" /\ pc' = "idle" /\ UNCHANGED <<element, header>>
      /\ e = Null /\ doomed' = {}
  BY DEF RemoveDone
<1>3. PICK k \in 0 .. Len(q) : /\ e = EntryOf(q, k + 1)
                               /\ \A i \in 1 .. k : element[q[i]] \notin doomed
  BY <1>2 DEF Scanned
<1>4. q \in Seq(Block) /\ Len(q) \in Nat
  BY DEF Represents, Chained
<1>5. k = Len(q)
  BY <1>2, <1>3, <1>4, EntryFacts
<1>6. Scanned(q)'
  BY <1>2 DEF Scanned
<1>7. Contents' = Contents
  BY <1>1, <1>2, ElementsIn, ElementsInNext DEF Represents
<1>8. /\ Contents \in Seq(Element)
      /\ \A i \in 1 .. Len(Contents) : Contents[i] \notin doomed
  BY <1>3, <1>5, ElementsIn DEF Represents
<1>9. Shown = Contents
  BY <1>8, NoneLeaves DEF Shown
<1>10. Shown' = Contents'
  BY <1>1, <1>2, ShownIsNext DEF Represents
<1>11. Dedup' = Dedup
  BY <1>2 DEF Dedup
<1> QED BY <1>1, <1>6, <1>7, <1>9, <1>10, <1>11 DEF Shows

LEMMA OthersShow ==
  ASSUME Counts, ListInv, NEW q, Represents(q), Scanned(q),
         Others \/ UNCHANGED <<vars, listVars>>
  PROVE  Shows' /\ Shown' = Shown /\ Dedup' = Dedup
<1>1. ListInv' /\ Represents(q)'
  BY OthersStep, StutterStep
<1>2. UNCHANGED <<pc, element, doomed, header, pushed, e, p>>
  BY DEF Others, listVars
<1>3. Dedup' = Dedup
  BY <1>2 DEF Dedup
<1>4. Scanned(q)'
  BY <1>2, <1>3 DEF Scanned, EntryOf
<1>5. Shown' = Shown
  BY <1>1, <1>2, SameShown DEF Represents
<1> QED BY <1>1, <1>3, <1>4, <1>5 DEF Shows

LEMMA ShowsStep ==
  ASSUME Counts
  PROVE  Shows /\ [ListNext]_<<vars, listVars>> =>
           Shows' /\ [L!Next]_<<Shown, Dedup>>
<1> SUFFICES ASSUME Shows, [ListNext]_<<vars, listVars>>
             PROVE  Shows' /\ [L!Next]_<<Shown, Dedup>>
  OBVIOUS
<1>1. PICK q : ListInv /\ Represents(q) /\ Scanned(q)
  BY DEF Shows
<1>2. ASSUME NEW x \in Element, NEW back \in BOOLEAN, Push(x, back)
      PROVE  Shows' /\ [L!Next]_<<Shown, Dedup>>
  BY <1>1, <1>2, PushShows
<1>3. CASE AllocHeader
  BY <1>1, <1>3, AllocHeaderShows
<1>4. CASE PushFront \/ PushBack \/ PopFront
  BY <1>1, <1>4, PushFrontShows, PushBackShows, PopFrontShows
<1>5. CASE Clear \/ ClearFirst \/ ClearDone
  BY <1>1, <1>5, ClearShows, ClearFirstShows, ClearDoneShows
<1>6. ASSUME NEW S \in SUBSET Element, RemoveIf(S)
      PROVE  Shows' /\ [L!Next]_<<Shown, Dedup>>
  BY <1>1, <1>6, RemoveIfShows
<1>7. CASE RemoveThis \/ KeepThis \/ RemoveDone
  BY <1>1, <1>7, RemoveThisShows, KeepThisShows, RemoveDoneShows
<1>8. CASE Others \/ UNCHANGED <<vars, listVars>>
  BY <1>1, <1>8, OthersShow
<1> QED BY <1>2, <1>3, <1>4, <1>5, <1>6, <1>7, <1>8 DEF ListNext

THEOREM RefinesElementListHolds == ASSUME Counts PROVE ListSpec => RefinesElementList
BY ShowsInit, ShowsStep, PTL DEF ListSpec, RefinesElementList, L!Spec, Shown
=============================================================================
