---------------------------- MODULE LinkedLists -----------------------------
(***************************************************************************)
(* LinkedList and LinkedListT: the linker's lists of soinfos and           *)
(* namespaces, as fake-linker edits them in place, over the linker's block *)
(* allocator, which gives blocks to other lists all the while.  An entry   *)
(* is a block; LinkedListT (Android 13+) also takes a block for its header *)
(* at the first push.  A call takes or frees one block a step.             *)
(***************************************************************************)
EXTENDS BlockAllocator, SequencesExt, Sublists

CONSTANTS
  Element,  (* soinfos or namespaces                                       *)
  Null,
  NoHeader  (* header of a LinkedList, which has none                      *)

ASSUME LinkedListsAssumption ==
  /\ IsFiniteSet(Page)
  /\ Null \notin Block \cup Element
  /\ NoHeader \notin Block \cup {Null}

VARIABLES
  header,         (* header_ of a LinkedListT, Null before the first push  *)
  head, tail,     (* the list's ends                                       *)
  next, element,  (* the fields of the entries                             *)
  used,           (* the blocks the allocator has given to this list       *)
  pc,             (* "idle", or the call the list is in the middle of      *)
  pushed,         (* what is pushed, and whether to the back               *)
  e, p,           (* remove_if's pointers: this entry and the one before   *)
  doomed          (* the elements that clear, or remove_if's predicate, is *)
                  (* there to remove                                       *)

listVars == <<header, head, tail, next, element, used, pc, pushed, e, p, doomed>>

-----------------------------------------------------------------------------
(* The entries from head on; after the last one, null.                     *)
Reached == LET r[n \in Nat] == IF n = 0 THEN head
                               ELSE IF r[n - 1] = Null THEN Null
                               ELSE next[r[n - 1]]
           IN  r

Lengths == {n \in 0 .. Cardinality(Block) : Reached[n] = Null}

(* The list as a sequence; cut off after Block's size if it has no end.    *)
Length ==
  IF Lengths = {} THEN Cardinality(Block)
                  ELSE CHOOSE n \in Lengths : \A m \in Lengths : n <= m

Chain == [n \in 1 .. Length |-> Reached[n - 1]]

Contents == [n \in 1 .. Length |-> element[Reached[n - 1]]]

-----------------------------------------------------------------------------
ListInit ==
  /\ Init
  /\ header \in {Null, NoHeader}
  /\ head = Null
  /\ tail = Null
  /\ next = [b \in Block |-> Null]
  /\ element = [b \in Block |-> Null]
  /\ used = {}
  /\ pc = "idle"
  /\ pushed = [element |-> Null, back |-> FALSE]
  /\ e = Null
  /\ p = Null
  /\ doomed = {}

(* LinkedList, of Android 12 and below, keeps one copy of an element.      *)
Dedup == header = NoHeader

(* mmap never fails: a push begins only if the pages of the instance can   *)
(* hold the list.                                                          *)
Room == Cardinality(used) + (IF header = Null THEN 2 ELSE 1) <= Cardinality(Block)

(* The block an alloc gives.                                               *)
Given == CHOOSE b \in live' : b \notin live

(* LinkedList::push_back returns early when the element is in the list.    *)
Push(x, back) ==
  /\ pc = "idle"
  /\ Room
  /\ back /\ Dedup => ~Contains(Contents, x)
  /\ pushed' = [element |-> x, back |-> back]
  /\ pc' = IF header = Null THEN "header" ELSE "entry"
  /\ UNCHANGED vars
  /\ UNCHANGED <<header, head, tail, next, element, used, e, p, doomed>>

AllocHeader ==
  /\ pc = "header"
  /\ Alloc
  /\ header' = Given
  /\ used' = used \cup {Given}
  /\ pc' = "entry"
  /\ UNCHANGED <<head, tail, next, element, pushed, e, p, doomed>>

(* The rest of a push, with the block for its entry.                       *)
Entered ==
  /\ pc = "entry"
  /\ Alloc
  /\ used' = used \cup {Given}
  /\ element' = [element EXCEPT ![Given] = pushed.element]
  /\ pc' = "idle"
  /\ pushed' = [element |-> Null, back |-> FALSE]
  /\ UNCHANGED <<header, e, p, doomed>>

PushFront ==
  /\ Entered
  /\ ~pushed.back
  /\ next' = [next EXCEPT ![Given] = head]
  /\ head' = Given
  /\ tail' = IF tail = Null THEN Given ELSE tail

(* Mutant of PushBack: the tail stays where it was.                        *)
PushBackStaleTail ==
  /\ Entered
  /\ pushed.back
  /\ IF tail = Null
       THEN /\ head' = Given
            /\ tail' = Given
            /\ next' = [next EXCEPT ![Given] = Null]
       ELSE /\ next' = [next EXCEPT ![Given] = Null, ![tail] = Given]
            /\ UNCHANGED <<head, tail>>

PushBack ==
  /\ Entered
  /\ pushed.back
  /\ IF tail = Null
       THEN head' = Given /\ next' = [next EXCEPT ![Given] = Null]
       ELSE next' = [next EXCEPT ![Given] = Null, ![tail] = Given]
            /\ UNCHANGED head
  /\ tail' = Given

(* Allocator::free clears the block.                                       *)
Freed(b, links) ==
  /\ Free(b)
  /\ used' = used \ {b}
  /\ next' = [links EXCEPT ![b] = Null]
  /\ element' = [element EXCEPT ![b] = Null]

PopFront ==
  /\ pc = "idle"
  /\ head # Null
  /\ Freed(head, next)
  /\ head' = next[head]
  /\ tail' = IF next[head] = Null THEN Null ELSE tail
  /\ UNCHANGED <<header, pc, pushed, e, p, doomed>>

(* The loop of clear; the header block stays.                              *)
Clear ==
  /\ pc = "idle"
  /\ head # Null
  /\ pc' = "clear"
  /\ doomed' = Element
  /\ UNCHANGED vars
  /\ UNCHANGED <<header, head, tail, next, element, used, pushed, e, p>>

ClearFirst ==
  /\ pc = "clear"
  /\ head # Null
  /\ Freed(head, next)
  /\ head' = next[head]
  /\ UNCHANGED <<header, tail, pc, pushed, e, p, doomed>>

ClearDone ==
  /\ pc = "clear"
  /\ head = Null
  /\ tail' = Null
  /\ pc' = "idle"
  /\ doomed' = {}
  /\ UNCHANGED vars
  /\ UNCHANGED <<header, head, next, element, used, pushed, e, p>>

RemoveIf(S) ==
  /\ pc = "idle"
  /\ head # Null
  /\ pc' = "remove"
  /\ e' = head
  /\ p' = Null
  /\ doomed' = S
  /\ UNCHANGED vars
  /\ UNCHANGED <<header, head, tail, next, element, used, pushed>>

(* Unlink e, which p precedes (or nothing does), and free it.              *)
Unlinked ==
  LET after == next[e] IN
  /\ pc = "remove"
  /\ e # Null
  /\ element[e] \in doomed
  /\ Freed(e, IF p = Null THEN next ELSE [next EXCEPT ![p] = after])
  /\ head' = IF p = Null THEN after ELSE head
  /\ e' = after

(* Mutant of RemoveThis: the tail is not moved back.                       *)
RemoveThisKeepsTail ==
  /\ Unlinked
  /\ UNCHANGED <<header, tail, pc, pushed, p, doomed>>

RemoveThis ==
  /\ Unlinked
  /\ tail' = IF tail = e THEN p ELSE tail
  /\ UNCHANGED <<header, pc, pushed, p, doomed>>

KeepThis ==
  /\ pc = "remove"
  /\ e # Null
  /\ element[e] \notin doomed
  /\ p' = e
  /\ e' = next[e]
  /\ UNCHANGED vars
  /\ UNCHANGED <<header, head, tail, next, element, used, pc, pushed, doomed>>

RemoveDone ==
  /\ pc = "remove"
  /\ e = Null
  /\ pc' = "idle"
  /\ p' = Null
  /\ doomed' = {}
  /\ UNCHANGED vars
  /\ UNCHANGED <<header, head, tail, next, element, used, pushed, e>>

(* The linker's other lists, and its purge of the allocator.               *)
Others ==
  /\ Alloc \/ Purge \/ \E b \in live \ used : Free(b)
  /\ UNCHANGED listVars

ListNext ==
  \/ \E x \in Element, back \in BOOLEAN : Push(x, back)
  \/ AllocHeader
  \/ PushFront
  \/ PushBack
  \/ PopFront
  \/ Clear \/ ClearFirst \/ ClearDone
  \/ \E S \in SUBSET Element : RemoveIf(S)
  \/ RemoveThis \/ KeepThis \/ RemoveDone
  \/ Others

ListSpec == ListInit /\ [][ListNext]_<<vars, listVars>>

-----------------------------------------------------------------------------
(* WellLinked: the list ends, visits no block twice and only blocks that   *)
(* hold an element, and its tail is its last entry whenever nobody is in   *)
(* the middle of an edit; every block taken from the allocator is the      *)
(* header or in the list, so clear and the destructor give all back, and   *)
(* the allocator counts it as given out; the pointers of remove_if are     *)
(* left on no freed block.                                                 *)
WellLinked ==
  /\ Lengths # {}
  /\ IsInjective(Chain)
  /\ \A b \in Range(Chain) : b \in used \ {header} /\ element[b] \in Element
  /\ pc = "idle" => tail = IF head = Null THEN Null ELSE Last(Chain)
  /\ used = Range(Chain) \cup ({header} \cap Block)
  /\ used \subseteq live
  /\ {e, p} \subseteq used \cup {Null}

(* RefinesElementList: an edit does to the sequence of elements what       *)
(* ElementList says; while clear or remove_if is under way the doomed      *)
(* elements count as gone.                                                 *)
L == INSTANCE ElementList
       WITH dedup <- Dedup,
            list <- Without(Contents, doomed)

RefinesElementList == L!Spec
=============================================================================
