---------------------------- MODULE ElementList -----------------------------
(***************************************************************************)
(* What a linked list of the linker promises: it is a sequence of          *)
(* elements.  A list of Android 12 and below refuses a second copy at the  *)
(* back (dedup), and is so for all its life.                               *)
(***************************************************************************)
EXTENDS SequencesExt, Sublists

CONSTANT Element

VARIABLES list, dedup

Init == list = <<>> /\ dedup \in BOOLEAN

PushFront(x) == list' = <<x>> \o list

PushBack(x) ==
  list' = IF dedup /\ Contains(list, x) THEN list ELSE Append(list, x)

PopFront == list # <<>> /\ list' = Tail(list)

Clear == list' = <<>>

RemoveIf(S) == list' = Without(list, S)

Next ==
  /\ \/ \E x \in Element : PushFront(x) \/ PushBack(x)
     \/ PopFront
     \/ Clear
     \/ \E S \in SUBSET Element : RemoveIf(S)
  /\ UNCHANGED dedup

Spec == Init /\ [][Next]_<<list, dedup>>
=============================================================================
