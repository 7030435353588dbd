----------------------------- MODULE Allocator ------------------------------
(***************************************************************************)
(* What a block allocator promises: a block is given out to one owner at a *)
(* time, and its memory stays mapped until the owner gives it back.        *)
(***************************************************************************)
CONSTANTS Block

VARIABLES
  live,     (* the blocks that are given out                               *)
  mapped    (* the blocks whose memory is mapped                           *)

vars == <<live, mapped>>

Init == live = {} /\ mapped = {}

Give(b) ==
  /\ b \notin live
  /\ live' = live \cup {b}
  /\ mapped' \in {m \in SUBSET Block : mapped \subseteq m /\ b \in m}

TakeBack(b) ==
  /\ b \in live
  /\ live' = live \ {b}
  /\ UNCHANGED mapped

Unmap ==
  /\ live = {}
  /\ mapped' = {}
  /\ UNCHANGED live

Next == Unmap \/ \E b \in Block : Give(b) \/ TakeBack(b)

Spec == Init /\ [][Next]_vars
=============================================================================
