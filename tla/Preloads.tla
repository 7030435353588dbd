------------------------------ MODULE Preloads ------------------------------
(***************************************************************************)
(* The global group below Android 6: the linker's array g_ld_preloads,     *)
(* edited slot by slot.  The linker walks it from the front and stops at   *)
(* the first null slot, so a library behind a null slot is held but not in *)
(* effect.  Slots is 9 in the code; the caller is one thread.              *)
(***************************************************************************)
EXTENDS Naturals

CONSTANTS
  Library,  (* the loaded libraries                                        *)
  Null,     (* a null soinfo pointer                                       *)
  Slots     (* the length of g_ld_preloads                                 *)

ASSUME PreloadsAssumption ==
  /\ Null \notin Library
  /\ Slots \in Nat \ {0}

VARIABLES
  preloads,  (* the array                                                  *)
  pc,        (* "idle", or "remove" inside the loop of RemoveGlobalSoinfo  *)
  asked,     (* the argument of the last call                              *)
  i, index,  (* the loop's variables, counted from 1; index 0 is the -1    *)
  before     (* the array as the last removal found it                     *)

preloadsVars == <<preloads, pc, asked, i, index, before>>

Slot == 1 .. Slots

(* What the array holds.                                                   *)
Held(a) == {a[j] : j \in Slot} \ {Null}

(* No null slot in front of a library.                                     *)
Packed(a) == \A j, k \in Slot : j < k /\ a[j] = Null => a[k] = Null

IsPreloaded(s) == s \in Held(preloads)

-----------------------------------------------------------------------------
PreloadsInit ==
  /\ preloads = [j \in Slot |-> Null]
  /\ pc = "idle"
  /\ asked = Null
  /\ i = 1
  /\ index = 0
  /\ before = preloads

(* The first null slot takes the library; without one nothing happens, and *)
(* the exported call returns true all the same.                            *)
AddToPreloads(s) ==
  /\ pc = "idle"
  /\ asked' = s
  /\ \/ \E j \in Slot :
           /\ preloads[j] = Null
           /\ \A k \in 1 .. j - 1 : preloads[k] # Null
           /\ preloads' = [preloads EXCEPT ![j] = s]
     \/ /\ \A j \in Slot : preloads[j] # Null
        /\ UNCHANGED preloads
  /\ before' = preloads'
  /\ UNCHANGED <<pc, i, index>>

RemoveFromPreloads(s) ==
  /\ pc = "idle"
  /\ pc' = "remove"
  /\ asked' = s
  /\ i' = 1
  /\ index' = 0
  /\ before' = preloads
  /\ UNCHANGED preloads

(* The slot holds the library: it is emptied and remembered.               *)
RemoveMatch ==
  /\ pc = "remove"
  /\ i \in Slot
  /\ preloads[i] = asked
  /\ preloads' = [preloads EXCEPT ![i] = Null]
  /\ index' = i
  /\ i' = i + 1
  /\ UNCHANGED <<pc, asked, before>>

(* Mutant of RemoveShift: the slot is emptied before it is copied.         *)
RemoveShiftCleared ==
  /\ pc = "remove"
  /\ i \in Slot
  /\ preloads[i] \notin {asked, Null}
  /\ IF index > 0 /\ index + 1 = i
       THEN /\ preloads' = [preloads EXCEPT ![i] = Null, ![index] = Null]
            /\ index' = index + 1
       ELSE UNCHANGED <<preloads, index>>
  /\ i' = i + 1
  /\ UNCHANGED <<pc, asked, before>>

(* Another library: it moves into the slot before, if that one was given   *)
(* up; its own slot keeps it.                                              *)
RemoveShift ==
  /\ pc = "remove"
  /\ i \in Slot
  /\ preloads[i] \notin {asked, Null}
  /\ IF index > 0 /\ index + 1 = i
       THEN /\ preloads' = [preloads EXCEPT ![index] = preloads[i]]
            /\ index' = index + 1
       ELSE UNCHANGED <<preloads, index>>
  /\ i' = i + 1
  /\ UNCHANGED <<pc, asked, before>>

(* Mutant of RemoveReturn: the loop leaves the last slot out.              *)
RemoveReturnEarly ==
  /\ pc = "remove"
  /\ i >= Slots \/ (i \in Slot /\ preloads[i] = Null)
  /\ pc' = "idle"
  /\ UNCHANGED <<preloads, asked, i, index, before>>

(* A null slot, or the end of the array: the call returns true.            *)
RemoveReturn ==
  /\ pc = "remove"
  /\ i > Slots \/ (i \in Slot /\ preloads[i] = Null)
  /\ pc' = "idle"
  /\ UNCHANGED <<preloads, asked, i, index, before>>

PreloadsNext ==
  \/ \E s \in Library : AddToPreloads(s) \/ RemoveFromPreloads(s)
  \/ RemoveMatch
  \/ RemoveShift
  \/ RemoveReturn

PreloadsSpec == PreloadsInit /\ [][PreloadsNext]_preloadsVars

-----------------------------------------------------------------------------
ArrayTypeOK ==
  /\ preloads \in [Slot -> Library \cup {Null}]
  /\ pc \in {"idle", "remove"}
  /\ asked \in Library \cup {Null}
  /\ i \in 1 .. Slots + 1
  /\ index \in 0 .. Slots
  /\ before \in [Slot -> Library \cup {Null}]

(* OthersKept: at every step of a removal, and after it, the array still   *)
(* holds every other library it held before, whatever duplicates and null  *)
(* slots it started with.                                                  *)
OthersKept == Held(before) \ {asked} \subseteq Held(preloads)

(* RemovedIsGone: a removal from a packed array leaves no copy of the      *)
(* library, however often it had been added.                               *)
RemovedIsGone ==
  [][pc = "remove" /\ pc' = "idle" /\ Packed(before)
       => asked \notin Held(preloads')]_preloadsVars
=============================================================================
