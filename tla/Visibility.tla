----------------------------- MODULE Visibility -----------------------------
(***************************************************************************)
(* What namespace bookkeeping promises, without saying how it is kept: a   *)
(* library is visible in some namespaces while it is loaded and in none    *)
(* once it is unloaded, and a call made for one library never changes      *)
(* where another one is visible.                                           *)
(***************************************************************************)
CONSTANTS Soinfo, Namespace, BootSoinfo, DefaultNs

VARIABLES
  live,   (* the loaded libraries                                          *)
  seen    (* soinfo -> the namespaces whose list it is in                  *)

vars == <<live, seen>>

Init ==
  /\ live = {BootSoinfo}
  /\ seen = [si \in Soinfo |-> IF si = BootSoinfo THEN {DefaultNs} ELSE {}]

(* A library is loaded: it is seen where it was loaded and nowhere else.   *)
Arrive(si, np) ==
  /\ si \notin live
  /\ live' = live \cup {si}
  /\ seen' = [seen EXCEPT ![si] = {np}]

(* A library is unloaded: nobody sees its address any more.                *)
Depart(si) ==
  /\ si \in live
  /\ live' = live \ {si}
  /\ seen' = [seen EXCEPT ![si] = {}]

(* A call moves one loaded library about.                                  *)
Place(si) ==
  /\ si \in live
  /\ \E S \in SUBSET Namespace : seen' = [seen EXCEPT ![si] = S]
  /\ UNCHANGED live

(* A new namespace starts with some of the loaded libraries.               *)
Inherit(np) ==
  /\ \A si \in Soinfo : np \notin seen[si]
  /\ \E S \in SUBSET live :
        seen' = [si \in Soinfo |-> IF si \in S THEN seen[si] \cup {np}
                                               ELSE seen[si]]
  /\ UNCHANGED live

Next ==
  \/ \E si \in Soinfo, np \in Namespace : Arrive(si, np)
  \/ \E si \in Soinfo : Depart(si) \/ Place(si)
  \/ \E np \in Namespace : Inherit(np)

Spec == Init /\ [][Next]_vars
=============================================================================
