------------------------------- MODULE Relink -------------------------------
(***************************************************************************)
(* Rewriting the relocations of libraries that are already loaded.  A call *)
(* takes a list of names and works on one library at a time: it reads the  *)
(* protection of the library's mappings from /proc/self/maps, makes each   *)
(* mapping writable, writes, and puts the old protection back.             *)
(* ManualRelinkLibrary and SystemRelinkLibrary do so under g_dl_mutex;     *)
(* HookJniNativeInterface does the same to the mapping that holds the      *)
(* table of JNI functions, under no lock.                                  *)
(*                                                                         *)
(* A library that a call works on stays loaded.  Calls that return before  *)
(* they reach the first name (no global library, no exported symbol, an    *)
(* empty list, a device whose linker has no link_image) change nothing and *)
(* are left out.                                                           *)
(*                                                                         *)
(* set_unlinked takes every flag from a library, FLAG_NEW_SOINFO too.  On  *)
(* a 32-bit ABI that makes the library inaccessible to its own namespace   *)
(* (has_min_version), which may leave the local group of it empty, or cut  *)
(* the groups of others short.                                             *)
(***************************************************************************)
EXTENDS Naturals, Sequences

CONSTANTS
  Thread,
  NoThread,
  Lib,        (* loaded libraries                                          *)
  NoLib,      (* a name that no loaded library has                         *)
  Mapping,    (* lines of /proc/self/maps                                  *)
  Maps,       (* library -> its mappings, in address order                 *)
  Writable0,  (* the mappings that have PROT_WRITE when nobody edits       *)
  Table,      (* the mapping the JNI function table lies in                *)
  Group,      (* library -> its local group, given the libraries that have *)
              (* lost FLAG_NEW_SOINFO: <<>>, or the library itself first   *)
  Space,      (* library -> its primary namespace                          *)
  Calls,      (* the calls the threads make                                *)
  NameLists   (* the lists of names calls are given                        *)

ASSUME RelinkAssumption ==
  /\ NoThread \notin Thread
  /\ NoLib \notin Lib
  /\ Maps \in [Lib -> Seq(Mapping)]
  /\ \A a, b \in Lib : \A i \in DOMAIN Maps[a], j \in DOMAIN Maps[b] :
       Maps[a][i] = Maps[b][j] => a = b /\ i = j
  /\ Writable0 \in SUBSET Mapping
  /\ Table \in Mapping
  /\ Group \in [Lib -> [SUBSET Lib -> Seq(Lib)]]
  /\ \A l \in Lib, lost \in SUBSET Lib :
       Group[l][lost] # <<>> => Group[l][lost][1] = l
  /\ \A l \in Lib, lost \in SUBSET Lib :
       l \notin lost => Group[l][lost] # <<>>
  /\ \A l \in Lib, more \in SUBSET Lib : \A lost \in SUBSET more :
       Group[l][lost] = <<>> => Group[l][more] = <<>>
  /\ Calls \in SUBSET {"manual", "system", "hook"}
  /\ NameLists \in SUBSET Seq(Lib \cup {NoLib})

VARIABLES
  lp64,       (* the ABI is a 64-bit one; never changes                    *)
  mutex,      (* the thread that holds g_dl_mutex                          *)
  writable,   (* the mappings that have PROT_WRITE                         *)
  flags,      (* library -> the flags of its soinfo that are set           *)
  pc,         (* thread -> where it is                                     *)
  call,       (* thread -> the call it makes                               *)
  asked,      (* thread -> the names the call was given                    *)
  next,       (* thread -> the index of the next name                      *)
  lib,        (* thread -> the library it works on                         *)
  success,    (* thread -> the result so far                               *)
  maps,       (* thread -> MapsHelper::pages_                              *)
  was,        (* thread -> the pages whose old_protect has kMPWrite        *)
  marked,     (* thread -> the pages whose new_protect is not old_protect  *)
  k,          (* thread -> index of its loop over pages or the local group *)
  failed,     (* history: mappings of libraries an mprotect has failed for *)
  gaveUp,     (* history: libraries a system relink has failed for         *)
  relocated   (* history: thread -> libraries this call has relocated      *)

session == <<maps, was, marked>>
request == <<call, asked, next>>
vars == <<lp64, mutex, writable, flags, pc, request, lib, success, session, k,
          failed, gaveUp, relocated>>

Pages(l) == {Maps[l][i] : i \in DOMAIN Maps[l]}
PagesOf(t) == {maps[t][i] : i \in DOMAIN maps[t]}

(* The libraries that has_min_version(3) refuses.                          *)
Lost == {l \in Lib : ~lp64 /\ "new" \notin flags[l]}

(* GetSoinfoLocalGroup(l) of the present moment.                           *)
Local(l) == Group[l][Lost]

-----------------------------------------------------------------------------
Init ==
  /\ lp64 \in BOOLEAN
  /\ mutex = NoThread
  /\ writable = Writable0
  /\ flags = [l \in Lib |-> {"linked", "image", "gnu", "new"}]
  /\ pc = [t \in Thread |-> "idle"]
  /\ call = [t \in Thread |-> "manual"]
  /\ asked = [t \in Thread |-> <<>>]
  /\ next = [t \in Thread |-> 1]
  /\ lib = [t \in Thread |-> NoLib]
  /\ success = [t \in Thread |-> TRUE]
  /\ maps = [t \in Thread |-> <<>>]
  /\ was = [t \in Thread |-> {}]
  /\ marked = [t \in Thread |-> {}]
  /\ k = [t \in Thread |-> 1]
  /\ failed = {}
  /\ gaveUp = {}
  /\ relocated = [t \in Thread |-> {}]

Goto(t, label) == pc' = [pc EXCEPT ![t] = label]

(* ManualRelinkLibraries and SystemRelinkLibraries, up to their loop.      *)
Begin(t, c, names) ==
  /\ pc[t] = "idle"
  /\ call' = [call EXCEPT ![t] = c]
  /\ asked' = [asked EXCEPT ![t] = names]
  /\ next' = [next EXCEPT ![t] = 1]
  /\ success' = [success EXCEPT ![t] = TRUE]
  /\ relocated' = [relocated EXCEPT ![t] = {}]
  /\ Goto(t, "loop")
  /\ UNCHANGED <<lp64, mutex, writable, flags, lib, session, k, failed,
                 gaveUp>>

(* A name that FindSoinfoByName does not find only earns a warning.        *)
NextName(t) ==
  /\ pc[t] = "loop"
  /\ IF next[t] \in DOMAIN asked[t]
       THEN /\ next' = [next EXCEPT ![t] = @ + 1]
            /\ IF asked[t][next[t]] = NoLib
                 THEN UNCHANGED <<pc, lib>>
                 ELSE /\ lib' = [lib EXCEPT ![t] = asked[t][next[t]]]
                      /\ Goto(t, "lock")
       ELSE Goto(t, "returned") /\ UNCHANGED <<next, lib>>
  /\ UNCHANGED <<lp64, mutex, writable, flags, call, asked, success, session,
                 k, failed, gaveUp, relocated>>

Return(t) ==
  /\ pc[t] = "returned"
  /\ Goto(t, "idle")
  /\ call' = [call EXCEPT ![t] = "manual"]
  /\ asked' = [asked EXCEPT ![t] = <<>>]
  /\ next' = [next EXCEPT ![t] = 1]
  /\ success' = [success EXCEPT ![t] = TRUE]
  /\ relocated' = [relocated EXCEPT ![t] = {}]
  /\ UNCHANGED <<lp64, mutex, writable, flags, lib, session, k, failed,
                 gaveUp>>

(* Mutant of Lock: the library is relocated without g_dl_mutex.            *)
LockNothing(t) ==
  /\ pc[t] = "lock"
  /\ mutex' = t
  /\ flags' = IF call[t] = "system" THEN [flags EXCEPT ![lib[t]] = {}]
                                    ELSE flags
  /\ Goto(t, "read")
  /\ UNCHANGED <<lp64, writable, request, lib, success, session, k, failed,
                 gaveUp, relocated>>

(* Mutant of Lock: set_unlinked unlinks the whole local group.             *)
LockUnlinksGroup(t) ==
  /\ pc[t] = "lock"
  /\ mutex = NoThread
  /\ mutex' = t
  /\ flags' = IF call[t] # "system" THEN flags
              ELSE [l \in Lib |->
                      IF \E i \in DOMAIN Local(lib[t]) : Local(lib[t])[i] = l
                        THEN {} ELSE flags[l]]
  /\ Goto(t, "read")
  /\ UNCHANGED <<lp64, writable, request, lib, success, session, k, failed,
                 gaveUp, relocated>>

(* ScopedPthreadMutexLocker; SystemRelinkLibrary then calls set_unlinked,  *)
(* whose `flags() & !(...)` clears every flag.                             *)
Lock(t) ==
  /\ pc[t] = "lock"
  /\ mutex = NoThread
  /\ mutex' = t
  /\ flags' = IF call[t] = "system" THEN [flags EXCEPT ![lib[t]] = {}]
                                    ELSE flags
  /\ Goto(t, "read")
  /\ UNCHANGED <<lp64, writable, request, lib, success, session, k, failed,
                 gaveUp, relocated>>

(* The helper now describes the mappings ms.  new_protect of a page is not *)
(* initialised, so any page may look changed until UnlockPageProtect has   *)
(* passed it.                                                              *)
Opened(t, ms) ==
  /\ maps' = [maps EXCEPT ![t] = ms]
  /\ was' = [was EXCEPT ![t] = {ms[i] : i \in DOMAIN ms} \cap writable]
  /\ marked' = [marked EXCEPT ![t] = {}]
  /\ k' = [k EXCEPT ![t] = 1]
  /\ Goto(t, "unlock")

(* ~MapsHelper, and the end of the loop's child.                           *)
Closed(t) ==
  /\ maps' = [maps EXCEPT ![t] = <<>>]
  /\ was' = [was EXCEPT ![t] = {}]
  /\ marked' = [marked EXCEPT ![t] = {}]
  /\ k' = [k EXCEPT ![t] = 1]
  /\ lib' = [lib EXCEPT ![t] = NoLib]

(* Mutants of Leave: the last result wins; a failed relink keeps the lock. *)
LeaveLastResult(t, r) ==
  /\ success' = [success EXCEPT ![t] = r]
  /\ gaveUp' = IF call[t] = "system" /\ ~r THEN gaveUp \cup {lib[t]}
                                           ELSE gaveUp
  /\ IF call[t] = "hook" THEN Goto(t, "idle") /\ UNCHANGED mutex
                         ELSE Goto(t, "loop") /\ mutex' = NoThread
  /\ Closed(t)

LeaveLocked(t, r) ==
  /\ success' = [success EXCEPT ![t] = @ /\ r]
  /\ gaveUp' = IF call[t] = "system" /\ ~r THEN gaveUp \cup {lib[t]}
                                           ELSE gaveUp
  /\ IF call[t] = "hook" THEN Goto(t, "idle") /\ UNCHANGED mutex
                         ELSE /\ Goto(t, "loop")
                              /\ mutex' = IF r THEN NoThread ELSE mutex
  /\ Closed(t)

(* The end of the work on a library, with result r.                        *)
Leave(t, r) ==
  /\ success' = [success EXCEPT ![t] = @ /\ r]
  /\ gaveUp' = IF call[t] = "system" /\ ~r THEN gaveUp \cup {lib[t]}
                                           ELSE gaveUp
  /\ IF call[t] = "hook" THEN Goto(t, "idle") /\ UNCHANGED mutex
                         ELSE Goto(t, "loop") /\ mutex' = NoThread
  /\ Closed(t)

(* GetLibraryProtect under the lock.  On failure the call returns false;   *)
(* a system relink has already cleared the flags by then.                  *)
ReadMaps(t) ==
  /\ pc[t] = "read"
  /\ \/ /\ Opened(t, Maps[lib[t]])
        /\ UNCHANGED <<mutex, lib, success, gaveUp>>
     \/ Leave(t, FALSE)
  /\ UNCHANGED <<lp64, writable, flags, request, failed, relocated>>

(* HookJniNativeInterface(s): GetMemoryProtect, with no lock.              *)
BeginHook(t) ==
  /\ pc[t] = "idle"
  /\ call' = [call EXCEPT ![t] = "hook"]
  /\ Opened(t, <<Table>>)
  /\ UNCHANGED <<lp64, mutex, writable, flags, asked, next, lib, success,
                 failed, gaveUp, relocated>>

(* UnlockPageProtect, one page: mprotect only when it lacks the bits.      *)
UnlockPage(t) ==
  /\ pc[t] = "unlock"
  /\ k[t] \in DOMAIN maps[t]
  /\ LET m == maps[t][k[t]] IN
     IF m \in was[t]
       THEN UNCHANGED <<writable, marked>>
       ELSE /\ writable' = writable \cup {m}
            /\ marked' = [marked EXCEPT ![t] = @ \cup {m}]
  /\ k' = [k EXCEPT ![t] = @ + 1]
  /\ UNCHANGED <<lp64, mutex, flags, pc, request, lib, success, maps, was,
                 failed, gaveUp, relocated>>

(* mprotect fails.  A manual relink and a hook return and leave the pages  *)
(* before this one unlocked; a system relink ignores the result, and the   *)
(* pages behind this one have whatever new_protect the memory held.        *)
UnlockFails(t) ==
  /\ pc[t] = "unlock"
  /\ k[t] \in DOMAIN maps[t]
  /\ maps[t][k[t]] \notin was[t]
  /\ failed' = failed \cup PagesOf(t)
  /\ IF call[t] = "system"
       THEN /\ \E garbage \in SUBSET {maps[t][i] : i \in k[t] .. Len(maps[t])} :
                  marked' = [marked EXCEPT ![t] = @ \cup garbage]
            /\ k' = [k EXCEPT ![t] = 1]
            /\ Goto(t, "link")
            /\ UNCHANGED <<mutex, lib, success, gaveUp, maps, was>>
       ELSE Leave(t, FALSE)
  /\ UNCHANGED <<lp64, writable, flags, request, relocated>>

UnlockDone(t) ==
  /\ pc[t] = "unlock"
  /\ k[t] \notin DOMAIN maps[t]
  /\ k' = [k EXCEPT ![t] = 1]
  /\ Goto(t, IF call[t] = "system" THEN "link" ELSE "write")
  /\ UNCHANGED <<lp64, mutex, writable, flags, request, lib, success, session,
                 failed, gaveUp, relocated>>

(* plain_relocate_impl over every relocation, or the store into the table. *)
Write(t) ==
  /\ pc[t] = "write"
  /\ relocated' = IF call[t] = "manual"
                    THEN [relocated EXCEPT ![t] = @ \cup {lib[t]}]
                    ELSE relocated
  /\ Goto(t, "recover")
  /\ UNCHANGED <<lp64, mutex, writable, flags, request, lib, success, session,
                 k, failed, gaveUp>>

(* RelinkSoinfoImplM: the library of the local group that comes next.      *)
Visited(t) == Local(lib[t])[k[t]]

Visiting(t) == pc[t] = "link" /\ k[t] \in DOMAIN Local(lib[t])

(* It is handed to link_image: not linked, and of the same namespace.      *)
Links(t) ==
  /\ Visiting(t)
  /\ "linked" \notin flags[Visited(t)]
  /\ Space[Visited(t)] = Space[lib[t]]

LinkSkips(t) ==
  /\ Visiting(t)
  /\ "linked" \in flags[Visited(t)]
  /\ k' = [k EXCEPT ![t] = @ + 1]
  /\ UNCHANGED <<lp64, mutex, writable, flags, pc, request, lib, success,
                 session, failed, gaveUp, relocated>>

(* link_image writes the relocations and sets FLAG_IMAGE_LINKED.           *)
LinkImage(t) ==
  /\ Links(t)
  /\ flags' = [flags EXCEPT ![Visited(t)] = @ \cup {"image"}]
  /\ relocated' = [relocated EXCEPT ![t] = @ \cup {Visited(t)}]
  /\ k' = [k EXCEPT ![t] = @ + 1]
  /\ UNCHANGED <<lp64, mutex, writable, pc, request, lib, success, session,
                 failed, gaveUp>>

(* Recover is next, with result r of the relink.                           *)
Linked(t, r) ==
  /\ success' = [success EXCEPT ![t] = @ /\ r]
  /\ gaveUp' = IF r THEN gaveUp ELSE gaveUp \cup {lib[t]}
  /\ k' = [k EXCEPT ![t] = 1]
  /\ Goto(t, "recover")
  /\ UNCHANGED <<mutex, writable, request, lib, session, failed>>

(* A library of another namespace, or a link_image that returns false.     *)
LinkFails(t) ==
  /\ Visiting(t)
  /\ "linked" \notin flags[Visited(t)]
  /\ Linked(t, FALSE)
  /\ UNCHANGED <<lp64, flags, relocated>>

(* The loop ends, at once when the group is empty: visit is then true.     *)
LinkDone(t) ==
  /\ pc[t] = "link"
  /\ k[t] \notin DOMAIN Local(lib[t])
  /\ flags' = [flags EXCEPT ![lib[t]] = @ \cup {"linked", "image"}]
  /\ Linked(t, TRUE)
  /\ UNCHANGED <<lp64, relocated>>

(* Mutant of RecoverPage: the first page is forgotten.                     *)
RecoverPageFromSecond(t) ==
  /\ pc[t] = "recover"
  /\ k[t] \in DOMAIN maps[t]
  /\ LET m == maps[t][k[t]] IN
     IF m \in marked[t] /\ k[t] > 1
       THEN /\ writable' = IF m \in was[t] THEN writable \cup {m}
                                           ELSE writable \ {m}
            /\ marked' = [marked EXCEPT ![t] = @ \ {m}]
       ELSE UNCHANGED <<writable, marked>>
  /\ k' = [k EXCEPT ![t] = @ + 1]
  /\ UNCHANGED <<lp64, mutex, flags, pc, request, lib, success, maps, was,
                 failed, gaveUp, relocated>>

(* RecoveryPageProtect, one page: back to old_protect if it was changed.   *)
RecoverPage(t) ==
  /\ pc[t] = "recover"
  /\ k[t] \in DOMAIN maps[t]
  /\ LET m == maps[t][k[t]] IN
     IF m \in marked[t]
       THEN /\ writable' = IF m \in was[t] THEN writable \cup {m}
                                           ELSE writable \ {m}
            /\ marked' = [marked EXCEPT ![t] = @ \ {m}]
       ELSE UNCHANGED <<writable, marked>>
  /\ k' = [k EXCEPT ![t] = @ + 1]
  /\ UNCHANGED <<lp64, mutex, flags, pc, request, lib, success, maps, was,
                 failed, gaveUp, relocated>>

(* The result of RecoveryPageProtect is ignored; the first failure ends it.*)
(* The call goes on to the next name; a relink gives back g_dl_mutex.      *)
Finish(t) ==
  /\ pc[t] = "recover"
  /\ \/ k[t] \notin DOMAIN maps[t] /\ UNCHANGED failed
     \/ k[t] \in DOMAIN maps[t] /\ maps[t][k[t]] \in marked[t]
        /\ failed' = failed \cup PagesOf(t)
  /\ Leave(t, TRUE)
  /\ UNCHANGED <<lp64, writable, flags, request, relocated>>

Step(t) ==
  \/ NextName(t)
  \/ Lock(t)
  \/ ReadMaps(t)
  \/ UnlockPage(t)
  \/ UnlockFails(t)
  \/ UnlockDone(t)
  \/ Write(t)
  \/ LinkSkips(t)
  \/ LinkImage(t)
  \/ LinkFails(t)
  \/ LinkDone(t)
  \/ RecoverPage(t)
  \/ Finish(t)

Next ==
  \E t \in Thread :
     \/ \E c \in Calls \ {"hook"}, names \in NameLists : Begin(t, c, names)
     \/ "hook" \in Calls /\ BeginHook(t)
     \/ Step(t)
     \/ Return(t)

Spec == Init /\ [][Next]_vars

(* A thread inside a call keeps running, and no thread is refused          *)
(* g_dl_mutex for ever while the others keep taking and giving it back.    *)
Fairness == \A t \in Thread : WF_vars(Step(t)) /\ SF_vars(Lock(t))

FairSpec == Spec /\ Fairness

-----------------------------------------------------------------------------
Labels == {"idle", "loop", "returned", "lock", "read", "unlock", "write",
           "link", "recover"}

(* TypeOK also says that work on a library is never begun with a null one. *)
TypeOK ==
  /\ lp64 \in BOOLEAN
  /\ mutex \in Thread \cup {NoThread}
  /\ writable \in SUBSET Mapping
  /\ flags \in [Lib -> SUBSET {"linked", "image", "gnu", "new"}]
  /\ pc \in [Thread -> Labels]
  /\ call \in [Thread -> {"manual", "system", "hook"}]
  /\ asked \in [Thread -> Seq(Lib \cup {NoLib})]
  /\ next \in [Thread -> Nat \ {0}]
  /\ lib \in [Thread -> Lib \cup {NoLib}]
  /\ \A t \in Thread :
       pc[t] \notin {"idle", "loop", "returned"} /\ call[t] # "hook" =>
         lib[t] \in Lib
  /\ success \in [Thread -> BOOLEAN]
  /\ maps \in [Thread -> Seq(Mapping)]
  /\ was \in [Thread -> SUBSET Mapping]
  /\ marked \in [Thread -> SUBSET Mapping]
  /\ k \in [Thread -> Nat \ {0}]
  /\ failed \in SUBSET Mapping
  /\ gaveUp \in SUBSET Lib
  /\ relocated \in [Thread -> SUBSET Lib]

Open(t) == pc[t] \in {"unlock", "write", "link", "recover"}

(* WriteNeverFaults: a manual relink writes only to pages that are         *)
(* writable, whatever the other threads relink; the page of the JNI table  *)
(* is left out, which hooks unlock and lock without the mutex.             *)
WriteNeverFaults ==
  \A t \in Thread :
     pc[t] = "write" /\ call[t] = "manual" => Pages(lib[t]) \ {Table} \subseteq writable

(* LinkNeverFaults: a system relink hands link_image a library whose pages *)
(* are writable, unless an mprotect failed, or it is another library of    *)
(* the group that an earlier failed relink left unlinked.                  *)
LinkNeverFaults ==
  \A t \in Thread : Links(t) =>
     IF Visited(t) = lib[t]
       THEN Pages(lib[t]) \ {Table} \subseteq writable \cup failed
       ELSE Visited(t) \in gaveUp

(* ProtectionRestored: outside the calls that have it open, a mapping has  *)
(* the protection it started with, unless an mprotect failed; the hooks    *)
(* that share a mapping with a relink do not spoil this.                   *)
ProtectionRestored ==
  \A m \in Mapping \ failed :
     (\A t \in Thread : Open(t) => m \notin PagesOf(t)) =>
       (m \in writable <=> m \in Writable0)

(* A system relink finds nothing to do for l: a 32-bit ABI, and no library *)
(* that has kept FLAG_NEW_SOINFO makes l accessible to its namespace.      *)
Unreachable(l) == ~lp64 /\ l \in Lost /\ Local(l) = <<>>

(* TrueMeansRelocated: a call that returns true has relocated every        *)
(* library it was given by the name of one; on a 32-bit ABI a system       *)
(* relink may instead have found the local group of the library empty.     *)
TrueMeansRelocated ==
  \A t \in Thread : pc[t] = "returned" /\ success[t] =>
     \A i \in DOMAIN asked[t] :
        \/ asked[t][i] \in relocated[t] \cup {NoLib}
        \/ call[t] = "system" /\ Unreachable(asked[t][i])

(* CallsReturn: a call always gets to its end; no failure path keeps       *)
(* g_dl_mutex.                                                             *)
CallsReturn == \A t \in Thread : pc[t] = "loop" ~> pc[t] = "returned"

=============================================================================
