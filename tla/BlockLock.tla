----------------------------- MODULE BlockLock ------------------------------
(***************************************************************************)
(* Who may write the linker's allocator pages, and when.  The system       *)
(* linker keeps them read-only and opens them for the time of a call with  *)
(* a guard of its own, counted under g_dl_mutex.  fake-linker opens them   *)
(* with LinkerBlockLock, whose static count no mutex protects; its scopes  *)
(* nest, and only some of them are opened with g_dl_mutex held.            *)
(***************************************************************************)
EXTENDS Naturals

CONSTANTS
  Thread,
  NoThread,
  Pools,       (* how many allocators there are: 4, and 2 below Android 7  *)
  MaxDepth,    (* bound: guards or scopes one thread has open              *)
  CountModulus (* ref_count_ is a size_t: it wraps here                    *)

ASSUME BlockLockAssumption ==
  /\ NoThread \notin Thread
  /\ Pools \in Nat \ {0}
  /\ MaxDepth \in Nat \ {0}
  /\ CountModulus \in Nat \ {0}

VARIABLES
  writable,   (* the pools whose pages have PROT_WRITE                     *)
  mutex,      (* the thread that holds g_dl_mutex                          *)
  guards,     (* thread -> its open guards of the linker                   *)
  plain,      (* thread -> its scopes opened without the mutex             *)
  locked,     (* thread -> its scopes opened with it                       *)
  refCount,   (* LinkerBlockLock::ref_count_                               *)
  pc,         (* thread -> what it is doing                                *)
  reg,        (* thread -> the count it has read and not yet written back  *)
  k           (* thread -> the next pool to protect                        *)

vars == <<writable, mutex, guards, plain, locked, refCount, pc, reg, k>>

Pool == 1 .. Pools

Labels == {"run", "enter", "unprotect", "exit", "release", "open", "close"}

-----------------------------------------------------------------------------
Init ==
  /\ writable = {}
  /\ mutex = NoThread
  /\ guards = [t \in Thread |-> 0]
  /\ plain = [t \in Thread |-> 0]
  /\ locked = [t \in Thread |-> 0]
  /\ refCount = 0
  /\ pc = [t \in Thread |-> "run"]
  /\ reg = [t \in Thread |-> 0]
  /\ k = [t \in Thread |-> 1]

Goto(t, label) == pc' = [pc EXCEPT ![t] = label]

(***************************************************************************)
(* The system linker (external).                                           *)
(***************************************************************************)
Lock(t) ==
  /\ pc[t] = "run"
  /\ mutex = NoThread
  /\ mutex' = t
  /\ UNCHANGED <<writable, guards, plain, locked, refCount, pc, reg, k>>

Unlock(t) ==
  /\ pc[t] = "run"
  /\ mutex = t
  /\ guards[t] = 0
  /\ locked[t] = 0
  /\ mutex' = NoThread
  /\ UNCHANGED <<writable, guards, plain, locked, refCount, pc, reg, k>>

(* A guard inside a call of the linker; the outermost one opens the pages. *)
(* The calls that fake-linker makes in a scope it opened with the mutex    *)
(* held (link_image) open no guard.                                        *)
OpenGuard(t) ==
  /\ pc[t] = "run"
  /\ mutex = t
  /\ guards[t] < MaxDepth
  /\ locked[t] = 0 \/ guards[t] > 0
  /\ guards' = [guards EXCEPT ![t] = @ + 1]
  /\ IF guards[t] = 0
       THEN Goto(t, "open") /\ k' = [k EXCEPT ![t] = 1]
       ELSE UNCHANGED <<pc, k>>
  /\ UNCHANGED <<writable, mutex, plain, locked, refCount, reg>>

OpenPool(t) ==
  /\ pc[t] = "open"
  /\ IF k[t] \in Pool
       THEN /\ writable' = writable \cup {k[t]}
            /\ k' = [k EXCEPT ![t] = @ + 1]
            /\ UNCHANGED pc
       ELSE Goto(t, "run") /\ UNCHANGED <<writable, k>>
  /\ UNCHANGED <<mutex, guards, plain, locked, refCount, reg>>

(* A scope of a library's constructor ends before the guard around it.     *)
CloseGuard(t) ==
  /\ pc[t] = "run"
  /\ guards[t] > 0
  /\ guards[t] > 1 \/ locked[t] = 0
  /\ guards' = [guards EXCEPT ![t] = @ - 1]
  /\ IF guards[t] = 1
       THEN Goto(t, "close") /\ k' = [k EXCEPT ![t] = 1]
       ELSE UNCHANGED <<pc, k>>
  /\ UNCHANGED <<writable, mutex, plain, locked, refCount, reg>>

ClosePool(t) ==
  /\ pc[t] = "close"
  /\ IF k[t] \in Pool
       THEN /\ writable' = writable \ {k[t]}
            /\ k' = [k EXCEPT ![t] = @ + 1]
            /\ UNCHANGED pc
       ELSE Goto(t, "run") /\ UNCHANGED <<writable, k>>
  /\ UNCHANGED <<mutex, guards, plain, locked, refCount, reg>>

(***************************************************************************)
(* fake-linker's scope.  ref_count_++ reads, adds and writes back.         *)
(***************************************************************************)
EnterRead(t) ==
  /\ pc[t] = "run"
  /\ plain[t] + locked[t] < MaxDepth
  /\ reg' = [reg EXCEPT ![t] = refCount]
  /\ Goto(t, "enter")
  /\ UNCHANGED <<writable, mutex, guards, plain, locked, refCount, k>>

(* Mutant of EnterWrite: only the outermost scope opens the pages.         *)
EnterWriteOutermost(t) ==
  /\ pc[t] = "enter"
  /\ refCount' = (reg[t] + 1) % CountModulus
  /\ IF mutex = t
       THEN locked' = [locked EXCEPT ![t] = @ + 1] /\ UNCHANGED plain
       ELSE plain' = [plain EXCEPT ![t] = @ + 1] /\ UNCHANGED locked
  /\ k' = [k EXCEPT ![t] = 1]
  /\ Goto(t, IF reg[t] = 0 THEN "unprotect" ELSE "run")
  /\ UNCHANGED <<writable, mutex, guards, reg>>

EnterWrite(t) ==
  /\ pc[t] = "enter"
  /\ refCount' = (reg[t] + 1) % CountModulus
  /\ IF mutex = t
       THEN locked' = [locked EXCEPT ![t] = @ + 1] /\ UNCHANGED plain
       ELSE plain' = [plain EXCEPT ![t] = @ + 1] /\ UNCHANGED locked
  /\ k' = [k EXCEPT ![t] = 1]
  /\ Goto(t, "unprotect")
  /\ UNCHANGED <<writable, mutex, guards, reg>>

(* LinkerBlockProtectAll(PROT_READ | PROT_WRITE), one allocator at a time. *)
UnprotectPool(t) ==
  /\ pc[t] = "unprotect"
  /\ IF k[t] \in Pool
       THEN /\ writable' = writable \cup {k[t]}
            /\ k' = [k EXCEPT ![t] = @ + 1]
            /\ UNCHANGED pc
       ELSE Goto(t, "run") /\ UNCHANGED <<writable, k>>
  /\ UNCHANGED <<mutex, guards, plain, locked, refCount, reg>>

(* The destructor: --ref_count_, of the scope opened last.                 *)
ExitRead(t) ==
  /\ pc[t] = "run"
  /\ plain[t] + locked[t] > 0
  /\ locked[t] > 0 \/ mutex # t
  /\ IF locked[t] > 0
       THEN locked' = [locked EXCEPT ![t] = @ - 1] /\ UNCHANGED plain
       ELSE plain' = [plain EXCEPT ![t] = @ - 1] /\ UNCHANGED locked
  /\ reg' = [reg EXCEPT ![t] = refCount]
  /\ Goto(t, "exit")
  /\ UNCHANGED <<writable, mutex, guards, refCount, k>>

ExitWrite(t) ==
  /\ pc[t] = "exit"
  /\ refCount' = (reg[t] + CountModulus - 1) % CountModulus
  /\ Goto(t, IF refCount' = 0 THEN "release" ELSE "run")
  /\ UNCHANGED <<writable, mutex, guards, plain, locked, reg, k>>

(* Mutant of Release: the pages are made read-only.                        *)
ReleaseReadOnly(t) ==
  /\ pc[t] = "release"
  /\ writable' = {}
  /\ Goto(t, "run")
  /\ UNCHANGED <<mutex, guards, plain, locked, refCount, reg, k>>

(* LinkerBlockProtectAll(PROT_READ) returns early: "Since we modify while  *)
(* linker may also be modifying simultaneously, only protect read-write".  *)
Release(t) ==
  /\ pc[t] = "release"
  /\ Goto(t, "run")
  /\ UNCHANGED <<writable, mutex, guards, plain, locked, refCount, reg, k>>

Next ==
  \E t \in Thread :
     \/ Lock(t) \/ Unlock(t)
     \/ OpenGuard(t) \/ OpenPool(t) \/ CloseGuard(t) \/ ClosePool(t)
     \/ EnterRead(t) \/ EnterWrite(t) \/ UnprotectPool(t)
     \/ ExitRead(t) \/ ExitWrite(t) \/ Release(t)

Spec == Init /\ [][Next]_vars

-----------------------------------------------------------------------------
TypeOK ==
  /\ writable \in SUBSET Pool
  /\ mutex \in Thread \cup {NoThread}
  /\ guards \in [Thread -> 0 .. MaxDepth]
  /\ plain \in [Thread -> 0 .. MaxDepth]
  /\ locked \in [Thread -> 0 .. MaxDepth]
  /\ refCount \in 0 .. CountModulus - 1
  /\ pc \in [Thread -> Labels]
  /\ reg \in [Thread -> 0 .. CountModulus - 1]
  /\ k \in [Thread -> 1 .. Pools + 1]

(* LinkerNeverFaults: while a call of the linker runs under its guard, the *)
(* pages it writes stay writable, whatever scopes fake-linker opens and    *)
(* closes on other threads, and however its count races.                   *)
LinkerNeverFaults ==
  \A t \in Thread : guards[t] > 0 /\ pc[t] # "open" => writable = Pool

(* LockedScopeNeverFaults: a scope of fake-linker that was opened with     *)
(* g_dl_mutex held writes only to writable pages (SystemRelinkLibrary, and *)
(* constructors that call fake-linker).                                    *)
LockedScopeNeverFaults ==
  \A t \in Thread : locked[t] > 0 /\ pc[t] = "run" => writable = Pool
=============================================================================
