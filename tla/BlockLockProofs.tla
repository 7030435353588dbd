-------------------------- MODULE BlockLockProofs ---------------------------
(***************************************************************************)
(* What BlockLock promises, for any number of threads and allocators, any  *)
(* nesting and any value the raced count can take.                         *)
(***************************************************************************)
EXTENDS BlockLock, TLAPS

(* A thread that is opening a scope has room for it.                       *)
RoomToEnter ==
  \A t \in Thread : /\ plain[t] + locked[t] <= MaxDepth
                    /\ pc[t] = "enter" => plain[t] + locked[t] < MaxDepth

TypeInv == TypeOK /\ RoomToEnter

LEMMA TypeStep == TypeInv /\ [Next]_vars => TypeInv'
<1> SUFFICES ASSUME TypeInv, [Next]_vars PROVE TypeInv'
  OBVIOUS
<1> USE BlockLockAssumption DEF TypeInv, TypeOK, RoomToEnter, Labels, Goto
<1>0. CASE UNCHANGED vars
  BY <1>0 DEF vars
<1>1. ASSUME NEW t \in Thread, Lock(t) PROVE TypeInv'
  BY <1>1 DEF Lock
<1>2. ASSUME NEW t \in Thread, Unlock(t) PROVE TypeInv'
  BY <1>2 DEF Unlock
<1>3. ASSUME NEW t \in Thread, OpenGuard(t) PROVE TypeInv'
  BY <1>3 DEF OpenGuard
<1>4. ASSUME NEW t \in Thread, OpenPool(t) PROVE TypeInv'
  <2>1. CASE k[t] \in Pool
    <3>1. k[t] + 1 \in 1 .. Pools + 1
      BY <2>1 DEF Pool
    <3>2. QED BY <1>4, <2>1, <3>1 DEF OpenPool
  <2>2. CASE k[t] \notin Pool
    BY <1>4, <2>2 DEF OpenPool
  <2>3. QED BY <2>1, <2>2
<1>5. ASSUME NEW t \in Thread, CloseGuard(t) PROVE TypeInv'
  <2>1. CASE guards[t] = 1
    <3>1. guards[t] - 1 \in 0 .. MaxDepth /\ 1 \in 1 .. Pools + 1
      BY <2>1
    <3>2. pc' = [pc EXCEPT ![t] = "close"] /\ k' = [k EXCEPT ![t] = 1]
      BY <1>5, <2>1 DEF CloseGuard
    <3>3. guards' = [guards EXCEPT ![t] = @ - 1]
          /\ UNCHANGED <<writable, mutex, plain, locked, refCount, reg>>
      BY <1>5 DEF CloseGuard
    <3>4. QED BY <3>1, <3>2, <3>3
  <2>2. CASE ~(guards[t] = 1)
    BY <1>5, <2>2 DEF CloseGuard
  <2>3. QED BY <2>1, <2>2
<1>6. ASSUME NEW t \in Thread, ClosePool(t) PROVE TypeInv'
  <2>1. CASE k[t] \in Pool
    <3>1. k[t] + 1 \in 1 .. Pools + 1
      BY <2>1 DEF Pool
    <3>2. QED BY <1>6, <2>1, <3>1 DEF ClosePool
  <2>2. CASE k[t] \notin Pool
    BY <1>6, <2>2 DEF ClosePool
  <2>3. QED BY <2>1, <2>2
<1>7. ASSUME NEW t \in Thread, EnterRead(t) PROVE TypeInv'
  BY <1>7 DEF EnterRead
<1>8. ASSUME NEW t \in Thread, EnterWrite(t) PROVE TypeInv'
  <2>1. 1 \in 1 .. Pools + 1 /\ refCount' \in 0 .. CountModulus - 1
    BY <1>8 DEF EnterWrite
  <2>2. CASE mutex = t
    BY <1>8, <2>1, <2>2 DEF EnterWrite
  <2>3. CASE mutex # t
    BY <1>8, <2>1, <2>3 DEF EnterWrite
  <2>4. QED BY <2>2, <2>3
<1>9. ASSUME NEW t \in Thread, UnprotectPool(t) PROVE TypeInv'
  <2>1. CASE k[t] \in Pool
    <3>1. k[t] + 1 \in 1 .. Pools + 1
      BY <2>1 DEF Pool
    <3>2. QED BY <1>9, <2>1, <3>1 DEF UnprotectPool
  <2>2. CASE k[t] \notin Pool
    BY <1>9, <2>2 DEF UnprotectPool
  <2>3. QED BY <2>1, <2>2
<1>10. ASSUME NEW t \in Thread, ExitRead(t) PROVE TypeInv'
  <2>1. CASE locked[t] > 0
    BY <1>10, <2>1 DEF ExitRead
  <2>2. CASE ~(locked[t] > 0)
    BY <1>10, <2>2 DEF ExitRead
  <2>3. QED BY <2>1, <2>2
<1>11. ASSUME NEW t \in Thread, ExitWrite(t) PROVE TypeInv'
  BY <1>11 DEF ExitWrite
<1>12. ASSUME NEW t \in Thread, Release(t) PROVE TypeInv'
  BY <1>12 DEF Release
<1>13. QED BY <1>0, <1>1, <1>2, <1>3, <1>4, <1>5, <1>6, <1>7, <1>8, <1>9,
              <1>10, <1>11, <1>12 DEF Next

LEMMA TypeAlways == Spec => []TypeInv
<1>1. Init => TypeInv
  BY BlockLockAssumption DEF Init, TypeInv, TypeOK, RoomToEnter, Labels
<1>2. QED BY <1>1, TypeStep, PTL DEF Spec

(* TypeCorrect: the count wraps within its width, no thread nests deeper   *)
(* than the bound, and no loop over the allocators leaves its range.       *)
THEOREM TypeCorrect == Spec => []TypeOK
BY TypeAlways, PTL DEF TypeInv

-----------------------------------------------------------------------------
(***************************************************************************)
(* Guards and locked scopes are open only in the thread that holds the     *)
(* mutex.                                                                  *)
(***************************************************************************)
Exclusive ==
  \A t \in Thread :
     /\ guards[t] > 0 \/ locked[t] > 0 \/ pc[t] \in {"open", "close"}
          => mutex = t
     /\ pc[t] = "open" => guards[t] = 1 /\ locked[t] = 0
     /\ pc[t] = "close" => guards[t] = 0 /\ locked[t] = 0

LEMMA ExclusiveStep == TypeInv /\ Exclusive /\ [Next]_vars => Exclusive'
<1> SUFFICES ASSUME TypeInv, Exclusive, [Next]_vars PROVE Exclusive'
  OBVIOUS
<1> USE BlockLockAssumption DEF TypeInv, TypeOK, Exclusive, Goto
<1>0. CASE UNCHANGED vars
  BY <1>0 DEF vars
<1>1. ASSUME NEW t \in Thread, Lock(t) PROVE Exclusive'
  BY <1>1 DEF Lock
<1>2. ASSUME NEW t \in Thread, Unlock(t) PROVE Exclusive'
  BY <1>2 DEF Unlock
<1>3. ASSUME NEW t \in Thread, OpenGuard(t) PROVE Exclusive'
  BY <1>3 DEF OpenGuard
<1>4. ASSUME NEW t \in Thread, OpenPool(t) PROVE Exclusive'
  <2>1. CASE k[t] \in Pool
    BY <1>4, <2>1 DEF OpenPool
  <2>2. CASE k[t] \notin Pool
    BY <1>4, <2>2 DEF OpenPool
  <2>3. QED BY <2>1, <2>2
<1>5. ASSUME NEW t \in Thread, CloseGuard(t) PROVE Exclusive'
  <2>1. CASE guards[t] = 1
    BY <1>5, <2>1 DEF CloseGuard
  <2>2. CASE ~(guards[t] = 1)
    BY <1>5, <2>2 DEF CloseGuard
  <2>3. QED BY <2>1, <2>2
<1>6. ASSUME NEW t \in Thread, ClosePool(t) PROVE Exclusive'
  <2>1. CASE k[t] \in Pool
    BY <1>6, <2>1 DEF ClosePool
  <2>2. CASE k[t] \notin Pool
    BY <1>6, <2>2 DEF ClosePool
  <2>3. QED BY <2>1, <2>2
<1>7. ASSUME NEW t \in Thread, EnterRead(t) PROVE Exclusive'
  BY <1>7 DEF EnterRead
<1>8. ASSUME NEW t \in Thread, EnterWrite(t) PROVE Exclusive'
  <2>1. CASE mutex = t
    BY <1>8, <2>1 DEF EnterWrite
  <2>2. CASE mutex # t
    BY <1>8, <2>2 DEF EnterWrite
  <2>3. QED BY <2>1, <2>2
<1>9. ASSUME NEW t \in Thread, UnprotectPool(t) PROVE Exclusive'
  <2>1. CASE k[t] \in Pool
    BY <1>9, <2>1 DEF UnprotectPool
  <2>2. CASE k[t] \notin Pool
    BY <1>9, <2>2 DEF UnprotectPool
  <2>3. QED BY <2>1, <2>2
<1>10. ASSUME NEW t \in Thread, ExitRead(t) PROVE Exclusive'
  <2>1. CASE locked[t] > 0
    BY <1>10, <2>1 DEF ExitRead
  <2>2. CASE ~(locked[t] > 0)
    BY <1>10, <2>2 DEF ExitRead
  <2>3. QED BY <2>1, <2>2
<1>11. ASSUME NEW t \in Thread, ExitWrite(t) PROVE Exclusive'
  BY <1>11 DEF ExitWrite
<1>12. ASSUME NEW t \in Thread, Release(t) PROVE Exclusive'
  BY <1>12 DEF Release
<1>13. QED BY <1>0, <1>1, <1>2, <1>3, <1>4, <1>5, <1>6, <1>7, <1>8, <1>9,
              <1>10, <1>11, <1>12 DEF Next

-----------------------------------------------------------------------------
(***************************************************************************)
(* What the holder of the mutex may rely on, whatever it is doing.  Pages  *)
(* become read-only in ClosePool alone, so nobody else disturbs it.        *)
(***************************************************************************)
Opened(t) == \A p \in Pool : p < k[t] => p \in writable

WritableInv ==
  \A t \in Thread : mutex = t =>
    /\ pc[t] = "open" => Opened(t)
    /\ pc[t] = "unprotect" => Opened(t)
    /\ guards[t] > 0 /\ pc[t] # "open" => writable = Pool
    /\ locked[t] > 0 /\ pc[t] # "unprotect" => writable = Pool

SafeInv == TypeInv /\ Exclusive /\ WritableInv

(* What a step of thread t leaves alone.                                   *)
LEMMA Frame ==
  ASSUME TypeInv, Exclusive, NEW t \in Thread,
         \/ Lock(t) \/ Unlock(t)
         \/ OpenGuard(t) \/ OpenPool(t) \/ CloseGuard(t) \/ ClosePool(t)
         \/ EnterRead(t) \/ EnterWrite(t) \/ UnprotectPool(t)
         \/ ExitRead(t) \/ ExitWrite(t) \/ Release(t)
  PROVE  /\ \A o \in Thread \ {t} :
              /\ guards'[o] = guards[o] /\ locked'[o] = locked[o]
              /\ pc'[o] = pc[o] /\ k'[o] = k[o]
              /\ mutex' = o => mutex = o
         /\ mutex # t => writable \subseteq writable'
         /\ writable' \subseteq Pool
<1> USE BlockLockAssumption DEF TypeInv, TypeOK, Goto
<1>1. CASE Lock(t) \/ Unlock(t)
  BY <1>1 DEF Lock, Unlock
<1>2. CASE OpenGuard(t) \/ CloseGuard(t)
  BY <1>2 DEF OpenGuard, CloseGuard
<1>3. CASE OpenPool(t) \/ UnprotectPool(t)
  BY <1>3 DEF OpenPool, UnprotectPool
<1>4. CASE ClosePool(t)
  BY <1>4 DEF ClosePool, Exclusive
<1>5. CASE EnterRead(t) \/ ExitWrite(t) \/ Release(t)
  BY <1>5 DEF EnterRead, ExitWrite, Release
<1>6. CASE EnterWrite(t)
  BY <1>6 DEF EnterWrite
<1>7. CASE ExitRead(t)
  BY <1>7 DEF ExitRead
<1>8. QED BY <1>1, <1>2, <1>3, <1>4, <1>5, <1>6, <1>7

(* The part of WritableInv that speaks of one thread.                      *)
Relies(t) ==
  mutex = t =>
    /\ pc[t] = "open" => Opened(t)
    /\ pc[t] = "unprotect" => Opened(t)
    /\ guards[t] > 0 /\ pc[t] # "open" => writable = Pool
    /\ locked[t] > 0 /\ pc[t] # "unprotect" => writable = Pool

LEMMA OwnStep ==
  ASSUME SafeInv, NEW t \in Thread,
         \/ Lock(t) \/ Unlock(t)
         \/ OpenGuard(t) \/ OpenPool(t) \/ CloseGuard(t) \/ ClosePool(t)
         \/ EnterRead(t) \/ EnterWrite(t) \/ UnprotectPool(t)
         \/ ExitRead(t) \/ ExitWrite(t) \/ Release(t)
  PROVE  Relies(t)'
<1> USE BlockLockAssumption DEF TypeInv, TypeOK, Goto, SafeInv, WritableInv,
        Exclusive, Relies, Opened, Pool
<1>1. CASE Lock(t) \/ Unlock(t)
  BY <1>1 DEF Lock, Unlock
<1>2. CASE OpenGuard(t)
  <2>1. CASE guards[t] = 0
    BY <1>2, <2>1 DEF OpenGuard
  <2>2. CASE guards[t] # 0
    BY <1>2, <2>2 DEF OpenGuard
  <2>3. QED BY <2>1, <2>2
<1>3. CASE OpenPool(t)
  <2>1. CASE k[t] \in Pool
    <3>1. /\ writable' = writable \cup {k[t]} /\ k'[t] = k[t] + 1
          /\ UNCHANGED <<mutex, guards, locked, pc>>
      BY <1>3, <2>1 DEF OpenPool
    <3>2. mutex = t => Opened(t)'
      BY <1>3, <2>1, <3>1 DEF OpenPool
    <3>3. writable = Pool => writable' = Pool
      BY <2>1, <3>1
    <3>4. QED BY <1>3, <3>1, <3>2, <3>3 DEF OpenPool
  <2>2. CASE k[t] \notin Pool
    <3>1. mutex = t => writable = Pool
      <4>1. \A p \in Pool : p < k[t]
        BY <2>2
      <4>2. mutex = t => Opened(t)
        BY <1>3 DEF OpenPool
      <4>3. QED BY <4>1, <4>2
    <3>2. pc'[t] = "run" /\ UNCHANGED <<mutex, guards, locked, writable>>
      BY <1>3, <2>2 DEF OpenPool
    <3>3. QED BY <3>1, <3>2
  <2>3. QED BY <2>1, <2>2
<1>4. CASE CloseGuard(t)
  <2>1. CASE guards[t] = 1
    BY <1>4, <2>1 DEF CloseGuard
  <2>2. CASE guards[t] # 1
    BY <1>4, <2>2 DEF CloseGuard
  <2>3. QED BY <2>1, <2>2
<1>5. CASE ClosePool(t)
  BY <1>5 DEF ClosePool
<1>6. CASE EnterRead(t)
  BY <1>6 DEF EnterRead
<1>7. CASE EnterWrite(t)
  <2>1. CASE mutex = t
    BY <1>7, <2>1 DEF EnterWrite
  <2>2. CASE mutex # t
    BY <1>7, <2>2 DEF EnterWrite
  <2>3. QED BY <2>1, <2>2
<1>8. CASE UnprotectPool(t)
  <2>1. CASE k[t] \in Pool
    <3>1. /\ writable' = writable \cup {k[t]} /\ k'[t] = k[t] + 1
          /\ UNCHANGED <<mutex, guards, locked, pc>>
      BY <1>8, <2>1 DEF UnprotectPool
    <3>2. mutex = t => Opened(t)'
      BY <1>8, <2>1, <3>1 DEF UnprotectPool
    <3>3. writable = Pool => writable' = Pool
      BY <2>1, <3>1
    <3>4. QED BY <1>8, <3>1, <3>2, <3>3 DEF UnprotectPool
  <2>2. CASE k[t] \notin Pool
    <3>1. mutex = t => writable = Pool
      <4>1. \A p \in Pool : p < k[t]
        BY <2>2
      <4>2. mutex = t => Opened(t)
        BY <1>8 DEF UnprotectPool
      <4>3. QED BY <4>1, <4>2
    <3>2. pc'[t] = "run" /\ UNCHANGED <<mutex, guards, locked, writable>>
      BY <1>8, <2>2 DEF UnprotectPool
    <3>3. QED BY <3>1, <3>2
  <2>3. QED BY <2>1, <2>2
<1>9. CASE ExitRead(t)
  <2>1. CASE locked[t] > 0
    BY <1>9, <2>1 DEF ExitRead
  <2>2. CASE ~(locked[t] > 0)
    BY <1>9, <2>2 DEF ExitRead
  <2>3. QED BY <2>1, <2>2
<1>10. CASE ExitWrite(t)
  BY <1>10 DEF ExitWrite
<1>11. CASE Release(t)
  BY <1>11 DEF Release
<1>12. QED BY <1>1, <1>2, <1>3, <1>4, <1>5, <1>6, <1>7, <1>8, <1>9, <1>10,
              <1>11

LEMMA SafeStep == SafeInv /\ [Next]_vars => SafeInv'
<1> SUFFICES ASSUME SafeInv, [Next]_vars PROVE SafeInv'
  OBVIOUS
<1>1. TypeInv' /\ Exclusive'
  BY TypeStep, ExclusiveStep DEF SafeInv
<1>2. WritableInv'
  <2>1. CASE UNCHANGED vars
    BY <2>1 DEF vars, SafeInv, WritableInv, Opened
  <2>2. CASE Next
    <3>1. PICK t \in Thread :
            \/ Lock(t) \/ Unlock(t)
            \/ OpenGuard(t) \/ OpenPool(t) \/ CloseGuard(t) \/ ClosePool(t)
            \/ EnterRead(t) \/ EnterWrite(t) \/ UnprotectPool(t)
            \/ ExitRead(t) \/ ExitWrite(t) \/ Release(t)
      BY <2>2 DEF Next
    <3>2. Relies(t)'
      BY <3>1, OwnStep
    <3>3. ASSUME NEW o \in Thread \ {t} PROVE Relies(o)'
      <4>1. /\ guards'[o] = guards[o] /\ locked'[o] = locked[o]
            /\ pc'[o] = pc[o] /\ k'[o] = k[o]
            /\ mutex' = o => mutex = o
            /\ mutex # t => writable \subseteq writable'
            /\ writable' \subseteq Pool
        BY <3>1, <3>3, Frame DEF SafeInv
      <4>2. Relies(o)
        BY DEF SafeInv, WritableInv, Relies
      <4>3. QED BY <4>1, <4>2, <3>3 DEF Relies, Opened
    <3>4. QED BY <3>2, <3>3 DEF WritableInv, Relies
  <2>3. QED BY <2>1, <2>2
<1>3. QED BY <1>1, <1>2 DEF SafeInv

LEMMA SafeAlways == Spec => []SafeInv
<1>1. Init => Exclusive /\ WritableInv
  BY BlockLockAssumption DEF Init, Exclusive, WritableInv, Opened
<1>2. Init => TypeInv
  BY BlockLockAssumption DEF Init, TypeInv, TypeOK, RoomToEnter, Labels
<1>3. QED BY <1>1, <1>2, SafeStep, PTL DEF Spec, SafeInv

(* LinkerNeverFaultsCorrect: for any number of threads, nothing that       *)
(* fake-linker's scopes do makes a call of the linker write to a page that *)
(* is read-only.                                                           *)
THEOREM LinkerNeverFaultsCorrect == Spec => []LinkerNeverFaults
<1>1. SafeInv => LinkerNeverFaults
  BY DEF SafeInv, WritableInv, Exclusive, LinkerNeverFaults
<1>2. QED BY <1>1, SafeAlways, PTL

(* LockedScopeNeverFaultsCorrect: for any number of threads and any value  *)
(* of the raced count, a scope opened with the mutex held finds its pages  *)
(* writable.                                                               *)
THEOREM LockedScopeNeverFaultsCorrect == Spec => []LockedScopeNeverFaults
<1>1. SafeInv => LockedScopeNeverFaults
  BY DEF SafeInv, WritableInv, Exclusive, LockedScopeNeverFaults
<1>2. QED BY <1>1, SafeAlways, PTL
=============================================================================
