----------------------------- MODULE JNIProofs ------------------------------
(***************************************************************************)
(* Proofs about Hooks, for any targets, hooks, arrays of units and API     *)
(* level; and about TraceJNI, for any threads, callers, ranges and         *)
(* functions.                                                              *)
(***************************************************************************)
EXTENDS Hooks, TraceJNI, TLAPS, WellFoundedInduction

(* A unit whose hook is about to be put in place.                          *)
Underway ==
  /\ item \in DOMAIN items
  /\ Unit \in Hook
  /\ backup[Unit] # Null

(* The loop over the table never leaves the array.                         *)
LoopInv ==
  /\ pc \in {"jni", "jniStore"} => item + len <= Len(items) + 1
  /\ pc = "jniStore" => len > 0 /\ Underway
  /\ pc = "register" => Underway /\ Aim \in NativeOnes /\ entry[Aim] # Unit

EntryInv ==
  \A t \in Target : entry[t] \in Hook =>
     TargetOf[entry[t]] = t /\ backup[entry[t]] # Null

Inv == TypeOK /\ LoopInv /\ EntryInv

(* Between JavaBackup and the registration one method may lack its flag.   *)
FastInv ==
  Api \in {26, 27} =>
    /\ pc # "register" => fast = FastOnes
    /\ pc = "register" => /\ fast = FastOnes \ {Aim}
                          /\ restore <=> Aim \in FastOnes

LEMMA InitInv == Init => Inv /\ FastInv
<1> SUFFICES ASSUME Init PROVE Inv /\ FastInv
  OBVIOUS
<1>1. TypeOK
  <2>1. items \in Seq(Hook \cup {NoHook}) /\ item \in 1 .. Len(items) + 1
    BY DEF Init
  <2>2. fast \in SUBSET NativeOnes
    BY HooksAssumption DEF Init
  <2> QED BY <2>1, <2>2 DEF Init, TypeOK
<1>2. LoopInv /\ FastInv
  BY DEF Init, LoopInv, FastInv
<1>3. EntryInv
  BY HooksAssumption DEF Init, EntryInv
<1> QED BY <1>1, <1>2, <1>3 DEF Inv

(* A unit the loops look at is a hook or nothing.                          *)
LEMMA UnitType ==
  ASSUME Inv, item \in DOMAIN items
  PROVE  Unit \in Hook \cup {NoHook}
BY DEF Inv, TypeOK, Unit

LEMMA BeginInv ==
  ASSUME Inv, NEW kind \in {"jni", "java"}, NEW units \in Seq(Hook \cup {NoHook}),
         Begin(kind, units)
  PROVE  Inv'
<1> USE DEF Begin
<1>1. Len(units) \in Nat
  OBVIOUS
<1>2. item' \in 1 .. Len(items') + 1 /\ len' \in Nat
  BY <1>1
<1>3. TypeOK'
  BY <1>2 DEF Inv, TypeOK
<1>4. LoopInv'
  BY <1>1 DEF LoopInv
<1>5. EntryInv'
  BY DEF Inv, EntryInv
<1> QED BY <1>3, <1>4, <1>5 DEF Inv

(* The two loops save the function of a target in the same way.            *)
LEMMA BackupSaved ==
  ASSUME Inv, item \in DOMAIN items, Wanted,
         backup' = [backup EXCEPT ![Unit] = entry[Aim]],
         UNCHANGED <<entry, items>>
  PROVE  /\ Unit \in Hook
         /\ Aim \in Target
         /\ backup' \in [Hook -> Hook \cup {Original, Null}]
         /\ backup'[Unit] # Null
         /\ EntryInv'
<1>1. Unit \in Hook
  BY UnitType DEF Wanted
<1>2. Aim \in Target /\ entry[Aim] \in Hook \cup {Original}
  BY <1>1, HooksAssumption DEF Aim, Inv, TypeOK
<1>3. backup' \in [Hook -> Hook \cup {Original, Null}]
  BY <1>1, <1>2 DEF Inv, TypeOK
<1>4. backup'[Unit] # Null
  BY <1>1, <1>2, HooksAssumption DEF Inv, TypeOK
<1>5. EntryInv'
  <2> SUFFICES ASSUME NEW t \in Target, entry[t] \in Hook
               PROVE  TargetOf[entry[t]] = t /\ backup'[entry[t]] # Null
    BY DEF EntryInv
  <2>1. TargetOf[entry[t]] = t /\ backup[entry[t]] # Null
    BY DEF Inv, EntryInv
  <2>2. CASE entry[t] = Unit
    BY <2>1, <2>2, <1>4
  <2>3. CASE entry[t] # Unit
    BY <2>1, <2>3, <1>1 DEF Inv, TypeOK
  <2> QED BY <2>2, <2>3
<1> QED BY <1>1, <1>2, <1>3, <1>4, <1>5

(* Both loops put a hook in place in the same way.                         *)
LEMMA EntryPut ==
  ASSUME Inv, Underway,
         entry' = [entry EXCEPT ![Aim] = Unit],
         UNCHANGED <<backup, items>>
  PROVE  /\ Aim \in Target
         /\ entry' \in [Target -> Hook \cup {Original}]
         /\ EntryInv'
<1>1. Unit \in Hook /\ backup[Unit] # Null
  BY DEF Underway
<1>2. Aim \in Target /\ TargetOf[Unit] = Aim
  BY <1>1, HooksAssumption DEF Aim
<1>3. entry' \in [Target -> Hook \cup {Original}]
  BY <1>1, <1>2 DEF Inv, TypeOK
<1>4. EntryInv'
  <2> SUFFICES ASSUME NEW t \in Target, entry'[t] \in Hook
               PROVE  TargetOf[entry'[t]] = t /\ backup[entry'[t]] # Null
    BY DEF EntryInv
  <2>1. CASE t = Aim
    BY <2>1, <1>1, <1>2 DEF Inv, TypeOK
  <2>2. CASE t # Aim
    BY <2>2, <1>2 DEF Inv, TypeOK, EntryInv
  <2> QED BY <2>1, <2>2
<1> QED BY <1>2, <1>3, <1>4

LEMMA JniStepInv ==
  ASSUME Inv, JniSkip \/ JniBackup \/ JniStore \/ JniReturn
  PROVE  Inv'
<1>1. CASE JniSkip
  <2> USE <1>1 DEF JniSkip
  <2>1. TypeOK'
    BY DEF Inv, TypeOK
  <2>2. LoopInv'
    BY DEF Inv, TypeOK, LoopInv
  <2>3. EntryInv'
    BY DEF Inv, EntryInv
  <2> QED BY <2>1, <2>2, <2>3 DEF Inv
<1>2. CASE JniBackup
  <2>1. item \in DOMAIN items
    BY <1>2 DEF JniBackup, Inv, TypeOK, LoopInv
  <2>2. /\ Unit \in Hook
        /\ backup' \in [Hook -> Hook \cup {Original, Null}]
        /\ backup'[Unit] # Null
        /\ EntryInv'
    BY <1>2, <2>1, BackupSaved DEF JniBackup
  <2>3. TypeOK'
    BY <1>2, <2>2 DEF JniBackup, Inv, TypeOK
  <2>4. LoopInv'
    BY <1>2, <2>1, <2>2 DEF JniBackup, Inv, LoopInv, Underway, Unit
  <2> QED BY <2>2, <2>3, <2>4 DEF Inv
<1>3. CASE JniStore
  <2>1. Underway /\ len > 0 /\ item + len <= Len(items) + 1
    BY <1>3 DEF JniStore, Inv, LoopInv
  <2>2. /\ entry' \in [Target -> Hook \cup {Original}]
        /\ EntryInv'
    BY <1>3, <2>1, EntryPut DEF JniStore
  <2>3. item \in Nat /\ len \in Nat /\ Len(items) \in Nat
    BY DEF Inv, TypeOK
  <2>4. item' \in 1 .. Len(items') + 1 /\ len' \in Nat
    BY <1>3, <2>1, <2>3 DEF JniStore, Underway
  <2>5. TypeOK'
    BY <1>3, <2>2, <2>4 DEF JniStore, Inv, TypeOK
  <2>6. LoopInv'
    BY <1>3, <2>1, <2>3 DEF JniStore, LoopInv
  <2> QED BY <2>2, <2>5, <2>6 DEF Inv
<1>4. CASE JniReturn
  BY <1>4 DEF JniReturn, Return, Inv, TypeOK, LoopInv, EntryInv
<1> QED BY <1>1, <1>2, <1>3, <1>4

LEMMA JavaStepInv ==
  ASSUME Inv, JavaSkip \/ JavaGiveUp \/ JavaBackup \/ JavaReturn
  PROVE  Inv'
<1>1. CASE JavaSkip
  <2>1. item' \in 1 .. Len(items') + 1
    BY <1>1 DEF JavaSkip, Inv, TypeOK
  <2> QED BY <1>1, <2>1 DEF JavaSkip, Inv, TypeOK, LoopInv, EntryInv
<1>2. CASE JavaGiveUp
  BY <1>2 DEF JavaGiveUp, Inv, TypeOK, LoopInv, EntryInv
<1>3. CASE JavaBackup
  <2>1. item \in DOMAIN items
    BY <1>3 DEF JavaBackup
  <2>2. /\ Unit \in Hook
        /\ backup' \in [Hook -> Hook \cup {Original, Null}]
        /\ backup'[Unit] # Null
        /\ EntryInv'
    BY <1>3, <2>1, BackupSaved DEF JavaBackup
  <2>3. fast' \in SUBSET NativeOnes /\ restore' \in BOOLEAN
    BY <1>3 DEF JavaBackup, Inv, TypeOK
  <2>4. item' \in 1 .. Len(items') + 1 /\ pc' \in {"java", "register"}
    BY <1>3, <2>1 DEF JavaBackup, Inv, TypeOK
  <2>5. TypeOK'
    BY <1>3, <2>2, <2>3, <2>4 DEF JavaBackup, Inv, TypeOK
  <2>6. entry[Aim] # Unit
    BY <1>3 DEF JavaBackup, Wanted, Current, Aim
  <2>7. LoopInv'
    BY <1>3, <2>1, <2>2, <2>4, <2>6 DEF JavaBackup, LoopInv, Underway, Unit, Aim
  <2> QED BY <2>2, <2>5, <2>7 DEF Inv
<1>4. CASE JavaReturn
  BY <1>4 DEF JavaReturn, Return, Inv, TypeOK, LoopInv, EntryInv
<1> QED BY <1>1, <1>2, <1>3, <1>4

LEMMA RegisterInv ==
  ASSUME Inv, Register \/ RegisterFails
  PROVE  Inv'
<1>1. pc = "register" /\ Underway /\ Aim \in NativeOnes /\ entry[Aim] # Unit
  BY DEF Register, RegisterFails, Inv, LoopInv
<1>2. item \in DOMAIN items /\ Unit \in Hook
  BY <1>1 DEF Underway
<1>3. item + 1 \in 1 .. Len(items) + 1
  BY <1>2 DEF Inv, TypeOK
<1>4. CASE Register
  <2>1. /\ entry' \in [Target -> Hook \cup {Original}]
        /\ EntryInv'
    BY <1>1, <1>4, EntryPut DEF Register
  <2>2. fast' \in SUBSET NativeOnes
    BY <1>1, <1>4 DEF Register, Restored, Inv, TypeOK
  <2>3. TypeOK'
    BY <1>3, <1>4, <2>1, <2>2 DEF Register, Inv, TypeOK
  <2>4. LoopInv'
    BY <1>4 DEF Register, LoopInv
  <2> QED BY <2>1, <2>3, <2>4 DEF Inv
<1>5. CASE RegisterFails
  <2>1. fast' \in SUBSET NativeOnes
    BY <1>1, <1>5 DEF RegisterFails, Inv, TypeOK
  <2>2. backup' \in [Hook -> Hook \cup {Original, Null}]
    BY <1>2, <1>5 DEF RegisterFails, Inv, TypeOK
  <2>3. TypeOK'
    BY <1>3, <1>5, <2>1, <2>2 DEF RegisterFails, Inv, TypeOK
  <2>4. LoopInv'
    BY <1>5 DEF RegisterFails, LoopInv
  <2>5. EntryInv'
    <3> SUFFICES ASSUME NEW t \in Target, entry[t] \in Hook
                 PROVE  TargetOf[entry[t]] = t /\ backup'[entry[t]] # Null
      BY <1>5 DEF RegisterFails, EntryInv
    <3>1. TargetOf[entry[t]] = t /\ backup[entry[t]] # Null
      BY DEF Inv, EntryInv
    <3>2. entry[t] # Unit
      BY <1>1, <3>1 DEF Aim
    <3> QED BY <1>2, <1>5, <3>1, <3>2 DEF RegisterFails, Inv, TypeOK
  <2> QED BY <2>3, <2>4, <2>5 DEF Inv
<1> QED BY <1>4, <1>5

-----------------------------------------------------------------------------
LEMMA StepInv == Inv /\ [Next]_vars => Inv'
<1> SUFFICES ASSUME Inv, [Next]_vars PROVE Inv'
  OBVIOUS
<1>1. ASSUME NEW units \in JniBatches \cup JavaBatches,
             NEW kind \in {"jni", "java"}, Begin(kind, units)
      PROVE  Inv'
  <2>1. units \in Seq(Hook \cup {NoHook})
    <3>1. CASE units \in JniBatches
      <4>1. units \in Seq({h \in Hook : TargetOf[h] \in JniTarget} \cup {NoHook})
        BY <3>1, HooksAssumption
      <4> QED BY <4>1
    <3>2. CASE units \in JavaBatches
      <4>1. units \in Seq({h \in Hook : TargetOf[h] \in JavaTarget} \cup {NoHook})
        BY <3>2, HooksAssumption
      <4> QED BY <4>1
    <3> QED BY <3>1, <3>2
  <2> QED BY <1>1, <2>1, BeginInv
<1>2. CASE Step
  BY <1>2, JniStepInv, JavaStepInv, RegisterInv DEF Step
<1>3. CASE UNCHANGED vars
  BY <1>3 DEF vars, Inv, TypeOK, LoopInv, Underway, Unit, Aim, EntryInv
<1> QED BY <1>1, <1>2, <1>3 DEF Next

THEOREM InvCorrect == Spec => []Inv
<1>1. Init => Inv
  BY InitInv
<1> QED BY <1>1, StepInv, PTL DEF Spec

(* TypeCorrect: the loops over the units, one of which leaves its index    *)
(* where it is, never look past the array, whatever it holds.              *)
THEOREM TypeCorrect == Spec => []TypeOK
<1>1. Inv => TypeOK
  BY DEF Inv
<1> QED BY <1>1, InvCorrect, PTL

(* BackupReadyCorrect: no call of a hooked function, on any thread and at  *)
(* any step of a hooking call, finds an empty backup location; also not    *)
(* when registrations fail and hooks are asked for again.                  *)
THEOREM BackupReadyCorrect == Spec => []BackupReady
<1>1. Inv => BackupReady
  BY DEF Inv, EntryInv, BackupReady
<1> QED BY <1>1, InvCorrect, PTL

-----------------------------------------------------------------------------
LEMMA FastStep == Inv /\ FastInv /\ [Next]_vars => FastInv'
<1> SUFFICES ASSUME Inv, FastInv, [Next]_vars, Api \in {26, 27} PROVE FastInv'
  BY DEF FastInv
<1>1. CASE JavaBackup
  <2>1. item \in DOMAIN items /\ fast = FastOnes
    BY <1>1 DEF JavaBackup, FastInv
  <2>2. FastOnes \subseteq NativeOnes
    BY HooksAssumption
  <2>3. CASE Aim \in NativeOnes
    <3>1. /\ restore' = (Aim \in FastOnes)
          /\ fast' = FastOnes \ {Aim}
          /\ pc' = "register"
          /\ Aim' = Aim
      BY <1>1, <2>1, <2>3 DEF JavaBackup, Aim, Unit
    <3> QED BY <3>1 DEF FastInv
  <2>4. CASE Aim \notin NativeOnes
    BY <1>1, <2>1, <2>4 DEF JavaBackup, FastInv
  <2> QED BY <2>3, <2>4
<1>2. CASE Register \/ RegisterFails
  <2>1. fast = FastOnes \ {Aim} /\ (restore <=> Aim \in FastOnes)
    BY <1>2 DEF Register, RegisterFails, FastInv
  <2>2. fast' = IF restore THEN fast \cup {Aim} ELSE fast
    BY <1>2 DEF Register, RegisterFails, Restored
  <2>3. fast' = FastOnes
    BY <2>1, <2>2
  <2> QED BY <1>2, <2>3 DEF Register, RegisterFails, FastInv
<1>3. CASE ~(JavaBackup \/ Register \/ RegisterFails)
  <2>1. CASE UNCHANGED vars
    BY <2>1 DEF vars, FastInv, Aim, Unit
  <2>2. ASSUME NEW kind \in {"jni", "java"}, NEW units, Begin(kind, units)
        PROVE  FastInv'
    BY <2>2 DEF Begin, FastInv
  <2>3. CASE JniSkip \/ JniBackup \/ JniStore \/ JniReturn \/ JavaSkip
             \/ JavaGiveUp \/ JavaReturn
    BY <2>3 DEF JniSkip, JniBackup, JniStore, JniReturn, JavaSkip, JavaGiveUp,
                JavaReturn, Return, FastInv
  <2> QED BY <1>3, <2>1, <2>2, <2>3 DEF Next, Step
<1> QED BY <1>1, <1>2, <1>3

(* FastFlagKeptCorrect: for any methods and any outcomes, a finished call  *)
(* leaves every kAccFastNative as it was, on Android 8.0 and 8.1.          *)
THEOREM FastFlagKeptCorrect == Spec => []FastFlagKept
<1>1. Init => Inv /\ FastInv
  BY InitInv
<1>2. Inv /\ FastInv /\ [Next]_vars => (Inv /\ FastInv)'
  BY StepInv, FastStep
<1>3. FastInv => FastFlagKept
  BY DEF FastInv, FastFlagKept
<1> QED BY <1>1, <1>2, <1>3, PTL DEF Spec

-----------------------------------------------------------------------------
(* Underway: a target whose hook is about to be put in place is still what *)
(* the backup location of the hook says.  The units of a call are in place *)
(* or in no chain, and have targets of their own.                          *)
ChainInv ==
  /\ pc \in {"jniStore", "register"} => backup[Unit] = entry[Aim] /\ entry[Aim] # Unit
  /\ pc # "idle" =>
       /\ \A i \in DOMAIN items : items[i] \in Hook =>
            Current(items[i]) \/ \A g \in Hook : backup[g] # items[i]
       /\ \A i, j \in DOMAIN items :
            items[i] # items[j] /\ NoHook \notin {items[i], items[j]} =>
              TargetOf[items[i]] # TargetOf[items[j]]

(* The two loops put a hook that is in no chain over what the entry holds. *)
LEMMA BackupKeepsChains ==
  ASSUME Inv, ChainInv, OriginalReachable, pc # "idle",
         item \in DOMAIN items, Wanted,
         backup' = [backup EXCEPT ![Unit] = entry[Aim]],
         UNCHANGED <<entry, items>>
  PROVE  /\ Unit \in Hook
         /\ backup'[Unit] = entry[Aim]
         /\ entry[Aim] # Unit
         /\ OriginalReachable'
         /\ \A i \in DOMAIN items : items[i] \in Hook =>
              Current(items[i]) \/ \A g \in Hook : backup'[g] # items[i]
<1>1. Unit \in Hook /\ entry[Aim] # Unit
  BY UnitType DEF Wanted, Current, Aim
<1>2. Aim \in Target /\ entry[Aim] \in Hook \cup {Original}
  BY <1>1, HooksAssumption DEF Aim, Inv, TypeOK
<1>3. backup'[Unit] = entry[Aim] /\ \A g \in Hook \ {Unit} : backup'[g] = backup[g]
  BY <1>1 DEF Inv, TypeOK
<1>4. \A g \in Hook : backup[g] # Unit
  BY <1>1 DEF ChainInv, Unit, Current, Aim
<1>5. \A t \in Target : entry[t] # Unit
  BY <1>1 DEF Inv, EntryInv, Aim
<1>6. OriginalReachable'
  <2> SUFFICES ASSUME NEW t \in Target, NEW called \in SUBSET Hook, entry[t] \in called
               PROVE  \E h \in called : backup'[h] \notin called \cup {Null}
    BY DEF OriginalReachable
  <2>1. PICK h \in called \ {Unit} : backup[h] \notin (called \ {Unit}) \cup {Null}
    BY <1>5 DEF OriginalReachable
  <2> QED BY <1>3, <1>4, <2>1
<1>7. ASSUME NEW i \in DOMAIN items, items[i] \in Hook, ~Current(items[i]), NEW g \in Hook
      PROVE  backup'[g] # items[i]
  <2>1. CASE g # Unit
    BY <1>3, <1>7, <2>1 DEF ChainInv
  <2>2. CASE g = Unit
    <3> SUFFICES ASSUME entry[Aim] = items[i] PROVE FALSE
      BY <1>3, <2>2
    <3>1. TargetOf[items[i]] = Aim
      BY <1>2, <1>7 DEF Inv, EntryInv
    <3> QED BY <1>7, <3>1 DEF Current
  <2> QED BY <2>1, <2>2
<1> QED BY <1>1, <1>3, <1>6, <1>7

LEMMA EntryKeepsChains ==
  ASSUME Inv, ChainInv, OriginalReachable, pc \in {"jniStore", "register"}, Underway,
         entry' = [entry EXCEPT ![Aim] = Unit],
         UNCHANGED <<backup, items>>
  PROVE  /\ OriginalReachable'
         /\ \A i \in DOMAIN items : items[i] \in Hook =>
              Current(items[i])' \/ \A g \in Hook : backup[g] # items[i]
<1>1. Unit \in Hook /\ item \in DOMAIN items /\ backup[Unit] # Null /\ backup[Unit] = entry[Aim]
  BY DEF Underway, ChainInv
<1>2. Aim \in Target /\ TargetOf[Unit] = Aim
  BY <1>1, HooksAssumption DEF Aim
<1>3. entry'[Aim] = Unit /\ \A t \in Target \ {Aim} : entry'[t] = entry[t]
  BY <1>2 DEF Inv, TypeOK
<1>4. OriginalReachable'
  <2> SUFFICES ASSUME NEW t \in Target, NEW called \in SUBSET Hook, entry'[t] \in called
               PROVE  \E h \in called : backup[h] \notin called \cup {Null}
    BY DEF OriginalReachable
  <2>1. CASE t # Aim
    BY <1>3, <2>1 DEF OriginalReachable
  <2>2. CASE t = Aim /\ entry[Aim] \in called
    BY <1>2, <2>2 DEF OriginalReachable
  <2>3. CASE t = Aim /\ entry[Aim] \notin called
    BY <1>1, <1>3, <2>3
  <2> QED BY <2>1, <2>2, <2>3
<1>5. ASSUME NEW i \in DOMAIN items, items[i] \in Hook
      PROVE  Current(items[i])' \/ \A g \in Hook : backup[g] # items[i]
  <2>1. CASE items[i] = Unit
    BY <1>2, <1>3, <2>1 DEF Current
  <2>2. CASE items[i] # Unit
    <3>1. NoHook \notin {items[i], Unit}
      BY <1>1, <1>5, HooksAssumption
    <3>2. TargetOf[items[i]] # Aim
      BY <1>1, <2>2, <3>1 DEF ChainInv, Aim, Unit
    <3>3. TargetOf[items[i]] \in Target
      BY <1>5, HooksAssumption
    <3>4. entry'[TargetOf[items[i]]] = entry[TargetOf[items[i]]]
      BY <1>3, <3>2, <3>3
    <3>5. Current(items[i]) \/ \A g \in Hook : backup[g] # items[i]
      BY <1>5 DEF ChainInv
    <3> QED BY <3>4, <3>5 DEF Current
  <2> QED BY <2>1, <2>2
<1> QED BY <1>4, <1>5

LEMMA ChainStep ==
  Inv /\ ChainInv /\ OriginalReachable /\ [FreshNext]_vars => (ChainInv /\ OriginalReachable)'
<1> SUFFICES ASSUME Inv, ChainInv, OriginalReachable, [FreshNext]_vars
             PROVE  (ChainInv /\ OriginalReachable)'
  OBVIOUS
<1>1. ASSUME NEW units, Fresh(units), NEW kind \in {"jni", "java"}, Begin(kind, units)
      PROVE  (ChainInv /\ OriginalReachable)'
  BY <1>1 DEF Begin, Fresh, ChainInv, OriginalReachable, Current
<1>2. CASE JniBackup \/ JavaBackup
  <2>1. /\ item \in DOMAIN items /\ pc # "idle" /\ Wanted
        /\ backup' = [backup EXCEPT ![Unit] = entry[Aim]]
        /\ UNCHANGED <<entry, items>>
    BY <1>2 DEF JniBackup, JavaBackup, Inv, TypeOK, LoopInv
  <2>2. /\ OriginalReachable'
        /\ backup'[Unit] = entry[Aim] /\ entry[Aim] # Unit
        /\ \A i \in DOMAIN items : items[i] \in Hook =>
             Current(items[i]) \/ \A g \in Hook : backup'[g] # items[i]
    BY <2>1, BackupKeepsChains
  <2>3. pc' \in {"jniStore", "register"} => item' = item
    BY <1>2 DEF JniBackup, JavaBackup
  <2>4. ChainInv'
    BY <2>1, <2>2, <2>3 DEF ChainInv, Current, Unit, Aim
  <2> QED BY <2>2, <2>4
<1>3. CASE JniStore \/ Register
  <2>1. /\ pc \in {"jniStore", "register"} /\ Underway
        /\ entry' = [entry EXCEPT ![Aim] = Unit]
        /\ UNCHANGED <<backup, items>>
        /\ pc' \in {"jni", "java"}
    BY <1>3 DEF JniStore, Register, Inv, LoopInv
  <2>2. /\ OriginalReachable'
        /\ \A i \in DOMAIN items : items[i] \in Hook =>
             Current(items[i])' \/ \A g \in Hook : backup[g] # items[i]
    BY <2>1, EntryKeepsChains
  <2>3. ChainInv'
    BY <2>1, <2>2 DEF ChainInv
  <2> QED BY <2>2, <2>3
<1>4. CASE RegisterFails
  <2>1. /\ pc' = "java" /\ UNCHANGED <<entry, items>>
        /\ backup' = [backup EXCEPT ![Unit] = Null]
    BY <1>4 DEF RegisterFails
  <2>2. Unit \in Hook /\ item \in DOMAIN items /\ entry[Aim] # Unit
    BY <1>4 DEF RegisterFails, Inv, LoopInv, Underway
  <2>3. \A g \in Hook : backup[g] # Unit
    BY <1>4, <2>2 DEF RegisterFails, ChainInv, Unit, Current, Aim
  <2>4. backup'[Unit] = Null /\ \A g \in Hook \ {Unit} : backup'[g] = backup[g]
    BY <2>1, <2>2 DEF Inv, TypeOK
  <2>5. \A t \in Target : entry[t] # Unit
    BY <2>2 DEF Inv, EntryInv, Aim
  <2>6. OriginalReachable'
    <3> SUFFICES ASSUME NEW t \in Target, NEW called \in SUBSET Hook, entry[t] \in called
                 PROVE  \E h \in called : backup'[h] \notin called \cup {Null}
      BY <2>1 DEF OriginalReachable
    <3>1. PICK h \in called \ {Unit} : backup[h] \notin (called \ {Unit}) \cup {Null}
      BY <2>5 DEF OriginalReachable
    <3> QED BY <2>3, <2>4, <3>1
  <2>7. ASSUME NEW i \in DOMAIN items, items[i] \in Hook
        PROVE  Current(items[i])' \/ \A g \in Hook : backup'[g] # items[i]
    <3>1. Null # items[i]
      BY <2>7, HooksAssumption
    <3>2. Current(items[i]) \/ \A g \in Hook : backup[g] # items[i]
      BY <1>4, <2>7 DEF RegisterFails, ChainInv
    <3> QED BY <2>1, <2>4, <3>1, <3>2 DEF Current
  <2>8. ChainInv'
    BY <1>4, <2>1, <2>7 DEF RegisterFails, ChainInv
  <2> QED BY <2>6, <2>8
<1>5. CASE JniSkip \/ JniReturn \/ JavaSkip \/ JavaGiveUp \/ JavaReturn
  BY <1>5 DEF JniSkip, JniReturn, JavaSkip, JavaGiveUp, JavaReturn, Return, ChainInv,
              OriginalReachable, Current
<1>6. CASE UNCHANGED vars
  BY <1>6 DEF vars, ChainInv, OriginalReachable, Current, Unit, Aim
<1> QED BY <1>1, <1>2, <1>3, <1>4, <1>5, <1>6 DEF FreshNext, Step

(* OriginalReachableCorrect: for any hooks and targets and any order of    *)
(* hooking calls, as long as no hook is asked for again once another one   *)
(* has been put over it, no call of a target runs in circles.              *)
THEOREM OriginalReachableCorrect == FreshSpec => []OriginalReachable
<1>1. Init => Inv /\ ChainInv /\ OriginalReachable
  BY InitInv, HooksAssumption DEF Init, ChainInv, OriginalReachable
<1>2. [FreshNext]_vars => [Next]_vars
  BY DEF FreshNext, Next
<1>3. Inv /\ ChainInv /\ OriginalReachable /\ [FreshNext]_vars
        => (Inv /\ ChainInv /\ OriginalReachable)'
  BY <1>2, StepInv, ChainStep
<1> QED BY <1>1, <1>3, PTL DEF FreshSpec

-----------------------------------------------------------------------------
(***************************************************************************)
(* Tracing.                                                                *)
(***************************************************************************)
Value == {"obj", "cls", "str", "mid", "fid", "chr", "va", "jv", "-"}
At == {"out", "original", "check", "format", "object", "leave", "read", "find",
       "pretty", "last", "desc"}
Callback == {"format", "object", "leave", "read", "find", "pretty", "last", "desc"}
Guarded == {"object", "leave", "pretty", "last", "desc"}

Silent == {"GetPrimitiveArrayCritical", "ReleasePrimitiveArrayCritical"}

(* The kinds of the values that a callback for f ever describes.           *)
KindsOf(f) ==
  IF f \in Silent THEN {"-"}
  ELSE IF f = "PopLocalFrame" THEN {"obj", "str"}
  ELSE IF Wrapper(f) = "invoke" THEN Value \ {"va"}
  ELSE Value

(* The variables the invariant is about: the caches hold texts only.       *)
TraceType ==
  /\ hooked \in SUBSET Function
  /\ offsets \in SUBSET Function
  /\ at \in [Thread -> At]
  /\ fn \in [Thread -> Function \cup {None}]
  /\ todo \in [Thread -> Seq(Value)]
  /\ table \in [Thread -> BOOLEAN]
  /\ guards \in [Thread -> Seq(BOOLEAN)]
  /\ pending \in [Thread -> BOOLEAN]
  /\ left \in [Thread -> BOOLEAN]
  /\ critical \in [Thread -> BOOLEAN]
  /\ live \in [Thread -> BOOLEAN]

(* What a thread has still to describe.                                    *)
TodoInv(t) ==
  /\ at[t] # "out" => fn[t] \in hooked
  /\ at[t] \in Callback => todo[t] \in Seq(KindsOf(fn[t]))
  /\ at[t] \in Callback \ {"format"} => todo[t] # <<>>
  /\ at[t] \in {"object", "leave"} => Next1(t) \in {"obj", "cls", "str"}
  /\ at[t] \in {"read", "find", "pretty", "last", "desc"} => Next1(t) \in Kind

(* Only the outermost guard has saved the table.                           *)
GuardInv(t) ==
  /\ table[t] <=> guards[t] = <<>>
  /\ \A n \in 1 .. Len(guards[t]) : guards[t][n] <=> n = 1
  /\ at[t] \in Guarded <=> guards[t] # <<>>
  /\ at[t] \in {"pretty", "last", "desc"} => Len(guards[t]) = 1

(* In the strict mode the JVM is asked only without an exception.          *)
ExceptionInv(t) ==
  Strict => /\ pending[t] = left[t]
            /\ at[t] = "object" => ~pending[t]

(* Between Get and Release only these two are called.                      *)
CriticalInv(t) ==
  at[t] # "out" /\ critical[t] => fn[t] \in Enters \cup Leaves

(* Only PopLocalFrame is reported after it has ended something.            *)
LiveInv(t) ==
  /\ at[t] \in Callback \cup {"check"} /\ ~live[t] => fn[t] = "PopLocalFrame"
  /\ at[t] \in Callback /\ fn[t] = "PopLocalFrame" => Len(todo[t]) \in {0, 1}

ThreadInv(t) ==
  /\ TodoInv(t)
  /\ GuardInv(t)
  /\ ExceptionInv(t)
  /\ CriticalInv(t)
  /\ LiveInv(t)

CallInv ==
  /\ hooked \cup offsets \subseteq DefaultOffsets \cup Extra
  /\ TraceType
  /\ \A t \in Thread : ThreadInv(t)

(* added is what monitors_ holds.                                          *)
RangesInv ==
  /\ exclude \in BOOLEAN
  /\ DOMAIN monitors \subseteq Nat
  /\ \A s \in DOMAIN monitors : monitors[s] \in Nat /\ s <= monitors[s]
  /\ added = {<<s, monitors[s]>> : s \in DOMAIN monitors}

(* A step of another thread.                                               *)
Unmoved(u) ==
  /\ at'[u] = at[u]
  /\ fn'[u] = fn[u]
  /\ todo'[u] = todo[u]
  /\ table'[u] = table[u]
  /\ guards'[u] = guards[u]
  /\ pending'[u] = pending[u]
  /\ left'[u] = left[u]
  /\ critical'[u] = critical[u]
  /\ live'[u] = live[u]

-----------------------------------------------------------------------------
(* Sequences and numbers.                                                  *)
LEMMA WiderSeq ==
  ASSUME NEW S, NEW T, S \subseteq T, NEW s \in Seq(S)
  PROVE  s \in Seq(T)
OBVIOUS

LEMMA TailOf ==
  ASSUME NEW S, NEW s \in Seq(S), s # <<>>
  PROVE  /\ Tail(s) \in Seq(S)
         /\ Head(s) \in S
         /\ Len(Tail(s)) = Len(s) - 1
         /\ Len(s) \in Nat \ {0}
OBVIOUS

LEMMA EmptyOf ==
  ASSUME NEW S, NEW s \in Seq(S)
  PROVE  s = <<>> <=> Len(s) = 0
OBVIOUS

(* Every set of numbers has a least one: < is well founded.                *)
LEMMA LeastNat ==
  ASSUME NEW T, T \subseteq Nat, T # {}
  PROVE  \E x \in T : \A y \in T : x <= y
<1>1. PICK x \in T : \A y \in T : ~(<<y, x>> \in OpToRel(<, Nat))
  BY WFMin, NatLessThanWellFounded
<1>2. \A y \in T : ~(y < x)
  BY <1>1 DEF OpToRel
<1> QED BY <1>2

-----------------------------------------------------------------------------
(* The table of the wrappers and callbacks.                                *)
LEMMA ReportIsSeq ==
  ASSUME NEW f \in Function
  PROVE  Report(f) \in Seq(Value) \ {<<>>}
<1> USE DEF Value
<1>1. ASSUME f \in ObjectFunctions PROVE ReportObjects(f) \in Seq(Value) \ {<<>>}
  BY <1>1 DEF ReportObjects, ObjectFunctions
<1>2. /\ ReportVirtual(f) \in Seq(Value) \ {<<>>}
      /\ ReportNonvirtual(f) \in Seq(Value) \ {<<>>}
      /\ ReportStatic(f) \in Seq(Value) \ {<<>>}
  BY DEF ReportVirtual, ReportNonvirtual, ReportStatic, Passed, Got
<1>3. ASSUME f \in FieldFunctions PROVE ReportFields(f) \in Seq(Value) \ {<<>>}
  BY <1>3 DEF ReportFields, FieldFunctions
<1>4. ASSUME f \in StringFunctions PROVE ReportStrings(f) \in Seq(Value) \ {<<>>}
  BY <1>4 DEF ReportStrings, StringFunctions
<1>5. /\ ReportArrays(f) \in Seq(Value) \ {<<>>}
      /\ ReportOthers(f) \in Seq(Value) \ {<<>>}
  BY DEF ReportArrays, ReportOthers
<1> QED
  BY <1>1, <1>2, <1>3, <1>4, <1>5 DEF Report, Function, BoundFirst, BoundThen

(* What ends the lifetime of its argument is reported before, but for      *)
(* PopLocalFrame, which is reported without its argument.                  *)
LEMMA EndingWrapped ==
  ASSUME NEW f \in Ending
  PROVE  Wrapper(f) = IF f = "PopLocalFrame" THEN "noargs" ELSE "after"
BY DEF Ending, Wrapper, ProxyObjects, ProxyStrings, ProxyOthers, VirtualCalls,
       NonvirtualCalls, StaticCalls, ObjectFunctions, FieldFunctions,
       StaticFunctions, StringFunctions, ArrayFunctions, OtherFunctions

LEMMA NoArguments ==
  ASSUME NEW f \in Function, Wrapper(f) = "noargs"
  PROVE  f = "PopLocalFrame" /\ Report(f) = <<"obj", "obj">>
<1> USE DEF VirtualCalls, NonvirtualCalls, StaticCalls, ObjectFunctions,
            FieldFunctions, StaticFunctions, StringFunctions, ArrayFunctions,
            OtherFunctions
<1>1. f = "PopLocalFrame"
  BY SMTT(30)
     DEF Wrapper, Function, BoundFirst, BoundThen, ProxyObjects, ProxyVirtual,
     ProxyNonvirtual, ProxyFields, ProxyStatic, ProxyStrings, ProxyArrays,
     ProxyOthers, CallWrapper, Variadic, Listed, Arrayed
<1>2. Report(f) = <<"obj", "obj">>
  BY <1>1 DEF Report, ReportObjects
<1> QED BY <1>1, <1>2

(* A wrapper that sets context.method passes no va_list.                   *)
LEMMA InvokeReport ==
  ASSUME NEW f \in Function, Wrapper(f) = "invoke"
  PROVE  Report(f) \in Seq(Value \ {"va"})
<1> USE DEF Value
<1>1. f = "NewObjectA" \/ f \in Arrayed
  BY SMTT(30)
     DEF Wrapper, Function, BoundFirst, BoundThen, ProxyObjects, ProxyVirtual,
     ProxyNonvirtual, ProxyFields, ProxyStatic, ProxyStrings, ProxyArrays,
     ProxyOthers, CallWrapper, VirtualCalls, NonvirtualCalls, StaticCalls, Arrayed,
     Listed, Variadic
<1>2. CASE f = "NewObjectA"
  <2>1. Report(f) = <<"cls", "mid", "jv", "obj">>
    BY <1>2 DEF Report, ReportObjects, ObjectFunctions, VirtualCalls,
       NonvirtualCalls, StaticCalls, FieldFunctions, StaticFunctions,
       StringFunctions, ArrayFunctions, OtherFunctions
  <2> QED BY <2>1
<1>3. CASE f \in Arrayed
  <2>1. Passed(f) = "jv" /\ Got(f) \in {"obj", "-"}
    BY <1>3 DEF Passed, Got
  <2>2. Report(f) \in {ReportVirtual(f), ReportNonvirtual(f), ReportStatic(f)}
    BY <1>3, SMTT(30) DEF Report, ObjectFunctions, VirtualCalls, NonvirtualCalls,
       StaticCalls, FieldFunctions, StaticFunctions, StringFunctions,
       ArrayFunctions, OtherFunctions, Arrayed
  <2>3. ReportStatic(f) = <<"cls", "mid", Passed(f), Got(f)>>
    BY <1>3, SMTT(30) DEF ReportStatic, Arrayed
  <2>4. \A p \in {"jv"}, g \in {"obj", "-"} :
          /\ <<"obj", "mid", p, g>> \in Seq(Value \ {"va"})
          /\ <<"obj", "cls", "mid", p, g>> \in Seq(Value \ {"va"})
          /\ <<"cls", "mid", p, g>> \in Seq(Value \ {"va"})
    OBVIOUS
  <2> QED BY <2>1, <2>2, <2>3, <2>4 DEF ReportVirtual, ReportNonvirtual
<1> QED BY <1>1, <1>2, <1>3

LEMMA SilentReport ==
  ASSUME NEW f \in Silent
  PROVE  Report(f) \in Seq({"-"})
<1>1. Report(f) \in {<<"-", "-", "-">>, <<"-", "-", "-", "-">>}
  BY DEF Silent, Report, ReportOthers, VirtualCalls, NonvirtualCalls,
     StaticCalls, ObjectFunctions, FieldFunctions, StaticFunctions,
     StringFunctions, ArrayFunctions, OtherFunctions
<1>2. <<"-", "-", "-">> \in Seq({"-"}) /\ <<"-", "-", "-", "-">> \in Seq({"-"})
  OBVIOUS
<1> QED BY <1>1, <1>2

(* What a callback begins with.                                            *)
LEMMA DescribedKinds ==
  ASSUME NEW f \in Function
  PROVE  /\ Described(f) \in Seq(Value)
         /\ Described(f) \in Seq(KindsOf(f))
         /\ f = "PopLocalFrame" => Len(Described(f)) = 1
<1>1. Wrapper("PopLocalFrame") = "noargs"
  BY EndingWrapped DEF Ending
<1>2. CASE Wrapper(f) = "noargs"
  <2>1. f = "PopLocalFrame" /\ Described(f) = <<"obj">>
    BY <1>2, NoArguments DEF Described, Result
  <2>2. <<"obj">> \in Seq({"obj", "str"}) /\ <<"obj">> \in Seq(Value)
    BY DEF Value
  <2> QED BY <2>1, <2>2 DEF KindsOf, Silent
<1>3. CASE Wrapper(f) # "noargs"
  <2>1. Described(f) = Report(f) /\ f # "PopLocalFrame"
    BY <1>1, <1>3 DEF Described
  <2> QED BY <2>1, ReportIsSeq, InvokeReport, SilentReport DEF KindsOf
<1> QED BY <1>2, <1>3

-----------------------------------------------------------------------------
(* The steps.                                                              *)

(* A thread moves alone: the others keep the invariant.                    *)
LEMMA OthersKeep ==
  ASSUME CallInv, NEW t \in Thread, TraceType', ThreadInv(t)',
         UNCHANGED <<hooked, offsets>>,
         \A u \in Thread \ {t} : Unmoved(u)
  PROVE  CallInv'
<1>1. ASSUME NEW u \in Thread PROVE ThreadInv(u)'
  <2>1. CASE u = t
    BY <2>1
  <2>2. CASE u # t
    <3>1. Unmoved(u) /\ ThreadInv(u)
      BY <2>2 DEF CallInv
    <3> QED BY <3>1 DEF Unmoved, ThreadInv, TodoInv, GuardInv, ExceptionInv,
                        CriticalInv, LiveInv, Next1
  <2> QED BY <2>1, <2>2
<1> QED BY <1>1 DEF CallInv

LEMMA ProgramStep ==
  ASSUME CallInv, NEW t \in Thread
  PROVE  /\ \A f \in Called[t], thrown \in BOOLEAN : CallUntraced(t, f, thrown) => CallInv'
         /\ \A f \in Called[t], a \in Caller[t] : \A i \in IDs(f) : Call(t, f, a, i) => CallInv'
         /\ \A thrown \in BOOLEAN : CallOriginal(t, thrown) => CallInv'
<1> USE DEF CallInv, setupVars, callVars, envVars, jvmVars
<1>a. TraceType /\ ThreadInv(t) /\ Called[t] \subseteq Function
  BY TraceAssumption
<1>1. ASSUME NEW f \in Called[t], NEW thrown \in BOOLEAN, CallUntraced(t, f, thrown)
      PROVE  CallInv'
  <2> USE <1>1 DEF CallUntraced, Allowed, RunOriginal, Pending
  <2>1. TraceType'
    BY <1>a DEF TraceType
  <2>2. ThreadInv(t)'
    BY <1>a
       DEF TraceType, ThreadInv, TodoInv, GuardInv, ExceptionInv, CriticalInv,
           LiveInv, Callback, Guarded
  <2>3. \A u \in Thread \ {t} : Unmoved(u)
    BY <1>a DEF TraceType, Unmoved
  <2> QED BY <2>1, <2>2, <2>3, OthersKeep
<1>2. ASSUME NEW f \in Called[t], NEW a \in Caller[t], NEW i \in IDs(f), Call(t, f, a, i)
      PROVE  CallInv'
  <2> USE <1>2 DEF Call, Allowed
  <2>1. TraceType'
    BY <1>a DEF TraceType, At
  <2>2. ThreadInv(t)'
    BY <1>a
       DEF TraceType, ThreadInv, TodoInv, GuardInv, ExceptionInv, CriticalInv,
           LiveInv, Callback, Guarded
  <2>3. \A u \in Thread \ {t} : Unmoved(u)
    BY <1>a DEF TraceType, Unmoved
  <2> QED BY <2>1, <2>2, <2>3, OthersKeep
<1>3. ASSUME NEW thrown \in BOOLEAN, CallOriginal(t, thrown) PROVE CallInv'
  <2> USE <1>3 DEF CallOriginal, RunOriginal, Pending, GoOn
  <2>1. TraceType'
    BY <1>a DEF TraceType, At
  <2>2. ThreadInv(t)'
    <3>1. fn[t] \in hooked /\ fn[t] \in Function
      BY <1>a DEF ThreadInv, TodoInv, TraceType
    <3>2. CASE After(t)
      BY <3>2, <1>a
         DEF TraceType, ThreadInv, TodoInv, GuardInv, ExceptionInv, CriticalInv,
             LiveInv, Callback, Guarded
    <3>3. CASE ~After(t)
      BY <3>1, <3>3, <1>a, EndingWrapped
         DEF After, TraceType, ThreadInv, TodoInv, GuardInv, ExceptionInv,
             CriticalInv, LiveInv, Callback, Guarded
    <3> QED BY <3>2, <3>3
  <2>3. \A u \in Thread \ {t} : Unmoved(u)
    BY <1>a DEF TraceType, Unmoved
  <2> QED BY <2>1, <2>2, <2>3, OthersKeep
<1> QED BY <1>1, <1>2, <1>3

(* A value has been described.                                             *)
LEMMA DoneKeeps ==
  ASSUME CallInv, NEW t \in Thread, at[t] \in Callback, todo[t] # <<>>, Done(t),
         UNCHANGED <<hooked, fn, live>>
  PROVE  /\ at' \in [Thread -> At]
         /\ todo' \in [Thread -> Seq(Value)]
         /\ at'[t] = "format"
         /\ TodoInv(t)'
         /\ LiveInv(t)'
<1>1. TraceType /\ TodoInv(t) /\ LiveInv(t)
  BY DEF CallInv, ThreadInv
<1>2. /\ at' \in [Thread -> At] /\ at'[t] = "format"
      /\ todo' = [todo EXCEPT ![t] = Tail(todo[t])]
  BY <1>1 DEF TraceType, Done, At
<1>3. Tail(todo[t]) \in Seq(Value) /\ Len(Tail(todo[t])) = Len(todo[t]) - 1
  BY <1>1, TailOf DEF TraceType
<1>4. Tail(todo[t]) \in Seq(KindsOf(fn[t]))
  BY <1>1, TailOf DEF TodoInv
<1>5. todo' \in [Thread -> Seq(Value)] /\ todo'[t] = Tail(todo[t])
  BY <1>1, <1>2, <1>3 DEF TraceType
<1>6. TodoInv(t)'
  BY <1>1, <1>2, <1>4, <1>5 DEF TodoInv, Callback
<1>7. Len(todo[t]) \in Nat /\ Len(todo'[t]) \in Nat
  BY <1>1, <1>5 DEF TraceType
<1>8. LiveInv(t)'
  BY <1>1, <1>2, <1>3, <1>5, <1>7 DEF LiveInv, Callback
<1> QED BY <1>2, <1>5, <1>6, <1>8

LEMMA CallbackStep ==
  ASSUME CallInv, NEW t \in Thread,
         \/ CheckMonitored(t)
         \/ TraceEnd(t)
         \/ FormatPlain(t)
         \/ FormatList(t)
         \/ FormatID(t)
         \/ ReadLast(t)
  PROVE  CallInv'
<1> USE DEF setupVars, callVars, envVars, jvmVars
<1>a. TraceType /\ ThreadInv(t)
  BY DEF CallInv
<1>b. ASSUME at[t] # "out" PROVE fn[t] \in Function
  BY <1>a, <1>b DEF TraceType, ThreadInv, TodoInv
<1>1. CASE CheckMonitored(t)
  <2> USE <1>1 DEF CheckMonitored, GoOn
  <2>1. /\ Described(fn[t]) \in Seq(Value) 
        /\ Described(fn[t]) \in Seq(KindsOf(fn[t])) 
        /\ fn[t] = "PopLocalFrame" => Len(Described(fn[t])) = 1
    BY <1>b, DescribedKinds
  <2>2. TraceType'
    BY <1>a, <2>1 DEF TraceType, At
  <2>3. ThreadInv(t)'
    <3>1. CASE IsMonitoring(from[t])
      <4>1. at'[t] = "format" /\ todo'[t] = Described(fn[t])
        BY <1>a, <3>1 DEF TraceType
      <4>2. TodoInv(t)'
        BY <1>a, <2>1, <3>1, <4>1 DEF ThreadInv, TodoInv, Callback
      <4>3. LiveInv(t)'
        <5>1. fn'[t] = fn[t] /\ (~live[t] => fn[t] = "PopLocalFrame") /\ live'[t] = live[t]
          BY <1>a, <3>1 DEF ThreadInv, LiveInv
        <5>2. fn[t] = "PopLocalFrame" => Len(todo'[t]) = 1
          BY <2>1, <4>1
        <5> QED BY <4>1, <5>1, <5>2 DEF LiveInv, Callback
      <4> QED BY <1>a, <3>1, <4>1, <4>2, <4>3
                 DEF ThreadInv, GuardInv, Guarded, ExceptionInv, CriticalInv
    <3>2. CASE ~IsMonitoring(from[t])
      BY <1>a, <3>2
         DEF TraceType, ThreadInv, TodoInv, GuardInv, ExceptionInv, CriticalInv,
             LiveInv, Callback, Guarded
    <3> QED BY <3>1, <3>2
  <2>4. \A u \in Thread \ {t} : Unmoved(u)
    BY <1>a DEF TraceType, Unmoved
  <2> QED BY <2>2, <2>3, <2>4, OthersKeep
<1>2. CASE TraceEnd(t)
  <2> USE <1>2 DEF TraceEnd, GoOn
  <2>1. TraceType'
    BY <1>a DEF TraceType, At
  <2>2. ThreadInv(t)'
    BY <1>a
       DEF TraceType, ThreadInv, TodoInv, GuardInv, ExceptionInv, CriticalInv,
           LiveInv, Callback, Guarded
  <2>3. \A u \in Thread \ {t} : Unmoved(u)
    BY <1>a DEF TraceType, Unmoved
  <2> QED BY <2>1, <2>2, <2>3, OthersKeep
<1>3. CASE FormatPlain(t) \/ ReadLast(t)
  <2> USE <1>3 DEF FormatPlain, ReadLast, Formatting
  <2>1. /\ at' \in [Thread -> At]
        /\ todo' \in [Thread -> Seq(Value)]
        /\ at'[t] = "format"
        /\ TodoInv(t)'
        /\ LiveInv(t)'
    <3>1. at[t] \in Callback /\ todo[t] # <<>>
      BY <1>a DEF ThreadInv, TodoInv, Callback
    <3> QED BY <3>1, DoneKeeps
  <2>2. TraceType'
    BY <1>a, <2>1 DEF TraceType
  <2>3. ThreadInv(t)'
    BY <1>a, <2>1 DEF ThreadInv, GuardInv, ExceptionInv, CriticalInv, Guarded
  <2>4. \A u \in Thread \ {t} : Unmoved(u)
    BY <1>a DEF TraceType, Unmoved, Done
  <2> QED BY <2>2, <2>3, <2>4, OthersKeep
<1>4. CASE FormatList(t)
  <2> DEFINE args == IF HasMethod(t) THEN Shorty ELSE <<>>
  <2> USE <1>4 DEF FormatList, Formatting
  <2>1. {"obj", "-"} \subseteq KindsOf(fn[t]) /\ fn[t] # "PopLocalFrame"
    <3>1. todo[t] \in Seq(KindsOf(fn[t])) /\ todo[t] # <<>> /\ Head(todo[t]) \in {"va", "jv"}
      BY <1>a DEF Next1, ThreadInv, TodoInv, Callback
    <3>2. Head(todo[t]) \in KindsOf(fn[t])
      BY <3>1
    <3> QED BY <3>1, <3>2 DEF KindsOf, Value, Silent
  <2>2. args \in Seq(Value) /\ args \in Seq(KindsOf(fn[t]))
    <3>1. Shorty \in Seq({"obj", "-"}) /\ {"obj", "-"} \subseteq Value
      BY TraceAssumption DEF Value
    <3>2. Shorty \in Seq(Value) /\ Shorty \in Seq(KindsOf(fn[t]))
      BY <2>1, <3>1, WiderSeq
    <3>3. <<>> \in Seq(Value) /\ <<>> \in Seq(KindsOf(fn[t]))
      OBVIOUS
    <3> QED BY <3>2, <3>3
  <2>3. todo' = [todo EXCEPT ![t] = args \o Tail(todo[t])]
    OBVIOUS
  <2> HIDE DEF args
  <2>4. /\ args \o Tail(todo[t]) \in Seq(Value)
        /\ args \o Tail(todo[t]) \in Seq(KindsOf(fn[t]))
    BY <1>a, <2>2 DEF TraceType, ThreadInv, TodoInv, Callback
  <2>5. TraceType' /\ todo'[t] = args \o Tail(todo[t])
    BY <1>a, <2>3, <2>4 DEF TraceType
  <2>6. ThreadInv(t)'
    BY <1>a, <2>1, <2>4, <2>5
       DEF ThreadInv, TodoInv, GuardInv, ExceptionInv, CriticalInv, LiveInv,
           Callback, Guarded
  <2>7. \A u \in Thread \ {t} : Unmoved(u)
    BY <1>a, <2>3 DEF TraceType, Unmoved
  <2> QED BY <2>5, <2>6, <2>7, OthersKeep
<1>5. CASE FormatID(t)
  <2> USE <1>5 DEF FormatID, Formatting
  <2>1. CASE Checked(t) /\ id[t] = None
    <3>1. /\ at' \in [Thread -> At]
          /\ todo' \in [Thread -> Seq(Value)]
          /\ at'[t] = "format"
          /\ TodoInv(t)'
          /\ LiveInv(t)'
      BY <2>1, DoneKeeps DEF Callback
    <3>2. TraceType'
      BY <1>a, <3>1 DEF TraceType
    <3>3. ThreadInv(t)'
      BY <1>a, <3>1 DEF ThreadInv, GuardInv, ExceptionInv, CriticalInv, Guarded
    <3>4. \A u \in Thread \ {t} : Unmoved(u)
      BY <1>a, <2>1 DEF TraceType, Unmoved, Done
    <3> QED BY <3>2, <3>3, <3>4, OthersKeep
  <2>2. CASE ~(Checked(t) /\ id[t] = None)
    <3>1. TraceType' /\ at'[t] \in {"read", "find"}
      BY <1>a, <2>2 DEF TraceType, At
    <3>2. ThreadInv(t)'
      BY <1>a, <2>2, <3>1
         DEF ThreadInv, TodoInv, GuardInv, ExceptionInv, CriticalInv, LiveInv,
             Callback, Guarded, Next1
    <3>3. \A u \in Thread \ {t} : Unmoved(u)
      BY <1>a, <2>2 DEF TraceType, Unmoved
    <3> QED BY <3>1, <3>2, <3>3, OthersKeep
  <2> QED BY <2>1, <2>2
<1> QED BY <1>1, <1>2, <1>3, <1>4, <1>5

(* What GuardJNIEnv leaves, and ~GuardJNIEnv.                              *)
LEMMA GuardEntered ==
  ASSUME TraceType, NEW t \in Thread, GuardInv(t), EnterGuard(t)
  PROVE  /\ table' \in [Thread -> BOOLEAN]
         /\ guards' \in [Thread -> Seq(BOOLEAN)]
         /\ at'[t] = "object" \/ (at'[t] = "pretty" /\ guards[t] = <<>>)
              => GuardInv(t)'
<1>1. /\ guards[t] \in Seq(BOOLEAN)
      /\ table[t] \in BOOLEAN
  BY DEF TraceType
<1>2. /\ guards' = [guards EXCEPT ![t] = Append(guards[t], table[t])]
      /\ table' = [table EXCEPT ![t] = FALSE]
  BY DEF EnterGuard
<1>3. Append(guards[t], table[t]) \in Seq(BOOLEAN)
  BY <1>1
<1>4. /\ table' \in [Thread -> BOOLEAN]
      /\ guards' \in [Thread -> Seq(BOOLEAN)]
      /\ guards'[t] = Append(guards[t], table[t])
      /\ ~table'[t]
  BY <1>2, <1>3 DEF TraceType
<1>5. Len(guards[t]) \in Nat /\ Len(guards'[t]) = Len(guards[t]) + 1 /\ guards'[t] # <<>>
  BY <1>1, <1>4
<1>6. \A n \in 1 .. Len(guards'[t]) :
        guards'[t][n] = IF n = Len(guards[t]) + 1 THEN table[t] ELSE guards[t][n]
  BY <1>1, <1>4, <1>5
<1>7. table[t] <=> Len(guards[t]) = 0
  BY <1>1 DEF GuardInv
<1>8. \A n \in 1 .. Len(guards'[t]) : guards'[t][n] <=> n = 1
  BY <1>5, <1>6, <1>7 DEF GuardInv
<1>9. guards[t] = <<>> => Len(guards[t]) = 0
  OBVIOUS
<1> QED BY <1>4, <1>5, <1>8, <1>9 DEF GuardInv, Guarded

LEMMA GuardLeft ==
  ASSUME TraceType, NEW t \in Thread, GuardInv(t), guards[t] # <<>>, LeaveGuard(t)
  PROVE  /\ table' \in [Thread -> BOOLEAN]
         /\ guards' \in [Thread -> Seq(BOOLEAN)]
         /\ table'[t] <=> guards'[t] = <<>>
         /\ guards'[t] = <<>> <=> Len(guards[t]) = 1
         /\ \A n \in 1 .. Len(guards'[t]) : guards'[t][n] <=> n = 1
<1> DEFINE top == Len(guards[t])
           less == SubSeq(guards[t], 1, top - 1)
<1>1. guards[t] \in Seq(BOOLEAN) /\ top \in Nat \ {0}
  BY DEF TraceType
<1>2. /\ guards' = [guards EXCEPT ![t] = less]
      /\ table' = [table EXCEPT ![t] = guards[t][top]]
  BY DEF LeaveGuard
<1>3. guards[t][top] \in BOOLEAN /\ (guards[t][top] <=> top = 1)
  <2>1. top \in 1 .. top
    BY <1>1
  <2>2. guards[t][top] \in BOOLEAN
    BY <1>1, <2>1
  <2>3. guards[t][top] <=> top = 1
    BY <2>1 DEF GuardInv
  <2> QED BY <2>2, <2>3
<1>4. /\ less \in Seq(BOOLEAN) /\ Len(less) = top - 1
      /\ \A n \in 1 .. top - 1 : less[n] = guards[t][n]
  <2>1. top - 1 \in Nat
    BY <1>1
  <2>2. \A n \in 1 .. top - 1 : n \in 1 .. top /\ guards[t][n] \in BOOLEAN
    BY <1>1, <2>1
  <2>3. less = [n \in 1 .. top - 1 |-> guards[t][n]]
    BY <1>1, <2>1, <2>2
  <2> QED BY <2>1, <2>2, <2>3
<1> HIDE DEF less
<1>5. less = <<>> <=> top = 1
  <2>1. less = <<>> <=> Len(less) = 0
    BY <1>4, EmptyOf
  <2> QED BY <1>1, <1>4, <2>1
<1>6. table' \in [Thread -> BOOLEAN] /\ table'[t] = guards[t][top]
  BY <1>2, <1>3 DEF TraceType
<1>7. guards' \in [Thread -> Seq(BOOLEAN)] /\ guards'[t] = less
  BY <1>2, <1>4 DEF TraceType
<1>8. \A n \in 1 .. Len(less) : less[n] <=> n = 1
  BY <1>1, <1>4 DEF GuardInv
<1> QED BY <1>3, <1>5, <1>6, <1>7, <1>8

LEMMA GuardedStep ==
  ASSUME CallInv, NEW t \in Thread,
         \/ \E null \in BOOLEAN : FormatObject(t, null)
         \/ \E string \in BOOLEAN : AskJVM(t, string)
         \/ LeaveObject(t)
         \/ FindID(t)
         \/ PrettyID(t)
         \/ SetLast(t)
         \/ SetLastDesc(t)
  PROVE  CallInv'
<1> USE DEF setupVars, callVars, envVars, jvmVars
<1>a. TraceType /\ ThreadInv(t)
  BY DEF CallInv
<1>1. ASSUME NEW null \in BOOLEAN, FormatObject(t, null) PROVE CallInv'
  <2> USE <1>1 DEF FormatObject, Formatting
  <2>1. CASE Ignored(t, null)
    <3>1. /\ at' \in [Thread -> At]
          /\ todo' \in [Thread -> Seq(Value)]
          /\ at'[t] = "format"
          /\ TodoInv(t)'
          /\ LiveInv(t)'
      BY <2>1, DoneKeeps DEF Callback
    <3>2. TraceType'
      BY <1>a, <2>1, <3>1 DEF TraceType
    <3>3. ThreadInv(t)'
      BY <1>a, <2>1, <3>1 DEF ThreadInv, GuardInv, ExceptionInv, CriticalInv, Guarded
    <3>4. \A u \in Thread \ {t} : Unmoved(u)
      BY <1>a, <2>1 DEF TraceType, Unmoved, Done
    <3> QED BY <3>2, <3>3, <3>4, OthersKeep
  <2>2. CASE ~Ignored(t, null)
    <3>a. GuardInv(t) /\ EnterGuard(t)
      BY <1>a, <2>2 DEF ThreadInv
    <3>1. TraceType' /\ at'[t] = "object"
      BY <1>a, <2>2, <3>a, GuardEntered DEF TraceType, At
    <3>2. TodoInv(t)' /\ LiveInv(t)'
      BY <1>a, <2>2, <3>1 DEF ThreadInv, TodoInv, LiveInv, Callback, Next1
    <3>3. GuardInv(t)'
      BY <1>a, <3>a, <3>1, GuardEntered
    <3>4. ExceptionInv(t)' /\ CriticalInv(t)'
      BY <1>a, <2>2, <3>1 DEF ThreadInv, ExceptionInv, CriticalInv, Ignored, Checked
    <3>5. \A u \in Thread \ {t} : Unmoved(u)
      BY <1>a, <2>2 DEF TraceType, Unmoved, EnterGuard
    <3> QED BY <3>1, <3>2, <3>3, <3>4, <3>5, OthersKeep DEF ThreadInv
  <2> QED BY <2>1, <2>2
<1>2. ASSUME NEW string \in BOOLEAN, AskJVM(t, string) PROVE CallInv'
  <2> USE <1>2 DEF AskJVM
  <2>a. /\ todo[t] \in Seq(Value) /\ todo[t] \in Seq(KindsOf(fn[t])) /\ todo[t] # <<>>
        /\ Next1(t) \in {"obj", "cls", "str"}
    BY <1>a DEF TraceType, ThreadInv, TodoInv, Callback
  <2>1. CASE string /\ Next1(t) = "obj"
    <3>1. "str" \in KindsOf(fn[t])
      <4>1. "obj" \in KindsOf(fn[t])
        BY <2>a, <2>1, TailOf DEF Next1
      <4> QED BY <4>1 DEF KindsOf, Value
    <3>2. DEFINE rest == <<"str">> \o Tail(todo[t])
    <3>3. rest \in Seq(Value) /\ rest # <<>> /\ Head(rest) = "str"
      BY <2>a, TailOf DEF Value
    <3>4. rest \in Seq(KindsOf(fn[t])) /\ Len(rest) = Len(todo[t])
      <4>1. /\ Tail(todo[t]) \in Seq(KindsOf(fn[t]))
            /\ Len(Tail(todo[t])) = Len(todo[t]) - 1
            /\ Len(todo[t]) \in Nat \ {0}
        BY <2>a, TailOf
      <4>2. <<"str">> \in Seq(KindsOf(fn[t])) /\ Len(<<"str">>) = 1
        BY <3>1
      <4> QED BY <4>1, <4>2
    <3>5. todo' = [todo EXCEPT ![t] = rest]
      BY <2>1
    <3> HIDE DEF rest
    <3>a. GuardInv(t) /\ EnterGuard(t) /\ at' = at
      BY <1>a, <2>1 DEF ThreadInv
    <3>6. TraceType' /\ todo'[t] = rest
      <4>1. todo' \in [Thread -> Seq(Value)] /\ todo'[t] = rest
        BY <1>a, <3>3, <3>5 DEF TraceType
      <4> QED BY <1>a, <2>1, <3>a, <4>1, GuardEntered DEF TraceType
    <3>7. TodoInv(t)'
      BY <1>a, <2>1, <3>3, <3>4, <3>6 DEF ThreadInv, TodoInv, Callback, Next1
    <3>8. LiveInv(t)'
      BY <1>a, <2>1, <3>4, <3>6 DEF ThreadInv, LiveInv, Callback
    <3>9. GuardInv(t)'
      BY <1>a, <3>a, GuardEntered
    <3>10. ExceptionInv(t)' /\ CriticalInv(t)'
      BY <1>a, <2>1 DEF TraceType, ThreadInv, ExceptionInv, CriticalInv
    <3>11. \A u \in Thread \ {t} : Unmoved(u)
      BY <1>a, <2>1 DEF TraceType, Unmoved, EnterGuard
    <3> QED BY <3>6, <3>7, <3>8, <3>9, <3>10, <3>11, OthersKeep DEF ThreadInv
  <2>2. CASE ~(string /\ Next1(t) = "obj")
    <3>1. TraceType' /\ at'[t] = "leave"
      BY <1>a, <2>2 DEF TraceType, At
    <3>2. TodoInv(t)' /\ LiveInv(t)'
      BY <1>a, <2>2, <3>1 DEF ThreadInv, TodoInv, LiveInv, Callback, Next1
    <3>3. GuardInv(t)'
      BY <1>a, <2>2, <3>1 DEF ThreadInv, GuardInv, Guarded
    <3>4. ExceptionInv(t)' /\ CriticalInv(t)'
      BY <1>a, <2>2, <3>1 DEF TraceType, ThreadInv, ExceptionInv, CriticalInv
    <3>5. \A u \in Thread \ {t} : Unmoved(u)
      BY <1>a, <2>2 DEF TraceType, Unmoved
    <3> QED BY <3>1, <3>2, <3>3, <3>4, <3>5, OthersKeep DEF ThreadInv
  <2> QED BY <2>1, <2>2
<1>3. CASE LeaveObject(t)
  <2> USE <1>3 DEF LeaveObject
  <2>a. /\ GuardInv(t) /\ guards[t] \in Seq(BOOLEAN) /\ guards[t] # <<>>
        /\ todo[t] # <<>> /\ at[t] = "leave"
    BY <1>a DEF TraceType, ThreadInv, TodoInv, GuardInv, Guarded, Callback
  <2>1. CASE Len(guards[t]) = 1
    <3>1. /\ at' \in [Thread -> At]
          /\ todo' \in [Thread -> Seq(Value)]
          /\ at'[t] = "format"
          /\ TodoInv(t)'
          /\ LiveInv(t)'
      BY <2>a, <2>1, DoneKeeps DEF Callback
    <3>2. /\ table' \in [Thread -> BOOLEAN] /\ guards' \in [Thread -> Seq(BOOLEAN)]
          /\ table'[t] /\ guards'[t] = <<>>
      BY <1>a, <2>a, <2>1, GuardLeft
    <3>3. TraceType'
      BY <1>a, <2>1, <3>1, <3>2 DEF TraceType
    <3>4. ThreadInv(t)'
      BY <1>a, <2>1, <3>1, <3>2
         DEF ThreadInv, GuardInv, ExceptionInv, CriticalInv, Guarded
    <3>5. \A u \in Thread \ {t} : Unmoved(u)
      BY <1>a, <2>1 DEF TraceType, Unmoved, Done, LeaveGuard
    <3> QED BY <3>3, <3>4, <3>5, OthersKeep
  <2>2. CASE Len(guards[t]) # 1
    <3>1. /\ table' \in [Thread -> BOOLEAN] /\ guards' \in [Thread -> Seq(BOOLEAN)]
          /\ GuardInv(t)'
      <4>1. at'[t] = "leave"
        BY <2>a, <2>2
      <4> QED BY <1>a, <2>a, <2>2, <4>1, GuardLeft DEF GuardInv, Guarded
    <3>2. TraceType'
      BY <1>a, <2>2, <3>1 DEF TraceType
    <3>3. ThreadInv(t)'
      BY <1>a, <2>2, <3>1
         DEF ThreadInv, TodoInv, ExceptionInv, CriticalInv, LiveInv, Next1
    <3>4. \A u \in Thread \ {t} : Unmoved(u)
      BY <1>a, <2>2 DEF TraceType, Unmoved, LeaveGuard
    <3> QED BY <3>2, <3>3, <3>4, OthersKeep
  <2> QED BY <2>1, <2>2
<1>4. CASE FindID(t)
  <2> USE <1>4 DEF FindID
  <2>1. CASE cache[Next1(t)][id[t]] # "none"
    <3>1. /\ at' \in [Thread -> At]
          /\ todo' \in [Thread -> Seq(Value)]
          /\ at'[t] = "format"
          /\ TodoInv(t)'
          /\ LiveInv(t)'
      <4>1. todo[t] # <<>> /\ at[t] \in Callback
        BY <1>a DEF ThreadInv, TodoInv, Callback
      <4> QED BY <2>1, <4>1, DoneKeeps
    <3>2. TraceType'
      BY <1>a, <2>1, <3>1 DEF TraceType
    <3>3. ThreadInv(t)'
      BY <1>a, <2>1, <3>1 DEF ThreadInv, GuardInv, ExceptionInv, CriticalInv, Guarded
    <3>4. \A u \in Thread \ {t} : Unmoved(u)
      BY <1>a, <2>1 DEF TraceType, Unmoved, Done
    <3> QED BY <3>2, <3>3, <3>4, OthersKeep
  <2>2. CASE cache[Next1(t)][id[t]] = "none"
    <3>a. GuardInv(t) /\ EnterGuard(t) /\ guards[t] = <<>>
      BY <1>a, <2>2 DEF ThreadInv, GuardInv, Guarded
    <3>1. TraceType' /\ at'[t] = "pretty"
      BY <1>a, <2>2, <3>a, GuardEntered DEF TraceType, At
    <3>2. TodoInv(t)' /\ LiveInv(t)'
      BY <1>a, <2>2, <3>1 DEF ThreadInv, TodoInv, LiveInv, Callback, Next1
    <3>3. GuardInv(t)'
      BY <1>a, <3>a, <3>1, GuardEntered
    <3>4. ExceptionInv(t)' /\ CriticalInv(t)'
      BY <1>a, <2>2, <3>1 DEF ThreadInv, ExceptionInv, CriticalInv
    <3>5. \A u \in Thread \ {t} : Unmoved(u)
      BY <1>a, <2>2 DEF TraceType, Unmoved, EnterGuard
    <3> QED BY <3>1, <3>2, <3>3, <3>4, <3>5, OthersKeep DEF ThreadInv
  <2> QED BY <2>1, <2>2
<1>5. CASE PrettyID(t)
  <2> USE <1>5 DEF PrettyID
  <2>1. TraceType' /\ at'[t] = "last"
    BY <1>a DEF TraceType, At
  <2>2. TodoInv(t)' /\ LiveInv(t)'
    BY <1>a, <2>1 DEF ThreadInv, TodoInv, LiveInv, Callback, Next1
  <2>3. GuardInv(t)' /\ CriticalInv(t)'
    BY <1>a, <2>1 DEF ThreadInv, GuardInv, CriticalInv, Guarded
  <2>4. ExceptionInv(t)'
    BY <1>a, <2>1 DEF TraceType, ThreadInv, ExceptionInv, Ignored, Checked
  <2>5. \A u \in Thread \ {t} : Unmoved(u)
    BY <1>a DEF TraceType, Unmoved
  <2> QED BY <2>1, <2>2, <2>3, <2>4, <2>5, OthersKeep DEF ThreadInv
<1>6. CASE SetLast(t)
  <2> USE <1>6 DEF SetLast
  <2>1. TraceType' /\ at'[t] = "desc"
    BY <1>a DEF TraceType, At
  <2>2. TodoInv(t)' /\ LiveInv(t)'
    BY <1>a, <2>1 DEF ThreadInv, TodoInv, LiveInv, Callback, Next1
  <2>3. GuardInv(t)' /\ CriticalInv(t)' /\ ExceptionInv(t)'
    BY <1>a, <2>1 DEF ThreadInv, GuardInv, CriticalInv, ExceptionInv, Guarded
  <2>4. \A u \in Thread \ {t} : Unmoved(u)
    BY <1>a DEF TraceType, Unmoved
  <2> QED BY <2>1, <2>2, <2>3, <2>4, OthersKeep DEF ThreadInv
<1>7. CASE SetLastDesc(t)
  <2> USE <1>7 DEF SetLastDesc
  <2>1. todo[t] # <<>> /\ at[t] \in Callback /\ GuardInv(t) /\ Len(guards[t]) = 1
    BY <1>a DEF ThreadInv, TodoInv, GuardInv, Callback
  <2>2. /\ at' \in [Thread -> At]
        /\ todo' \in [Thread -> Seq(Value)]
        /\ at'[t] = "format"
        /\ TodoInv(t)'
        /\ LiveInv(t)'
    BY <2>1, DoneKeeps
  <2>3. /\ table' \in [Thread -> BOOLEAN] /\ guards' \in [Thread -> Seq(BOOLEAN)]
        /\ table'[t] /\ guards'[t] = <<>>
    BY <1>a, <2>1, GuardLeft
  <2>4. TraceType'
    BY <1>a, <2>2, <2>3 DEF TraceType
  <2>5. ThreadInv(t)'
    BY <1>a, <2>2, <2>3 DEF ThreadInv, GuardInv, ExceptionInv, CriticalInv, Guarded
  <2>6. \A u \in Thread \ {t} : Unmoved(u)
    BY <1>a DEF TraceType, Unmoved, Done, LeaveGuard
  <2> QED BY <2>4, <2>5, <2>6, OthersKeep
<1> QED BY <1>1, <1>2, <1>3, <1>4, <1>5, <1>6, <1>7

(* The tracer only adds functions to those that are traced.                *)
LEMMA TracerKeeps ==
  ASSUME CallInv, Tracer
  PROVE  CallInv'
<1>1. /\ UNCHANGED threadVars
      /\ hooked \subseteq hooked'
      /\ hooked' \cup offsets' \subseteq DefaultOffsets \cup Extra
  BY DEF CallInv, Tracer, InitTrace, DefaultRegister, AddTraceFunctions, StartTrace,
         AddMonitorLibrary, RemoveMonitorLibrary, AddMonitorAddress,
         RemoveMonitorAddress, Clear, setupVars
<1>2. DefaultOffsets \cup Extra \subseteq Function
  BY TraceAssumption DEF DefaultOffsets
<1>3. TraceType'
  BY <1>1, <1>2 DEF CallInv, TraceType, threadVars, callVars, envVars, jvmVars
<1>4. \A t \in Thread : ThreadInv(t)'
  BY <1>1 DEF CallInv, threadVars, callVars, envVars, jvmVars, ThreadInv, TodoInv,
              GuardInv, ExceptionInv, CriticalInv, LiveInv, Next1
<1> QED BY <1>1, <1>3, <1>4 DEF CallInv

LEMMA CallInvHolds == TraceSpec => []CallInv
<1>1. TraceInit => CallInv
  <2> SUFFICES ASSUME TraceInit PROVE CallInv
    OBVIOUS
  <2>1. TraceType
    <3>1. <<>> \in Seq(Value) /\ <<>> \in Seq(BOOLEAN)
      OBVIOUS
    <3> QED BY <3>1 DEF TraceInit, TraceType, At
  <2>2. ASSUME NEW t \in Thread PROVE ThreadInv(t)
    BY DEF TraceInit, ThreadInv, TodoInv, GuardInv, ExceptionInv, CriticalInv,
           LiveInv, Callback, Guarded
  <2> QED BY <2>1, <2>2 DEF CallInv, TraceInit
<1>2. CallInv /\ [TraceNext]_traceVars => CallInv'
  <2> SUFFICES ASSUME CallInv, [TraceNext]_traceVars PROVE CallInv'
    OBVIOUS
  <2>1. CASE Tracer
    BY <2>1, TracerKeeps
  <2>2. ASSUME NEW t \in Thread, TraceStep(t) PROVE CallInv'
    BY <2>2, ProgramStep, CallbackStep, GuardedStep DEF TraceStep
  <2>3. CASE UNCHANGED traceVars
    BY <2>3
       DEF traceVars, setupVars, threadVars, callVars, envVars, jvmVars,
           CallInv,
                TraceType, ThreadInv, TodoInv, GuardInv, ExceptionInv, CriticalInv,
                LiveInv, Next1
  <2> QED BY <2>1, <2>2, <2>3 DEF TraceNext
<1> QED BY <1>1, <1>2, PTL DEF TraceSpec

(* ReadsLiveHolds: for any functions traced and any calls, a callback      *)
(* describes no reference and no characters that have been released, and   *)
(* no va_list that the original consumed.                                  *)
THEOREM ReadsLiveHolds == TraceSpec => []ReadsLive
<1>1. CallInv => ReadsLive
  <2> SUFFICES ASSUME CallInv, NEW t \in Thread,
                      at[t] \in {"format", "object"}, todo[t] # <<>>
               PROVE  /\ (Next1(t) \in {"obj", "cls", "str", "chr"} /\ Len(todo[t]) > 1) => live[t]
                      /\ (Next1(t) = "va" /\ HasMethod(t)) => Wrapper(fn[t]) = "valist"
    BY DEF ReadsLive
  <2>1. TodoInv(t) /\ LiveInv(t) /\ at[t] \in Callback
    BY DEF CallInv, ThreadInv, Callback
  <2>2. Head(todo[t]) \in KindsOf(fn[t])
    BY <2>1, TailOf DEF TodoInv
  <2>3. Len(todo[t]) > 1 => live[t]
    <3> SUFFICES ASSUME Len(todo[t]) > 1, ~live[t] PROVE FALSE
      OBVIOUS
    <3>1. Len(todo[t]) = 0 \/ Len(todo[t]) = 1
      BY <2>1 DEF LiveInv
    <3>2. CASE Len(todo[t]) = 0
      BY <3>2
    <3>3. CASE Len(todo[t]) = 1
      BY <3>3
    <3> QED BY <3>1, <3>2, <3>3
  <2>4. (Next1(t) = "va" /\ HasMethod(t)) => Wrapper(fn[t]) = "valist"
    BY <2>2 DEF KindsOf, Next1, HasMethod
  <2> QED BY <2>3, <2>4
<1> QED BY <1>1, CallInvHolds, PTL

(* ExceptionKeptHolds: in the strict mode no callback takes an exception   *)
(* from the program, nor leaves it one.                                    *)
THEOREM ExceptionKeptHolds == TraceSpec => []ExceptionKept
<1>1. CallInv => ExceptionKept
  BY DEF CallInv, TraceType, ThreadInv, ExceptionInv, ExceptionKept
<1> QED BY <1>1, CallInvHolds, PTL

(* NoCallInCriticalHolds: whatever is traced beside the default functions, *)
(* but for Get- and ReleaseStringCritical, no callback asks the JVM        *)
(* anything in a critical region.                                          *)
THEOREM NoCallInCriticalHolds ==
  ASSUME Extra \cap {"GetStringCritical", "ReleaseStringCritical"} = {}
  PROVE  TraceSpec => []NoCallInCritical
<1>1. CallInv => NoCallInCritical
  <2> SUFFICES ASSUME CallInv, NEW t \in Thread, at[t] \in {"object", "pretty"}, critical[t]
               PROVE  FALSE
    BY DEF NoCallInCritical
  <2>1. /\ TodoInv(t) /\ fn[t] \in Enters \cup Leaves /\ fn[t] \in DefaultOffsets \cup Extra
        /\ at[t] \in Callback
    BY DEF CallInv, ThreadInv, TodoInv, CriticalInv, Callback
  <2>2. fn[t] \in Silent
    BY <2>1 DEF Enters, Leaves, DefaultOffsets, NotByDefault, Silent
  <2>3. Head(todo[t]) = "-"
    BY <2>1, <2>2, TailOf DEF TodoInv, KindsOf
  <2> QED BY <2>1, <2>3 DEF TodoInv, Next1, Kind
<1> QED BY <1>1, CallInvHolds, PTL

(* EnvRestoredHolds: however deep GuardJNIEnv is nested, the env of a      *)
(* thread points at the table again when the last guard is gone.           *)
THEOREM EnvRestoredHolds == TraceSpec => []EnvRestored
<1>1. CallInv => EnvRestored
  BY DEF CallInv, ThreadInv, GuardInv, Guarded, EnvRestored
<1> QED BY <1>1, CallInvHolds, PTL

-----------------------------------------------------------------------------
(***************************************************************************)
(* The monitored ranges.                                                   *)
(***************************************************************************)

(* The range that starts nearest below an address is found.                *)
LEMMA NearestBelow ==
  ASSUME RangesInv, NEW a \in Nat, Below(a) # {}
  PROVE  /\ Nearest(a) \in Below(a)
         /\ \A s \in Below(a) : s <= Nearest(a)
<1> DEFINE T == {a - s : s \in Below(a)}
<1>1. \A s \in Below(a) : s \in Nat /\ s <= a
  BY DEF RangesInv, Below
<1>2. T \subseteq Nat /\ T # {}
  BY <1>1
<1>3. PICK x \in T : \A y \in T : x <= y
  BY <1>2, LeastNat
<1>4. PICK s \in Below(a) : x = a - s
  BY <1>3
<1>5. \A r \in Below(a) : r <= s
  <2> TAKE r \in Below(a)
  <2>1. a - s <= a - r
    BY <1>3, <1>4
  <2> QED BY <1>1, <2>1
<1> QED BY <1>5 DEF Nearest

(* Monitored ranges are added and removed.                                 *)
LEMMA RangeAdded ==
  ASSUME RangesInv, NEW s \in Nat, NEW e \in Nat, NEW x \in BOOLEAN,
         AddMonitorAddress(s, e, x)
  PROVE  RangesInv'
<1> DEFINE old == IF x = exclude THEN monitors ELSE <<>>
           kept == IF x = exclude THEN added ELSE {}
<1>1. /\ DOMAIN old \subseteq Nat
      /\ \A r \in DOMAIN old : old[r] \in Nat /\ r <= old[r]
      /\ kept = {<<r, old[r]>> : r \in DOMAIN old}
  <2>1. DOMAIN <<>> = {}
    OBVIOUS
  <2> QED BY <2>1 DEF RangesInv
<1>2. /\ monitors' = With(old, s, e) /\ s <= e
      /\ added' = {r \in kept : r[1] # s} \cup {<<s, e>>}
      /\ exclude' = x
  BY DEF AddMonitorAddress
<1> HIDE DEF old, kept
<1>3. /\ DOMAIN monitors' = DOMAIN old \cup {s}
      /\ \A r \in DOMAIN monitors' : monitors'[r] = IF r = s THEN e ELSE old[r]
  BY <1>2 DEF With
<1>4. added' = {<<r, monitors'[r]>> : r \in DOMAIN monitors'}
  BY <1>1, <1>2, <1>3
<1> QED BY <1>1, <1>2, <1>3, <1>4 DEF RangesInv

LEMMA RangeRemoved ==
  ASSUME RangesInv, NEW s, NEW e, RemoveMonitorAddress(s, e)
  PROVE  RangesInv'
<1>1. /\ monitors' = Without(monitors, s) /\ s \in DOMAIN monitors /\ monitors[s] = e
      /\ added' = added \ {<<s, e>>}
      /\ exclude' = exclude
  BY DEF RemoveMonitorAddress
<1>2. /\ DOMAIN monitors' = DOMAIN monitors \ {s}
      /\ \A r \in DOMAIN monitors' : monitors'[r] = monitors[r]
  BY <1>1 DEF Without
<1>3. added' = {<<r, monitors'[r]>> : r \in DOMAIN monitors'}
  BY <1>1, <1>2 DEF RangesInv
<1> QED BY <1>1, <1>2, <1>3 DEF RangesInv

LEMMA RangesInvHolds == TraceSpec => []RangesInv
<1>1. TraceInit => RangesInv
  BY DEF TraceInit, RangesInv
<1>2. RangesInv /\ [TraceNext]_traceVars => RangesInv'
  <2> SUFFICES ASSUME RangesInv, [TraceNext]_traceVars PROVE RangesInv'
    OBVIOUS
  <2>1. ASSUME NEW r \in Ranges, NEW x \in BOOLEAN, AddMonitorAddress(r[1], r[2], x)
        PROVE  RangesInv'
    <3>1. r[1] \in Nat /\ r[2] \in Nat
      BY TraceAssumption
    <3> QED BY <2>1, <3>1, RangeAdded
  <2>2. ASSUME NEW r \in Ranges, RemoveMonitorAddress(r[1], r[2]) PROVE RangesInv'
    BY <2>2, RangeRemoved
  <2>3. ASSUME NEW l \in DOMAIN Loaded, NEW x \in BOOLEAN, AddMonitorLibrary(l, x)
        PROVE  RangesInv'
    <3>1. Loaded[l][1] \in Nat /\ Loaded[l][2] \in Nat
      BY TraceAssumption
    <3> QED BY <2>3, <3>1, RangeAdded DEF AddMonitorLibrary
  <2>4. ASSUME NEW l \in DOMAIN Loaded, RemoveMonitorLibrary(l) PROVE RangesInv'
    BY <2>4, RangeRemoved DEF RemoveMonitorLibrary
  <2>5. CASE Clear
    BY <2>5 DEF Clear, RangesInv
  <2>6. CASE InitTrace \/ DefaultRegister \/ AddTraceFunctions(Extra)
             \/ \E stored \in BOOLEAN : StartTrace(stored)
    BY <2>6
       DEF InitTrace, DefaultRegister, AddTraceFunctions, StartTrace, rangeVars,
           RangesInv
  <2>7. ASSUME NEW t \in Thread, TraceStep(t) PROVE RangesInv'
    <3>1. UNCHANGED rangeVars
      BY <2>7
         DEF TraceStep, CallUntraced, Call, CallOriginal, CheckMonitored,
             TraceEnd,
             FormatPlain, FormatList, FormatObject, AskJVM, LeaveObject, FormatID,
             ReadLast, FindID, PrettyID, SetLast, SetLastDesc
    <3> QED BY <3>1 DEF rangeVars, RangesInv
  <2>8. CASE UNCHANGED traceVars
    BY <2>8 DEF traceVars, rangeVars, RangesInv
  <2> QED BY <2>1, <2>2, <2>3, <2>4, <2>5, <2>6, <2>7, <2>8 DEF TraceNext, Tracer
<1> QED BY <1>1, <1>2, PTL DEF TraceSpec

(* MonitorExactHolds: for any ranges added and removed in any order, a     *)
(* caller is monitored exactly when it is in one that is in force, while   *)
(* these do not overlap.                                                   *)
THEOREM MonitorExactHolds == TraceSpec => []MonitorExact
<1>1. RangesInv => MonitorExact
  <2> SUFFICES ASSUME RangesInv,
                      \A r, s \in added : r = s \/ r[2] < s[1] \/ s[2] < r[1],
                      NEW a \in Address
               PROVE  IsMonitoring(a) <=> ~exclude /\ \E r \in added : r[1] <= a /\ a <= r[2]
    BY DEF MonitorExact
  <2>1. a \in Nat
    BY TraceAssumption
  <2>2. \A s \in DOMAIN monitors : <<s, monitors[s]>> \in added
    BY DEF RangesInv
  <2>3. ASSUME IsMonitoring(a)
        PROVE  ~exclude /\ \E r \in added : r[1] <= a /\ a <= r[2]
    <3>1. Nearest(a) \in Below(a) /\ a <= monitors[Nearest(a)] /\ ~exclude
      BY <2>1, <2>3, NearestBelow DEF IsMonitoring
    <3>2. Nearest(a) \in DOMAIN monitors /\ Nearest(a) <= a
      BY <3>1 DEF Below
    <3> QED BY <2>2, <3>1, <3>2
  <2>4. ASSUME ~exclude, NEW r \in added, r[1] <= a, a <= r[2]
        PROVE  IsMonitoring(a)
    <3>1. PICK s \in DOMAIN monitors : r = <<s, monitors[s]>>
      BY DEF RangesInv
    <3>2. s \in Below(a) /\ a <= monitors[s]
      BY <2>4, <3>1 DEF Below
    <3> DEFINE n == Nearest(a)
    <3>3. n \in Below(a) /\ s <= n
      BY <2>1, <3>2, NearestBelow
    <3> HIDE DEF n
    <3>4. n \in DOMAIN monitors /\ n <= a /\ n \in Nat /\ s \in Nat
          /\ monitors[n] \in Nat /\ n <= monitors[n] /\ monitors[s] \in Nat
      BY <3>3 DEF Below, RangesInv
    <3>5. n = s
      <4>1. <<n, monitors[n]>> \in added /\ <<s, monitors[s]>> \in added
        BY <2>2, <3>4
      <4>2. \/ <<n, monitors[n]>> = <<s, monitors[s]>>
            \/ monitors[n] < s
            \/ monitors[s] < n
        BY <4>1
      <4>3. ~(monitors[n] < s) /\ ~(monitors[s] < n)
        BY <2>1, <3>2, <3>3, <3>4
      <4> QED BY <4>2, <4>3
    <3> QED BY <2>4, <3>2, <3>5 DEF IsMonitoring, n
  <2> QED BY <2>3, <2>4
<1> QED BY <1>1, RangesInvHolds, PTL
=============================================================================
