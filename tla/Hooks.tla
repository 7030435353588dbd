------------------------------- MODULE Hooks --------------------------------
(***************************************************************************)
(* Replacing the native functions of a process: entries of the JNI         *)
(* function table (HookJniNativeInterface(s)) and entry points of native   *)
(* Java methods (HookJavaNativeFunctions).  Both kinds are targets here.   *)
(* An entry holds the function that is called; every hook function has a   *)
(* backup location, and calls what it finds there.  Any other thread may   *)
(* call a target between two steps of a hooking call.                      *)
(*                                                                         *)
(* One thread hooks at a time, and every unit has a backup location.  The  *)
(* mapping of the JNI table is writable while a call is in its loop (its   *)
(* protection is in Relink); calls that return before the loop, having     *)
(* changed nothing, are left out.  HookJniNativeInterface does what a call *)
(* with one unit does.  Indices count from 1.                              *)
(***************************************************************************)
EXTENDS Naturals, Sequences

CONSTANTS
  JniTarget,   (* functions of JNINativeInterface                          *)
  JavaTarget,  (* Java methods                                             *)
  NativeOnes,  (* those of them that are native                            *)
  FastOnes,    (* those that have kAccFastNative at first                  *)
  Hook,        (* hook functions                                           *)
  TargetOf,    (* hook -> the target it is written for                     *)
  Bang,        (* the hooks registered with a signature that begins with ! *)
  NoHook,      (* a unit with a bad offset, no function or no such method  *)
  Original,    (* the function of a target that nobody has hooked          *)
  Null,        (* a backup location that holds nothing                     *)
  Api,         (* the API level of the device                              *)
  JniBatches,  (* the arrays of units the calls are given                  *)
  JavaBatches

Target == JniTarget \cup JavaTarget

ASSUME HooksAssumption ==
  /\ JniTarget \cap JavaTarget = {}
  /\ NativeOnes \subseteq JavaTarget
  /\ FastOnes \subseteq NativeOnes
  /\ TargetOf \in [Hook -> Target]
  /\ Bang \subseteq Hook
  /\ NoHook \notin Hook
  /\ Original \notin Hook
  /\ Null \notin Hook \cup {Original}
  /\ Api \in Nat
  /\ JniBatches \subseteq Seq({h \in Hook : TargetOf[h] \in JniTarget} \cup {NoHook})
  /\ JavaBatches \subseteq Seq({h \in Hook : TargetOf[h] \in JavaTarget} \cup {NoHook})

VARIABLES
  entry,    (* target -> the function a call of it runs                    *)
  backup,   (* hook -> what its backup location holds                      *)
  fast,     (* the Java methods with kAccFastNative                        *)
  pc,       (* "idle", "jni", "jniStore", "java" or "register"             *)
  items,    (* the units of the call                                       *)
  item,     (* the unit it looks at                                        *)
  len,      (* JNI: the turns its loop has left                            *)
  num,      (* what it has counted                                         *)
  restore   (* Java: it took kAccFastNative from the method                *)

vars == <<entry, backup, fast, pc, items, item, len, num, restore>>

Unit == items[item]
Aim == TargetOf[Unit]

(* *target == item->hook_method, backup == hook.fnPtr                      *)
Current(h) == entry[TargetOf[h]] = h

Wanted == Unit # NoHook /\ ~Current(Unit)

(* Fresh: nobody asks for a hook again that another hook has been put over.*)
Fresh(units) ==
  /\ \A i \in DOMAIN units : \A h \in Hook :
       units[i] = h => Current(h) \/ \A g \in Hook : backup[g] # h
  /\ \A i, j \in DOMAIN units :
       units[i] # units[j] /\ NoHook \notin {units[i], units[j]} =>
         TargetOf[units[i]] # TargetOf[units[j]]

-----------------------------------------------------------------------------
Init ==
  /\ entry = [t \in Target |-> Original]
  /\ backup = [h \in Hook |-> Null]
  /\ fast = FastOnes
  /\ pc = "idle"
  /\ items = <<>>
  /\ item = 1
  /\ len = 0
  /\ num = 0
  /\ restore = FALSE

Begin(kind, units) ==
  /\ pc = "idle"
  /\ pc' = kind
  /\ items' = units
  /\ item' = 1
  /\ len' = Len(units)
  /\ num' = 0
  /\ restore' = FALSE
  /\ UNCHANGED <<entry, backup, fast>>

Return ==
  /\ pc' = "idle"
  /\ UNCHANGED <<entry, backup, fast, items, item, len, num, restore>>

-----------------------------------------------------------------------------
(***************************************************************************)
(* HookJniNativeInterfaces.                                                *)
(***************************************************************************)

(* A bad unit, or a hook that is in place: the loop goes round, and looks  *)
(* at the same unit again.                                                 *)
JniSkip ==
  /\ pc = "jni"
  /\ len > 0
  /\ ~Wanted
  /\ len' = len - 1
  /\ UNCHANGED <<entry, backup, fast, pc, items, item, num, restore>>

(* Mutant of JniBackup: hooks in place are not told apart.                 *)
JniBackupRepeated ==
  /\ pc = "jni"
  /\ len > 0
  /\ Unit \in Hook
  /\ backup' = [backup EXCEPT ![Unit] = entry[Aim]]
  /\ pc' = "jniStore"
  /\ UNCHANGED <<entry, fast, items, item, len, num, restore>>

(* Mutant of JniBackup: the function is replaced before it is saved.       *)
JniBackupLate ==
  /\ pc = "jni"
  /\ len > 0
  /\ Wanted
  /\ entry' = [entry EXCEPT ![Aim] = Unit]
  /\ pc' = "jniStore"
  /\ UNCHANGED <<backup, fast, items, item, len, num, restore>>

JniBackup ==
  /\ pc = "jni"
  /\ len > 0
  /\ Wanted
  /\ backup' = [backup EXCEPT ![Unit] = entry[Aim]]
  /\ pc' = "jniStore"
  /\ UNCHANGED <<entry, fast, items, item, len, num, restore>>

JniStore ==
  /\ pc = "jniStore"
  /\ entry' = [entry EXCEPT ![Aim] = Unit]
  /\ item' = item + 1
  /\ num' = num + 1
  /\ len' = len - 1
  /\ pc' = "jni"
  /\ UNCHANGED <<backup, fast, items, restore>>

JniReturn ==
  /\ pc = "jni"
  /\ len = 0
  /\ Return

-----------------------------------------------------------------------------
(***************************************************************************)
(* HookJavaNativeFunctions.                                                *)
(***************************************************************************)

(* A method that is not there, or a hook that is in place.                 *)
JavaSkip ==
  /\ pc = "java"
  /\ item \in DOMAIN items
  /\ ~Wanted
  /\ item' = item + 1
  /\ UNCHANGED <<entry, backup, fast, pc, items, len, num, restore>>

(* GetArtMethod finds nothing: the call returns false, which is 0.         *)
JavaGiveUp ==
  /\ pc = "java"
  /\ item \in DOMAIN items
  /\ Unit # NoHook
  /\ pc' = "idle"
  /\ num' = 0
  /\ UNCHANGED <<entry, backup, fast, items, item, len, restore>>

(* The backup is written before the method is known to be native.          *)
JavaBackup ==
  /\ pc = "java"
  /\ item \in DOMAIN items
  /\ Wanted
  /\ backup' = [backup EXCEPT ![Unit] = entry[Aim]]
  /\ IF Aim \in NativeOnes
       THEN /\ restore' = (Api < 28 /\ Aim \in fast)
            /\ fast' = IF Api < 28 THEN fast \ {Aim} ELSE fast
            /\ pc' = "register"
            /\ UNCHANGED item
       ELSE /\ item' = item + 1
            /\ UNCHANGED <<restore, fast, pc>>
  /\ UNCHANGED <<entry, items, len, num>>

(* RegisterNatives with a ! in front of the signature (only below Android  *)
(* 8: later the code drops it) sets kAccFastNative; Android 8.0 and 8.1    *)
(* get the flag back that was taken.                                       *)
Restored(gaveBack) ==
  IF (restore /\ gaveBack) \/ (Api < 26 /\ Unit \in Bang)
    THEN fast \cup {Aim}
    ELSE fast

(* Mutant of Register: Android 8.1 is forgotten.                           *)
RegisterNot27 ==
  /\ pc = "register"
  /\ entry' = [entry EXCEPT ![Aim] = Unit]
  /\ fast' = Restored(Api = 26)
  /\ num' = num + 1
  /\ item' = item + 1
  /\ pc' = "java"
  /\ UNCHANGED <<backup, items, len, restore>>

Register ==
  /\ pc = "register"
  /\ entry' = [entry EXCEPT ![Aim] = Unit]
  /\ fast' = Restored(Api \in {26, 27})
  /\ num' = num + 1
  /\ item' = item + 1
  /\ pc' = "java"
  /\ UNCHANGED <<backup, items, len, restore>>

(* The backup location is cleared, and the flag comes back.                *)
RegisterFails ==
  /\ pc = "register"
  /\ fast' = IF restore THEN fast \cup {Aim} ELSE fast
  /\ backup' = [backup EXCEPT ![Unit] = Null]
  /\ item' = item + 1
  /\ pc' = "java"
  /\ UNCHANGED <<entry, items, len, num, restore>>

JavaReturn ==
  /\ pc = "java"
  /\ item \notin DOMAIN items
  /\ Return

-----------------------------------------------------------------------------
Step ==
  \/ JniSkip
  \/ JniBackup
  \/ JniStore
  \/ JniReturn
  \/ JavaSkip
  \/ JavaGiveUp
  \/ JavaBackup
  \/ Register
  \/ RegisterFails
  \/ JavaReturn

Next ==
  \/ \E units \in JniBatches : Begin("jni", units)
  \/ \E units \in JavaBatches : Begin("java", units)
  \/ Step

Spec == Init /\ [][Next]_vars

FreshNext ==
  \/ \E units \in JniBatches : Fresh(units) /\ Begin("jni", units)
  \/ \E units \in JavaBatches : Fresh(units) /\ Begin("java", units)
  \/ Step

(* No hook is asked for again once another one has been put over it.       *)
FreshSpec == Init /\ [][FreshNext]_vars

-----------------------------------------------------------------------------
TypeOK ==
  /\ entry \in [Target -> Hook \cup {Original}]
  /\ backup \in [Hook -> Hook \cup {Original, Null}]
  /\ fast \in SUBSET NativeOnes
  /\ pc \in {"idle", "jni", "jniStore", "java", "register"}
  /\ items \in Seq(Hook \cup {NoHook})
  /\ item \in 1 .. Len(items) + 1
  /\ len \in Nat
  /\ num \in Nat
  /\ restore \in BOOLEAN

(* BackupReady: whenever a target is called, also while it is being        *)
(* hooked, the hook that runs finds a function in its backup location.     *)
BackupReady == \A t \in Target : entry[t] \in Hook => backup[entry[t]] # Null

(* OriginalReachable: a call of any target at any time gets through its    *)
(* hooks to the original function: no set of hooks that it gets into only  *)
(* calls itself, or finds an empty backup location.                        *)
OriginalReachable ==
  \A t \in Target, called \in SUBSET Hook :
    entry[t] \in called => \E h \in called : backup[h] \notin called \cup {Null}

(* FastFlagKept: on Android 8.0 and 8.1 every method has its               *)
(* kAccFastNative back when the call is over, whatever succeeded, failed   *)
(* or was given up: "if it originally contained the FastNative flag, it    *)
(* must be restored" (a comment in HookJavaNativeFunctions).               *)
FastFlagKept == Api \in {26, 27} /\ pc = "idle" => fast = FastOnes

=============================================================================
