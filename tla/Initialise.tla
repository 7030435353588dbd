----------------------------- MODULE Initialise -----------------------------
(***************************************************************************)
(* init_fakelinker: finding the linker's private symbols, finding where    *)
(* ArtMethod keeps a native function, and registering the Java API.  A     *)
(* process may call it many times, with and without a JNI environment, for *)
(* some of its parts or all; what it reached is kept in static flags.      *)
(* A symbol that is needed and not there aborts the process, and so does a *)
(* field of the Java class Executable that is not found on Android R and   *)
(* later; the process is then started afresh.  One thread calls; each      *)
(* static is read and written in the order of the code.                    *)
(***************************************************************************)
EXTENDS Integers

CONSTANTS
  Symbol,       (* the fields of LinkerSymbol that this API level uses     *)
  Solist,       (* the field solist, of category kLinkerBase               *)
  LinkerSoinfo, (* the field linker_soinfo                                 *)
  Exported,     (* the fields of type ExportSymbol                         *)
  Category,     (* the bits of LinkerSymbolCategory                        *)
  CategoryOf    (* field other than solist -> its category                 *)

ASSUME InitialiseAssumption ==
  /\ Solist \in Symbol
  /\ LinkerSoinfo \in Symbol \ {Solist}
  /\ Exported \subseteq Symbol \ {Solist, LinkerSoinfo}
  /\ CategoryOf \in [Symbol \ {Solist} -> Category]

Part == {"soinfo", "native", "java", "forceJava"}

Call == [parts : SUBSET Part,            (* kFM... bits of mode            *)
         only : SUBSET Category,         (* kInitLinker... bits of mode    *)
         env : BOOLEAN,                  (* a JNIEnv is given              *)
         class : {"default", "custom"}]  (* java_class_name is null or not *)

VARIABLES
  onDevice,     (* the symbols this device's linker has                    *)
  needsField,   (* the device runs Android R or later                      *)
  artField,     (* field_art_method is set                                 *)
  loaded,       (* the fields of linker_symbol whose pointer is set        *)
  initialized,  (* Init's static flag: the soinfo layouts are known        *)
  initSuccess,  (* init_success                                            *)
  nativeReady,  (* native_hook_initialized                                 *)
  registered,   (* the class that got the Java API; "none" before          *)
  pc,           (* "idle", the part the call is at, or "aborted"           *)
  call,         (* the call's arguments                                    *)
  code,         (* the last call's result                                  *)
  fault,        (* history: in this call something outside has failed      *)
  first         (* history: the categories init_success was reached with   *)

art == <<needsField, artField>>

vars == <<onDevice, art, loaded, initialized, initSuccess, nativeReady,
          registered, pc, call, code, fault, first>>

(* symbol_type: without a kInitLinker bit, every category.                 *)
Categories == IF call.only = {} THEN Category ELSE call.only

(* ProcessSymbol looks for these; kLinkerBase is no bit, and always there. *)
Selected == {Solist} \cup {s \in Symbol \ {Solist} : CategoryOf[s] \in Categories}

-----------------------------------------------------------------------------
Init ==
  /\ onDevice \in SUBSET Symbol
  /\ needsField \in BOOLEAN
  /\ artField = FALSE
  /\ loaded = {}
  /\ initialized = FALSE
  /\ initSuccess = FALSE
  /\ nativeReady = FALSE
  /\ registered = "none"
  /\ pc = "idle"
  /\ call = [parts |-> {}, only |-> {}, env |-> FALSE, class |-> "default"]
  /\ code = 0
  /\ fault = FALSE
  /\ first = {}

(* The process starts afresh, on the same device.                          *)
Restart ==
  /\ pc = "aborted"
  /\ artField' = FALSE
  /\ loaded' = {}
  /\ initialized' = FALSE
  /\ initSuccess' = FALSE
  /\ nativeReady' = FALSE
  /\ registered' = "none"
  /\ pc' = "idle"
  /\ code' = 0
  /\ fault' = FALSE
  /\ first' = {}
  /\ UNCHANGED <<onDevice, needsField, call>>

Begin(c) ==
  /\ pc = "idle"
  /\ call' = c
  /\ pc' = "soinfo"
  /\ fault' = FALSE
  /\ UNCHANGED <<onDevice, art, loaded, initialized, initSuccess, nativeReady,
                 registered, code, first>>

Return(c) ==
  /\ pc' = "idle"
  /\ code' = c

-----------------------------------------------------------------------------
(***************************************************************************)
(* kFMSoinfo: Init and LinkerSymbol::LoadSymbol.                           *)
(***************************************************************************)

(* Mutant of SoinfoDone: the symbols are looked for the first time only.   *)
SoinfoDoneOnce ==
  /\ pc = "soinfo"
  /\ "soinfo" \in call.parts => initialized
  /\ IF "soinfo" \in call.parts /\ ~initSuccess THEN Return(1)
                                                ELSE pc' = "native" /\ UNCHANGED code
  /\ UNCHANGED <<onDevice, art, loaded, initialized, initSuccess, nativeReady,
                 registered, call, fault, first>>

(* Not asked for, or a call has had init_success before.                   *)
SoinfoDone ==
  /\ pc = "soinfo"
  /\ "soinfo" \in call.parts => initSuccess
  /\ pc' = "native"
  /\ UNCHANGED <<onDevice, art, loaded, initialized, initSuccess, nativeReady,
                 registered, call, code, fault, first>>

Loads == pc = "soinfo" /\ "soinfo" \in call.parts /\ ~initSuccess

(* The linker's file cannot be read.                                       *)
ReaderFails ==
  /\ Loads
  /\ initialized' = TRUE
  /\ fault' = TRUE
  /\ Return(1)
  /\ UNCHANGED <<onDevice, art, loaded, initSuccess, nativeReady, registered,
                 call, first>>

(* One of the two required symbols is not there; the fields before it are  *)
(* set already.                                                            *)
RequiredMissing ==
  /\ Loads
  /\ \/ Solist \notin onDevice /\ UNCHANGED loaded
     \/ /\ Solist \in onDevice
        /\ LinkerSoinfo \in Selected \ onDevice
        /\ loaded' = loaded \cup {Solist}
  /\ initialized' = TRUE
  /\ fault' = TRUE
  /\ Return(1)
  /\ UNCHANGED <<onDevice, art, initSuccess, nativeReady, registered, call,
                 first>>

Required == Selected \cap {Solist, LinkerSoinfo} \subseteq onDevice

(* Mutant of NeedsLinkerSoinfo: exported symbols are looked for before     *)
(* linker_soinfo.                                                          *)
NeedsLinkerSoinfoEarly == Selected \cap Exported # {} /\ LinkerSoinfo \notin loaded

(* An exported symbol is looked for in linker_soinfo, which a selection    *)
(* without kDlopenDlSym leaves null; what was set before then is lost with *)
(* the process.                                                            *)
NeedsLinkerSoinfo ==
  /\ Selected \cap Exported # {}
  /\ LinkerSoinfo \notin loaded \cup Selected

LoadAborts ==
  /\ Loads
  /\ Required
  /\ NeedsLinkerSoinfo
  /\ loaded' = loaded \cup {Solist}
  /\ initialized' = TRUE
  /\ pc' = "aborted"
  /\ UNCHANGED <<onDevice, art, initSuccess, nativeReady, registered, call,
                 code, fault, first>>

(* Mutant of LoadSymbols: a symbol that is missing ends it with success.   *)
LoadUntilMissing ==
  /\ Loads
  /\ Required
  /\ ~NeedsLinkerSoinfo
  /\ loaded' = loaded \cup (IF Selected \subseteq onDevice THEN Selected
                                                           ELSE {Solist})
  /\ initialized' = TRUE
  /\ initSuccess' = TRUE
  /\ first' = Categories
  /\ pc' = "native"
  /\ UNCHANGED <<onDevice, art, nativeReady, registered, call, code, fault>>

(* Any other symbol may be missing: its field stays null.                  *)
LoadSymbols ==
  /\ Loads
  /\ Required
  /\ ~NeedsLinkerSoinfo
  /\ loaded' = loaded \cup (Selected \cap onDevice)
  /\ initialized' = TRUE
  /\ initSuccess' = TRUE
  /\ first' = Categories
  /\ pc' = "native"
  /\ UNCHANGED <<onDevice, art, nativeReady, registered, call, code, fault>>

-----------------------------------------------------------------------------
(***************************************************************************)
(* kFMNativeHook.                                                          *)
(***************************************************************************)
NativeDone ==
  /\ pc = "native"
  /\ "native" \in call.parts => nativeReady
  /\ pc' = "java"
  /\ UNCHANGED <<onDevice, art, loaded, initialized, initSuccess, nativeReady,
                 registered, call, code, fault, first>>

Native == pc = "native" /\ "native" \in call.parts /\ ~nativeReady

NativeNoEnv ==
  /\ Native
  /\ ~call.env
  /\ Return(2)
  /\ UNCHANGED <<onDevice, art, loaded, initialized, initSuccess, nativeReady,
                 registered, call, fault, first>>

(* InitArt: CHECK(field_art_method).  A field that was found is kept, even *)
(* when the rest of the call fails.                                        *)
NativeAborts ==
  /\ Native
  /\ call.env
  /\ needsField /\ ~artField
  /\ fault' = TRUE
  /\ pc' = "aborted"
  /\ UNCHANGED <<onDevice, art, loaded, initialized, initSuccess, nativeReady,
                 registered, call, code, first>>

(* DefaultInitJniFunctionOffset finds no class, method or offset.          *)
NativeFails ==
  /\ Native
  /\ call.env
  /\ fault' = TRUE
  /\ Return(3)
  /\ artField' = (artField \/ needsField)
  /\ UNCHANGED <<onDevice, needsField, loaded, initialized, initSuccess,
                 nativeReady, registered, call, first>>

NativeInit ==
  /\ Native
  /\ call.env
  /\ nativeReady' = TRUE
  /\ pc' = "java"
  /\ artField' = (artField \/ needsField)
  /\ UNCHANGED <<onDevice, needsField, loaded, initialized, initSuccess,
                 registered, call, code, fault, first>>

-----------------------------------------------------------------------------
(***************************************************************************)
(* kFMJavaRegister and kFMForceJavaRegister.                               *)
(***************************************************************************)
AsksForJava == {"java", "forceJava"} \cap call.parts # {}

JavaDone ==
  /\ pc = "java"
  /\ AsksForJava => registered # "none"
  /\ Return(0)
  /\ UNCHANGED <<onDevice, art, loaded, initialized, initSuccess, nativeReady,
                 registered, call, fault, first>>

Java == pc = "java" /\ AsksForJava /\ registered = "none"

JavaNoEnv ==
  /\ Java
  /\ ~call.env
  /\ Return(4)
  /\ UNCHANGED <<onDevice, art, loaded, initialized, initSuccess, nativeReady,
                 registered, call, fault, first>>

(* Mutant of Lenient: a class of the caller's own is treated like the     *)
(* default one.                                                            *)
LenientAlways == "java" \in call.parts

(* A failure to register the default class is none.                        *)
Lenient == "java" \in call.parts /\ call.class = "default"

(* No such class, or RegisterNatives fails.                                *)
JavaFails ==
  /\ Java
  /\ call.env
  /\ fault' = TRUE
  /\ \E c \in {5, 6} : Return(IF Lenient THEN 0 ELSE c)
  /\ UNCHANGED <<onDevice, art, loaded, initialized, initSuccess, nativeReady,
                 registered, call, first>>

JavaRegister ==
  /\ Java
  /\ call.env
  /\ registered' = call.class
  /\ Return(0)
  /\ UNCHANGED <<onDevice, art, loaded, initialized, initSuccess, nativeReady,
                 call, fault, first>>

-----------------------------------------------------------------------------
Next ==
  \/ Restart
  \/ \E c \in Call : Begin(c)
  \/ SoinfoDone
  \/ ReaderFails
  \/ RequiredMissing
  \/ LoadAborts
  \/ LoadSymbols
  \/ NativeDone
  \/ NativeNoEnv
  \/ NativeAborts
  \/ NativeFails
  \/ NativeInit
  \/ JavaDone
  \/ JavaNoEnv
  \/ JavaFails
  \/ JavaRegister

Spec == Init /\ [][Next]_vars

-----------------------------------------------------------------------------
TypeOK ==
  /\ onDevice \in SUBSET Symbol
  /\ needsField \in BOOLEAN
  /\ artField \in BOOLEAN
  /\ loaded \in SUBSET Symbol
  /\ initialized \in BOOLEAN
  /\ initSuccess \in BOOLEAN
  /\ nativeReady \in BOOLEAN
  /\ registered \in {"none", "default", "custom"}
  /\ pc \in {"idle", "soinfo", "native", "java", "aborted"}
  /\ call \in Call
  /\ code \in 0 .. 6
  /\ fault \in BOOLEAN
  /\ first \in SUBSET Category

(* CompleteForFirst: once init_success is set, no later call looks again;  *)
(* so whatever failed calls went before, every symbol of the categories it *)
(* was reached with that the linker has is there.                          *)
CompleteForFirst ==
  initSuccess =>
    \A s \in onDevice : s = Solist \/ CategoryOf[s] \in first => s \in loaded

(* AbortsOnlyInPart: a call is aborted in two places only.  While it looks *)
(* for symbols, only if kDlopenDlSym is not among its categories: exported *)
(* symbols are looked for when linker_soinfo is there.  In the native      *)
(* hook, only on Android R and later and only before the process has found *)
(* the field artMethod, with whatever it asked of the linker in place.     *)
AbortsOnlyInPart ==
  pc = "aborted" =>
    \/ /\ "soinfo" \in call.parts /\ ~initSuccess
       /\ CategoryOf[LinkerSoinfo] \notin Categories
    \/ /\ "native" \in call.parts /\ call.env /\ ~nativeReady
       /\ needsField /\ ~artField
       /\ "soinfo" \in call.parts => initSuccess

Returns == pc \notin {"idle", "aborted"} /\ pc' = "idle"

(* NoStickyFailure: init_fakelinker "can be initialized multiple times"    *)
(* (fake_linker.h:914): with a JNIEnv, a call in which nothing outside the *)
(* code fails returns 0, whatever failed in the calls before it.           *)
NoStickyFailure == [][Returns /\ call.env /\ ~fault' => code' = 0]_vars

(* ZeroMeansReady: "return 0 on success" (fake_linker.h:923): after it the *)
(* linker's functions and the native hook can be used if they were asked   *)
(* for, and some class has the Java API, unless it was the default one     *)
(* with kFMJavaRegister.                                                   *)
ZeroMeansReady ==
  [][Returns /\ code' = 0 =>
       /\ "soinfo" \in call.parts => initSuccess /\ initialized /\ Solist \in loaded
       /\ "native" \in call.parts => nativeReady
       /\ AsksForJava /\ ~("java" \in call.parts /\ call.class = "default") =>
            registered' # "none"]_vars
=============================================================================
