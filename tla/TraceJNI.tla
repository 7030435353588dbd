------------------------------ MODULE TraceJNI ------------------------------
(***************************************************************************)
(* Tracing JNI calls (trace_jni.h).  A tracer copies the JNI function      *)
(* table, chooses functions and ranges of callers, and puts a wrapper into *)
(* the table for each function.  A wrapper calls the original through the  *)
(* copy and, when its caller is in a monitored range, describes the call   *)
(* in a callback, which asks the JVM about the arguments and the result.   *)
(* While it asks, GuardJNIEnv makes the env of the thread point at the     *)
(* copy.                                                                   *)
(*                                                                         *)
(* There is one tracer, used as its documentation says: InitTrace, then    *)
(* the ranges, then Registers.  The loop of HookJniNativeInterfaces that   *)
(* stores the wrappers is in Hooks; here it stores them in one step.       *)
(* FatalError does not return and is left out.                             *)
(***************************************************************************)
EXTENDS TraceTable, Naturals, FiniteSets

Kind == {"mid", "fid"}

CONSTANTS
  Thread,   (* the threads that call JNI functions                         *)
  Called,   (* thread -> the functions it calls                            *)
  Caller,   (* thread -> the addresses it calls them from                  *)
  Address,  (* the addresses a monitored range can have                    *)
  Ranges,   (* the ranges the tracer is given, as <<start, end>>           *)
  Loaded,   (* library -> <<base, base + size>>                            *)
  Started,  (* bound: the sets of ranges a trace is started with           *)
  ID,       (* the method and the field IDs, by kind                       *)
  Extra,    (* functions registered apart from the default ones            *)
  MayThrow, (* the functions that may leave an exception pending           *)
  Strict,   (* strict_mode_                                                *)
  Pretty,   (* ArtSymbol can describe methods and fields                   *)
  Shorty,   (* the arguments of every method, "obj" or "-" each            *)
  None

ASSUME TraceAssumption ==
  /\ Called \in [Thread -> SUBSET Function]
  /\ Address \subseteq Nat
  /\ Caller \in [Thread -> SUBSET Address]
  /\ Ranges \subseteq Address \X Address
  /\ \A l \in DOMAIN Loaded : Loaded[l] \in Address \X Address
  /\ Extra \subseteq Function
  /\ MayThrow \subseteq Function
  /\ Strict \in BOOLEAN
  /\ Pretty \in BOOLEAN
  /\ Shorty \in Seq({"obj", "-"})
  /\ \A k \in Kind : None \notin ID[k]

VARIABLES
  setup,     (* how far InitTrace and Registers are                        *)
  offsets,   (* trace_offsets_                                             *)
  hooked,    (* the functions whose wrapper is in the table                *)
  monitors,  (* monitors_: the start of a range -> its end                 *)
  exclude,   (* exclude_                                                   *)
  added,     (* the ranges in force, as the calls so far mean them         *)
  cache,     (* cache_methods_ and cache_fields_: kind -> ID -> text       *)
  last,      (* last_method_ and last_field_                               *)
  lastDesc,  (* last_method_desc_: the ID whose description it points at   *)
  at,        (* where a thread is in a wrapper                             *)
  fn,        (* the function it called                                     *)
  from,      (* the address it called it from                              *)
  id,        (* the method or field it gave, or got                        *)
  todo,      (* the values its callback has still to describe              *)
  table,     (* its env->functions is the table, not the copy              *)
  guards,    (* the backup_ of each GuardJNIEnv on its stack               *)
  pending,   (* it has a pending exception                                 *)
  left,      (* it would have one without tracing                          *)
  critical,  (* it is between Get...Critical and Release...Critical        *)
  live       (* the references and characters it gave are still valid      *)

setupVars == <<setup, offsets, hooked>>
rangeVars == <<monitors, exclude, added>>
cacheVars == <<cache, last, lastDesc>>
callVars == <<fn, from, id>>
envVars == <<table, guards>>
jvmVars == <<pending, left, critical, live>>
threadVars == <<at, callVars, todo, envVars, jvmVars>>
traceVars == <<setupVars, rangeVars, cacheVars, threadVars>>

(* The functions that may be called with an exception pending, and those   *)
(* that end the lifetime of what they are given.                           *)
Safe == {"ExceptionOccurred", "ExceptionDescribe", "ExceptionClear",
         "ExceptionCheck", "ReleaseStringChars", "ReleaseStringUTFChars",
         "ReleaseStringCritical", "ReleaseTArrayElements",
         "ReleasePrimitiveArrayCritical", "DeleteLocalRef",
         "DeleteGlobalRef", "DeleteWeakGlobalRef", "MonitorExit",
         "PushLocalFrame", "PopLocalFrame"}
Ending == {"DeleteLocalRef", "DeleteGlobalRef", "DeleteWeakGlobalRef",
           "PopLocalFrame", "ReleaseStringChars", "ReleaseStringUTFChars"}
Enters == {"GetStringCritical", "GetPrimitiveArrayCritical"}
Leaves == {"ReleaseStringCritical", "ReleasePrimitiveArrayCritical"}

-----------------------------------------------------------------------------
(***************************************************************************)
(* The ranges a tracer monitors.  It sets them before it starts the trace, *)
(* which is what the comment of BaseTraceJNICallback recommends.           *)
(***************************************************************************)

(* monitors_.upper_bound(addr), one step back, and addr <= itr->second.    *)
Below(a) == {s \in DOMAIN monitors : s <= a}
Nearest(a) == CHOOSE s \in Below(a) : \A r \in Below(a) : r <= s

IsMonitoring(a) ==
  /\ Below(a) # {}
  /\ a <= monitors[Nearest(a)]
  /\ ~exclude

Adjustable == setup = "init" /\ hooked = {}

Without(m, s) == [r \in DOMAIN m \ {s} |-> m[r]]
With(m, s, e) == [r \in DOMAIN m \cup {s} |-> IF r = s THEN e ELSE m[r]]

(* Mutant of AddMonitorAddress: the other mode keeps the ranges.           *)
AddMonitorKeeping(s, e, x) ==
  /\ Adjustable
  /\ e >= s
  /\ exclude' = x
  /\ monitors' = With(monitors, s, e)
  /\ added' = {r \in IF x = exclude THEN added ELSE {} : r[1] # s} \cup {<<s, e>>}
  /\ UNCHANGED <<setupVars, cacheVars, threadVars>>

AddMonitorAddress(s, e, x) ==
  /\ Adjustable
  /\ e >= s
  /\ exclude' = x
  /\ monitors' = With(IF x = exclude THEN monitors ELSE <<>>, s, e)
  /\ added' = {r \in IF x = exclude THEN added ELSE {} : r[1] # s} \cup {<<s, e>>}
  /\ UNCHANGED <<setupVars, cacheVars, threadVars>>

RemoveMonitorAddress(s, e) ==
  /\ Adjustable
  /\ s \in DOMAIN monitors
  /\ monitors[s] = e
  /\ monitors' = Without(monitors, s)
  /\ added' = added \ {<<s, e>>}
  /\ UNCHANGED <<setupVars, exclude, cacheVars, threadVars>>

(* AddMonitorLibrary and RemoveMonitorLibrary, of a library that is loaded *)
(* and has attributes; of another one they change nothing.                 *)
AddMonitorLibrary(l, x) == AddMonitorAddress(Loaded[l][1], Loaded[l][2], x)
RemoveMonitorLibrary(l) == RemoveMonitorAddress(Loaded[l][1], Loaded[l][2])

Clear ==
  /\ Adjustable
  /\ monitors' = <<>>
  /\ added' = {}
  /\ UNCHANGED <<setupVars, exclude, cacheVars, threadVars>>

-----------------------------------------------------------------------------
(***************************************************************************)
(* InitTrace and Registers.                                                *)
(***************************************************************************)
TraceInit ==
  /\ setup = "new"
  /\ offsets = {}
  /\ hooked = {}
  /\ monitors = <<>>
  /\ exclude = TRUE
  /\ added = {}
  /\ cache = [k \in Kind |-> [i \in ID[k] |-> "none"]]
  /\ last = [k \in Kind |-> None]
  /\ lastDesc = [k \in Kind |-> None]
  /\ at = [t \in Thread |-> "out"]
  /\ fn = [t \in Thread |-> None]
  /\ from = [t \in Thread |-> None]
  /\ id = [t \in Thread |-> None]
  /\ todo = [t \in Thread |-> <<>>]
  /\ table = [t \in Thread |-> TRUE]
  /\ guards = [t \in Thread |-> <<>>]
  /\ pending = [t \in Thread |-> FALSE]
  /\ left = [t \in Thread |-> FALSE]
  /\ critical = [t \in Thread |-> FALSE]
  /\ live = [t \in Thread |-> TRUE]

(* BindMethod, and InitHookJNI, which copies the table.                    *)
InitTrace ==
  /\ setup = "new"
  /\ setup' = "init"
  /\ UNCHANGED <<offsets, hooked, rangeVars, cacheVars, threadVars>>

(* AddTraceFunctions.  A function is hooked once: its caller ensures it.   *)
AddTraceFunctions(fs) ==
  /\ setup = "init"
  /\ fs \cap hooked = {}
  /\ setup' = "registered"
  /\ offsets' = offsets \cup fs
  /\ UNCHANGED <<hooked, rangeVars, cacheVars, threadVars>>

DefaultRegister == AddTraceFunctions(DefaultOffsets)

(* The offsets are forgotten, whether the wrappers were stored or not.     *)
StartTrace(stored) ==
  /\ setup = "registered"
  /\ added \in Started
  /\ setup' = "init"
  /\ hooked' = IF stored THEN hooked \cup offsets ELSE hooked
  /\ offsets' = {}
  /\ UNCHANGED <<rangeVars, cacheVars, threadVars>>

-----------------------------------------------------------------------------
(***************************************************************************)
(* A call, from the program's side.                                        *)
(***************************************************************************)

(* Whether an exception is pending after the original.                     *)
Pending(f, before, thrown) ==
  /\ f \notin {"ExceptionClear", "ExceptionDescribe"}
  /\ before \/ thrown \/ f \in {"Throw", "ThrowNew"}

(* What the JVM does in the original.                                      *)
RunOriginal(t, f, thrown) ==
  /\ thrown => f \in MayThrow
  /\ pending' = [pending EXCEPT ![t] = Pending(f, @, thrown)]
  /\ left' = [left EXCEPT ![t] = Pending(f, @, thrown)]
  /\ critical' = [critical EXCEPT ![t] = (@ \/ f \in Enters) /\ f \notin Leaves]
  /\ live' = [live EXCEPT ![t] = f \notin Ending]

Allowed(t, f) ==
  /\ at[t] = "out"
  /\ f \in Called[t]
  /\ left[t] => f \in Safe
  /\ critical[t] <=> f \in Leaves

CallUntraced(t, f, thrown) ==
  /\ Allowed(t, f)
  /\ f \notin hooked
  /\ RunOriginal(t, f, thrown)
  /\ UNCHANGED <<setupVars, rangeVars, cacheVars, at, callVars, todo, envVars>>

(* The methods or fields a function may be about.                          *)
IDs(f) ==
  LET kinds == {k \in Kind : \E n \in 1 .. Len(Report(f)) : Report(f)[n] = k}
  IN IF kinds = {} THEN {None} ELSE UNION {ID[k] : k \in kinds}

(* A wrapper is called, with the method or field i if it takes one.        *)
Call(t, f, a, i) ==
  /\ Allowed(t, f)
  /\ f \in hooked
  /\ at' = [at EXCEPT ![t] = IF Wrapper(f) = "after" THEN "check" ELSE "original"]
  /\ fn' = [fn EXCEPT ![t] = f]
  /\ from' = [from EXCEPT ![t] = a]
  /\ id' = [id EXCEPT ![t] = i]
  /\ live' = [live EXCEPT ![t] = TRUE]
  /\ UNCHANGED <<setupVars, rangeVars, cacheVars, todo, envVars, pending, left, critical>>

After(t) == Wrapper(fn[t]) = "after"

(* The wrapper goes on with the original, or returns.                      *)
GoOn(t, original) ==
  IF original
  THEN at' = [at EXCEPT ![t] = "original"] /\ UNCHANGED callVars
  ELSE /\ at' = [at EXCEPT ![t] = "out"]
       /\ fn' = [fn EXCEPT ![t] = None]
       /\ from' = [from EXCEPT ![t] = None]
       /\ id' = [id EXCEPT ![t] = None]

Result(f) == Report(f)[Len(Report(f))]

CallOriginal(t, thrown) ==
  /\ at[t] = "original"
  /\ RunOriginal(t, fn[t], thrown)
  /\ IF After(t)
     THEN GoOn(t, FALSE)
     ELSE /\ at' = [at EXCEPT ![t] = "check"]
          /\ id' = [id EXCEPT ![t] = IF thrown /\ Result(fn[t]) \in Kind THEN None ELSE @]
          /\ UNCHANGED <<fn, from>>
  /\ UNCHANGED <<setupVars, rangeVars, cacheVars, todo, envVars>>

(* What FormatJNIArguments describes; the result is last.                  *)
Described(f) == IF Wrapper(f) = "noargs" THEN <<Result(f)>> ELSE Report(f)

CheckMonitored(t) ==
  /\ at[t] = "check"
  /\ IF IsMonitoring(from[t])
     THEN /\ at' = [at EXCEPT ![t] = "format"]
          /\ todo' = [todo EXCEPT ![t] = Described(fn[t])]
          /\ UNCHANGED callVars
     ELSE GoOn(t, After(t)) /\ UNCHANGED todo
  /\ UNCHANGED <<setupVars, rangeVars, cacheVars, envVars, jvmVars>>

TraceEnd(t) ==
  /\ at[t] = "format"
  /\ todo[t] = <<>>
  /\ GoOn(t, After(t))
  /\ UNCHANGED <<setupVars, rangeVars, cacheVars, todo, envVars, jvmVars>>

-----------------------------------------------------------------------------
(***************************************************************************)
(* The callback: FormatJNIArgument for each argument, FormatReturnValue    *)
(* for the result.                                                         *)
(***************************************************************************)
Next1(t) == Head(todo[t])
Formatting(t, kinds) == at[t] = "format" /\ todo[t] # <<>> /\ Next1(t) \in kinds

(* A result is always described with the checks of the strict mode.        *)
Checked(t) == Strict \/ Len(todo[t]) = 1

(* context.method is set.                                                  *)
HasMethod(t) == Wrapper(fn[t]) \in {"invoke", "valist"} /\ id[t] # None

Done(t) ==
  /\ at' = [at EXCEPT ![t] = "format"]
  /\ todo' = [todo EXCEPT ![t] = Tail(@)]

FormatPlain(t) ==
  /\ Formatting(t, {"-", "chr"})
  /\ Done(t)
  /\ UNCHANGED <<setupVars, rangeVars, cacheVars, callVars, envVars, jvmVars>>

(* Without a method the shorty is "(null method)", and nothing is read.    *)
FormatList(t) ==
  /\ Formatting(t, {"va", "jv"})
  /\ todo' = [todo EXCEPT ![t] = (IF HasMethod(t) THEN Shorty ELSE <<>>) \o Tail(@)]
  /\ UNCHANGED <<setupVars, rangeVars, cacheVars, at, callVars, envVars, jvmVars>>

(* Mutant of EnterGuard: env->functions is replaced before it is saved.    *)
EnterGuardLate(t) ==
  /\ guards' = [guards EXCEPT ![t] = Append(@, FALSE)]
  /\ table' = [table EXCEPT ![t] = FALSE]

(* The constructor and the destructor of GuardJNIEnv.                      *)
EnterGuard(t) ==
  /\ guards' = [guards EXCEPT ![t] = Append(@, table[t])]
  /\ table' = [table EXCEPT ![t] = FALSE]

LeaveGuard(t) ==
  /\ table' = [table EXCEPT ![t] = guards[t][Len(guards[t])]]
  /\ guards' = [guards EXCEPT ![t] = SubSeq(@, 1, Len(@) - 1)]

(* Mutant of Ignored: CHECK_EXCEPTION_BEFORE is forgotten.                 *)
IgnoredNull(t, null) == Checked(t) /\ null

(* The checks of JNIHelper, before it asks the JVM.                        *)
Ignored(t, null) == Checked(t) /\ (null \/ pending[t])

FormatObject(t, null) ==
  /\ Formatting(t, {"obj", "cls", "str"})
  /\ IF Ignored(t, null)
     THEN Done(t) /\ UNCHANGED envVars
     ELSE /\ at' = [at EXCEPT ![t] = "object"]
          /\ EnterGuard(t)
          /\ UNCHANGED todo
  /\ UNCHANGED <<setupVars, rangeVars, cacheVars, callVars, jvmVars>>

(* getClass, getName and GetStringUTFChars.  CLEAR_EXCEPTION_RETURN ends   *)
(* an exception they meet.  An object that is a string is described by its *)
(* characters.                                                             *)
AskJVM(t, string) ==
  /\ at[t] = "object"
  /\ pending' = [pending EXCEPT ![t] = FALSE]
  /\ IF string /\ Next1(t) = "obj"
     THEN /\ todo' = [todo EXCEPT ![t] = <<"str">> \o Tail(@)]
          /\ EnterGuard(t)
          /\ UNCHANGED at
     ELSE /\ at' = [at EXCEPT ![t] = "leave"]
          /\ UNCHANGED <<todo, envVars>>
  /\ UNCHANGED <<setupVars, rangeVars, cacheVars, callVars, left, critical, live>>

LeaveObject(t) ==
  /\ at[t] = "leave"
  /\ LeaveGuard(t)
  /\ IF Len(guards[t]) = 1 THEN Done(t) ELSE UNCHANGED <<at, todo>>
  /\ UNCHANGED <<setupVars, rangeVars, cacheVars, callVars, jvmVars>>

(* FormatMethodID and FormatFieldID: the last one, or a known one, or      *)
(* PrettyMethod.                                                           *)
FormatID(t) ==
  /\ Formatting(t, Kind)
  /\ IF Checked(t) /\ id[t] = None
     THEN Done(t)
     ELSE /\ at' = [at EXCEPT ![t] = IF id[t] = last[Next1(t)] THEN "read" ELSE "find"]
          /\ UNCHANGED todo
  /\ UNCHANGED <<setupVars, rangeVars, cacheVars, callVars, envVars, jvmVars>>

(* return last_method_desc_.                                               *)
ReadLast(t) ==
  /\ at[t] = "read"
  /\ Done(t)
  /\ UNCHANGED <<setupVars, rangeVars, cacheVars, callVars, envVars, jvmVars>>

FindID(t) ==
  /\ at[t] = "find"
  /\ IF cache[Next1(t)][id[t]] # "none"
     THEN Done(t) /\ UNCHANGED envVars
     ELSE at' = [at EXCEPT ![t] = "pretty"] /\ EnterGuard(t) /\ UNCHANGED todo
  /\ UNCHANGED <<setupVars, rangeVars, cacheVars, callVars, jvmVars>>

(* PrettyMethod refuses while an exception is pending, and what it says of *)
(* that is kept as the description.  It asks the JVM unless libart exports *)
(* a function for it.  emplace keeps a text that is there already.         *)
PrettyID(t) ==
  LET k == Next1(t)
      text == IF Ignored(t, FALSE) THEN "error" ELSE "own"
  IN /\ at[t] = "pretty"
     /\ cache' = [cache EXCEPT ![k][id[t]] = IF @ = "none" THEN text ELSE @]
     /\ pending' = [pending EXCEPT ![t] = @ /\ (Pretty \/ text = "error")]
     /\ at' = [at EXCEPT ![t] = "last"]
     /\ UNCHANGED <<setupVars, rangeVars, last, lastDesc, callVars, todo, envVars,
                    left, critical, live>>

SetLast(t) ==
  /\ at[t] = "last"
  /\ last' = [last EXCEPT ![Next1(t)] = id[t]]
  /\ at' = [at EXCEPT ![t] = "desc"]
  /\ UNCHANGED <<setupVars, rangeVars, cache, lastDesc, callVars, todo, envVars, jvmVars>>

SetLastDesc(t) ==
  /\ at[t] = "desc"
  /\ lastDesc' = [lastDesc EXCEPT ![Next1(t)] = id[t]]
  /\ LeaveGuard(t)
  /\ Done(t)
  /\ UNCHANGED <<setupVars, rangeVars, cache, last, callVars, jvmVars>>

-----------------------------------------------------------------------------
Tracer ==
  \/ InitTrace
  \/ DefaultRegister
  \/ AddTraceFunctions(Extra)
  \/ \E stored \in BOOLEAN : StartTrace(stored)
  \/ \E r \in Ranges, x \in BOOLEAN : AddMonitorAddress(r[1], r[2], x)
  \/ \E r \in Ranges : RemoveMonitorAddress(r[1], r[2])
  \/ \E l \in DOMAIN Loaded, x \in BOOLEAN : AddMonitorLibrary(l, x)
  \/ \E l \in DOMAIN Loaded : RemoveMonitorLibrary(l)
  \/ Clear

TraceStep(t) ==
  \/ \E f \in Called[t], thrown \in BOOLEAN : CallUntraced(t, f, thrown)
  \/ \E f \in Called[t], a \in Caller[t] : \E i \in IDs(f) : Call(t, f, a, i)
  \/ \E thrown \in BOOLEAN : CallOriginal(t, thrown)
  \/ CheckMonitored(t)
  \/ TraceEnd(t)
  \/ FormatPlain(t)
  \/ FormatList(t)
  \/ \E null \in BOOLEAN : FormatObject(t, null)
  \/ \E string \in BOOLEAN : AskJVM(t, string)
  \/ LeaveObject(t)
  \/ FormatID(t)
  \/ ReadLast(t)
  \/ FindID(t)
  \/ PrettyID(t)
  \/ SetLast(t)
  \/ SetLastDesc(t)

TraceNext == Tracer \/ \E t \in Thread : TraceStep(t)

TraceSpec == TraceInit /\ [][TraceNext]_traceVars

-----------------------------------------------------------------------------
(***************************************************************************)
(* The properties.                                                         *)
(***************************************************************************)

(* A callback reads a reference, or characters, that the program gave only *)
(* while they are valid, and never a va_list that the original consumed:   *)
(* what the "after" and "valist" wrappers are for.                         *)
ReadsLive ==
  \A t \in Thread :
    (at[t] \in {"format", "object"} /\ todo[t] # <<>>) =>
      /\ (Next1(t) \in {"obj", "cls", "str", "chr"} /\ Len(todo[t]) > 1) => live[t]
      /\ (Next1(t) = "va" /\ HasMethod(t)) => Wrapper(fn[t]) = "valist"

(* In the strict mode the program finds the exceptions that it would find  *)
(* without tracing, whatever the callbacks ask the JVM.                    *)
ExceptionKept == Strict => pending = left

(* With what DefaultRegister traces, no callback asks the JVM anything     *)
(* between Get...Critical and Release...Critical.                          *)
NoCallInCritical ==
  \A t \in Thread : at[t] \in {"object", "pretty"} => ~critical[t]

(* The env of a thread points at the copy exactly while a GuardJNIEnv is   *)
(* on its stack, nested or not: what a callback asks is not traced, and    *)
(* what the program calls afterwards is.                                   *)
EnvRestored ==
  \A t \in Thread :
    /\ table[t] <=> guards[t] = <<>>
    /\ at[t] \in {"object", "leave", "pretty", "last", "desc"} <=> guards[t] # <<>>

(* A caller is monitored exactly when it is in one of the ranges that are  *)
(* in force, as long as these do not overlap and the mode is to include.   *)
MonitorExact ==
  (\A r, s \in added : r = s \/ r[2] < s[1] \/ s[2] < r[1]) =>
    \A a \in Address :
      IsMonitoring(a) <=> ~exclude /\ \E r \in added : r[1] <= a /\ a <= r[2]

(* The description a callback gives for the last method or field is that   *)
(* of the method or field it was asked about: last_method_ and             *)
(* last_method_desc_ belong together.                                      *)
OwnDescription ==
  \A t \in Thread : at[t] = "read" => lastDesc[Next1(t)] = id[t]
=============================================================================
