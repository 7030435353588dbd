----------------------------- MODULE TraceTable -----------------------------
(***************************************************************************)
(* The functions of JNINativeInterface as trace_jni.h wraps and reports    *)
(* them.  A T in a name stands for each of the primitive types:            *)
(* CallTMethodV is CallBooleanMethodV, CallByteMethodV and so on.  Only    *)
(* GetShortField (which DefaultRegister forgets) and SetBooleanArrayRegion *)
(* (which is wrapped differently) differ from their siblings and have      *)
(* names of their own.                                                     *)
(*                                                                         *)
(* What HookJNIEnv<Derived>::name does, by the macro that defines it:      *)
(*   "call"    the original, then the callback with the arguments          *)
(*   "invoke"  the same, and context.method is the method ID               *)
(*   "valist"  the same, and the callback has its own copy of the va_list  *)
(*   "noargs"  the original, then the callback without the arguments       *)
(*   "after"   the callback, then the original                             *)
(* What FormatJNIArgument and FormatReturnValue do with a value, by type:  *)
(*   "obj" "cls" "str"  ask the JVM for its class, name or characters      *)
(*   "mid" "fid"        describe the ID                                    *)
(*   "chr"              read the characters of a C string                  *)
(*   "va"  "jv"         read the arguments of the method, by its shorty    *)
(*   "-"                print the value itself, or the name of the type    *)
(***************************************************************************)
EXTENDS Sequences

VirtualCalls ==
  {"CallObjectMethod", "CallTMethod", "CallVoidMethod",
   "CallObjectMethodV", "CallTMethodV", "CallVoidMethodV",
   "CallObjectMethodA", "CallTMethodA", "CallVoidMethodA"}
NonvirtualCalls ==
  {"CallNonvirtualObjectMethod", "CallNonvirtualTMethod",
   "CallNonvirtualVoidMethod", "CallNonvirtualObjectMethodV",
   "CallNonvirtualTMethodV", "CallNonvirtualVoidMethodV",
   "CallNonvirtualObjectMethodA", "CallNonvirtualTMethodA",
   "CallNonvirtualVoidMethodA"}
StaticCalls ==
  {"CallStaticObjectMethod", "CallStaticTMethod", "CallStaticVoidMethod",
   "CallStaticObjectMethodV", "CallStaticTMethodV",
   "CallStaticVoidMethodV", "CallStaticObjectMethodA",
   "CallStaticTMethodA", "CallStaticVoidMethodA"}

(* The calls with variable arguments, those with a va_list and those with  *)
(* an array of arguments; and those that return an object.                 *)
Variadic ==
  {"CallObjectMethod", "CallTMethod", "CallVoidMethod",
   "CallNonvirtualObjectMethod", "CallNonvirtualTMethod",
   "CallNonvirtualVoidMethod", "CallStaticObjectMethod",
   "CallStaticTMethod", "CallStaticVoidMethod"}
Listed ==
  {"CallObjectMethodV", "CallTMethodV", "CallVoidMethodV",
   "CallNonvirtualObjectMethodV", "CallNonvirtualTMethodV",
   "CallNonvirtualVoidMethodV", "CallStaticObjectMethodV",
   "CallStaticTMethodV", "CallStaticVoidMethodV"}
Arrayed ==
  {"CallObjectMethodA", "CallTMethodA", "CallVoidMethodA",
   "CallNonvirtualObjectMethodA", "CallNonvirtualTMethodA",
   "CallNonvirtualVoidMethodA", "CallStaticObjectMethodA",
   "CallStaticTMethodA", "CallStaticVoidMethodA"}
ObjectCalls ==
  {"CallObjectMethod", "CallObjectMethodV", "CallObjectMethodA",
   "CallNonvirtualObjectMethod", "CallNonvirtualObjectMethodV",
   "CallNonvirtualObjectMethodA", "CallStaticObjectMethod",
   "CallStaticObjectMethodV", "CallStaticObjectMethodA"}

ObjectFunctions ==
  {"GetVersion", "DefineClass", "FindClass", "FromReflectedMethod",
   "FromReflectedField", "ToReflectedMethod", "GetSuperclass",
   "IsAssignableFrom", "ToReflectedField", "Throw", "ThrowNew",
   "ExceptionOccurred", "ExceptionDescribe", "ExceptionClear", "FatalError",
   "PushLocalFrame", "PopLocalFrame", "NewGlobalRef", "DeleteGlobalRef",
   "DeleteLocalRef", "IsSameObject", "NewLocalRef", "EnsureLocalCapacity",
   "AllocObject", "NewObject", "NewObjectV", "NewObjectA", "GetObjectClass",
   "IsInstanceOf", "GetMethodID"}

FieldFunctions ==
  {"GetFieldID", "GetObjectField", "GetTField", "GetShortField",
   "SetObjectField", "SetTField"}

StaticFunctions ==
  {"GetStaticMethodID", "GetStaticFieldID", "GetStaticObjectField",
   "GetStaticTField", "SetStaticObjectField", "SetStaticTField"}

StringFunctions ==
  {"NewString", "GetStringLength", "GetStringChars", "ReleaseStringChars",
   "NewStringUTF", "GetStringUTFLength", "GetStringUTFChars",
   "ReleaseStringUTFChars"}

ArrayFunctions ==
  {"GetArrayLength", "NewObjectArray", "GetObjectArrayElement",
   "SetObjectArrayElement", "NewTArray", "GetTArrayElements",
   "ReleaseTArrayElements", "GetTArrayRegion", "SetTArrayRegion",
   "SetBooleanArrayRegion"}

OtherFunctions ==
  {"RegisterNatives", "UnregisterNatives", "MonitorEnter", "MonitorExit",
   "GetJavaVM", "GetStringRegion", "GetStringUTFRegion",
   "GetPrimitiveArrayCritical", "ReleasePrimitiveArrayCritical",
   "GetStringCritical", "ReleaseStringCritical", "NewWeakGlobalRef",
   "DeleteWeakGlobalRef", "ExceptionCheck", "NewDirectByteBuffer",
   "GetDirectBufferAddress", "GetDirectBufferCapacity", "GetObjectRefType"}

(* The functions that BindMethod gives a wrapper in hook_jni.              *)
BoundFirst == ObjectFunctions \cup VirtualCalls \cup NonvirtualCalls
                \cup FieldFunctions
BoundThen == StaticCalls \cup StaticFunctions \cup StringFunctions
                \cup ArrayFunctions \cup OtherFunctions
Function == BoundFirst \cup BoundThen

(* The functions that DefaultRegister does not trace.                      *)
NotByDefault ==
  {"GetVersion", "DefineClass", "FromReflectedMethod", "FromReflectedField",
   "ToReflectedMethod", "IsAssignableFrom", "ToReflectedField", "Throw",
   "ThrowNew", "ExceptionOccurred", "ExceptionDescribe", "ExceptionClear",
   "FatalError", "PushLocalFrame", "PopLocalFrame", "DeleteLocalRef",
   "IsSameObject", "NewLocalRef", "EnsureLocalCapacity", "AllocObject",
   "NewObject", "IsInstanceOf", "GetShortField", "ReleaseStringChars",
   "ReleaseStringUTFChars", "ReleaseTArrayElements", "MonitorEnter",
   "MonitorExit", "GetPrimitiveArrayCritical", "ReleasePrimitiveArrayCritical",
   "GetStringCritical", "ReleaseStringCritical", "ExceptionCheck",
   "NewDirectByteBuffer", "GetDirectBufferAddress", "GetDirectBufferCapacity",
   "GetObjectRefType"}
     \cup Variadic

(* Mutant of DefaultOffsets: the functions on strings are all traced.      *)
DefaultOffsetsCritical ==
  (Function \ NotByDefault) \cup {"GetStringCritical", "ReleaseStringCritical"}

DefaultOffsets == Function \ NotByDefault

-----------------------------------------------------------------------------
(***************************************************************************)
(* The wrappers.                                                           *)
(***************************************************************************)
CallWrapper(f) ==
  CASE f \in Variadic -> "call"
    [] f \in Listed -> "valist"
    [] f \in Arrayed -> "invoke"

ProxyVirtual(f) == CallWrapper(f)
ProxyNonvirtual(f) == CallWrapper(f)
ProxyFields(f) == "call"

ProxyStatic(f) ==
  IF f \in StaticFunctions THEN "call" ELSE CallWrapper(f)

ProxyObjects(f) ==
  CASE f \in {"DeleteGlobalRef", "DeleteLocalRef"} -> "after"
    [] f = "PopLocalFrame" -> "noargs"
    [] f = "NewObjectV" -> "valist"
    [] f = "NewObjectA" -> "invoke"
    [] OTHER -> "call"

(* Mutant of ProxyStrings: released characters are reported like others.   *)
ProxyStringsLate(f) == "call"

ProxyStrings(f) ==
  IF f \in {"ReleaseStringChars", "ReleaseStringUTFChars"} THEN "after" ELSE "call"

ProxyArrays(f) ==
  IF f \in {"ReleaseTArrayElements", "GetTArrayRegion", "SetBooleanArrayRegion"}
  THEN "after" ELSE "call"

ProxyOthers(f) ==
  IF f \in {"GetStringRegion", "GetStringUTFRegion", "DeleteWeakGlobalRef",
            "ReleasePrimitiveArrayCritical", "ReleaseStringCritical"}
  THEN "after" ELSE "call"

Wrapper(f) ==
  CASE f \in ObjectFunctions -> ProxyObjects(f)
    [] f \in VirtualCalls -> ProxyVirtual(f)
    [] f \in NonvirtualCalls -> ProxyNonvirtual(f)
    [] f \in FieldFunctions -> ProxyFields(f)
    [] f \in StaticCalls \cup StaticFunctions -> ProxyStatic(f)
    [] f \in StringFunctions -> ProxyStrings(f)
    [] f \in ArrayFunctions -> ProxyArrays(f)
    [] f \in OtherFunctions -> ProxyOthers(f)

-----------------------------------------------------------------------------
(***************************************************************************)
(* The callbacks: the kinds of the arguments and, last, of the result.     *)
(* A variadic function is reported as the one that takes a va_list.        *)
(***************************************************************************)
ReportObjects(f) ==
  CASE f = "GetVersion" -> <<"-">>
    [] f = "DefineClass" -> <<"chr", "obj", "-", "-", "cls">>
    [] f = "FindClass" -> <<"chr", "cls">>
    [] f = "FromReflectedMethod" -> <<"obj", "mid">>
    [] f = "FromReflectedField" -> <<"obj", "fid">>
    [] f = "ToReflectedMethod" -> <<"cls", "mid", "-", "obj">>
    [] f = "ToReflectedField" -> <<"cls", "fid", "-", "obj">>
    [] f = "GetSuperclass" -> <<"cls", "cls">>
    [] f = "IsAssignableFrom" -> <<"cls", "cls", "-">>
    [] f = "ThrowNew" -> <<"cls", "chr", "-">>
    [] f \in {"Throw", "PushLocalFrame", "EnsureLocalCapacity"} -> <<"-", "-">>
    [] f \in {"ExceptionOccurred", "ExceptionDescribe", "ExceptionClear"} -> <<"-">>
    [] f = "FatalError" -> <<"chr", "-">>
    [] f \in {"PopLocalFrame", "NewGlobalRef", "NewLocalRef"} -> <<"obj", "obj">>
    [] f \in {"DeleteGlobalRef", "DeleteLocalRef"} -> <<"obj", "-">>
    [] f = "IsSameObject" -> <<"obj", "obj", "-">>
    [] f = "AllocObject" -> <<"cls", "obj">>
    [] f \in {"NewObject", "NewObjectV"} -> <<"cls", "mid", "va", "obj">>
    [] f = "NewObjectA" -> <<"cls", "mid", "jv", "obj">>
    [] f = "GetObjectClass" -> <<"obj", "cls">>
    [] f = "IsInstanceOf" -> <<"obj", "cls", "-">>
    [] f = "GetMethodID" -> <<"cls", "chr", "chr", "mid">>

Passed(f) == IF f \in Arrayed THEN "jv" ELSE "va"
Got(f) == IF f \in ObjectCalls THEN "obj" ELSE "-"

ReportVirtual(f) == <<"obj", "mid", Passed(f), Got(f)>>

ReportNonvirtual(f) == <<"obj", "cls", "mid", Passed(f), Got(f)>>

ReportFields(f) ==
  CASE f = "GetFieldID" -> <<"cls", "chr", "chr", "fid">>
    [] f = "GetObjectField" -> <<"obj", "fid", "obj">>
    [] f \in {"GetTField", "GetShortField"} -> <<"obj", "fid", "-">>
    [] f = "SetObjectField" -> <<"obj", "fid", "obj", "-">>
    [] f = "SetTField" -> <<"obj", "fid", "-", "-">>

ReportStatic(f) ==
  CASE f = "GetStaticMethodID" -> <<"cls", "chr", "chr", "mid">>
    [] f = "GetStaticFieldID" -> <<"cls", "chr", "chr", "fid">>
    [] f = "GetStaticObjectField" -> <<"cls", "fid", "obj">>
    [] f = "GetStaticTField" -> <<"cls", "fid", "-">>
    [] f = "SetStaticObjectField" -> <<"cls", "fid", "obj", "-">>
    [] f = "SetStaticTField" -> <<"cls", "fid", "-", "-">>
    [] OTHER -> <<"cls", "mid", Passed(f), Got(f)>>

ReportStrings(f) ==
  CASE f = "NewString" -> <<"-", "-", "str">>
    [] f \in {"GetStringLength", "GetStringUTFLength"} -> <<"str", "-">>
    [] f \in {"GetStringChars", "ReleaseStringChars"} -> <<"str", "-", "-">>
    [] f = "NewStringUTF" -> <<"chr", "str">>
    [] f = "GetStringUTFChars" -> <<"str", "-", "chr">>
    [] f = "ReleaseStringUTFChars" -> <<"str", "chr", "-">>

ReportArrays(f) ==
  CASE f \in {"GetArrayLength", "NewTArray"} -> <<"-", "-">>
    [] f = "NewObjectArray" -> <<"-", "cls", "obj", "-">>
    [] f = "GetObjectArrayElement" -> <<"-", "-", "obj">>
    [] f = "SetObjectArrayElement" -> <<"-", "-", "obj", "-">>
    [] f = "GetTArrayElements" -> <<"-", "-", "-">>
    [] f = "ReleaseTArrayElements" -> <<"-", "-", "-", "-">>
    [] OTHER -> <<"-", "-", "-", "-", "-">>

ReportOthers(f) ==
  CASE f = "RegisterNatives" -> <<"cls", "-", "-">>
    [] f = "UnregisterNatives" -> <<"cls", "-">>
    [] f \in {"GetStringRegion", "GetStringUTFRegion"} -> <<"str", "-", "-", "-", "-">>
    [] f = "GetPrimitiveArrayCritical" -> <<"-", "-", "-">>
    [] f = "ReleasePrimitiveArrayCritical" -> <<"-", "-", "-", "-">>
    [] f \in {"GetStringCritical", "ReleaseStringCritical"} -> <<"str", "-", "-">>
    [] f = "NewWeakGlobalRef" -> <<"obj", "obj">>
    [] f = "GetJavaVM" -> <<"-", "-">>
    [] f = "ExceptionCheck" -> <<"-">>
    [] f = "NewDirectByteBuffer" -> <<"-", "-", "obj">>
    [] OTHER -> <<"obj", "-">>

Report(f) ==
  CASE f \in ObjectFunctions -> ReportObjects(f)
    [] f \in VirtualCalls -> ReportVirtual(f)
    [] f \in NonvirtualCalls -> ReportNonvirtual(f)
    [] f \in FieldFunctions -> ReportFields(f)
    [] f \in StaticCalls \cup StaticFunctions -> ReportStatic(f)
    [] f \in StringFunctions -> ReportStrings(f)
    [] f \in ArrayFunctions -> ReportArrays(f)
    [] f \in OtherFunctions -> ReportOthers(f)
=============================================================================
