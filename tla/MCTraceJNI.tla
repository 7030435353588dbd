----------------------------- MODULE MCTraceJNI -----------------------------
(* Instances of TraceJNI small enough for TLC: one thread that calls every *)
(* function, or two threads that call a few.                               *)
EXTENDS TraceJNI

CONSTANTS t1, t2, m1, m2, f1, libA

MCEvery == [t \in Thread |-> Function \ {"FatalError"}]
MCExtra == {"DeleteLocalRef", "CallObjectMethod", "PopLocalFrame", "ReleaseStringUTFChars",
            "GetPrimitiveArrayCritical", "ReleasePrimitiveArrayCritical"}
MCFew == [t \in Thread |-> {"NewObjectV"}]
MCCaller == [t \in Thread |-> {2, 3}]
MCRanges == {<<1, 2>>, <<1, 3>>, <<2, 5>>}
MCStarted == {{<<1, 2>>, <<4, 4>>}}
MCID == [mid |-> {m1, m2}, fid |-> {f1}]
MCLoaded == [l \in {libA} |-> <<4, 4>>]
MCThrow == {"CallVoidMethodV", "GetMethodID"}
MCShorty == <<"obj", "-">>
=============================================================================
