------------------------------ MODULE MCHooks -------------------------------
(* Instances of Hooks small enough for TLC: two functions of the JNI table *)
(* and three Java methods, one fast, one plain native, one not native.     *)
EXTENDS Hooks

CONSTANTS fn1, fn2, quick, slow, plain, f1, g1, f2, q1, r1, s1, p1

MCHook == {f1, g1, f2, q1, r1, s1, p1}
MCTargetOf ==
  [h \in MCHook |-> CASE h \in {f1, g1} -> fn1
                      [] h = f2 -> fn2
                      [] h \in {q1, r1} -> quick
                      [] h = s1 -> slow
                      [] h = p1 -> plain]
MCJniBatches ==
  UNION {[1 .. n -> {f1, g1, f2, NoHook}] : n \in 1 .. 2}
MCJavaBatches ==
  UNION {[1 .. n -> {q1, r1, s1, p1, NoHook}] : n \in 1 .. 2}
=============================================================================
