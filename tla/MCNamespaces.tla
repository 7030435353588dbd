---------------------------- MODULE MCNamespaces ----------------------------
(* The instance of Namespaces for TLC: the executable and one library, the *)
(* default namespace and one more.                                         *)
EXTENDS Namespaces

CONSTANTS boot, lib1, defaultNs, ns1

MCSoinfo == {boot, lib1}
MCNamespace == {defaultNs, ns1}
=============================================================================
