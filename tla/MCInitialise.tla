---------------------------- MODULE MCInitialise ----------------------------
(* Instances of Initialise small enough for TLC: Android 8.0 and later,    *)
(* with one symbol of each kind.                                           *)
EXTENDS Initialise

CONSTANTS solist, linkerSoinfo, dlopenO, namespaceO, dlopen, namespace

MCSymbol == {solist, linkerSoinfo, dlopenO, namespaceO}
MCExported == {dlopenO, namespaceO}
MCCategory == {dlopen, namespace}
MCCategoryOf ==
  [s \in MCSymbol \ {solist} |-> IF s = namespaceO THEN namespace ELSE dlopen]
=============================================================================
