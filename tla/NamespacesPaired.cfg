SPECIFICATION PairedSpec
CONSTANTS
  boot = boot
  lib1 = lib1
  defaultNs = defaultNs
  ns1 = ns1
  NoNamespace = NoNamespace
  Soinfo <- MCSoinfo
  Namespace <- MCNamespace
  BootSoinfo <- boot
  DefaultNs <- defaultNs
  DedupLinks = FALSE
  MaxLinks = 2
INVARIANT NoDanglingMember
PROPERTY RefinesVisibility MovesHome
