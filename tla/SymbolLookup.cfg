SPECIFICATION FairSpec
CONSTANTS
  l1 = l1
  l2 = l2
  l3 = l3
  l4 = l4
  foo = foo
  bar = bar
  baz = baz
  v1 = v1
  NoLib = NoLib
  NoName = NoName
  NoVersion = NoVersion
  Lib = {l1, l2, l3, l4}
  Name = {foo, bar, baz}
  Version = {v1}
  Hash <- MCHash
  ElfHash <- MCElfHash
  Process <- MCProcess
  Prefix <- MCPrefix
INVARIANT LookupExact FirstOfGroup GroupInOrder FaultsOnlyUnlinked ListingExact
PROPERTY WalkEnds
CHECK_DEADLOCK FALSE
