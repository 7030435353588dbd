SPECIFICATION ExportSpec
CONSTANTS
  API <- MCAPI
  ABI <- MCABI
  Modes <- MCModes
  Readers <- MCReaders
  Lines <- MCLines
  CopyAt <- MCCopyAt
  Library <- MCLibrary
  Linker <- MCLinker
  Named <- MCNamed
  Asked <- MCAsked
  Batches <- MCBatches
  NameLists <- MCNameLists
INVARIANTS
  EveryCallServed
  CategoriesSuffice
  BaseIsLibrary
  AddressIsSymbol
  TablesAlive
  ExactFirst
