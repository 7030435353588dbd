SPECIFICATION Spec
CONSTANTS
  t1 = t1
  t2 = t2
  app = app
  art = art
  appText = appText
  appRelro = appRelro
  artTable = artTable
  artData = artData
  NoThread = NoThread
  NoLib = NoLib
  Thread <- MCThread
  Lib <- MCLib
  Mapping <- MCMapping
  Maps <- MCMaps
  Writable0 <- MCWritable0
  Group <- MCGroup
  Space <- MCSpace
  Calls <- MCAll
  Table = artTable
  NameLists <- MCNames
SYMMETRY MCSymmetry
INVARIANT WriteNeverFaults LinkNeverFaults ProtectionRestored
