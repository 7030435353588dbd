SPECIFICATION FairSpec
CONSTANTS
  t1 = t1
  t2 = t2
  app = app
  art = art
  appText = appText
  appRelro = appRelro
  artTable = artTable
  artData = artData
  NoThread = NoThread
  NoLib = NoLib
  Thread <- MCThread
  Lib <- MCLib
  Mapping <- MCMapping
  Maps <- MCCallMaps
  Writable0 <- MCWritable0
  Group <- MCGroupApart
  Space <- MCSpaces
  Calls <- MCRelinks
  Table = artTable
  NameLists <- MCNamePairs
INVARIANT TrueMeansRelocated
PROPERTY CallsReturn
