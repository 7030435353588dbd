SPECIFICATION ListSpec
CONSTANTS
  p1 = p1
  p2 = p2
  x = x
  y = y
  z = z
  Page <- MCPage
  BlocksPerPage = 2
  Counts = TRUE
  Null = Null
  Element <- MCElement
  NoHeader = NoHeader
SYMMETRY MCSymmetry
INVARIANT Partition WellLinked
PROPERTY RefinesAllocator RefinesElementList
