SPECIFICATION PreloadsSpec
CONSTANTS
  a = a
  b = b
  c = c
  Null = Null
  Library <- MCLibrary
  Slots = 9
SYMMETRY MCSymmetry
INVARIANT OthersKept
PROPERTY RemovedIsGone
