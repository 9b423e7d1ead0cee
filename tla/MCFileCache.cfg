SPECIFICATION Spec
CONSTANTS
  Jobs = {j1, j2, j3, j4}
  j1 = j1
  j2 = j2
  j3 = j3
  j4 = j4
  Inodes = {i1, i2, i3, i4, i5}
  i1 = i1
  i2 = i2
  i3 = i3
  i4 = i4
  i5 = i5
  MaxBlocks = 2
  Nil = Nil
  Torn = Torn
INVARIANTS
  TypeOK
  WholeUnlessShared
  ReadersSeeWhole
PROPERTIES
  IsEntry
SYMMETRY FileSymmetry
CHECK_DEADLOCK FALSE
