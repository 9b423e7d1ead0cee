SPECIFICATION Spec
CONSTANTS
  Jobs = {j1, j2}
  j1 = j1
  j2 = j2
  Inodes = {i1, i2, i3}
  i1 = i1
  i2 = i2
  i3 = i3
  MaxBlocks = 2
  Nil = Nil
  Torn = Torn
INVARIANTS
  SavesCompletePage
SYMMETRY FileSymmetry
CHECK_DEADLOCK FALSE
