SPECIFICATION Spec
CONSTANTS
  MaxBoots = 1
INVARIANTS
  CheckedBeforeUse
CHECK_DEADLOCK FALSE
