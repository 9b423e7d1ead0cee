SPECIFICATION Spec
CONSTANTS
  MaxBoots = 3
INVARIANTS
  TypeOK
  EnabledPassed
  LitterExplained
CHECK_DEADLOCK FALSE
