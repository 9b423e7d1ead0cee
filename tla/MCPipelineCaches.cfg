SPECIFICATION Spec
CONSTANTS
  Jobs = {j1, j2}
  j1 = j1
  j2 = j2
  URLs = {u1}
  u1 = u1
  Users = {w1}
  w1 = w1
  Locations = {"new", "later"}
  Configs <- RedisOnly
  MaxVersion = 1
  StepTimeout = 1
  PipelineTimeout = 2
  CacheTTL = 1
  NoUser = NoUser
  Nil = Nil
  NoURL = NoURL
  NoHTML = NoHTML
  Untrusted = Untrusted
INVARIANTS
  TypeOK
  OnTime
  CardsOnlyForSaved
  SavedFresh
PROPERTIES
  KeepsPromise
SYMMETRY JobSymmetry
