SPECIFICATION Spec
CONSTANTS
  Jobs = {j1, j2}
  j1 = j1
  j2 = j2
  URLs = {u1, u2}
  u1 = u1
  u2 = u2
  Users = {}
  Locations = {"new", "later"}
  Configs <- ModeConfigs
  MaxVersion = 0
  StepTimeout = 1
  PipelineTimeout = 2
  CacheTTL = 2
  NoUser = NoUser
  Nil = Nil
  NoURL = NoURL
  NoHTML = NoHTML
  Untrusted = Untrusted
INVARIANTS
  DocsReady
  CachesKeyed
  PostedSound
SYMMETRY JobSymmetry
