SPECIFICATION Spec
CONSTANTS
  Jobs = {j1}
  j1 = j1
  URLs = {u1}
  u1 = u1
  Users = {w1}
  w1 = w1
  Locations = {"new", "later"}
  Configs <- RedisOnly
  MaxVersion = 0
  StepTimeout = 1
  PipelineTimeout = 2
  CacheTTL = 1
  NoUser = NoUser
  Nil = Nil
  NoURL = NoURL
  NoHTML = NoHTML
  Untrusted = Untrusted
INVARIANTS
  PostsArticleURL
