SPECIFICATION FairSpec
CONSTANTS
  Senders = {g1, g2, g3}
  g1 = g1
  g2 = g2
  g3 = g3
  Lifetimes = {40, 50}
  CtxTimeout = 3
  HTTPTimeout = 2
  Nil = Nil
  Revoked = Revoked
INVARIANTS
  TypeOK
  SingleFlight
  TokenOutlivesCard
  RequestsInTime
PROPERTIES
  EveryCallReturns
  RevokedGivenUp
