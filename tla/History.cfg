\* Two overlapping requests of one browser, with fair server threads; Redis may fail.
SPECIFICATION FairHistorySpec
CONSTANTS
  b1 = b1
  b2 = b2
  r1 = r1
  r2 = r2
  s1 = s1
  s2 = s2
  s3 = s3
  alice = alice
  ann = ann
  bob = bob
  NULL = NULL
  NoPut = NoPut
  Browser = {b1}
  Request = {r1, r2}
  SessionId = {s1}
  User = {alice}
  CookieName = {"sessionId"}
  FailingCalls = {"get", "set", "del"}
  MaxCalls = 2
  Serial = FALSE
  AccountOf <- MCAccountOf
  HandlerName <- MCHandlerName
INVARIANTS
  CommittedIsStored
PROPERTIES
  UserChangeExplained
  RequestEnds
