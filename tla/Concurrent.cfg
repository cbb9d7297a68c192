\* Two browsers, two requests in flight, of one browser or of both; Redis may fail.
SPECIFICATION Spec
CONSTANTS
  b1 = b1
  b2 = b2
  r1 = r1
  r2 = r2
  s1 = s1
  s2 = s2
  s3 = s3
  alice = alice
  ann = ann
  bob = bob
  NULL = NULL
  Browser = {b1, b2}
  Request = {r1, r2}
  SessionId = {s1, s2}
  User = {alice, bob}
  CookieName = {"sessionId"}
  FailingCalls = {"get", "set", "del"}
  MaxCalls = 2
  Serial = FALSE
  AccountOf <- MCAccountOf
  HandlerName <- MCHandlerName
SYMMETRY Symmetry
INVARIANTS
  TypeOK
  SessionIsolation
  CommitRenewsRecord
  HeadersMatchSession
