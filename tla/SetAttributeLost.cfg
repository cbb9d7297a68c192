\* A read that fails before setAttribute and succeeds after it.
SPECIFICATION HistorySpec
CONSTANTS
  b1 = b1
  b2 = b2
  r1 = r1
  r2 = r2
  s1 = s1
  s2 = s2
  s3 = s3
  alice = alice
  ann = ann
  bob = bob
  NULL = NULL
  NoPut = NoPut
  Browser = {b1}
  Request = {r1}
  SessionId = {s1}
  User = {alice, ann}
  CookieName = {"sessionId"}
  FailingCalls = {"get"}
  MaxCalls = 3
  Serial = TRUE
  AccountOf <- MCAccountOf
  HandlerName <- MCHandlerName
SYMMETRY Symmetry
INVARIANTS
  SetAttributeOverrides
