\* Each browser waits for its answers; Redis may refuse writes, never reads.
SPECIFICATION Spec
CONSTANTS
  b1 = b1
  b2 = b2
  r1 = r1
  r2 = r2
  s1 = s1
  s2 = s2
  s3 = s3
  alice = alice
  ann = ann
  bob = bob
  NULL = NULL
  Browser = {b1, b2}
  Request = {r1, r2}
  SessionId = {s1, s2}
  User = {alice, ann, bob}
  CookieName = {"sessionId", "trackId"}
  FailingCalls = {"set", "del"}
  MaxCalls = 3
  Serial = TRUE
  AccountOf <- MCAccountOf
  HandlerName <- MCHandlerName
SYMMETRY Symmetry
PROPERTIES
  ImplementsBrowserSession
  TrackIdKept
