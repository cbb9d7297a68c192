\* One visitor, nothing fails.
SPECIFICATION Spec
CONSTANTS
  r1 = r1
  r2 = r2
  s1 = s1
  s2 = s2
  alice = alice
  bob = bob
  NULL = NULL
  EmptyMap = EmptyMap
  Somebody = Somebody
  Request = {r1}
  SessionId = {s1}
  User = {alice}
  Readable = {alice}
  FailingCalls = {}
INVARIANT NoErrorPage
