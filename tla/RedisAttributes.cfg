\* Two requests at once, of one session or of two; bob's name has a blank in it.
SPECIFICATION Spec
CONSTANTS
  r1 = r1
  r2 = r2
  s1 = s1
  s2 = s2
  alice = alice
  bob = bob
  NULL = NULL
  EmptyMap = EmptyMap
  Somebody = Somebody
  Request = {r1, r2}
  SessionId = {s1, s2}
  User = {alice, bob}
  Readable = {alice}
  FailingCalls = {"db", "get", "set"}
SYMMETRY Symmetry
INVARIANT TypeOK
PROPERTY ImplementsSignedInUser
