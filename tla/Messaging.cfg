\* Two requests of one session at once; the database and every send may fail.
SPECIFICATION Spec
CONSTANTS
  r1 = r1
  r2 = r2
  s1 = s1
  alice = alice
  bob = bob
  NULL = NULL
  Somebody = Somebody
  Request = {r1, r2}
  SessionId = {s1}
  User = {alice, bob}
  Readable = {alice, bob}
  FailingCalls = {"db", "send"}
  Bindings <- MCBindings
  MaxLength = 1
SYMMETRY Symmetry
INVARIANTS
  TypeOK
  MessagesAreOfUsers
PROPERTY ImplementsSignedInUser
