\* Two requests at once, an account and a name without one.
SPECIFICATION Spec
CONSTANTS
  r1 = r1
  r2 = r2
  s1 = s1
  s2 = s2
  admin = admin
  member = member
  guest = guest
  NULL = NULL
  Request = {r1, r2}
  SessionId = {s1, s2}
  Username = {admin, member, guest}
  Role <- MCRole
  RolesOf <- MCRolesOf
  PermissionsOf <- MCPermissionsOf
  Available <- MCAvailable
  FailingCalls = {"db"}
SYMMETRY Symmetry
INVARIANTS
  TypeOK
  InvalidatedIsEmpty
  SignedInHasName
  IndexFindsUser
PROPERTY LogoutShutsOut
