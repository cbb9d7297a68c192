\* Two calls on one connection, one retry.
SPECIFICATION FairSpec
CONSTANTS
  c1 = c1
  c2 = c2
  NULL = NULL
  Call = {c1, c2}
  MaxPerRoute = 1
  RetryCount = 1
INVARIANTS
  TypeOK
  HandledAtMostOnce
  ConnectionsComeBack
PROPERTY CallsEnd
\* Every call has ended and nothing is on its way.
CHECK_DEADLOCK FALSE
