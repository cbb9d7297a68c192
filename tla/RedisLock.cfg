\* Three runs of the program; the lease is three periods of the watchdog.
SPECIFICATION FairSpec
CONSTANTS
  p1 = p1
  p2 = p2
  p3 = p3
  NoOne = NoOne
  Process = {p1, p2, p3}
  Lease = 3
  Period = 1
INVARIANTS
  TypeOK
  HolderOwnsLock
PROPERTIES
  OrphanedLockIsFreed
  LockIsTaken
