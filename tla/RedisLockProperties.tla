------------------------- MODULE RedisLockProperties -------------------------
(***************************************************************************)
(* What RedisLock.getLock promises to the runs of the program.             *)
(***************************************************************************)
EXTENDS RedisLock

\* p may rely on the lock: getLock has returned, no renewal has gone wrong, and
\* the last one is younger than the lease.
Secure(p) == pc[p] = "holding" /\ watchdog[p] # "stopped" /\ since[p] < Lease

\* Whoever has returned from getLock owns the lock for as long as its watchdog
\* works in time, and so alone: getLock gives lock() no lease time, so that
\* Redisson renews it.
HolderOwnsLock == \A p \in Process : Secure(p) => owner = p

\* The lock is p's, who will never renew it.
OrphanedBy(p) ==
  owner = p /\ (pc[p] \in {"failed", "ended"} \/ watchdog[p] = "stopped")

Orphaned == \E p \in Process : OrphanedBy(p)

\* Nobody gives the lock back, so an owner that ends, or whose calls fail, must
\* lose it in another way: no lock stays with such an owner for ever.
OrphanedLockIsFreed == Orphaned ~> ~Orphaned

\* A process that waits does so for somebody who got the lock: there is no
\* unlock to wake it, so its own sleep has to end.
LockIsTaken ==
  \A p \in Process :
    pc[p] = "waiting" ~> pc[p] # "waiting" \/ \E q \in Process : pc[q] = "holding"
==============================================================================
