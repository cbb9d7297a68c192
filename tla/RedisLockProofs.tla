--------------------------- MODULE RedisLockProofs ---------------------------
(***************************************************************************)
(* Mutual exclusion by RedisLock.getLock, for any number of runs of the    *)
(* program, any lease and any period of the watchdog.                      *)
(***************************************************************************)
EXTENDS RedisLockProperties, TLAPS

\* Initially nobody has the lock.
LEMMA InitTypes == Init => TypeOK
  BY NoOneAssumption, LeaseAssumption DEF Init, TypeOK

\* Every step keeps the types, and the record has an owner as long as it lives.
LEMMA StepTypes == TypeOK /\ [Next]_vars => TypeOK'
<1> SUFFICES ASSUME TypeOK, [Next]_vars PROVE TypeOK'
  OBVIOUS
<1> USE NoOneAssumption, LeaseAssumption DEF TypeOK
<1>1. ASSUME NEW p \in Process, Main(p) PROVE TypeOK'
  BY <1>1 DEF Main
<1>2. ASSUME NEW p \in Process, GetLock(p) PROVE TypeOK'
  BY <1>2 DEF GetLock, TakeLock
<1>3. ASSUME NEW p \in Process, Wait(p) PROVE TypeOK'
  BY <1>3 DEF Wait
<1>4. ASSUME NEW p \in Process, GetLockThrows(p) PROVE TypeOK'
  BY <1>4 DEF GetLockThrows, TakeLock
<1>5. ASSUME NEW p \in Process, Renew(p) PROVE TypeOK'
  BY <1>5 DEF Renew
<1>6. ASSUME NEW p \in Process, StopRenewing(p) PROVE TypeOK'
  BY <1>6 DEF StopRenewing
<1>7. ASSUME NEW p \in Process, End(p) PROVE TypeOK'
  BY <1>7 DEF End
<1>8. CASE Tick
  <2>1. ttl' \in 0..Lease /\ (ttl = 0 => ttl' = 0)
    BY <1>8 DEF Tick, Less
  <2>2. /\ owner' \in Process \cup {NoOne}
        /\ owner' = NoOne <=> ttl' = 0
    BY <1>8, <2>1 DEF Tick
  <2>3. since' \in [Process -> 0..Lease]
    BY <1>8 DEF Tick
  <2>4. wait' \in [Process -> 0..Lease]
    BY <1>8 DEF Tick, Less
  <2> QED
    BY <1>8, <2>1, <2>2, <2>3, <2>4 DEF Tick
<1>9. CASE UNCHANGED vars
  BY <1>9 DEF vars
<1> QED
  BY <1>1, <1>2, <1>3, <1>4, <1>5, <1>6, <1>7, <1>8, <1>9 DEF Next, Work

\* The type invariant of the lock: its record has an owner exactly as long as it
\* has time to live, and never more of it than the lease.
THEOREM LockTypeCorrect == Spec => []TypeOK
  BY InitTypes, StepTypes, PTL DEF Spec

-----------------------------------------------------------------------------
\* A process that may rely on the lock owns it, and has it for what is left of
\* its lease at least.  HolderOwnsLock alone is not inductive: the record must
\* not expire before the lease of its owner is over.
Held(p) == owner = p /\ watchdog[p] = "on" /\ since[p] + ttl >= Lease

HeldInv == \A p \in Process : Secure(p) => Held(p)

\* Every step keeps what holders have.
LEMMA StepHeld == TypeOK /\ HeldInv /\ [Next]_vars => HeldInv'
<1> SUFFICES ASSUME TypeOK, HeldInv, [Next]_vars, NEW p \in Process, Secure(p)'
             PROVE  Held(p)'
  BY DEF HeldInv
<1> USE NoOneAssumption, LeaseAssumption DEF TypeOK, HeldInv, Secure, Held
<1>1. ASSUME NEW q \in Process, Main(q) PROVE Held(p)'
  BY <1>1 DEF Main
<1>2. ASSUME NEW q \in Process, GetLock(q) PROVE Held(p)'
  <2>1. CASE q = p
    BY <1>2, <2>1 DEF GetLock, TakeLock
  <2>2. CASE q # p
    \* p has the lock, so q cannot take it.
    <3>1. Secure(p)
      BY <1>2, <2>2 DEF GetLock
    <3> QED
      BY <1>2, <2>2, <3>1 DEF GetLock, TakeLock
  <2> QED
    BY <2>1, <2>2
<1>3. ASSUME NEW q \in Process, Wait(q) PROVE Held(p)'
  BY <1>3 DEF Wait
<1>4. ASSUME NEW q \in Process, GetLockThrows(q) PROVE Held(p)'
  <2>1. q # p /\ Secure(p)
    BY <1>4 DEF GetLockThrows
  <2> QED
    BY <1>4, <2>1 DEF GetLockThrows, TakeLock
<1>5. ASSUME NEW q \in Process, Renew(q) PROVE Held(p)'
  <2>1. CASE q = p
    BY <1>5, <2>1 DEF Renew
  <2>2. CASE q # p
    <3>1. Secure(p)
      BY <1>5, <2>2 DEF Renew
    <3> QED
      BY <1>5, <2>2, <3>1 DEF Renew
  <2> QED
    BY <2>1, <2>2
<1>6. ASSUME NEW q \in Process, StopRenewing(q) PROVE Held(p)'
  <2>1. q # p /\ Secure(p)
    BY <1>6 DEF StopRenewing
  <2>2. ttl' = ttl
    BY <1>6, <2>1 DEF StopRenewing
  <2> QED
    BY <1>6, <2>1, <2>2 DEF StopRenewing
<1>7. ASSUME NEW q \in Process, End(q) PROVE Held(p)'
  <2>1. q # p /\ Secure(p)
    BY <1>7 DEF End
  <2> QED
    BY <1>7, <2>1 DEF End
<1>8. CASE Tick
  \* A tick of the clock takes the same from both.
  <2>1. pc' = pc /\ watchdog' = watchdog
        /\ since'[p] = IF watchdog[p] = "on" /\ since[p] < Lease THEN since[p] + 1 ELSE since[p]
    BY <1>8 DEF Tick
  <2>2. Secure(p) /\ Held(p)
    BY <2>1
  <2>3. since'[p] = since[p] + 1 /\ ttl > 0
    BY <2>1, <2>2
  <2>4. ttl' = ttl - 1
    BY <1>8, <2>3 DEF Tick, Less
  <2> QED
    BY <1>8, <2>1, <2>2, <2>3, <2>4 DEF Tick
<1>9. CASE UNCHANGED vars
  BY <1>9 DEF vars
<1> QED
  BY <1>1, <1>2, <1>3, <1>4, <1>5, <1>6, <1>7, <1>8, <1>9 DEF Next, Work

\* The inductive invariant holds of every behaviour.
LEMMA HeldAlways == Spec => []HeldInv
<1>1. Init => HeldInv
  BY DEF Init, HeldInv, Secure
<1> QED
  BY <1>1, StepHeld, LockTypeCorrect, PTL DEF Spec

\* Whoever has returned from getLock owns the lock while its watchdog is in
\* time, whichever calls to Redis throw and whoever else starts, waits or ends.
THEOREM HolderOwns == Spec => []HolderOwnsLock
<1>1. HeldInv => HolderOwnsLock
  BY DEF HeldInv, Held, HolderOwnsLock
<1> QED
  BY <1>1, HeldAlways, PTL

\* Two processes never rely on the lock at once.
THEOREM MutualExclusion ==
  Spec => [](\A p, q \in Process : Secure(p) /\ Secure(q) => p = q)
<1>1. HolderOwnsLock => \A p, q \in Process : Secure(p) /\ Secure(q) => p = q
  BY DEF HolderOwnsLock
<1> QED
  BY <1>1, HolderOwns, PTL

-----------------------------------------------------------------------------
(* Owners that are gone *)

\* Only a process that holds the lock has a watchdog that renews it.
WatchdogInv == \A p \in Process : pc[p] # "holding" => watchdog[p] = "off"

LEMMA StepWatchdog == TypeOK /\ WatchdogInv /\ [Next]_vars => WatchdogInv'
<1> SUFFICES ASSUME TypeOK, WatchdogInv, [Next]_vars, NEW p \in Process,
                    pc'[p] # "holding"
             PROVE  watchdog'[p] = "off"
  BY DEF WatchdogInv
<1> USE DEF TypeOK, WatchdogInv
<1>1. ASSUME NEW q \in Process, Main(q) \/ Wait(q) \/ GetLock(q) \/ GetLockThrows(q)
      PROVE  watchdog'[p] = "off"
  BY <1>1 DEF Main, Wait, GetLock, GetLockThrows, Trying
<1>2. ASSUME NEW q \in Process, Renew(q) \/ StopRenewing(q) \/ End(q)
      PROVE  watchdog'[p] = "off"
  BY <1>2 DEF Renew, StopRenewing, End
<1>3. CASE Tick \/ UNCHANGED vars
  BY <1>3 DEF Tick, vars
<1> QED
  BY <1>1, <1>2, <1>3 DEF Next, Work

\* What happens to a lock whose owner will never renew it: it ages, and nobody has it until it is gone.
Ages(p) ==
  OrphanedBy(p) =>
    /\ ttl \in 1..Lease
    /\ ttl' <= ttl
    /\ Tick => ttl' = ttl - 1
    /\ OrphanedBy(p)' \/ owner' = NoOne

LEMMA StepAges ==
  ASSUME TypeOK, WatchdogInv, [Next]_vars, NEW p \in Process
  PROVE  Ages(p)
<1> SUFFICES ASSUME OrphanedBy(p) PROVE Ages(p)
  BY DEF Ages
<1>0. ttl \in 1..Lease /\ owner = p /\ p # NoOne /\ Lease \in Nat
  BY NoOneAssumption, LeaseAssumption DEF TypeOK, OrphanedBy
<1>1. watchdog[p] # "on" /\ pc[p] \in {"holding", "failed", "ended"}
  BY DEF OrphanedBy, TypeOK, WatchdogInv
\* The calls of others find the lock taken.
<1>2. ASSUME NEW q \in Process, Main(q) \/ Work(q) \/ End(q)
      PROVE  ttl' = ttl /\ OrphanedBy(p)'
  <2>1. ~Trying(p) /\ ~Main(p) /\ ~Renew(p) /\ ~StopRenewing(p)
    BY <1>1 DEF Trying, Main, Renew, StopRenewing
  <2>2. ttl' = ttl /\ owner' = owner
    BY <1>0, <1>2, <2>1
    DEF Main, Work, GetLock, Wait, GetLockThrows, Renew, StopRenewing, End, TakeLock
  <2>3. \/ UNCHANGED <<pc[p], watchdog[p]>>
        \/ pc'[p] = "ended"
    BY <1>2, <2>1
    DEF Main, Work, GetLock, Wait, GetLockThrows, Renew, StopRenewing, End, TypeOK
  <2> QED
    BY <1>0, <2>2, <2>3 DEF OrphanedBy
<1>3. CASE Tick
  BY <1>0, <1>3 DEF Tick, Less, Ages, OrphanedBy
<1>4. CASE UNCHANGED vars
  <2>1. ttl' = ttl /\ OrphanedBy(p)'
    BY <1>0, <1>4 DEF vars, OrphanedBy
  <2> QED
    BY <1>0, <1>4, <2>1 DEF Ages, Tick, vars, Less
<1>5. CASE \E q \in Process : Main(q) \/ Work(q) \/ End(q)
  <2>1. ttl' = ttl /\ OrphanedBy(p)'
    BY <1>2, <1>5
  <2>2. ~Tick
    BY <1>0, <2>1 DEF Tick, Less
  <2> QED
    BY <1>0, <2>1, <2>2 DEF Ages
<1> QED
  BY <1>3, <1>4, <1>5 DEF Next

\* A lock whose owner has ended, has been refused, or has stopped to renew it is
\* free after what its record still has to live, at most the lease: each tick
\* brings it nearer to its end, and no call of anybody, of its owner neither,
\* gives it more time or another owner before.
THEOREM OrphansAge == Spec => [][\A p \in Process : Ages(p)]_vars
<1>1. Init => WatchdogInv
  BY DEF Init, WatchdogInv
<1>2. TypeOK /\ WatchdogInv /\ [Next]_vars => [\A p \in Process : Ages(p)]_vars
  BY StepAges
<1> QED
  BY <1>1, <1>2, StepWatchdog, LockTypeCorrect, PTL DEF Spec
==============================================================================
