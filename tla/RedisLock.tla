------------------------------ MODULE RedisLock ------------------------------
(***************************************************************************)
(* springboot-redisson: every run of the program takes the lock "test" by  *)
(* RedisLock.getLock and never gives it back.  Redisson and Redis are      *)
(* external: the lock has an owner and a time to live, a waiter sleeps as  *)
(* long as the lock had to live when it tried, and the watchdog of a       *)
(* process that has the lock renews it every Period.                       *)
(*                                                                         *)
(* Each start of the program is a process of its own, since Redisson       *)
(* draws a new client id; a restart is the next process.                   *)
(***************************************************************************)
EXTENDS Naturals

CONSTANTS
  Process,  \* runs of the program
  NoOne,
  Lease,    \* lockWatchdogTimeout, the time to live of a lock that was renewed
  Period    \* the watchdog's period, a third of it

ASSUME NoOneAssumption == NoOne \notin Process
ASSUME LeaseAssumption == Lease \in Nat /\ Period \in 1..Lease

VARIABLES
  pc,        \* what the main thread of every process is doing
  watchdog,  \* "stopped" once a renewal has thrown or has not found the lock
  since,     \* time since the last renewal, as long as the watchdog is on
  wait,      \* how long a waiter still sleeps
  owner,     \* the process whose id the lock's record has
  ttl        \* the time to live of that record

vars == <<pc, watchdog, since, wait, owner, ttl>>

TypeOK ==
  /\ pc \in [Process -> {"new", "acquiring", "waiting", "holding", "failed", "ended"}]
  /\ watchdog \in [Process -> {"off", "on", "stopped"}]
  /\ since \in [Process -> 0..Lease]
  /\ wait \in [Process -> 0..Lease]
  /\ owner \in Process \cup {NoOne}
  /\ ttl \in 0..Lease
  /\ owner = NoOne <=> ttl = 0

Init ==
  /\ pc = [p \in Process |-> "new"]
  /\ watchdog = [p \in Process |-> "off"]
  /\ since = [p \in Process |-> 0]
  /\ wait = [p \in Process |-> 0]
  /\ owner = NoOne
  /\ ttl = 0

-----------------------------------------------------------------------------
(* The program *)

\* The context is up; main asks for the lock.
Main(p) ==
  /\ pc[p] = "new"
  /\ pc' = [pc EXCEPT ![p] = "acquiring"]
  /\ UNCHANGED <<watchdog, since, wait, owner, ttl>>

\* Mutant: a waiter is woken by the message of an unlock only.
TryingOnce(p) == pc[p] = "acquiring"

\* lock() asks Redis for the lock, again whenever its sleep is over.
Trying(p) == pc[p] = "acquiring" \/ (pc[p] = "waiting" /\ wait[p] = 0)

\* What the script does that sets the owner, unless somebody else is.
TakeLock(p) ==
  /\ owner \in {NoOne, p}
  /\ owner' = p
  /\ ttl' = Lease

\* Mutant: lock(leaseTime, unit), for which Redisson starts no watchdog.
GetLockForLease(p) ==
  /\ Trying(p)
  /\ TakeLock(p)
  /\ pc' = [pc EXCEPT ![p] = "holding"]
  /\ UNCHANGED <<watchdog, since, wait>>

\* lock() returns with the lock and with the watchdog on; getLock and main
\* return, and nothing ever calls unlock.
GetLock(p) ==
  /\ Trying(p)
  /\ TakeLock(p)
  /\ pc' = [pc EXCEPT ![p] = "holding"]
  /\ watchdog' = [watchdog EXCEPT ![p] = "on"]
  /\ since' = [since EXCEPT ![p] = 0]
  /\ UNCHANGED wait

\* The lock is somebody else's: lock() sleeps as long as it has to live.
Wait(p) ==
  /\ Trying(p)
  /\ owner \notin {NoOne, p}
  /\ pc' = [pc EXCEPT ![p] = "waiting"]
  /\ wait' = [wait EXCEPT ![p] = ttl]
  /\ UNCHANGED <<watchdog, since, owner, ttl>>

\* Mutant: the watchdog starts before the outcome is known.
GetLockThrowsWatched(p) ==
  /\ Trying(p)
  /\ TakeLock(p) \/ UNCHANGED <<owner, ttl>>
  /\ pc' = [pc EXCEPT ![p] = "failed"]
  /\ watchdog' = [watchdog EXCEPT ![p] = "on"]
  /\ UNCHANGED <<since, wait>>

\* The call to Redis throws, out of getLock and main, and the process lives on
\* in Redisson's threads.  Redis may have done what it was asked.
GetLockThrows(p) ==
  /\ Trying(p)
  /\ TakeLock(p) \/ UNCHANGED <<owner, ttl>>
  /\ pc' = [pc EXCEPT ![p] = "failed"]
  /\ UNCHANGED <<watchdog, since, wait>>

-----------------------------------------------------------------------------
(* The watchdog *)

\* Mutant: the renewal adds to the time that is left.
RenewByAdding(p) ==
  /\ watchdog[p] = "on" /\ since[p] >= Period
  /\ owner = p
  /\ ttl' = ttl + Lease
  /\ since' = [since EXCEPT ![p] = 0]
  /\ UNCHANGED <<pc, watchdog, wait, owner>>

Renew(p) ==
  /\ watchdog[p] = "on" /\ since[p] >= Period
  /\ owner = p
  /\ ttl' = Lease
  /\ since' = [since EXCEPT ![p] = 0]
  /\ UNCHANGED <<pc, watchdog, wait, owner>>

\* The renewal comes too late, or throws, having been done or not: the
\* watchdog stops, and the program is not told.
StopRenewing(p) ==
  /\ watchdog[p] = "on" /\ since[p] >= Period
  /\ watchdog' = [watchdog EXCEPT ![p] = "stopped"]
  /\ since' = [since EXCEPT ![p] = 0]
  /\ ttl' \in {ttl} \cup {Lease : q \in {owner} \cap {p}}
  /\ UNCHANGED <<pc, wait, owner>>

-----------------------------------------------------------------------------
(* The environment *)

\* The process is shut down or crashes; neither gives the lock back.
End(p) ==
  /\ pc[p] \notin {"new", "ended"}
  /\ pc' = [pc EXCEPT ![p] = "ended"]
  /\ watchdog' = [watchdog EXCEPT ![p] = "off"]
  /\ since' = [since EXCEPT ![p] = 0]
  /\ wait' = [wait EXCEPT ![p] = 0]
  /\ UNCHANGED <<owner, ttl>>

Less(n) == IF n = 0 THEN 0 ELSE n - 1

\* Time passes, for Redis, which lets the record expire, and for the
\* processes.  A process may be late: time does not wait for a renewal.
Tick ==
  /\ ttl' = Less(ttl)
  /\ owner' = IF ttl' = 0 THEN NoOne ELSE owner
  /\ since' = [p \in Process |->
       IF watchdog[p] = "on" /\ since[p] < Lease THEN since[p] + 1 ELSE since[p]]
  /\ wait' = [p \in Process |-> Less(wait[p])]
  /\ UNCHANGED <<pc, watchdog>>

-----------------------------------------------------------------------------
\* The threads of p.
Work(p) ==
  GetLock(p) \/ Wait(p) \/ GetLockThrows(p) \/ Renew(p) \/ StopRenewing(p)

Next ==
  \/ Tick
  \/ \E p \in Process : Main(p) \/ Work(p) \/ End(p)

Spec == Init /\ [][Next]_vars

\* Time goes on, and in a process that lives each call to Redis returns or
\* throws.  Nobody has to start or to end.
FairSpec == Spec /\ WF_vars(Tick) /\ \A p \in Process : WF_vars(Work(p))
==============================================================================
