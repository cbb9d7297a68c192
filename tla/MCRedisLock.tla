----------------------------- MODULE MCRedisLock -----------------------------
(***************************************************************************)
(* A small instance of RedisLock for TLC.                                  *)
(***************************************************************************)
EXTENDS RedisLockProperties

CONSTANTS p1, p2, p3
==============================================================================
