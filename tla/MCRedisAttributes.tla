-------------------------- MODULE MCRedisAttributes --------------------------
(***************************************************************************)
(* Small instances of RedisAttributes for TLC.                             *)
(***************************************************************************)
EXTENDS RedisAttributesProperties, TLC

CONSTANTS r1, r2, s1, s2, alice, bob

Symmetry == Permutations(Request)
==============================================================================
