---------------------------- MODULE MCShiroLogin ----------------------------
(***************************************************************************)
(* Small instances of ShiroLogin for TLC.                                  *)
(***************************************************************************)
EXTENDS ShiroLoginProperties, TLC

CONSTANTS r1, r2, s1, s2, admin, member, guest

MCRole == {"admin", "test"}

\* An account with both roles and one with the role that is not available.
MCRolesOf == admin :> MCRole @@ member :> {"test"}

MCPermissionsOf ==
  [admin |-> {"userInfo:view", "userInfo:add"}, test |-> {"userInfo:del"}]

MCAvailable == {"admin"}

Symmetry == Permutations(Request) \cup Permutations(SessionId)
=============================================================================
