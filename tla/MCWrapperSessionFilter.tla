----------------------- MODULE MCWrapperSessionFilter -----------------------
(***************************************************************************)
(* Small instances of WrapperSessionFilter for TLC.                        *)
(***************************************************************************)
EXTENDS WrapperSessionProperties, SessionConfigFactory, TLC

CONSTANTS b1, b2, r1, r2, s1, s2, s3, alice, ann, bob

\* alice and ann are accounts of the person at b1, bob of the one at b2.
MCAccountOf == [u \in User |-> IF u = bob THEN b2 ELSE b1]

\* Every handler of the controllers stores under __user__ only; sessionId and
\* captcha stand for a read-only name and one that is not configured.
MCHandlerName == {"__user__", "sessionId", "captcha"}

Symmetry == Permutations(Request) \cup Permutations(SessionId)
=============================================================================
