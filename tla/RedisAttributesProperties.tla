---------------------- MODULE RedisAttributesProperties ----------------------
(***************************************************************************)
(* What the pages of the v2 controllers promise about the signed-in user,  *)
(* as a refinement of SignedInUser.                                        *)
(***************************************************************************)
EXTENDS RedisAttributes

UserOf(rec) == IF rec \in User THEN rec ELSE NULL

abstractUser == [s \in SessionId |-> UserOf(record[s])]

Abstract == INSTANCE SignedInUser WITH user <- abstractUser

ASSUME WishAssumption == NULL \notin Abstract!Wish

\* Requests of one session at once, with two calls to Redis in a sign-out and
\* calls that throw: what every answer says of the signed-in user was true at
\* one moment of its request, a sign-out that is answered has signed out, a
\* sign-in that is answered has signed in, one that has failed has signed in its
\* own user or nobody, and nothing else changes the user.  The profile shows the
\* fields of its user as they were, unless the conversion cannot read them.
ImplementsSignedInUser == Abstract!Spec

\* The pages for visitors, templates/index.html and signin.html, can be seen:
\* when Redis and the database answer, no page is an error.
NoErrorPage == \A r \in Request : answer[r] # NULL => answer[r].view # "error"
==============================================================================
