---------------------------- MODULE SignedInUser ----------------------------
(***************************************************************************)
(* What the pages promise about the user who is signed in: a session holds *)
(* at most one user, and every request reads or replaces that user at one  *)
(* moment between its arrival and its answer.  An answer makes a claim, a  *)
(* set of users (NULL for nobody) with the one who was signed in at that   *)
(* moment; an error claims nothing, so its set holds them all.  The empty  *)
(* set is the claim of a sign-in that has failed: it has changed nothing.  *)
(***************************************************************************)
CONSTANTS Request, SessionId, User, NULL

VARIABLES
  user,   \* who is signed in, for every session
  asked,  \* what every request wants, NULL when there is none
  claim   \* what its answer claims, NULL before there is one

Anyone == User \cup {NULL}

\* The wish of a request: "view", "signout", or to sign in as a given user.
Wish == [session : SessionId, kind : {"view", "signout", "signin"}, as : Anyone]

Init ==
  /\ user = [s \in SessionId |-> NULL]
  /\ asked = [r \in Request |-> NULL]
  /\ claim = [r \in Request |-> NULL]

Ask(r, wish) ==
  /\ asked[r] = NULL
  /\ asked' = [asked EXCEPT ![r] = wish]
  /\ UNCHANGED <<user, claim>>

\* The moment of a request: "new" is signed in from now on.
Answer(r, kind, new, c) ==
  /\ asked[r] # NULL
  /\ asked[r].kind = kind
  /\ claim[r] = NULL
  /\ new \in c
  /\ user' = [user EXCEPT ![asked[r].session] = new]
  /\ claim' = [claim EXCEPT ![r] = c]
  /\ UNCHANGED asked

View(r) ==
  \E c \in SUBSET Anyone : Answer(r, "view", user[asked[r].session], c)

\* With the empty claim nobody is signed in or out.
Refuse(r) ==
  /\ asked[r] # NULL
  /\ asked[r].kind = "signin"
  /\ claim[r] = NULL
  /\ claim' = [claim EXCEPT ![r] = {}]
  /\ UNCHANGED <<user, asked>>

\* A sign-in that says neither that it worked nor that it failed may have done
\* either.
Signin(r) ==
  \/ \E c \in SUBSET Anyone : Answer(r, "signin", asked[r].as, c)
  \/ Answer(r, "signin", user[asked[r].session], Anyone)
  \/ Refuse(r)

Signout(r) ==
  \/ \E c \in SUBSET Anyone : Answer(r, "signout", NULL, c)
  \/ Answer(r, "signout", user[asked[r].session], Anyone)

Done(r) ==
  /\ asked' = [asked EXCEPT ![r] = NULL]
  /\ claim' = [claim EXCEPT ![r] = NULL]
  /\ UNCHANGED user

Forget(s) ==
  /\ user' = [user EXCEPT ![s] = NULL]
  /\ UNCHANGED <<asked, claim>>

Next ==
  \/ \E r \in Request : \/ \E wish \in Wish : Ask(r, wish)
                        \/ View(r) \/ Signin(r) \/ Signout(r) \/ Done(r)
  \/ \E s \in SessionId : Forget(s)

Spec == Init /\ [][Next]_<<user, asked, claim>>
=============================================================================
