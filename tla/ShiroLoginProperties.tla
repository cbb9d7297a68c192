------------------------ MODULE ShiroLoginProperties ------------------------
(***************************************************************************)
(* What logging in and out promises while requests of a session overlap.   *)
(***************************************************************************)
EXTENDS ShiroLogin

CONSTANT Available  \* the roles with SysRole.available

\* A logout is final: a login of the same session that is under way does not
\* sign in the session that the logout has invalidated, and the next session
\* starts without a name and without a user.
InvalidatedIsEmpty ==
  \A s \in SessionId \ live : username[s] = NULL /\ principal[s] = NULL

\* Whoever is signed in has a name for index to greet: the name is stored
\* before the user, also before an older user whom a request writes back.
SignedInHasName ==
  \A s \in SessionId : principal[s] # NULL => username[s] # NULL

\* The page index is for users with a name: it meets no Subject without a
\* principal, although login redirects to it also when it has failed, and it
\* fails only for a request whose session was invalidated meanwhile.
IndexFindsUser ==
  \A r \in Request :
    page[r] = "index" /\ answer[r] # NULL =>
      /\ answer[r].view = "index" => answer[r].name # NULL
      /\ answer[r].view = "error" => Gone(r)

\* Once a logout is answered, a request of its session that has taken its
\* Subject before, and may be past the filter, is no longer shown a page that
\* greets or that needs a permission: the principal in its Subject outlives the
\* one in the session, but not the session.  (To logout2 only users get.)
LoggedOut(q) ==
  /\ page[q] = "logout" \/ (page[q] = "logout2" /\ subject[q] # NULL)
  /\ pc[q] = "answered" /\ answer[q].view # "error"

LogoutShutsOut ==
  [][\A q, r \in Request :
       LoggedOut(q) /\ http[q] = http[r] /\ http[r] # NULL /\ answer[r] = NULL =>
         answer'[r] = NULL \/ answer'[r].view \notin {"index", "userInfo", "userInfoAdd", "userInfoDel"}]_vars

\* A page that requires a permission is shown to users who have it by a role
\* that is available: SysRole.available, "not added to the user if it is not".
AvailableRolesOnly ==
  \A r \in Request :
    answer[r] # NULL /\ answer[r].view \in {"userInfo", "userInfoAdd", "userInfoDel"} =>
      \E role \in RolesOf[subject[r]] \cap Available : Requires[page[r]] \in PermissionsOf[role]
=============================================================================
