----------------------------- MODULE ShiroLogin -----------------------------
(***************************************************************************)
(* springboot-shiro: the filter chain of ShiroConfig, the controllers, and *)
(* MyShiroRealm.  Shiro takes the principal of a session when a request    *)
(* starts, writes it back to the session, and keeps it to the end of that  *)
(* request; the session itself may be invalidated by another request in    *)
(* the meantime, and every use of it then throws.                          *)
(***************************************************************************)
CONSTANTS
  Request,       \* slots of the container's threads
  SessionId,     \* ids of container sessions; one is given out again when no
                 \* request has the session it stood for
  Username,      \* what may be typed into the login form
  NULL,
  Role,
  RolesOf,       \* the roles of every account in the database
  PermissionsOf, \* the permissions of every role
  FailingCalls   \* {"db"} when the database may fail

Permission == {"userInfo:view", "userInfo:add", "userInfo:del"}
Account == DOMAIN RolesOf

ASSUME NameAssumption == NULL \notin Username /\ NULL \notin SessionId
ASSUME AccountAssumption ==
  /\ Account \subseteq Username
  /\ RolesOf \in [Account -> SUBSET Role]
  /\ PermissionsOf \in [Role -> SUBSET Permission]

VARIABLES
  live,       \* the sessions that are not invalidated
  username,   \* the attribute "username" of every session
  principal,  \* the user whom Shiro keeps in every session
  pc,         \* what the thread of every request is about to do
  page,       \* the handler of every request
  http,       \* the session of every request
  subject,    \* the principal of its Subject
  form,       \* the username in its form
  answer      \* the view it has returned, with the name in its model

sessionVars == <<live, username, principal>>
vars == <<sessionVars, pc, page, http, subject, form, answer>>

\* The pages with @RequiresPermissions.
Requires ==
  [userList |-> "userInfo:view", userAdd |-> "userInfo:add", userDel |-> "userInfo:del"]

ViewOf == [userList |-> "userInfo", userAdd |-> "userInfoAdd", userDel |-> "userInfoDel"]

\* The filter chain: "/logout" has a filter of its own, every other page but
\* the login page is for users.
UserPage == {"index", "logout2", "403"} \cup DOMAIN Requires
Page == UserPage \cup {"toLogin", "login", "logout"}

View == {"index", "login", "403", "userInfo", "userInfoAdd", "userInfoDel",
         "redirect:/", "redirect:/index", "redirect:/login", "error"}

Stage == {"idle", "resolved", "received", "admitted", "authenticating", "stopping", "answered"}

Answer == [view : View, name : Username \cup {NULL}]

TypeOK ==
  /\ live \in SUBSET SessionId
  /\ username \in [SessionId -> Username \cup {NULL}]
  /\ principal \in [SessionId -> Account \cup {NULL}]
  /\ pc \in [Request -> Stage]
  /\ page \in [Request -> Page \cup {NULL}]
  /\ http \in [Request -> SessionId \cup {NULL}]
  /\ subject \in [Request -> Account \cup {NULL}]
  /\ form \in [Request -> Username \cup {NULL}]
  /\ answer \in [Request -> Answer \cup {NULL}]

Init ==
  /\ live = {}
  /\ username = [s \in SessionId |-> NULL]
  /\ principal = [s \in SessionId |-> NULL]
  /\ pc = [r \in Request |-> "idle"]
  /\ page = [r \in Request |-> NULL]
  /\ http = [r \in Request |-> NULL]
  /\ subject = [r \in Request |-> NULL]
  /\ form = [r \in Request |-> NULL]
  /\ answer = [r \in Request |-> NULL]

-----------------------------------------------------------------------------
(* The servlet container and Shiro *)

At(r, p, stage) ==
  /\ pc[r] = stage
  /\ page[r] = p

Proceed(r, stage) ==
  /\ pc' = [pc EXCEPT ![r] = stage]
  /\ UNCHANGED <<page, subject, form, answer>>

Return(r, view, name) ==
  /\ pc' = [pc EXCEPT ![r] = "answered"]
  /\ answer' = [answer EXCEPT ![r] = [view |-> view, name |-> name]]
  /\ UNCHANGED <<page, subject, form>>

\* A request with cookie c: the Subject gets the principal of a live session.
Receive(r, p, c, u) ==
  /\ pc[r] = "idle"
  /\ (p = "login") <=> (u # NULL)
  /\ page' = [page EXCEPT ![r] = p]
  /\ form' = [form EXCEPT ![r] = u]
  /\ \/ /\ c \in live
        /\ pc' = [pc EXCEPT ![r] = "resolved"]
        /\ http' = [http EXCEPT ![r] = c]
        /\ subject' = [subject EXCEPT ![r] = principal[c]]
     \/ /\ c \notin live
        /\ pc' = [pc EXCEPT ![r] = "received"]
        /\ UNCHANGED <<http, subject>>
  /\ UNCHANGED <<sessionVars, answer>>

\* Subject.getSession() gives the live session s, a new one if there was none.
Opens(r, s) ==
  /\ \/ http[r] = s /\ s \in live
     \/ /\ http[r] = NULL
        /\ s \notin live
        /\ \A q \in Request : http[q] # s
  /\ live' = live \cup {s}
  /\ http' = [http EXCEPT ![r] = s]

\* The session was invalidated after the request had started: every use of it
\* throws an InvalidSessionException, which is no AuthenticationException.
Gone(r) ==
  /\ http[r] # NULL
  /\ http[r] \notin live

ThrowInvalidSession(r) ==
  /\ Gone(r)
  /\ Return(r, "error", NULL)
  /\ UNCHANGED <<sessionVars, http>>

\* The new Subject is saved: its principal, or that it has none, replaces what
\* the session has got since.
SaveSubject(r) ==
  /\ pc[r] = "resolved"
  /\ \/ /\ http[r] \in live
        /\ principal' = [principal EXCEPT ![http[r]] = subject[r]]
        /\ Proceed(r, "received")
        /\ UNCHANGED <<live, username, http>>
     \/ ThrowInvalidSession(r)

\* Subject.logout() removes the principal from the session.
RemovePrincipal(r) ==
  /\ principal' = [s \in SessionId |-> IF s = http[r] THEN NULL ELSE principal[s]]
  /\ Proceed(r, "stopping")
  /\ UNCHANGED <<live, username, http>>

StopKeepsSession(r) ==
  /\ principal' = [s \in SessionId |-> IF s = http[r] THEN NULL ELSE principal[s]]
  /\ UNCHANGED <<live, username, http>>

\* Then it invalidates the session; a session that is gone by now is none of
\* its business, since exceptions are caught.
Stop(r) ==
  /\ live' = live \ {http[r]}
  /\ username' = [s \in SessionId |-> IF s = http[r] THEN NULL ELSE username[s]]
  /\ principal' = [s \in SessionId |-> IF s = http[r] THEN NULL ELSE principal[s]]
  /\ UNCHANGED http

Finish(r) ==
  /\ pc[r] = "answered"
  /\ pc' = [pc EXCEPT ![r] = "idle"]
  /\ page' = [page EXCEPT ![r] = NULL]
  /\ http' = [http EXCEPT ![r] = NULL]
  /\ subject' = [subject EXCEPT ![r] = NULL]
  /\ form' = [form EXCEPT ![r] = NULL]
  /\ answer' = [answer EXCEPT ![r] = NULL]
  /\ UNCHANGED sessionVars

Expire(s) ==
  /\ s \in live
  /\ \A r \in Request : http[r] # s
  /\ live' = live \ {s}
  /\ username' = [username EXCEPT ![s] = NULL]
  /\ principal' = [principal EXCEPT ![s] = NULL]
  /\ UNCHANGED <<pc, page, http, subject, form, answer>>

-----------------------------------------------------------------------------
(* ShiroConfig.shiroFilter *)

\* Without a user, the filter "user" saves the request in the session and
\* redirects to the login page.
Deny(r) ==
  /\ pc[r] = "received" /\ page[r] \in UserPage
  /\ subject[r] = NULL
  /\ \/ /\ \E s \in SessionId : Opens(r, s)
        /\ Return(r, "redirect:/login", NULL)
        /\ UNCHANGED <<username, principal>>
     \/ ThrowInvalidSession(r)

AdmitAnyoneToIndex(r) ==
  /\ pc[r] = "received" /\ page[r] \in UserPage
  /\ subject[r] # NULL \/ page[r] = "index"
  /\ \/ /\ ~Gone(r)
        /\ Proceed(r, "admitted")
        /\ UNCHANGED <<sessionVars, http>>
     \/ ThrowInvalidSession(r)

\* With a user, it lets the request pass, if the session is still there.
Admit(r) ==
  /\ pc[r] = "received" /\ page[r] \in UserPage
  /\ subject[r] # NULL
  /\ \/ /\ ~Gone(r)
        /\ Proceed(r, "admitted")
        /\ UNCHANGED <<sessionVars, http>>
     \/ ThrowInvalidSession(r)

\* The filter "logout" catches what logout() throws for a session that is gone.
LogoutFilter(r) ==
  \/ At(r, "logout", "received") /\ RemovePrincipal(r)
  \/ At(r, "logout", "stopping") /\ Stop(r) /\ Return(r, "redirect:/", NULL)

-----------------------------------------------------------------------------
(* The realm *)

AuthenticatesAnyone(name, password) == password = "right"

\* doGetAuthenticationInfo finds the user and the password matches.
Authenticates(name, password) == name \in Account /\ password = "right"

\* A failure of the database comes as an AuthenticationException, too.
AuthenticationFails(name, password) ==
  ~Authenticates(name, password) \/ "db" \in FailingCalls

\* doGetAuthorizationInfo: the permissions of all roles.
Permissions(user) == UNION {PermissionsOf[role] : role \in RolesOf[user]}

-----------------------------------------------------------------------------
(* The controllers *)

ToLogin(r) ==
  /\ At(r, "toLogin", "received")
  /\ Return(r, "login", NULL)
  /\ UNCHANGED <<sessionVars, http>>

StoreNameOfNewSession(r) ==
  /\ At(r, "login", "received")
  /\ \/ /\ \E s \in SessionId :
             /\ Opens(r, s)
             /\ username' = IF http[r] = NULL THEN [username EXCEPT ![s] = form[r]] ELSE username
        /\ Proceed(r, "authenticating")
        /\ UNCHANGED principal
     \/ ThrowInvalidSession(r)

\* login stores the name from the form before it knows the user.
StoreName(r) ==
  /\ At(r, "login", "received")
  /\ \/ /\ \E s \in SessionId : Opens(r, s) /\ username' = [username EXCEPT ![s] = form[r]]
        /\ Proceed(r, "authenticating")
        /\ UNCHANGED principal
     \/ ThrowInvalidSession(r)

LoginRevives(r, password) ==
  /\ At(r, "login", "authenticating")
  /\ \/ /\ Authenticates(form[r], password)
        /\ principal' = [principal EXCEPT ![http[r]] = form[r]]
        /\ Return(r, "redirect:/index", NULL)
        /\ UNCHANGED <<live, username, http>>
     \/ /\ AuthenticationFails(form[r], password)
        /\ Return(r, "redirect:/index", NULL)
        /\ UNCHANGED <<sessionVars, http>>

\* A login that fails is answered like one that succeeds, and leaves in the
\* session whoever was signed in before.
Login(r, password) ==
  /\ At(r, "login", "authenticating")
  /\ \/ /\ Authenticates(form[r], password)
        /\ http[r] \in live
        /\ principal' = [principal EXCEPT ![http[r]] = form[r]]
        /\ Return(r, "redirect:/index", NULL)
        /\ UNCHANGED <<live, username, http>>
     \/ Authenticates(form[r], password) /\ ThrowInvalidSession(r)
     \/ /\ AuthenticationFails(form[r], password)
        /\ Return(r, "redirect:/index", NULL)
        /\ UNCHANGED <<sessionVars, http>>

\* index greets with the name in the session, not with the principal's, and
\* does not ask whether there is a principal.
Index(r) ==
  /\ At(r, "index", "admitted")
  /\ \/ /\ ~Gone(r)
        /\ IF subject[r] = NULL
           THEN Return(r, "error", NULL)
           ELSE Return(r, "index", username[http[r]])
        /\ UNCHANGED <<sessionVars, http>>
     \/ ThrowInvalidSession(r)

\* LogoutController catches no InvalidSessionException.
Logout(r) ==
  \/ /\ At(r, "logout2", "admitted")
     /\ (~Gone(r) /\ RemovePrincipal(r)) \/ ThrowInvalidSession(r)
  \/ At(r, "logout2", "stopping") /\ Stop(r) /\ Return(r, "redirect:/login", NULL)

UnauthorizedRole(r) ==
  /\ At(r, "403", "admitted")
  /\ Return(r, "403", NULL)
  /\ UNCHANGED <<sessionVars, http>>

\* UserInfoController; an UnauthorizedException is mapped to the page 403.
UserInfo(r, p) ==
  /\ At(r, p, "admitted")
  /\ \/ /\ ~Gone(r)
        /\ Return(r, IF Requires[p] \in Permissions(subject[r]) THEN ViewOf[p] ELSE "403", NULL)
        /\ UNCHANGED <<sessionVars, http>>
     \/ ThrowInvalidSession(r)

Handle(r) ==
  \/ SaveSubject(r) \/ Deny(r) \/ Admit(r) \/ LogoutFilter(r)
  \/ ToLogin(r) \/ StoreName(r)
  \/ \E password \in {"right", "wrong"} : Login(r, password)
  \/ Index(r) \/ Logout(r) \/ UnauthorizedRole(r)
  \/ \E p \in DOMAIN Requires : UserInfo(r, p)

Next ==
  \/ \E r \in Request :
       \/ \E p \in Page, c \in SessionId \cup {NULL}, u \in Username \cup {NULL} :
            Receive(r, p, c, u)
       \/ Handle(r)
       \/ Finish(r)
  \/ \E s \in SessionId : Expire(s)

Spec == Init /\ [][Next]_vars
=============================================================================
