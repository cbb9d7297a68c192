-------------------------- MODULE ShiroLoginProofs --------------------------
(***************************************************************************)
(* The properties of springboot-shiro for every number of requests and     *)
(* sessions, any accounts, roles and permissions.                          *)
(***************************************************************************)
EXTENDS ShiroLoginProperties, TLAPS

\* A session of a request has a name for as long as it is alive.
HasName(r) ==
  /\ http[r] \in SessionId
  /\ http[r] \in live => username[http[r]] # NULL

\* What a request may rely on at every stage of its work.
StageInv(r) ==
  /\ pc[r] = "idle" => http[r] = NULL /\ subject[r] = NULL
  /\ pc[r] # "idle" /\ page[r] = "login" => form[r] \in Username
  /\ pc[r] = "resolved" => http[r] \in SessionId
  /\ pc[r] = "admitted" => subject[r] # NULL
  /\ pc[r] = "authenticating" => HasName(r)
  /\ pc[r] # "answered" => answer[r] = NULL

\* A Subject with a principal was made from a session with a name.
SubjectInv(r) == subject[r] # NULL => HasName(r)

\* An answered logout has left no session.
LogoutInv(r) == LoggedOut(r) => http[r] \notin live

\* The part of IndexFindsUser that is about r.
IndexInv(r) ==
  page[r] = "index" /\ answer[r] # NULL =>
    /\ answer[r].view = "index" => answer[r].name # NULL
    /\ answer[r].view = "error" => Gone(r)

RequestInv(r) == StageInv(r) /\ SubjectInv(r) /\ LogoutInv(r) /\ IndexInv(r)

IInv ==
  /\ TypeOK /\ InvalidatedIsEmpty /\ SignedInHasName
  /\ \A r \in Request : RequestInv(r)

-----------------------------------------------------------------------------
(* The other requests *)

\* What a step of r leaves to the others: their own state, no session that was
\* gone for them, and a name in every session that had one.
Others(r) ==
  /\ \A q \in Request \ {r} :
       /\ pc'[q] = pc[q] /\ page'[q] = page[q] /\ form'[q] = form[q]
       /\ http'[q] = http[q] /\ subject'[q] = subject[q] /\ answer'[q] = answer[q]
       /\ http[q] \in live' => http[q] \in live
  /\ \A s \in live' : s \in live /\ username[s] # NULL => username'[s] # NULL

\* That is enough for what they rely on.
LEMMA OthersKeep ==
  ASSUME NEW r \in Request, Others(r), NEW q \in Request \ {r}, RequestInv(q)
  PROVE  RequestInv(q)'
<1>1. HasName(q) => HasName(q)'
  BY DEF Others, HasName
<1>2. StageInv(q)' /\ SubjectInv(q)'
  BY <1>1 DEF Others, RequestInv, StageInv, SubjectInv
<1>3. LogoutInv(q)'
  BY DEF Others, RequestInv, LogoutInv, LoggedOut
<1>4. IndexInv(q)'
  BY DEF Others, RequestInv, IndexInv, Gone
<1> QED
  BY <1>2, <1>3, <1>4 DEF RequestInv

-----------------------------------------------------------------------------
(* The invariant *)

\* Initially there are no sessions and no request is at work.
LEMMA InitInv == Init => IInv
  BY DEF Init, IInv, TypeOK, Stage, InvalidatedIsEmpty, SignedInHasName, RequestInv, StageInv,
         SubjectInv, LogoutInv, LoggedOut, IndexInv

\* Answering changes nothing of the sessions; what the answer may be depends
\* on the page.
LEMMA AnswerStep ==
  ASSUME IInv, NEW r \in Request, pc[r] # "idle", NEW view \in View,
         NEW name \in Username \cup {NULL}, Return(r, view, name), UNCHANGED <<sessionVars, http>>,
         page[r] = "index" => /\ view = "index" => name # NULL
                              /\ view = "error" => Gone(r),
         page[r] = "logout" \/ (page[r] = "logout2" /\ subject[r] # NULL) => view = "error"
  PROVE  IInv'
<1> USE DEF Return, sessionVars
<1>1. [view |-> view, name |-> name] \in Answer
  BY DEF Answer
<1>2. TypeOK'
  BY <1>1 DEF IInv, TypeOK, Stage
<1>3. InvalidatedIsEmpty' /\ SignedInHasName'
  BY DEF IInv, InvalidatedIsEmpty, SignedInHasName
<1>4. pc'[r] = "answered" /\ answer'[r] = [view |-> view, name |-> name] /\ Others(r)
  BY DEF IInv, TypeOK, Others
<1>5. StageInv(r)' /\ SubjectInv(r)'
  BY <1>4 DEF IInv, RequestInv, StageInv, SubjectInv, HasName
<1>6. LogoutInv(r)' /\ IndexInv(r)'
  BY <1>4 DEF LogoutInv, LoggedOut, IndexInv, Gone
<1> QED
  BY <1>2, <1>3, <1>4, <1>5, <1>6, OthersKeep DEF IInv, RequestInv

\* The error page for a session that is gone.
LEMMA ThrowStep ==
  ASSUME IInv, NEW r \in Request, pc[r] # "idle", ThrowInvalidSession(r)
  PROVE  IInv'
  BY AnswerStep DEF ThrowInvalidSession, View

\* The first step of a logout leaves the session and its name.
LEMMA RemoveStep ==
  ASSUME IInv, NEW r \in Request, pc[r] # "idle", pc[r] # "answered", RemovePrincipal(r)
  PROVE  IInv'
<1> USE DEF RemovePrincipal, Proceed
<1>1. TypeOK'
  BY DEF IInv, TypeOK, Stage
<1>2. InvalidatedIsEmpty' /\ SignedInHasName'
  BY DEF IInv, InvalidatedIsEmpty, SignedInHasName
<1>3. pc'[r] = "stopping" /\ Others(r)
  BY DEF IInv, TypeOK, Others
<1>4. RequestInv(r)'
  BY <1>3 DEF IInv, RequestInv, StageInv, SubjectInv, HasName, LogoutInv, LoggedOut, IndexInv
<1> QED
  BY <1>1, <1>2, <1>3, <1>4, OthersKeep DEF IInv

\* The second one invalidates the session, whoever else uses it.
LEMMA StopStep ==
  ASSUME IInv, NEW r \in Request, page[r] # "index", NEW view \in View,
         pc[r] # "idle", Stop(r), Return(r, view, NULL)
  PROVE  IInv'
<1> USE DEF Return, Stop
<1>1. [view |-> view, name |-> NULL] \in Answer
  BY DEF Answer
<1>2. TypeOK'
  BY <1>1 DEF IInv, TypeOK, Stage
<1>3. InvalidatedIsEmpty' /\ SignedInHasName'
  BY DEF IInv, InvalidatedIsEmpty, SignedInHasName
<1>4. \A s \in live' : username'[s] = username[s] /\ s \in live
  BY DEF IInv, TypeOK
<1>5. pc'[r] = "answered" /\ http'[r] \notin live' /\ Others(r)
  BY <1>4 DEF IInv, TypeOK, Others
<1>6. RequestInv(r)'
  BY <1>5 DEF IInv, RequestInv, StageInv, SubjectInv, HasName, LogoutInv, IndexInv
<1> QED
  BY <1>2, <1>3, <1>5, <1>6, OthersKeep DEF IInv

\* Opening a session gives no other request that session.
LEMMA OpenStep ==
  ASSUME IInv, NEW r \in Request, NEW s \in SessionId, Opens(r, s)
  PROVE  /\ live' \in SUBSET SessionId /\ live' = live \cup {s}
         /\ http' \in [Request -> SessionId \cup {NULL}]
         /\ http'[r] = s
         /\ \A q \in Request \ {r} : http'[q] = http[q] /\ (http[q] \in live' => http[q] \in live)
         /\ subject[r] # NULL => s \in live /\ http[r] = s
<1>1. /\ live' = live \cup {s} /\ http' = [http EXCEPT ![r] = s]
      /\ \/ http[r] = s /\ s \in live
         \/ http[r] = NULL /\ \A q \in Request : http[q] # s
  BY DEF Opens
<1>2. /\ live' \in SUBSET SessionId
      /\ http' \in [Request -> SessionId \cup {NULL}]
      /\ http'[r] = s
      /\ \A q \in Request \ {r} : http'[q] = http[q] /\ (http[q] \in live' => http[q] \in live)
  BY <1>1 DEF IInv, TypeOK
<1>3. subject[r] # NULL => s \in live /\ http[r] = s
  BY <1>1, NameAssumption DEF IInv, RequestInv, SubjectInv, HasName
<1> QED
  BY <1>1, <1>2, <1>3

\* A request passes a filter: nothing changes but its stage.
LEMMA AdmitStep ==
  ASSUME IInv, NEW r \in Request, subject[r] # NULL, pc[r] = "received",
         Proceed(r, "admitted"), UNCHANGED <<sessionVars, http>>
  PROVE  IInv'
<1> USE DEF Proceed, sessionVars
<1>1. TypeOK' /\ InvalidatedIsEmpty' /\ SignedInHasName'
  BY DEF IInv, TypeOK, Stage, InvalidatedIsEmpty, SignedInHasName
<1>2. pc'[r] = "admitted" /\ Others(r)
  BY DEF IInv, TypeOK, Others
<1>3. RequestInv(r)'
  BY <1>2 DEF IInv, RequestInv, StageInv, SubjectInv, HasName, LogoutInv, LoggedOut, IndexInv
<1> QED
  BY <1>1, <1>2, <1>3, OthersKeep DEF IInv

\* Writing back an older Subject gives the session no user without a name.
LEMMA SaveStep ==
  ASSUME IInv, NEW r \in Request, SaveSubject(r)
  PROVE  IInv'
<1>1. pc[r] = "resolved" /\ http[r] \in SessionId
  BY DEF SaveSubject, IInv, RequestInv, StageInv
<1>2. CASE /\ http[r] \in live
           /\ principal' = [principal EXCEPT ![http[r]] = subject[r]]
           /\ Proceed(r, "received")
           /\ UNCHANGED <<live, username, http>>
  <2> USE DEF Proceed
  <2>1. /\ principal'[http[r]] = subject[r]
        /\ \A s \in SessionId \ {http[r]} : principal'[s] = principal[s]
    BY <1>1, <1>2 DEF IInv, TypeOK
  <2>2. TypeOK'
    BY <1>1, <1>2 DEF IInv, TypeOK, Stage
  <2>3. InvalidatedIsEmpty' /\ SignedInHasName'
    BY <1>1, <1>2, <2>1 DEF IInv, InvalidatedIsEmpty, SignedInHasName, RequestInv, SubjectInv, HasName
  <2>4. pc'[r] = "received" /\ Others(r)
    BY <1>2 DEF IInv, TypeOK, Others
  <2>5. RequestInv(r)'
    BY <1>1, <1>2, <2>4
    DEF IInv, RequestInv, StageInv, SubjectInv, HasName, LogoutInv, LoggedOut, IndexInv
  <2> QED
    BY <2>2, <2>3, <2>4, <2>5, OthersKeep DEF IInv
<1> QED
  BY <1>1, <1>2, ThrowStep DEF SaveSubject

\* The filter "user" sends a visitor to the login page, with a session.
LEMMA DenyStep ==
  ASSUME IInv, NEW r \in Request, Deny(r)
  PROVE  IInv'
<1>1. pc[r] = "received" /\ subject[r] = NULL /\ page[r] # "logout"
  BY DEF Deny, UserPage, Requires
<1>2. ASSUME NEW s \in SessionId, Opens(r, s), Return(r, "redirect:/login", NULL),
             UNCHANGED <<username, principal>>
      PROVE  IInv'
  <2>1. [view |-> "redirect:/login", name |-> NULL] \in Answer
    BY DEF Answer, View
  <2>2. UNCHANGED <<page, subject, form>> /\ pc' = [pc EXCEPT ![r] = "answered"]
        /\ answer' = [answer EXCEPT ![r] = [view |-> "redirect:/login", name |-> NULL]]
    BY <1>2 DEF Return
  <2>3. TypeOK'
    BY <1>2, <2>1, <2>2, OpenStep DEF IInv, TypeOK, Stage
  <2>4. InvalidatedIsEmpty' /\ SignedInHasName'
    BY <1>2, OpenStep DEF IInv, InvalidatedIsEmpty, SignedInHasName
  <2>5. /\ pc'[r] = "answered" /\ subject'[r] = NULL /\ page'[r] # "logout"
        /\ answer'[r] = [view |-> "redirect:/login", name |-> NULL]
    BY <1>1, <2>2 DEF IInv, TypeOK
  <2>6. Others(r)
    BY <1>2, <2>2, OpenStep DEF IInv, TypeOK, Others
  <2>7. RequestInv(r)'
    BY <1>1, <2>2, <2>5 DEF IInv, RequestInv, StageInv, SubjectInv, LogoutInv, LoggedOut, IndexInv
  <2> QED
    BY <2>3, <2>4, <2>6, <2>7, OthersKeep DEF IInv
<1> QED
  BY <1>1, <1>2, ThrowStep DEF Deny

\* The name is stored before anybody is signed in.
LEMMA StoreNameStep ==
  ASSUME IInv, NEW r \in Request, StoreName(r)
  PROVE  IInv'
<1>1. pc[r] = "received" /\ page[r] = "login" /\ form[r] \in Username /\ form[r] # NULL
  BY NameAssumption DEF StoreName, At, IInv, RequestInv, StageInv
<1>2. ASSUME NEW s \in SessionId, Opens(r, s), username' = [username EXCEPT ![s] = form[r]],
             Proceed(r, "authenticating"), UNCHANGED principal
      PROVE  IInv'
  <2> USE DEF Proceed
  <2>1. username'[s] # NULL /\ \A t \in SessionId \ {s} : username'[t] = username[t]
    BY <1>1, <1>2 DEF IInv, TypeOK
  <2>2. TypeOK'
    BY <1>1, <1>2, OpenStep DEF IInv, TypeOK, Stage
  <2>3. InvalidatedIsEmpty' /\ SignedInHasName'
    BY <1>2, <2>1, OpenStep DEF IInv, InvalidatedIsEmpty, SignedInHasName
  <2>4. pc'[r] = "authenticating" /\ http'[r] = s
    BY <1>2, OpenStep DEF IInv, TypeOK
  <2>5. live' \in SUBSET SessionId
    BY <1>2, OpenStep
  <2>6. Others(r)
    BY <1>2, <2>1, <2>5, OpenStep DEF IInv, TypeOK, Others
  <2>7. RequestInv(r)'
    BY <1>1, <1>2, <2>1, <2>4
    DEF IInv, RequestInv, StageInv, SubjectInv, HasName, LogoutInv, LoggedOut, IndexInv
  <2> QED
    BY <2>2, <2>3, <2>6, <2>7, OthersKeep DEF IInv
<1> QED
  BY <1>1, <1>2, ThrowStep DEF StoreName

\* A login signs in a session that is alive and has a name, or none.
LEMMA LoginStep ==
  ASSUME IInv, NEW r \in Request, NEW password \in {"right", "wrong"}, Login(r, password)
  PROVE  IInv'
<1>1. pc[r] = "authenticating" /\ page[r] = "login" /\ HasName(r)
  BY DEF Login, At, IInv, RequestInv, StageInv
<1>2. CASE /\ Authenticates(form[r], password)
           /\ http[r] \in live
           /\ principal' = [principal EXCEPT ![http[r]] = form[r]]
           /\ Return(r, "redirect:/index", NULL)
           /\ UNCHANGED <<live, username, http>>
  <2>1. form[r] \in Account
    BY <1>2 DEF Authenticates
  <2>2. [view |-> "redirect:/index", name |-> NULL] \in Answer
    BY DEF Answer, View
  <2>3. UNCHANGED <<page, subject, form>> /\ pc' = [pc EXCEPT ![r] = "answered"]
        /\ answer' = [answer EXCEPT ![r] = [view |-> "redirect:/index", name |-> NULL]]
    BY <1>2 DEF Return
  <2>4. \A t \in SessionId \ {http[r]} : principal'[t] = principal[t]
    BY <1>1, <1>2 DEF HasName, IInv, TypeOK
  <2>5. TypeOK'
    BY <1>1, <1>2, <2>1, <2>2, <2>3 DEF IInv, TypeOK, Stage
  <2>6. InvalidatedIsEmpty' /\ SignedInHasName'
    BY <1>1, <1>2, <2>4 DEF HasName, IInv, InvalidatedIsEmpty, SignedInHasName
  <2>7. pc'[r] = "answered" /\ page'[r] = "login" /\ Others(r)
    BY <1>1, <1>2, <2>3 DEF IInv, TypeOK, Others
  <2>8. RequestInv(r)'
    BY <1>1, <1>2, <2>3, <2>7
    DEF IInv, RequestInv, StageInv, SubjectInv, HasName, LogoutInv, LoggedOut, IndexInv
  <2> QED
    BY <2>5, <2>6, <2>7, <2>8, OthersKeep DEF IInv
<1>3. CASE Return(r, "redirect:/index", NULL) /\ UNCHANGED <<sessionVars, http>>
  BY <1>1, <1>3, AnswerStep DEF View
<1> QED
  BY <1>1, <1>2, <1>3, ThrowStep DEF Login

\* index finds a user, and in a session that is alive a name.
LEMMA IndexStep ==
  ASSUME IInv, NEW r \in Request, Index(r)
  PROVE  IInv'
<1>1. pc[r] = "admitted" /\ page[r] = "index" /\ subject[r] # NULL /\ HasName(r)
  BY DEF Index, At, IInv, RequestInv, StageInv, SubjectInv
<1>2. CASE ~Gone(r) /\ Return(r, "index", username[http[r]]) /\ UNCHANGED <<sessionVars, http>>
  <2>1. username[http[r]] \in Username \cup {NULL} /\ username[http[r]] # NULL
    BY <1>1, <1>2, NameAssumption DEF HasName, Gone, IInv, TypeOK
  <2> QED
    BY <1>1, <1>2, <2>1, AnswerStep DEF View
<1> QED
  BY <1>1, <1>2, ThrowStep DEF Index

\* A page with a permission is shown, or the page 403, or the error page.
LEMMA UserInfoStep ==
  ASSUME IInv, NEW r \in Request, NEW p \in DOMAIN Requires, UserInfo(r, p)
  PROVE  IInv'
<1>1. pc[r] = "admitted" /\ page[r] \notin {"index", "logout", "logout2"}
  BY DEF UserInfo, At, Requires
<1>2. ViewOf[p] \in View /\ "403" \in View
  BY DEF ViewOf, Requires, View
<1>3. CASE \E view \in {ViewOf[p], "403"} : Return(r, view, NULL) /\ UNCHANGED <<sessionVars, http>>
  BY <1>1, <1>2, <1>3, AnswerStep
<1> QED
  BY <1>1, <1>3, ThrowStep DEF UserInfo

\* A step of the filters or of a controller keeps the invariant.
LEMMA HandleInv ==
  ASSUME IInv, NEW r \in Request, Handle(r)
  PROVE  IInv'
<1>1. CASE Admit(r)
  BY <1>1, AdmitStep, ThrowStep DEF Admit
<1>2. CASE LogoutFilter(r)
  BY <1>2, RemoveStep, StopStep DEF LogoutFilter, At, View
<1>3. CASE Logout(r)
  BY <1>3, RemoveStep, StopStep, ThrowStep DEF Logout, At, View
<1>4. CASE ToLogin(r) \/ UnauthorizedRole(r)
  BY <1>4, AnswerStep DEF ToLogin, UnauthorizedRole, At, View
<1> QED
  BY <1>1, <1>2, <1>3, <1>4, SaveStep, DenyStep, StoreNameStep, LoginStep, IndexStep, UserInfoStep
  DEF Handle

\* Every step keeps the invariant.
LEMMA StepInv == IInv /\ [Next]_vars => IInv'
<1> SUFFICES ASSUME IInv, [Next]_vars PROVE IInv'
  OBVIOUS
<1>1. ASSUME NEW r \in Request, NEW p \in Page, NEW c \in SessionId \cup {NULL},
             NEW u \in Username \cup {NULL}, Receive(r, p, c, u)
      PROVE  IInv'
  <2>1. UNCHANGED <<sessionVars, answer>> /\ pc[r] = "idle" /\ (p = "login" => u \in Username)
        /\ page' = [page EXCEPT ![r] = p]
        /\ form' = [form EXCEPT ![r] = u]
    BY <1>1 DEF Receive
  <2>2. http[r] = NULL /\ subject[r] = NULL /\ answer[r] = NULL
    BY <2>1 DEF IInv, RequestInv, StageInv
  <2>3. PICK stage \in {"resolved", "received"} :
          /\ pc' = [pc EXCEPT ![r] = stage]
          /\ stage = "resolved" => http'[r] \in SessionId
    BY <1>1 DEF Receive, IInv, TypeOK
  <2>4. /\ http' \in [Request -> SessionId \cup {NULL}]
        /\ subject' \in [Request -> Account \cup {NULL}]
        /\ \A q \in Request \ {r} : http'[q] = http[q] /\ subject'[q] = subject[q]
        /\ subject'[r] # NULL => http'[r] \in live /\ subject'[r] = principal[http'[r]]
    BY <1>1, <2>2 DEF Receive, IInv, TypeOK
  <2>5. TypeOK'
    BY <2>1, <2>3, <2>4 DEF IInv, TypeOK, Stage, sessionVars
  <2>6. InvalidatedIsEmpty' /\ SignedInHasName'
    BY <2>1 DEF IInv, InvalidatedIsEmpty, SignedInHasName, sessionVars
  <2>7. Others(r)
    BY <2>1, <2>3, <2>4 DEF IInv, TypeOK, Others, sessionVars
  <2>8. SubjectInv(r)'
    BY <2>1, <2>4 DEF SubjectInv, HasName, IInv, TypeOK, SignedInHasName, sessionVars
  <2>9. StageInv(r)' /\ LogoutInv(r)' /\ IndexInv(r)'
    BY <2>1, <2>2, <2>3 DEF StageInv, LogoutInv, LoggedOut, IndexInv, IInv, TypeOK
  <2> QED
    BY <2>5, <2>6, <2>7, <2>8, <2>9, OthersKeep DEF IInv, RequestInv
<1>2. ASSUME NEW r \in Request, Finish(r) PROVE IInv'
  <2>1. TypeOK' /\ InvalidatedIsEmpty' /\ SignedInHasName'
    BY <1>2 DEF Finish, IInv, TypeOK, Stage, InvalidatedIsEmpty, SignedInHasName, sessionVars
  <2>2. Others(r) /\ pc'[r] = "idle" /\ http'[r] = NULL /\ subject'[r] = NULL /\ answer'[r] = NULL
    BY <1>2 DEF Finish, IInv, TypeOK, Others, sessionVars
  <2>3. RequestInv(r)'
    BY <2>2 DEF RequestInv, StageInv, SubjectInv, LogoutInv, LoggedOut, IndexInv
  <2> QED
    BY <2>1, <2>2, <2>3, OthersKeep DEF IInv
<1>3. ASSUME NEW s \in SessionId, Expire(s) PROVE IInv'
  <2>1. TypeOK' /\ InvalidatedIsEmpty' /\ SignedInHasName'
    BY <1>3 DEF Expire, IInv, TypeOK, InvalidatedIsEmpty, SignedInHasName
  <2>2. \A r \in Request : RequestInv(r)'
    BY <1>3 DEF Expire, IInv, TypeOK, RequestInv, StageInv, SubjectInv, HasName, LogoutInv,
                LoggedOut, IndexInv, Gone
  <2> QED
    BY <2>1, <2>2 DEF IInv
<1>4. CASE UNCHANGED vars
  BY <1>4 DEF vars, sessionVars, IInv, TypeOK, InvalidatedIsEmpty, SignedInHasName, RequestInv,
              StageInv, SubjectInv, HasName, LogoutInv, LoggedOut, IndexInv, Gone
<1> QED
  BY <1>1, <1>2, <1>3, <1>4, HandleInv DEF Next

\* The invariant, for every behaviour.
LEMMA Invariant == Spec => []IInv
  BY InitInv, StepInv, PTL DEF Spec

-----------------------------------------------------------------------------
(* The properties *)

\* The type invariant: nobody is signed in who has no account.
THEOREM ShiroTypeCorrect == Spec => []TypeOK
<1>1. IInv => TypeOK
  BY DEF IInv
<1> QED BY <1>1, Invariant, PTL

\* A logout is final, whatever logins of its session are under way.
THEOREM LogoutFinal == Spec => []InvalidatedIsEmpty
<1>1. IInv => InvalidatedIsEmpty
  BY DEF IInv
<1> QED BY <1>1, Invariant, PTL

\* Whoever is signed in has a name.
THEOREM NamesStored == Spec => []SignedInHasName
<1>1. IInv => SignedInHasName
  BY DEF IInv
<1> QED BY <1>1, Invariant, PTL

\* index meets no Subject without a principal, and no session without a name.
THEOREM IndexCorrect == Spec => []IndexFindsUser
<1>1. IInv => IndexFindsUser
  BY DEF IInv, RequestInv, IndexInv, IndexFindsUser
<1> QED BY <1>1, Invariant, PTL

\* After the answer of a logout no older Subject of its session opens a page.
THEOREM LogoutCorrect == Spec => LogoutShutsOut
<1> DEFINE Shown == {"index", "userInfo", "userInfoAdd", "userInfoDel"}
           Shut(q, r) ==
             LoggedOut(q) /\ http[q] = http[r] /\ http[r] # NULL /\ answer[r] = NULL =>
               answer'[r] = NULL \/ answer'[r].view \notin Shown
<1>1. ASSUME IInv, [Next]_vars, NEW q \in Request, NEW r \in Request,
             LoggedOut(q), http[q] = http[r], http[r] # NULL, answer[r] = NULL
      PROVE  answer'[r] = NULL \/ answer'[r].view \notin Shown
  <2>1. Gone(r)
    BY <1>1 DEF IInv, RequestInv, LogoutInv, Gone
  <2>2. ASSUME NEW view, NEW name, Return(r, view, name), view \notin Shown
        PROVE  answer'[r].view \notin Shown
    BY <1>1, <2>2 DEF Return, IInv, TypeOK
  <2>3. ASSUME NEW t \in Request, Handle(t), t # r PROVE answer'[r] = answer[r]
    BY <1>1, <2>3
    DEF Handle, SaveSubject, Deny, Admit, LogoutFilter, ToLogin, StoreName, Login, Index, Logout,
        UnauthorizedRole, UserInfo, ThrowInvalidSession, RemovePrincipal, Proceed, Return,
        IInv, TypeOK
  <2>4. ASSUME Handle(r) PROVE answer'[r] = answer[r] \/ answer'[r].view \notin Shown
    BY <2>1, <2>2, <2>4
    DEF Handle, SaveSubject, Deny, Admit, LogoutFilter, ToLogin, StoreName, Login, Index, Logout,
        UnauthorizedRole, UserInfo, ThrowInvalidSession, RemovePrincipal, Proceed
  <2>5. ASSUME NEW t \in Request, Finish(t) PROVE answer'[r] = NULL
    BY <1>1, <2>5 DEF Finish, IInv, TypeOK
  <2>6. CASE UNCHANGED vars \/ (\E s \in SessionId : Expire(s))
             \/ \E t \in Request, p \in Page, c \in SessionId \cup {NULL}, u \in Username \cup {NULL} :
                  Receive(t, p, c, u)
    BY <1>1, <2>6 DEF vars, Expire, Receive
  <2> QED
    BY <1>1, <2>3, <2>4, <2>5, <2>6 DEF Next
<1>2. IInv /\ [Next]_vars => [\A q, r \in Request : Shut(q, r)]_vars
  BY <1>1
<1> QED
  BY <1>2, Invariant, PTL DEF Spec, LogoutShutsOut
=============================================================================
