------------------------ MODULE RedisAttributesProofs ------------------------
(***************************************************************************)
(* The v2 controllers implement SignedInUser, for every number of requests *)
(* and sessions and every set of failing calls.                            *)
(***************************************************************************)
EXTENDS RedisAttributesProperties, UserPagesProofs

IInv == TypeOK /\ PagesInv

\* Initially there is no record and no request is at work.
LEMMA InitInv == Init => IInv
  BY PagesInitInv DEF Init, IInv, TypeOK, PagesInv

\* Every step keeps the invariant.
LEMMA StepInv == IInv /\ [Next]_vars => IInv'
<1> SUFFICES ASSUME IInv, [Next]_vars PROVE PagesInv' /\ TypeOK'
  BY DEF IInv
<1> USE DEF IInv
<1>1. PagesInv => PagesTypeOK
  BY DEF PagesInv
<1>2. ASSUME NEW r \in Request, Handle(r) PROVE PagesInv' /\ TypeOK'
  <2>1. CASE Index(r)
    BY <2>1, <1>1, ReturnInv DEF Index, At, View, TypeOK, PagesTypeOK, PagesInv
  <2>2. CASE SigninPage(r)
    BY <2>2, <1>1, ReturnInv DEF SigninPage, At, View, TypeOK, PagesTypeOK, PagesInv
  <2>3. CASE Profile(r)
    <3>1. Converted(GetAttribute(r)) \in User \cup {Somebody, NULL}
      BY DEF Converted, GetAttribute
    <3> QED
      BY <2>3, <3>1, <1>1, ReturnInv DEF Profile, At, View, TypeOK, PagesTypeOK, PagesInv
  <2>4. CASE ViewThrows(r)
    BY <2>4, <1>1, ReturnInv DEF ViewThrows, Throw, View, TypeOK, PagesTypeOK, PagesInv
  <2>5. CASE DoRegister(r)
    <3>1. email[r] \in User /\ pc[r] # "idle"
      BY <2>5 DEF DoRegister, At, PagesInv, RequestInv, Forms
    <3>2. users' \in SUBSET User
      BY <2>5, <3>1 DEF DoRegister, Register, RegisterFails, TypeOK, PagesTypeOK
    <3> QED
      BY <2>5, <3>1, <3>2, ReturnInv DEF DoRegister, View, TypeOK, PagesInv
  <2>6. ASSUME NEW password \in {"right", "wrong"}, DoSignin(r, password)
        PROVE  PagesInv' /\ TypeOK'
    <3>1. users' \in SUBSET User /\ pc[r] # "idle"
      BY <2>6 DEF DoSignin, At, Signin, SigninFails, TypeOK, PagesTypeOK
    <3> QED
      BY <2>6, <3>1, ReturnInv, GoOnInv DEF DoSignin, View, Stage, TypeOK, PagesInv
  <2>7. CASE StoreUser(r)
    <3>1. email[r] \in User /\ pc[r] # "idle"
      BY <2>7 DEF StoreUser, At, PagesInv, RequestInv, Forms
    <3>2. users' \in SUBSET User
      BY <2>7 DEF StoreUser, TypeOK, PagesTypeOK
    <3>3. PagesInv'
      BY <2>7, <3>1, <3>2, ReturnInv DEF StoreUser, View
    <3> QED
      BY <2>7, <3>1, <3>3 DEF StoreUser, TypeOK, PagesInv
  <2>8. CASE StoreUserFails(r)
    BY <2>8, <1>1, ReturnInv DEF StoreUserFails, At, View, TypeOK, PagesTypeOK, PagesInv
  <2>9. CASE Signout(r)
    BY <2>9, <1>1, ReturnInv, GoOnInv DEF Signout, At, View, Stage, TypeOK, PagesTypeOK, PagesInv
  <2>10. CASE RemoveUser(r)
    <3>1. users' \in SUBSET User /\ pc[r] # "idle"
      BY <2>10 DEF RemoveUser, At, TypeOK, PagesTypeOK
    <3>2. PagesInv'
      BY <2>10, <3>1, ReturnInv DEF RemoveUser, Throw, View
    <3> QED
      BY <2>10, <3>2 DEF RemoveUser, TypeOK, PagesInv
  <2>11. CASE SignoutThrows(r)
    BY <2>11, <1>1, ReturnInv DEF SignoutThrows, Throw, At, View, TypeOK, PagesTypeOK, PagesInv
  <2> QED
    BY <1>2, <2>1, <2>2, <2>3, <2>4, <2>5, <2>6, <2>7, <2>8, <2>9, <2>10, <2>11 DEF Handle
<1>3. ASSUME NEW r \in Request, Environment(r) PROVE PagesInv' /\ TypeOK'
  BY <1>3, ReceiveInv, FinishInv DEF Environment, TypeOK, PagesInv
<1>4. ASSUME NEW s \in SessionId, Expire(s) PROVE PagesInv' /\ TypeOK'
  <2>1. users' \in SUBSET User /\ UNCHANGED pageVars
    BY <1>4 DEF Expire, TypeOK, PagesTypeOK
  <2>2. PagesInv'
    BY <2>1, StillInv
  <2> QED
    BY <1>4, <2>2 DEF Expire, TypeOK, PagesInv
<1>5. CASE UNCHANGED vars
  <2>1. users' \in SUBSET User /\ UNCHANGED <<pageVars, record>>
    BY <1>5 DEF vars, TypeOK, PagesTypeOK
  <2>2. PagesInv'
    BY <2>1, StillInv
  <2> QED
    BY <2>1, <2>2 DEF TypeOK, PagesInv
<1> QED
  BY <1>2, <1>3, <1>4, <1>5 DEF Next

\* The type invariant of the v2 controllers.
THEOREM AttributesTypeCorrect == Spec => []TypeOK
<1>1. Spec => []IInv
  BY InitInv, StepInv, PTL DEF Spec
<1>2. IInv => TypeOK
  BY DEF IInv
<1> QED BY <1>1, <1>2, PTL

-----------------------------------------------------------------------------
(* The refinement *)

\* The handler of r answers, and the user of its session becomes "new".
LEMMA AnswerStep ==
  ASSUME IInv, NEW r \in Request, pc[r] \notin {"idle", "answered"}, page[r] # "doRegister",
         NEW view, NEW user, Return(r, view, user),
         NEW new, new \in Claim(page[r], email[r], [view |-> view, user |-> user]),
         abstractUser' = [abstractUser EXCEPT ![session[r]] = new]
  PROVE  LET c == Claim(page[r], email[r], [view |-> view, user |-> user])
         IN  c \in SUBSET Abstract!Anyone /\ Abstract!Answer(r, KindOf(page[r]), new, c)
<1> DEFINE c == Claim(page[r], email[r], [view |-> view, user |-> user])
<1>1. asked' = asked /\ claim' = [claim EXCEPT ![r] = c]
  BY ReturnClaims DEF IInv
<1>2. asked[r] # NULL
  <2>1. asked[r] \in Wish
    BY AtWork DEF IInv
  <2> QED
    BY <2>1, WishAssumption DEF Wish, Abstract!Wish, Anyone, Abstract!Anyone
<1>3. /\ asked[r].kind = KindOf(page[r])
      /\ asked[r].session = session[r]
      /\ claim[r] = NULL
  BY AtWork DEF IInv
<1>4. c \in SUBSET Abstract!Anyone
  BY DEF Claim, SigninFailed, Anyone, Abstract!Anyone
<1>5. Abstract!Answer(r, KindOf(page[r]), new, c)
  BY <1>1, <1>2, <1>3 DEF Abstract!Answer
<1> QED
  BY <1>4, <1>5

\* An answer that leaves the record as it is.
LEMMA AnswerUnchanged ==
  ASSUME IInv, NEW r \in Request, pc[r] \notin {"idle", "answered"}, page[r] # "doRegister",
         NEW view, NEW user, Return(r, view, user), UNCHANGED record,
         UserOf(record[session[r]]) \in Claim(page[r], email[r], [view |-> view, user |-> user])
  PROVE  LET c == Claim(page[r], email[r], [view |-> view, user |-> user])
         IN  /\ c \in SUBSET Abstract!Anyone
             /\ Abstract!Answer(r, KindOf(page[r]), abstractUser[asked[r].session], c)
<1>1. session[r] \in SessionId /\ asked[r].session = session[r]
  BY AtWork DEF IInv
<1>2. abstractUser[asked[r].session] = UserOf(record[session[r]])
  BY <1>1 DEF abstractUser
<1>3. abstractUser' = [abstractUser EXCEPT ![session[r]] = UserOf(record[session[r]])]
  BY <1>1 DEF abstractUser, UserOf
<1> QED
  BY <1>2, <1>3, AnswerStep

\* A sign-in that says it has failed, with the record as it was: where storing
\* may throw this claims nothing, elsewhere that nothing was changed.
LEMMA RefuseStep ==
  ASSUME IInv, NEW r \in Request, pc[r] \notin {"idle", "answered"}, page[r] = "doSignin",
         Return(r, "signin.html", NULL), UNCHANGED record
  PROVE  Abstract!Signin(r)
<1>1. KindOf(page[r]) = "signin"
  BY DEF KindOf, Views
<1>2. Claim(page[r], email[r], [view |-> "signin.html", user |-> NULL]) = SigninFailed
  BY DEF Claim
<1>3. CASE "set" \in FailingCalls
  <2>1. SigninFailed = Anyone /\ UserOf(record[session[r]]) \in Anyone
    BY <1>3 DEF SigninFailed, UserOf, Anyone
  <2>2. Abstract!Answer(r, "signin", abstractUser[asked[r].session], Abstract!Anyone)
    BY <1>1, <1>2, <2>1, AnswerUnchanged DEF Anyone, Abstract!Anyone
  <2> QED
    BY <2>2 DEF Abstract!Signin
<1>4. CASE "set" \notin FailingCalls
  <2>1. asked' = asked /\ claim' = [claim EXCEPT ![r] = {}]
    BY <1>2, <1>4, ReturnClaims DEF SigninFailed, IInv
  <2>2. asked[r] \in Wish /\ asked[r].kind = "signin" /\ claim[r] = NULL
    BY <1>1, AtWork DEF IInv
  <2>3. asked[r] # NULL
    BY <2>2, WishAssumption DEF Wish, Abstract!Wish, Anyone, Abstract!Anyone
  <2>4. Abstract!Refuse(r)
    BY <2>1, <2>2, <2>3 DEF Abstract!Refuse, abstractUser
  <2> QED
    BY <2>4 DEF Abstract!Signin
<1> QED
  BY <1>3, <1>4

\* The user of a session whose record is replaced.
LEMMA NewUser ==
  ASSUME TypeOK, NEW s \in SessionId, NEW rec, record' = [record EXCEPT ![s] = rec]
  PROVE  abstractUser' = [abstractUser EXCEPT ![s] = UserOf(rec)]
  BY DEF abstractUser, UserOf, TypeOK

\* Nothing changes that the pages promise.
AbstractUnchanged == UNCHANGED <<abstractUser, asked, claim>>

\* Initially nobody is signed in and nobody asks.
LEMMA InitImplements == Init => Abstract!Init
  BY UserAssumption, InitAsks DEF Init, Abstract!Init, abstractUser, UserOf

\* Every step of the controllers is a step of SignedInUser or changes nothing
\* that it can see.
LEMMA StepImplements ==
  IInv /\ [Next]_vars => [Abstract!Next]_<<abstractUser, asked, claim>>
<1> SUFFICES ASSUME IInv, [Next]_vars
             PROVE  Abstract!Next \/ AbstractUnchanged
  BY DEF AbstractUnchanged
<1>1. CASE UNCHANGED vars
  BY <1>1, StillAsks DEF vars, AbstractUnchanged, abstractUser
<1>2. ASSUME NEW r \in Request, Environment(r)
      PROVE  Abstract!Next \/ AbstractUnchanged
  <2>1. abstractUser' = abstractUser
    BY <1>2 DEF Environment, abstractUser
  <2>2. ASSUME NEW p \in Page, NEW s \in SessionId, NEW u \in Anyone, Receive(r, p, s, u)
        PROVE  AbstractUnchanged \/ \E wish \in Abstract!Wish : Abstract!Ask(r, wish)
    <3>1. Wish = Abstract!Wish
      BY DEF Wish, Abstract!Wish, Anyone, Abstract!Anyone
    <3> QED
      BY <2>1, <2>2, <3>1, ReceiveAsks DEF IInv, AbstractUnchanged, Abstract!Ask
  <2>3. CASE Finish(r)
    BY <2>1, <2>3, FinishAsksNothing DEF IInv, Abstract!Done, Abstract!Next
  <2> QED
    BY <1>2, <2>2, <2>3 DEF Environment, Abstract!Next
<1>3. ASSUME NEW r \in Request,
             Index(r) \/ SigninPage(r) \/ Profile(r) \/ ViewThrows(r)
      PROVE  Abstract!View(r)
  <2>1. /\ pc[r] = "received" /\ page[r] \in Views
        /\ page[r] # "doSignin" /\ page[r] # "doRegister" /\ KindOf(page[r]) = "view"
        /\ UNCHANGED record
    BY <1>3 DEF Index, SigninPage, Profile, ViewThrows, At, Views, KindOf
  <2>2. PICK view, user :
          /\ Return(r, view, user)
          /\ UserOf(record[session[r]])
               \in Claim(page[r], email[r], [view |-> view, user |-> user])
    <3>1. GetAttribute(r) = UserOf(record[session[r]])
      BY DEF GetAttribute, UserOf
    <3>2. UserOf(record[session[r]]) \in Anyone
      BY DEF UserOf, Anyone
    <3>3. CASE Index(r)
      BY <3>1, <3>2, <3>3 DEF Index, Claim
    <3>4. CASE SigninPage(r)
      BY <2>1, <3>1, <3>2, <3>4 DEF SigninPage, Claim
    <3>5. CASE Profile(r)
      BY <3>1, <3>2, <3>5 DEF Profile, Converted, GetAttribute, Claim
    <3>6. CASE ViewThrows(r)
      BY <2>1, <3>2, <3>6 DEF ViewThrows, Throw, Claim
    <3> QED
      BY <1>3, <3>3, <3>4, <3>5, <3>6
  <2>3. \E c \in SUBSET Abstract!Anyone :
          Abstract!Answer(r, "view", abstractUser[asked[r].session], c)
    BY <2>1, <2>2, AnswerUnchanged
  <2> QED
    BY <2>3 DEF Abstract!View
<1>4. ASSUME NEW r \in Request, DoRegister(r) PROVE AbstractUnchanged
  <2>1. /\ page[r] = "doRegister" /\ pc[r] # "idle" /\ UNCHANGED record
        /\ \E view : Return(r, view, NULL)
    BY <1>4 DEF DoRegister, At
  <2>2. UNCHANGED <<asked, claim>>
    BY <2>1, RegistrationAsksNothing DEF IInv, Stage
  <2> QED
    BY <2>1, <2>2 DEF AbstractUnchanged, abstractUser
<1>5. ASSUME NEW r \in Request, NEW stage \in {"storing", "removing"}, pc[r] = "received",
             GoOn(r, stage), UNCHANGED record
      PROVE  AbstractUnchanged
  BY <1>5, GoOnAsksNothing DEF AbstractUnchanged, abstractUser, Stage, IInv
<1>6. ASSUME NEW r \in Request, pc[r] \notin {"idle", "answered"}, page[r] = "doSignin",
             Return(r, "signin.html", NULL), UNCHANGED record
      PROVE  Abstract!Signin(r)
  BY <1>6, RefuseStep
<1>7. ASSUME NEW r \in Request, NEW password \in {"right", "wrong"}, DoSignin(r, password)
      PROVE  Abstract!Signin(r) \/ AbstractUnchanged
  BY <1>5, <1>6, <1>7 DEF DoSignin, At
<1>8. ASSUME NEW r \in Request, StoreUser(r) PROVE Abstract!Signin(r)
  <2>1. /\ pc[r] = "storing" /\ page[r] = "doSignin" /\ KindOf(page[r]) = "signin"
        /\ email[r] \in User /\ session[r] \in SessionId
    BY <1>8 DEF StoreUser, At, KindOf, Views, IInv, PagesInv, RequestInv, Forms
  <2>2. UserOf(email[r]) = email[r] /\ email[r] # NULL
    BY <2>1, UserAssumption DEF UserOf
  <2>3. abstractUser' = [abstractUser EXCEPT ![session[r]] = email[r]]
    <3>1. record' = [record EXCEPT ![session[r]] = email[r]] /\ TypeOK
      BY <1>8 DEF StoreUser, IInv
    <3>2. abstractUser' = [abstractUser EXCEPT ![session[r]] = UserOf(email[r])]
      BY <2>1, <3>1, NewUser
    <3> QED
      BY <2>2, <3>2
  <2>4. PICK view : /\ Return(r, view, NULL)
                    /\ email[r] \in Claim(page[r], email[r], [view |-> view, user |-> NULL])
    BY <1>8, <2>1, <2>2 DEF StoreUser, Claim, SigninFailed, Anyone
  <2>5. asked[r].as = email[r]
    BY <2>1, AtWork DEF IInv
  <2>6. \E c \in SUBSET Abstract!Anyone : Abstract!Answer(r, "signin", email[r], c)
    BY <2>1, <2>3, <2>4, AnswerStep
  <2> QED
    BY <2>5, <2>6 DEF Abstract!Signin
<1>9. ASSUME NEW r \in Request, StoreUserFails(r) PROVE Abstract!Signin(r)
  BY <1>6, <1>9 DEF StoreUserFails, At
<1>10. ASSUME NEW r \in Request, pc[r] \notin {"idle", "answered"}, page[r] = "signout",
              NEW view \in {"redirect:/signin", "error"}, Return(r, view, NULL),
              abstractUser' = [abstractUser EXCEPT ![session[r]] = NULL]
       PROVE  Abstract!Signout(r)
  <2>1. NULL \in Claim(page[r], email[r], [view |-> view, user |-> NULL])
    BY <1>10 DEF Claim, Anyone
  <2>2. KindOf(page[r]) = "signout"
    BY <1>10 DEF KindOf, Views
  <2>3. \E c \in SUBSET Abstract!Anyone : Abstract!Answer(r, "signout", NULL, c)
    BY <1>10, <2>1, <2>2, AnswerStep
  <2> QED
    BY <2>3 DEF Abstract!Signout
<1>11. ASSUME NEW r \in Request, Signout(r)
       PROVE  Abstract!Signout(r) \/ AbstractUnchanged
  <2>1. pc[r] = "received" /\ page[r] = "signout" /\ session[r] \in SessionId
        /\ UNCHANGED record
    BY <1>11 DEF Signout, At, IInv, PagesInv, RequestInv
  <2>2. CASE GetAttribute(r) = NULL
    <3>1. UserOf(record[session[r]]) = NULL
      BY <2>2 DEF GetAttribute, UserOf
    <3>2. abstractUser' = [abstractUser EXCEPT ![session[r]] = NULL]
      BY <2>1, <3>1 DEF abstractUser, UserOf
    <3> QED
      BY <1>10, <1>11, <2>1, <2>2, <3>2 DEF Signout
  <2>3. CASE GetAttribute(r) # NULL
    BY <1>5, <1>11, <2>1, <2>3 DEF Signout
  <2> QED
    BY <2>2, <2>3
<1>12. ASSUME NEW r \in Request, RemoveUser(r) PROVE Abstract!Signout(r)
  <2>1. pc[r] = "removing" /\ page[r] = "signout" /\ session[r] \in SessionId
    BY <1>12 DEF RemoveUser, At, IInv, PagesInv, RequestInv
  <2>2. UserOf(EmptyMap) = NULL
    BY RecordAssumption DEF UserOf
  <2>3. abstractUser' = [abstractUser EXCEPT ![session[r]] = NULL]
    BY <1>12, <2>1, <2>2, NewUser DEF RemoveUser, IInv
  <2> QED
    BY <1>10, <1>12, <2>1, <2>3 DEF RemoveUser, Throw
<1>13. ASSUME NEW r \in Request, SignoutThrows(r) PROVE Abstract!Signout(r)
  <2>1. /\ pc[r] \notin {"idle", "answered"} /\ page[r] = "signout"
        /\ KindOf(page[r]) = "signout" /\ UNCHANGED record /\ Return(r, "error", NULL)
    BY <1>13 DEF SignoutThrows, Throw, At, KindOf, Views
  <2>2. /\ UserOf(record[session[r]]) \in Claim(page[r], email[r], [view |-> "error", user |-> NULL])
        /\ Claim(page[r], email[r], [view |-> "error", user |-> NULL]) = Abstract!Anyone
    BY <2>1 DEF Claim, UserOf, Anyone, Abstract!Anyone
  <2>3. Abstract!Answer(r, "signout", abstractUser[asked[r].session], Abstract!Anyone)
    BY <2>1, <2>2, AnswerUnchanged
  <2> QED
    BY <2>3 DEF Abstract!Signout
<1>14. ASSUME NEW s \in SessionId, Expire(s) PROVE Abstract!Forget(s)
  <2>1. UserOf(NULL) = NULL
    BY DEF UserOf
  <2>2. abstractUser' = [abstractUser EXCEPT ![s] = NULL]
    BY <1>14, <2>1, NewUser DEF Expire, IInv
  <2> QED
    BY <1>14, <2>2, StillAsks DEF Expire, Abstract!Forget
<1> QED
  BY <1>1, <1>2, <1>3, <1>4, <1>7, <1>8, <1>9, <1>11, <1>12, <1>13, <1>14
  DEF Next, Handle, Abstract!Next

\* The controllers implement the promise of their pages: requests of a session
\* at once, two calls to Redis in a sign-out and failing calls are invisible.
THEOREM ControllersImplement == Spec => ImplementsSignedInUser
<1>1. Spec => []IInv
  BY InitInv, StepInv, PTL DEF Spec
<1> QED
  BY <1>1, InitImplements, StepImplements, PTL
  DEF Spec, ImplementsSignedInUser, Abstract!Spec
==============================================================================
