--------------------- MODULE RegistrationMessagingProofs ---------------------
(***************************************************************************)
(* springboot-rabbitmq-lxf: messages are about users, and the pages        *)
(* implement SignedInUser, for every number of requests and sessions, any  *)
(* bindings and every set of failing calls.                                *)
(***************************************************************************)
EXTENDS RegistrationMessagingProperties, UserPagesProofs, SequenceTheorems

\* Who is announced has registered, and stays in the table.
AnnouncedAreUsers ==
  \A r \in Request : pc[r] = "announcing" => email[r] \in users

IInv == TypeOK /\ PagesInv /\ AnnouncedAreUsers /\ MessagesAreOfUsers

-----------------------------------------------------------------------------
(* The queues *)

\* A message that is sent is added to some queues at most.
LEMMA ReachQueued ==
  ASSUME TypeOK, NEW exchange, NEW routingKey, NEW msg \in Message,
         Reach(exchange, routingKey, msg)
  PROVE  /\ queue' \in [Queue -> Seq(Message)]
         /\ \A q \in Queue : Queued(q)' \subseteq Queued(q) \cup {msg}
<1>1. queue \in [Queue -> Seq(Message)]
  BY DEF TypeOK
<1>2. CASE UNCHANGED queue
  BY <1>1, <1>2 DEF Queued
<1>3. CASE \E bound \in SUBSET Queue :
             queue' = [q \in Queue |-> IF q \in bound THEN Append(queue[q], msg) ELSE queue[q]]
  <2>1. PICK bound \in SUBSET Queue :
          queue' = [q \in Queue |-> IF q \in bound THEN Append(queue[q], msg) ELSE queue[q]]
    BY <1>3
  <2>2. ASSUME NEW q \in Queue
        PROVE  queue'[q] \in Seq(Message) /\ Queued(q)' \subseteq Queued(q) \cup {msg}
    <3>1. queue[q] \in Seq(Message)
      BY <1>1
    <3>2. CASE q \in bound
      <4>1. queue'[q] = Append(queue[q], msg)
        BY <2>1, <3>2
      <4>2. Append(queue[q], msg) \in Seq(Message)
        BY <3>1
      <4>3. \A i \in DOMAIN Append(queue[q], msg) :
              \/ i \in DOMAIN queue[q] /\ Append(queue[q], msg)[i] = queue[q][i]
              \/ Append(queue[q], msg)[i] = msg
        BY <3>1
      <4> QED
        BY <4>1, <4>2, <4>3 DEF Queued
    <3>3. CASE q \notin bound
      <4>1. queue'[q] = queue[q]
        BY <2>1, <3>3
      <4> QED
        BY <3>1, <4>1 DEF Queued
    <3> QED
      BY <3>2, <3>3
  <2>3. queue' \in [Queue -> Seq(Message)]
    BY <2>1, <2>2
  <2> QED
    BY <2>2, <2>3
<1> QED
  BY <1>2, <1>3 DEF Reach

\* A listener adds nothing to a queue.
LEMMA ConsumeQueued ==
  ASSUME TypeOK, NEW l \in Listener, Consume(l)
  PROVE  /\ queue' \in [Queue -> Seq(Message)]
         /\ \A q \in Queue : Queued(q)' \subseteq Queued(q)
<1>1. queue \in [Queue -> Seq(Message)] /\ l.queue \in Queue
  BY DEF TypeOK, Listener, Queue
<1>2. CASE queue' = queue
  BY <1>1, <1>2 DEF Queued
<1>3. CASE queue' = [queue EXCEPT ![l.queue] = Tail(@)]
  <2>1. queue[l.queue] \in Seq(Message) /\ queue[l.queue] # <<>>
    BY <1>1 DEF Consume
  <2>2. /\ Tail(queue[l.queue]) \in Seq(Message)
        /\ \A i \in DOMAIN Tail(queue[l.queue]) :
             i + 1 \in DOMAIN queue[l.queue] /\ Tail(queue[l.queue])[i] = queue[l.queue][i + 1]
    BY <2>1
  <2>3. queue'[l.queue] = Tail(queue[l.queue])
        /\ \A q \in Queue \ {l.queue} : queue'[q] = queue[q]
    BY <1>1, <1>3
  <2>4. Queued(l.queue)' \subseteq Queued(l.queue)
    BY <2>2, <2>3 DEF Queued
  <2>5. \A q \in Queue \ {l.queue} : Queued(q)' \subseteq Queued(q)
    BY <2>3 DEF Queued
  <2>6. queue' \in [Queue -> Seq(Message)]
    BY <1>1, <1>3, <2>2
  <2> QED
    BY <2>4, <2>5, <2>6
<1> QED
  BY <1>2, <1>3 DEF Consume

\* Messages about users stay so while the table grows and nothing is sent.
LEMMA MessagesKept ==
  ASSUME MessagesAreOfUsers, users \subseteq users',
         \A q \in Queue : Queued(q)' \subseteq Queued(q)
  PROVE  MessagesAreOfUsers'
  BY DEF MessagesAreOfUsers

\* A message about a user, or of a failed login, may be sent.
LEMMA MessageSent ==
  ASSUME MessagesAreOfUsers, users \subseteq users', NEW msg \in Message,
         Announces(msg) => msg.email \in users',
         \A q \in Queue : Queued(q)' \subseteq Queued(q) \cup {msg}
  PROVE  MessagesAreOfUsers'
  BY DEF MessagesAreOfUsers

-----------------------------------------------------------------------------
(* The invariant *)

\* Initially the queues are empty.
LEMMA InitInv == Init => IInv
<1> SUFFICES ASSUME Init PROVE IInv
  OBVIOUS
<1> USE DEF Init
<1>1. PagesInv /\ PagesTypeOK
  BY PagesInitInv DEF PagesInv
<1>2. TypeOK
  BY <1>1 DEF TypeOK, Anyone
<1>3. AnnouncedAreUsers
  BY DEF PagesInit, AnnouncedAreUsers
<1>4. MessagesAreOfUsers
  <2>1. \A q \in Queue : Queued(q) = {}
    BY DEF Queued
  <2> QED
    BY <2>1 DEF MessagesAreOfUsers
<1> QED
  BY <1>1, <1>2, <1>3, <1>4 DEF IInv

\* A step that sends nothing: a handler that returns, or goes on without
\* announcing anybody.
LEMMA SilentStep ==
  ASSUME IInv, NEW r \in Request, pc[r] # "idle", UNCHANGED <<users, queue>>,
         sessionUser' \in [SessionId -> Anyone],
         \/ \E view \in View, user \in User \cup {Somebody, NULL} : Return(r, view, user)
         \/ \E stage \in Stage \ {"announcing"} : GoOn(r, stage)
  PROVE  IInv'
<1>1. users' \in SUBSET User /\ PagesInv /\ pc \in [Request -> Stage]
  BY DEF IInv, PagesInv, PagesTypeOK
<1>2. PagesInv'
  BY <1>1, ReturnInv, GoOnInv
<1>3. TypeOK'
  BY <1>2 DEF TypeOK, PagesInv, IInv
<1>4. AnnouncedAreUsers'
  BY <1>1 DEF AnnouncedAreUsers, Return, GoOn, requestVars, IInv
<1>5. MessagesAreOfUsers'
  BY DEF MessagesAreOfUsers, Queued, IInv
<1> QED
  BY <1>2, <1>3, <1>4, <1>5 DEF IInv

\* A step that sends a message.
LEMMA SendStep ==
  ASSUME IInv, NEW r \in Request, pc[r] # "idle", UNCHANGED <<users, sessionUser>>,
         NEW exchange, NEW routingKey, NEW msg \in Message, Reach(exchange, routingKey, msg),
         Announces(msg) => msg.email \in users,
         \/ \E view \in View, user \in User \cup {Somebody, NULL} : Return(r, view, user)
         \/ \E stage \in Stage \ {"announcing"} : GoOn(r, stage)
  PROVE  IInv'
<1>1. users' \in SUBSET User /\ PagesInv /\ TypeOK /\ pc \in [Request -> Stage]
  BY DEF IInv, PagesInv, PagesTypeOK
<1>2. PagesInv'
  BY <1>1, ReturnInv, GoOnInv
<1>3. /\ queue' \in [Queue -> Seq(Message)]
      /\ \A q \in Queue : Queued(q)' \subseteq Queued(q) \cup {msg}
  BY <1>1, ReachQueued
<1>4. TypeOK'
  BY <1>1, <1>2, <1>3 DEF TypeOK, PagesInv
<1>5. AnnouncedAreUsers'
  BY <1>1 DEF AnnouncedAreUsers, Return, GoOn, requestVars, IInv
<1>6. MessagesAreOfUsers'
  BY <1>3, MessageSent DEF IInv
<1> QED
  BY <1>2, <1>4, <1>5, <1>6 DEF IInv

\* A step of the controller keeps the invariant.
LEMMA HandleInv ==
  ASSUME IInv, NEW r \in Request, Handle(r)
  PROVE  IInv'
<1>1. /\ sessionUser \in [SessionId -> Anyone]
      /\ PagesInv /\ TypeOK /\ pc \in [Request -> Stage] /\ users \in SUBSET User
  BY DEF IInv, TypeOK, PagesInv, PagesTypeOK
<1>2. pc[r] # "idle"
  BY DEF Handle, Index, SigninPage, Profile, DoRegister, AnnounceRegistration, DoSignin,
         AnnounceLogin, StoreUser, ReportFailure, Signout, At
<1>3. session[r] \in SessionId /\ (page[r] \in Forms => email[r] \in User)
  BY <1>1, <1>2 DEF PagesInv, RequestInv
<1>4. sessionUser[session[r]] \in Anyone
  BY <1>1, <1>3
<1>5. CASE Index(r)
  BY <1>1, <1>2, <1>5, SilentStep DEF Index, View
<1>6. CASE SigninPage(r)
  BY <1>1, <1>2, <1>6, SilentStep DEF SigninPage, View
<1>7. CASE Profile(r)
  BY <1>1, <1>2, <1>4, <1>7, SilentStep DEF Profile, View, Anyone
<1>8. CASE DoRegister(r)
  <2>1. email[r] \in User
    BY <1>3, <1>8 DEF DoRegister, At, Forms
  <2>2. CASE Register(email[r]) /\ GoOn(r, "announcing")
    <3>1. users' = users \cup {email[r]} /\ users' \in SUBSET User
      BY <1>1, <2>1, <2>2 DEF Register
    <3>2. PagesInv'
      BY <1>1, <1>2, <2>2, <3>1, GoOnInv DEF Stage
    <3>3. TypeOK'
      BY <1>1, <1>8, <3>2 DEF DoRegister, TypeOK, PagesInv
    <3>4. AnnouncedAreUsers'
      BY <1>1, <2>2, <3>1 DEF AnnouncedAreUsers, GoOn, requestVars, IInv
    <3>5. MessagesAreOfUsers'
      BY <1>8, <3>1, MessagesKept DEF DoRegister, Queued, IInv
    <3> QED
      BY <3>2, <3>3, <3>4, <3>5 DEF IInv
  <2>3. CASE RegisterFails(email[r]) /\ Return(r, "register.html", NULL)
    BY <1>1, <1>2, <1>8, <2>3, SilentStep DEF DoRegister, RegisterFails, View
  <2> QED
    BY <1>8, <2>2, <2>3 DEF DoRegister
<1>9. CASE AnnounceRegistration(r)
  <2>1. email[r] \in User /\ email[r] \in users
    BY <1>1, <1>3, <1>9 DEF AnnounceRegistration, At, Forms, AnnouncedAreUsers, IInv
  <2> DEFINE msg == [type |-> "registration", email |-> email[r]]
  <2>2. msg \in Message /\ msg.email = email[r]
    BY <2>1 DEF Message, RegistrationMessage
  <2>3. Reach("registration", "", msg)
    BY <1>9 DEF AnnounceRegistration, SendRegistrationMessage
  <2>4. \E view \in View, user \in User \cup {Somebody, NULL} : Return(r, view, user)
    BY <1>9 DEF AnnounceRegistration, View
  <2> QED
    BY <1>2, <1>9, <2>1, <2>2, <2>3, <2>4, SendStep DEF AnnounceRegistration
<1>10. ASSUME NEW password \in {"right", "wrong"}, DoSignin(r, password) PROVE IInv'
  <2>1. CASE Signin(email[r], password) /\ GoOn(r, "announcing")
    <3>1. users' = users /\ email[r] \in users
      BY <2>1 DEF Signin
    <3>2. PagesInv'
      BY <1>1, <1>2, <2>1, <3>1, GoOnInv DEF Stage
    <3>3. TypeOK'
      BY <1>1, <1>10, <3>2 DEF DoSignin, TypeOK, PagesInv
    <3>4. AnnouncedAreUsers'
      BY <1>1, <2>1, <3>1 DEF AnnouncedAreUsers, GoOn, requestVars, IInv
    <3>5. MessagesAreOfUsers'
      BY <1>10, <3>1, MessagesKept DEF DoSignin, Queued, IInv
    <3> QED
      BY <3>2, <3>3, <3>4, <3>5 DEF IInv
  <2>2. CASE SigninFails(email[r], password) /\ GoOn(r, "reporting")
    BY <1>1, <1>2, <1>10, <2>2, SilentStep DEF DoSignin, SigninFails, Stage
  <2> QED
    BY <1>10, <2>1, <2>2 DEF DoSignin
<1>11. CASE AnnounceLogin(r)
  <2>1. email[r] \in User /\ email[r] \in users
    BY <1>1, <1>3, <1>11 DEF AnnounceLogin, At, Forms, AnnouncedAreUsers, IInv
  <2> DEFINE msg == [type |-> "login", email |-> email[r], success |-> TRUE]
  <2>2. msg \in Message /\ msg.email = email[r]
    BY <2>1 DEF Message, LoginMessage
  <2>3. Reach("login", RoutingKey(TRUE), msg)
    BY <1>11 DEF AnnounceLogin, SendLoginMessage
  <2>4. \E stage \in Stage \ {"announcing"} : GoOn(r, stage)
    BY <1>11 DEF AnnounceLogin, Stage
  <2> QED
    BY <1>2, <1>11, <2>1, <2>2, <2>3, <2>4, SendStep DEF AnnounceLogin
<1>12. CASE StoreUser(r)
  <2>1. sessionUser' \in [SessionId -> Anyone]
    BY <1>1, <1>3, <1>12 DEF StoreUser, At, Forms, Anyone
  <2> QED
    BY <1>2, <1>12, <2>1, SilentStep DEF StoreUser, View
<1>13. CASE ReportFailure(r)
  <2>1. email[r] \in User
    BY <1>3, <1>13 DEF ReportFailure, At, Forms
  <2> DEFINE msg == [type |-> "login", email |-> email[r], success |-> FALSE]
  <2>2. msg \in Message /\ ~Announces(msg)
    BY <2>1 DEF Message, LoginMessage, Announces
  <2>3. Reach("login", RoutingKey(FALSE), msg)
    BY <1>13 DEF ReportFailure, SendLoginMessage
  <2>4. \E view \in View, user \in User \cup {Somebody, NULL} : Return(r, view, user)
    BY <1>13 DEF ReportFailure, Throw, View
  <2> QED
    BY <1>2, <1>13, <2>2, <2>3, <2>4, SendStep DEF ReportFailure
<1>14. CASE Signout(r)
  <2>1. sessionUser' \in [SessionId -> Anyone]
    BY <1>1, <1>14 DEF Signout, Anyone
  <2> QED
    BY <1>2, <1>14, <2>1, SilentStep DEF Signout, View
<1> QED
  BY <1>5, <1>6, <1>7, <1>8, <1>9, <1>10, <1>11, <1>12, <1>13, <1>14 DEF Handle

\* Every step keeps the invariant.
LEMMA StepInv == IInv /\ [Next]_vars => IInv'
<1> SUFFICES ASSUME IInv, [Next]_vars PROVE IInv'
  OBVIOUS
<1>1. /\ PagesInv /\ TypeOK /\ AnnouncedAreUsers /\ MessagesAreOfUsers
      /\ users \in SUBSET User /\ pc \in [Request -> Stage]
  BY DEF IInv, PagesInv, PagesTypeOK
<1>2. ASSUME NEW r \in Request, Environment(r) PROVE IInv'
  <2>1. UNCHANGED <<users, sessionUser, queue>>
    BY <1>2 DEF Environment
  <2>2. PagesInv'
    BY <1>1, <1>2, <2>1, ReceiveInv, FinishInv DEF Environment
  <2>3. TypeOK'
    BY <1>1, <2>1, <2>2 DEF TypeOK, PagesInv
  <2>4. AnnouncedAreUsers'
    <3>1. pc'[r] # "announcing"
          /\ \A q \in Request \ {r} : pc'[q] = pc[q] /\ email'[q] = email[q]
      BY <1>1, <1>2 DEF Environment, Receive, Finish, PagesInv, PagesTypeOK
    <3> QED
      BY <1>1, <2>1, <3>1 DEF AnnouncedAreUsers
  <2>5. MessagesAreOfUsers'
    BY <1>1, <2>1 DEF MessagesAreOfUsers, Queued
  <2> QED
    BY <2>2, <2>3, <2>4, <2>5 DEF IInv
<1>3. ASSUME UNCHANGED <<users, pageVars>>, sessionUser' \in [SessionId -> Anyone],
             queue' \in [Queue -> Seq(Message)],
             \A q \in Queue : Queued(q)' \subseteq Queued(q)
      PROVE  IInv'
  <2>1. PagesInv'
    BY <1>1, <1>3, StillInv
  <2>2. TypeOK'
    BY <1>3, <2>1 DEF TypeOK, PagesInv
  <2>3. AnnouncedAreUsers'
    BY <1>1, <1>3 DEF AnnouncedAreUsers, pageVars, requestVars
  <2>4. MessagesAreOfUsers'
    BY <1>1, <1>3, MessagesKept
  <2> QED
    BY <2>1, <2>2, <2>3, <2>4 DEF IInv
<1>4. ASSUME NEW l \in Listener, Consume(l) PROVE IInv'
  <2>1. UNCHANGED <<users, pageVars, sessionUser>>
    BY <1>4 DEF Consume
  <2> QED
    BY <1>1, <1>3, <1>4, <2>1, ConsumeQueued DEF TypeOK
<1>5. ASSUME NEW s \in SessionId, Expire(s) PROVE IInv'
  BY <1>1, <1>3, <1>5 DEF Expire, TypeOK, Anyone, Queued
<1>7. CASE SendMessage
  <2>1. FileMessage \in Message /\ ~Announces(FileMessage)
    BY DEF Message, FileMessage, Announces
  <2>2. PICK exchange : Reach(exchange, "", FileMessage)
    BY <1>7 DEF SendMessage
  <2>3. /\ queue' \in [Queue -> Seq(Message)]
        /\ \A q \in Queue : Queued(q)' \subseteq Queued(q) \cup {FileMessage}
    BY <1>1, <2>1, <2>2, ReachQueued
  <2>4. UNCHANGED <<users, pageVars, sessionUser>>
    BY <1>7 DEF SendMessage
  <2>5. MessagesAreOfUsers'
    BY <1>1, <2>1, <2>3, <2>4, MessageSent
  <2>6. PagesInv'
    BY <1>1, <2>4, StillInv
  <2>7. TypeOK'
    BY <1>1, <2>3, <2>4, <2>6 DEF TypeOK, PagesInv
  <2>8. AnnouncedAreUsers'
    BY <1>1, <2>4 DEF AnnouncedAreUsers, pageVars, requestVars
  <2> QED
    BY <2>5, <2>6, <2>7, <2>8 DEF IInv
<1>6. CASE UNCHANGED vars
  BY <1>1, <1>3, <1>6 DEF vars, TypeOK, Queued
<1> QED
  BY <1>2, <1>4, <1>5, <1>6, <1>7, HandleInv DEF Next

\* The invariant, for every behaviour.
LEMMA Invariant == Spec => []IInv
  BY InitInv, StepInv, PTL DEF Spec

\* The type invariant of the pages and the queues.
THEOREM MessagingTypeCorrect == Spec => []TypeOK
<1>1. IInv => TypeOK
  BY DEF IInv
<1> QED BY <1>1, Invariant, PTL

\* No message speaks of a registration or a successful login of somebody who is
\* not in the table, wherever sends fail and whatever the broker loses.
THEOREM MessagesCorrect == Spec => []MessagesAreOfUsers
<1>1. IInv => MessagesAreOfUsers
  BY DEF IInv
<1> QED BY <1>1, Invariant, PTL

-----------------------------------------------------------------------------
(* The refinement *)

\* The handler of r answers, and the user of its session becomes "new".
LEMMA AnswerStep ==
  ASSUME PagesInv, NEW r \in Request, pc[r] \notin {"idle", "answered"}, page[r] # "doRegister",
         NEW view, NEW user, Return(r, view, user),
         NEW new, new \in Claim(page[r], email[r], [view |-> view, user |-> user]),
         sessionUser' = [sessionUser EXCEPT ![session[r]] = new]
  PROVE  LET c == Claim(page[r], email[r], [view |-> view, user |-> user])
         IN  c \in SUBSET Abstract!Anyone /\ Abstract!Answer(r, KindOf(page[r]), new, c)
<1> DEFINE c == Claim(page[r], email[r], [view |-> view, user |-> user])
<1>1. asked' = asked /\ claim' = [claim EXCEPT ![r] = c]
  BY ReturnClaims
<1>2. asked[r] # NULL
  BY AtWork, WishAssumption DEF Wish, Abstract!Wish, Anyone, Abstract!Anyone
<1>3. /\ asked[r].kind = KindOf(page[r])
      /\ asked[r].session = session[r]
      /\ claim[r] = NULL
  BY AtWork
<1>4. c \in SUBSET Abstract!Anyone
  BY DEF Claim, SigninFailed, Anyone, Abstract!Anyone
<1>5. Abstract!Answer(r, KindOf(page[r]), new, c)
  BY <1>1, <1>2, <1>3 DEF Abstract!Answer
<1> QED
  BY <1>4, <1>5

\* An answer that leaves the session as it is.
LEMMA AnswerUnchanged ==
  ASSUME IInv, NEW r \in Request, pc[r] \notin {"idle", "answered"}, page[r] # "doRegister",
         NEW view, NEW user, Return(r, view, user), UNCHANGED sessionUser,
         sessionUser[session[r]] \in Claim(page[r], email[r], [view |-> view, user |-> user])
  PROVE  LET c == Claim(page[r], email[r], [view |-> view, user |-> user])
         IN  /\ c \in SUBSET Abstract!Anyone
             /\ Abstract!Answer(r, KindOf(page[r]), sessionUser[asked[r].session], c)
<1>1. PagesInv /\ sessionUser \in [SessionId -> Anyone]
  BY DEF IInv, TypeOK
<1>2. asked[r].session = session[r] /\ session[r] \in SessionId
  BY <1>1, AtWork
<1>3. sessionUser' = [sessionUser EXCEPT ![session[r]] = sessionUser[session[r]]]
  BY <1>1, <1>2
<1> QED
  BY <1>1, <1>2, <1>3, AnswerStep

\* Nothing changes that the pages promise.
AbstractUnchanged == UNCHANGED <<sessionUser, asked, claim>>

\* Initially nobody is signed in and nobody asks.
LEMMA InitImplements == Init => Abstract!Init
  BY InitAsks DEF Init, Abstract!Init

\* A step of the controller is a step of SignedInUser or changes nothing that
\* it can see.
LEMMA HandleImplements ==
  ASSUME IInv, NEW r \in Request, Handle(r)
  PROVE  Abstract!View(r) \/ Abstract!Signin(r) \/ Abstract!Signout(r) \/ AbstractUnchanged
<1>1. PagesInv /\ sessionUser \in [SessionId -> Anyone]
  BY DEF IInv, TypeOK
<1>2. pc[r] \notin {"idle", "answered"}
  BY DEF Handle, Index, SigninPage, Profile, DoRegister, AnnounceRegistration, DoSignin,
         AnnounceLogin, StoreUser, ReportFailure, Signout, At
<1>3. session[r] \in SessionId /\ (page[r] \in Forms => email[r] \in User)
  BY <1>1, <1>2 DEF PagesInv, RequestInv
<1>4. sessionUser[session[r]] \in Anyone
  BY <1>1, <1>3
<1>5. CASE Index(r) \/ SigninPage(r) \/ Profile(r)
  <2>1. page[r] \notin {"doSignin", "doRegister"} /\ KindOf(page[r]) = "view"
        /\ UNCHANGED sessionUser
    BY <1>5 DEF Index, SigninPage, Profile, At, Views, KindOf
  <2>2. PICK view, user :
          /\ Return(r, view, user)
          /\ sessionUser[session[r]] \in Claim(page[r], email[r], [view |-> view, user |-> user])
    <3>1. CASE Index(r)
      BY <1>4, <2>1, <3>1 DEF Index, Claim
    <3>2. CASE SigninPage(r)
      BY <1>4, <2>1, <3>2 DEF SigninPage, Claim
    <3>3. CASE Profile(r)
      BY <1>4, <3>3 DEF Profile, Claim
    <3> QED
      BY <1>5, <3>1, <3>2, <3>3
  <2>3. \E c \in SUBSET Abstract!Anyone :
          Abstract!Answer(r, "view", sessionUser[asked[r].session], c)
    BY <1>2, <2>1, <2>2, AnswerUnchanged
  <2> QED
    BY <2>3 DEF Abstract!View
<1>6. CASE DoRegister(r) \/ AnnounceRegistration(r)
  <2>1. page[r] = "doRegister" /\ UNCHANGED sessionUser
        /\ \/ \E view : Return(r, view, NULL)
           \/ GoOn(r, "announcing")
    BY <1>6 DEF DoRegister, AnnounceRegistration, At
  <2>2. UNCHANGED <<asked, claim>>
    BY <1>1, <1>2, <2>1, RegistrationAsksNothing DEF Stage
  <2> QED
    BY <2>1, <2>2 DEF AbstractUnchanged
<1>7. CASE AnnounceLogin(r) \/ \E password \in {"right", "wrong"} : DoSignin(r, password)
  <2>1. UNCHANGED sessionUser
        /\ \E stage \in {"announcing", "reporting", "storing"} : GoOn(r, stage)
    BY <1>7 DEF AnnounceLogin, DoSignin
  <2>2. UNCHANGED <<asked, claim>>
    BY <1>1, <1>2, <2>1, GoOnAsksNothing DEF Stage
  <2> QED
    BY <2>1, <2>2 DEF AbstractUnchanged
<1>8. CASE StoreUser(r)
  <2>1. /\ page[r] = "doSignin" /\ KindOf(page[r]) = "signin" /\ email[r] \in User
        /\ Return(r, "redirect:/profile", NULL)
        /\ sessionUser' = [sessionUser EXCEPT ![session[r]] = email[r]]
    BY <1>3, <1>8 DEF StoreUser, At, KindOf, Views, Forms
  <2>2. email[r] \in Claim(page[r], email[r], [view |-> "redirect:/profile", user |-> NULL])
    BY <2>1, UserAssumption DEF Claim, Anyone
  <2>3. asked[r].as = email[r]
    BY <1>1, <1>2, <2>1, AtWork
  <2>4. \E c \in SUBSET Abstract!Anyone : Abstract!Answer(r, "signin", email[r], c)
    BY <1>1, <1>2, <2>1, <2>2, AnswerStep
  <2> QED
    BY <2>3, <2>4 DEF Abstract!Signin
<1>9. CASE ReportFailure(r)
  <2>1. page[r] = "doSignin" /\ KindOf(page[r]) = "signin" /\ UNCHANGED sessionUser
    BY <1>9 DEF ReportFailure, At, KindOf, Views
  <2>2. PICK view \in {"signin.html", "error"} : Return(r, view, NULL)
    BY <1>9 DEF ReportFailure, Throw
  <2>3. Claim(page[r], email[r], [view |-> view, user |-> NULL]) = {}
    BY <2>1, <2>2, FailingAssumption DEF Claim, SigninFailed
  <2>4. asked' = asked /\ claim' = [claim EXCEPT ![r] = {}]
    BY <1>1, <1>2, <2>1, <2>2, <2>3, ReturnClaims
  <2>5. asked[r] \in Wish /\ asked[r].kind = "signin" /\ claim[r] = NULL
    BY <1>1, <1>2, <2>1, AtWork
  <2>6. asked[r] # NULL
    BY <2>5, WishAssumption DEF Wish, Abstract!Wish, Anyone, Abstract!Anyone
  <2>7. Abstract!Refuse(r)
    BY <2>1, <2>4, <2>5, <2>6 DEF Abstract!Refuse
  <2> QED
    BY <2>7 DEF Abstract!Signin
<1>10. CASE Signout(r)
  <2>1. /\ page[r] = "signout" /\ KindOf(page[r]) = "signout"
        /\ Return(r, "redirect:/signin", NULL)
        /\ sessionUser' = [sessionUser EXCEPT ![session[r]] = NULL]
    BY <1>10 DEF Signout, At, KindOf, Views
  <2>2. NULL \in Claim(page[r], email[r], [view |-> "redirect:/signin", user |-> NULL])
    BY DEF Claim, Anyone
  <2>3. \E c \in SUBSET Abstract!Anyone : Abstract!Answer(r, "signout", NULL, c)
    BY <1>1, <1>2, <2>1, <2>2, AnswerStep
  <2> QED
    BY <2>3 DEF Abstract!Signout
<1> QED
  BY <1>5, <1>6, <1>7, <1>8, <1>9, <1>10 DEF Handle

\* So is every other step.
LEMMA StepImplements ==
  IInv /\ [Next]_vars => [Abstract!Next]_<<sessionUser, asked, claim>>
<1> SUFFICES ASSUME IInv, [Next]_vars
             PROVE  Abstract!Next \/ AbstractUnchanged
  BY DEF AbstractUnchanged
<1>1. CASE UNCHANGED vars
  BY <1>1, StillAsks DEF vars, AbstractUnchanged
<1>2. ASSUME NEW r \in Request, Environment(r)
      PROVE  Abstract!Next \/ AbstractUnchanged
  <2>1. sessionUser' = sessionUser
    BY <1>2 DEF Environment
  <2>2. ASSUME NEW p \in Page, NEW s \in SessionId, NEW u \in Anyone, Receive(r, p, s, u)
        PROVE  AbstractUnchanged \/ \E wish \in Abstract!Wish : Abstract!Ask(r, wish)
    <3>1. Wish = Abstract!Wish
      BY DEF Wish, Abstract!Wish, Anyone, Abstract!Anyone
    <3> QED
      BY <2>1, <2>2, <3>1, ReceiveAsks DEF IInv, AbstractUnchanged, Abstract!Ask
  <2>3. CASE Finish(r)
    BY <2>1, <2>3, FinishAsksNothing DEF IInv, Abstract!Done, Abstract!Next
  <2> QED
    BY <1>2, <2>2, <2>3 DEF Environment, Abstract!Next
<1>3. ASSUME NEW r \in Request, Handle(r)
      PROVE  Abstract!Next \/ AbstractUnchanged
  BY <1>3, HandleImplements DEF Abstract!Next
<1>4. ASSUME NEW l \in Listener, Consume(l) PROVE AbstractUnchanged
  BY <1>4, StillAsks DEF Consume, AbstractUnchanged
<1>5. ASSUME NEW s \in SessionId, Expire(s) PROVE Abstract!Forget(s)
  BY <1>5, StillAsks DEF Expire, Abstract!Forget
<1>6. CASE SendMessage
  BY <1>6, StillAsks DEF SendMessage, AbstractUnchanged
<1> QED
  BY <1>1, <1>2, <1>3, <1>4, <1>5, <1>6 DEF Next, Abstract!Next

\* The pages keep their promise about the signed-in user whichever sends fail,
\* at the broker or before it, and in the catch block too.
THEOREM MessagingImplements == Spec => ImplementsSignedInUser
  BY Invariant, InitImplements, StepImplements, PTL
  DEF Spec, ImplementsSignedInUser, Abstract!Spec
==============================================================================
