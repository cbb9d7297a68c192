------------------------ MODULE RegistrationMessaging ------------------------
(***************************************************************************)
(* springboot-rabbitmq-lxf: UserController keeps the signed-in user in the *)
(* container's session and sends a message for every registration and for  *)
(* every attempt to sign in; QueueMessageListener takes messages from the  *)
(* queues.  RabbitMQ may be out of reach at every send.                    *)
(*                                                                         *)
(* springboot-rabbitmq is configured for the same broker: one of its two   *)
(* pages publishes to the exchange of the login messages, the other one to *)
(* the exchange of the queue that its own listener reads.                  *)
(***************************************************************************)
EXTENDS UserPages, Naturals, Sequences

CONSTANTS
  Bindings,  \* <<exchange, routing key, queue>>: the broker's set-up
  MaxLength  \* bound of a run: a longer queue takes no message

UserQueue == {"q_mail", "q_sms", "q_app"}

Queue == UserQueue \cup {"waitfile"}

ASSUME BindingsAssumption ==
  Bindings \subseteq {"registration", "login", "waitfile"} \X {"", "login_failed"} \X Queue
ASSUME LengthAssumption == MaxLength \in Nat
\* The session is an object in the same process: no call to it fails.
ASSUME FailingAssumption == FailingCalls \subseteq {"db", "send"}

RegistrationMessage == [type : {"registration"}, email : User]
LoginMessage == [type : {"login"}, email : User, success : BOOLEAN]
\* The message of springboot-rabbitmq: a text, of which its email is a copy.
FileMessage == [type |-> "file"]
Message == RegistrationMessage \cup LoginMessage \cup {FileMessage}

\* The methods of both QueueMessageListeners: the queue and the type of its
\* message.
Listener ==
  ([queue : UserQueue, type : {"registration", "login"}]
     \ {[queue |-> "q_app", type |-> "registration"]})
    \cup {[queue |-> "waitfile", type |-> "file"]}

VARIABLES
  sessionUser,  \* the attribute KEY_USER of every session
  queue         \* the messages of every queue

vars == <<users, pageVars, sessionUser, queue>>

TypeOK ==
  /\ PagesTypeOK
  /\ sessionUser \in [SessionId -> Anyone]
  /\ queue \in [Queue -> Seq(Message)]

Init ==
  /\ PagesInit
  /\ sessionUser = [s \in SessionId |-> NULL]
  /\ queue = [q \in Queue |-> <<>>]

-----------------------------------------------------------------------------
(* MessagingService.  convertAndSend goes without publisher confirms: a    *)
(* message that was sent may still not get to the queues, and one that     *)
(* could not be sent, as an exception says, may have got there.            *)

Reach(exchange, routingKey, msg) ==
  \/ UNCHANGED queue
  \/ LET bound == {q \in Queue : <<exchange, routingKey, q>> \in Bindings}
     IN  /\ \A q \in bound : Len(queue[q]) < MaxLength
         /\ queue' = [q \in Queue |-> IF q \in bound THEN Append(queue[q], msg) ELSE queue[q]]

SendRegistrationMessage(u) ==
  Reach("registration", "", [type |-> "registration", email |-> u])

RoutingKey(success) == IF success THEN "" ELSE "login_failed"

SendLoginMessage(u, success) ==
  Reach("login", RoutingKey(success), [type |-> "login", email |-> u, success |-> success])

SendThrows == "send" \in FailingCalls

-----------------------------------------------------------------------------
(* UserController *)

Index(r) ==
  /\ At(r, "index", "received")
  /\ Return(r, "index.html",
            IF sessionUser[session[r]] = NULL THEN NULL ELSE Somebody)
  /\ UNCHANGED <<users, sessionUser, queue>>

SigninPage(r) ==
  /\ At(r, "signin", "received")
  /\ Return(r, IF sessionUser[session[r]] = NULL THEN "signin.html" ELSE "redirect:/profile", NULL)
  /\ UNCHANGED <<users, sessionUser, queue>>

Profile(r) ==
  /\ At(r, "profile", "received")
  /\ LET user == sessionUser[session[r]]
     IN  Return(r, IF user = NULL THEN "redirect:/signin" ELSE "profile.html", user)
  /\ UNCHANGED <<users, sessionUser, queue>>

DoRegisterUnchecked(r) ==
  /\ At(r, "doRegister", "received")
  /\ Register(email[r]) \/ RegisterFails(email[r])
  /\ GoOn(r, "announcing")
  /\ UNCHANGED <<sessionUser, queue>>

\* The user is committed before the message is sent.
DoRegister(r) ==
  /\ At(r, "doRegister", "received")
  /\ \/ Register(email[r]) /\ GoOn(r, "announcing")
     \/ RegisterFails(email[r]) /\ Return(r, "register.html", NULL)
  /\ UNCHANGED <<sessionUser, queue>>

AnnounceRegistration(r) ==
  /\ At(r, "doRegister", "announcing")
  /\ SendRegistrationMessage(email[r])
  /\ \/ Return(r, "redirect:/signin", NULL)
     \/ SendThrows /\ Return(r, "register.html", NULL)
  /\ UNCHANGED <<users, sessionUser>>

DoSignin(r, password) ==
  /\ At(r, "doSignin", "received")
  /\ \/ Signin(email[r], password) /\ GoOn(r, "announcing")
     \/ SigninFails(email[r], password) /\ GoOn(r, "reporting")
  /\ UNCHANGED <<sessionUser, queue>>

AnnounceLogin(r) ==
  /\ At(r, "doSignin", "announcing")
  /\ SendLoginMessage(email[r], TRUE)
  /\ GoOn(r, "storing") \/ (SendThrows /\ GoOn(r, "reporting"))
  /\ UNCHANGED <<users, sessionUser>>

StoreUser(r) ==
  /\ At(r, "doSignin", "storing")
  /\ sessionUser' = [sessionUser EXCEPT ![session[r]] = email[r]]
  /\ Return(r, "redirect:/profile", NULL)
  /\ UNCHANGED <<users, queue>>

ReportFailureAndStore(r) ==
  /\ At(r, "doSignin", "reporting")
  /\ SendLoginMessage(email[r], FALSE)
  /\ \/ Return(r, "signin.html", NULL)
     \/ SendThrows /\ Throw(r)
  /\ sessionUser' = [sessionUser EXCEPT ![session[r]] = email[r]]
  /\ UNCHANGED users

\* The catch block, whose own send may throw.
ReportFailure(r) ==
  /\ At(r, "doSignin", "reporting")
  /\ SendLoginMessage(email[r], FALSE)
  /\ \/ Return(r, "signin.html", NULL)
     \/ SendThrows /\ Throw(r)
  /\ UNCHANGED <<users, sessionUser>>

Signout(r) ==
  /\ At(r, "signout", "received")
  /\ sessionUser' = [sessionUser EXCEPT ![session[r]] = NULL]
  /\ Return(r, "redirect:/signin", NULL)
  /\ UNCHANGED <<users, queue>>

-----------------------------------------------------------------------------
\* A listener logs the next message of its queue, whatever the type of the
\* message, since the broker deals the messages of a queue out to whoever
\* listens.  When the connection breaks before the acknowledgement the message
\* stays.
Consume(l) ==
  /\ queue[l.queue] # <<>>
  /\ queue' \in {queue, [queue EXCEPT ![l.queue] = Tail(@)]}
  /\ UNCHANGED <<users, pageVars, sessionUser>>

\* The handlers of springboot-rabbitmq's TestController: a POST sends to
\* "login", a GET to "waitfile".  The answer is "True" or, when the send
\* throws, "False"; the message may have got there either way.
SendMessage ==
  /\ \E exchange \in {"login", "waitfile"} : Reach(exchange, "", FileMessage)
  /\ UNCHANGED <<users, pageVars, sessionUser>>

\* The session of the container times out, half an hour after its last request.
Expire(s) ==
  /\ sessionUser[s] # NULL
  /\ \A r \in Request : session[r] # s
  /\ sessionUser' = [sessionUser EXCEPT ![s] = NULL]
  /\ UNCHANGED <<users, pageVars, queue>>

Handle(r) ==
  \/ Index(r) \/ SigninPage(r) \/ Profile(r)
  \/ DoRegister(r) \/ AnnounceRegistration(r)
  \/ \E password \in {"right", "wrong"} : DoSignin(r, password)
  \/ AnnounceLogin(r) \/ StoreUser(r) \/ ReportFailure(r)
  \/ Signout(r)

Environment(r) ==
  /\ \/ \E p \in Page, s \in SessionId, u \in Anyone : Receive(r, p, s, u)
     \/ Finish(r)
  /\ UNCHANGED <<users, sessionUser, queue>>

Next ==
  \/ \E r \in Request : Handle(r) \/ Environment(r)
  \/ \E l \in Listener : Consume(l)
  \/ SendMessage
  \/ \E s \in SessionId : Expire(s)

Spec == Init /\ [][Next]_vars
=============================================================================
