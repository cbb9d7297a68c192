------------------- MODULE RegistrationMessagingProperties -------------------
(***************************************************************************)
(* What the pages and the messages of springboot-rabbitmq-lxf promise.     *)
(***************************************************************************)
EXTENDS RegistrationMessaging

Queued(q) == {queue[q][i] : i \in DOMAIN queue[q]}

\* The message speaks of a registration or of a successful login.  The type is
\* the one it was sent with; a method that takes a message of another type for
\* its own finds no field "success" in it, which leaves it false.
Announces(m) == m.type = "registration" \/ (m.type = "login" /\ m.success)

\* A message that speaks of a registration or of a successful login is about a
\* user in the table: doRegister and doSignin send it after the transaction, and
\* what springboot-rabbitmq puts into the queues of the logins is none.
MessagesAreOfUsers ==
  \A q \in Queue : \A m \in Queued(q) : Announces(m) => m.email \in users

Abstract == INSTANCE SignedInUser WITH user <- sessionUser

ASSUME WishAssumption == NULL \notin Abstract!Wish

\* Sending a message may fail before or after it got to the broker, and the
\* failure may itself fail to be reported.  A sign-in that is answered with the
\* profile has signed in; one that is answered with the form or an error page,
\* whatever its messages say, has changed nothing at any of its steps; and
\* messages never change who is signed in.
ImplementsSignedInUser == Abstract!Spec
==============================================================================
