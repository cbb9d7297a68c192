------------------------------ MODULE UserPages ------------------------------
(***************************************************************************)
(* The pages of UserController, which springboot-session (web.v2) and      *)
(* springboot-rabbitmq-lxf have in common: the requests, their forms and   *)
(* the views that the handlers return.  Handlers of one session run at     *)
(* once; where the signed-in user is kept is up to the application.        *)
(***************************************************************************)
EXTENDS UserService

CONSTANTS
  Request,   \* slots of the container's threads
  SessionId, \* the container's sessions
  NULL,
  Readable,  \* users whose fields a page gets as they were stored
  Somebody   \* a user in a model whose fields are not those of the signed-in one

ASSUME UserAssumption == {NULL, Somebody} \cap User = {} /\ NULL # Somebody

VARIABLES
  pc,       \* what the thread of every request is about to do
  page,     \* the handler of every request
  session,  \* its session
  email,    \* the email in its form
  answer    \* the view it has returned, with the user in its model

requestVars == <<page, session, email>>
pageVars == <<pc, requestVars, answer>>

Views == {"index", "signin", "profile"}
Forms == {"doSignin", "doRegister"}
Page == Views \cup Forms \cup {"signout"}

\* "received" is the start of every handler; between it and "answered" are the
\* handlers' further calls of Redis or RabbitMQ.
Stage == {"idle", "received", "announcing", "reporting", "storing", "removing", "answered"}

View == {"index.html", "signin.html", "profile.html", "register.html",
         "redirect:/profile", "redirect:/signin", "error"}

Answer == [view : View, user : User \cup {Somebody, NULL}]

PagesTypeOK ==
  /\ users \in SUBSET User
  /\ pc \in [Request -> Stage]
  /\ page \in [Request -> Page \cup {NULL}]
  /\ session \in [Request -> SessionId \cup {NULL}]
  /\ email \in [Request -> User \cup {NULL}]
  /\ answer \in [Request -> Answer \cup {NULL}]

PagesInit ==
  /\ UsersInit
  /\ pc = [r \in Request |-> "idle"]
  /\ page = [r \in Request |-> NULL]
  /\ session = [r \in Request |-> NULL]
  /\ email = [r \in Request |-> NULL]
  /\ answer = [r \in Request |-> NULL]

\* A request, whatever its parameters are.
ReceiveAny(r, p, s, u) ==
  /\ pc[r] = "idle"
  /\ pc' = [pc EXCEPT ![r] = "received"]
  /\ page' = [page EXCEPT ![r] = p]
  /\ session' = [session EXCEPT ![r] = s]
  /\ email' = [email EXCEPT ![r] = u]
  /\ UNCHANGED answer

\* A request as Spring hands it to its handler: @RequestParam makes sure that
\* the forms come with an email.
Receive(r, p, s, u) ==
  /\ pc[r] = "idle"
  /\ (p \in Forms) <=> (u # NULL)
  /\ pc' = [pc EXCEPT ![r] = "received"]
  /\ page' = [page EXCEPT ![r] = p]
  /\ session' = [session EXCEPT ![r] = s]
  /\ email' = [email EXCEPT ![r] = u]
  /\ UNCHANGED answer

\* The request of r is at a stage of its handler p.
At(r, p, stage) ==
  /\ pc[r] = stage
  /\ page[r] = p

\* The handler's next call comes in a step of its own.
GoOn(r, stage) ==
  /\ pc' = [pc EXCEPT ![r] = stage]
  /\ UNCHANGED <<requestVars, answer>>

Return(r, view, user) ==
  /\ pc' = [pc EXCEPT ![r] = "answered"]
  /\ answer' = [answer EXCEPT ![r] = [view |-> view, user |-> user]]
  /\ UNCHANGED requestVars

\* The handler, or the framework below it, throws: an error page.
Throw(r) == Return(r, "error", NULL)

Finish(r) ==
  /\ pc[r] = "answered"
  /\ pc' = [pc EXCEPT ![r] = "idle"]
  /\ page' = [page EXCEPT ![r] = NULL]
  /\ session' = [session EXCEPT ![r] = NULL]
  /\ email' = [email EXCEPT ![r] = NULL]
  /\ answer' = [answer EXCEPT ![r] = NULL]

-----------------------------------------------------------------------------
(* What requests ask of the session, and what answers say of its user.     *)

Anyone == User \cup {NULL}

KindOf(p) ==
  IF p \in Views THEN "view" ELSE IF p = "signout" THEN "signout" ELSE "signin"

\* A registration does not ask anything of the session.
AsksSession(r) == pc[r] # "idle" /\ page[r] # "doRegister"

WishOf(r) == [session |-> session[r], kind |-> KindOf(page[r]), as |-> email[r]]

\* An answer to doSignin that shows the form again, or an error, says that the
\* sign-in has failed.  That is no claim where storing the user may throw after
\* the user is stored; elsewhere it says that nothing was changed.
SigninFailed == IF "set" \in FailingCalls THEN Anyone ELSE {}

\* Who may be signed in according to the answer a to a request for page p with
\* email e.
Claim(p, e, a) ==
  IF p = "doSignin" /\ a.view \in {"signin.html", "error"}
  THEN SigninFailed
  ELSE {u \in Anyone :
          /\ a.view = "index.html" => u = a.user \/ (a.user = Somebody /\ u # NULL)
          /\ a.view = "profile.html" =>
               u = a.user \/ (a.user = Somebody /\ u \in User \ Readable)
          /\ a.view = "redirect:/profile" => u # NULL /\ (p = "doSignin" => u = e)
          /\ a.view = "redirect:/signin" => u = NULL
          /\ a.view = "signin.html" => u = NULL}

asked == [r \in Request |-> IF AsksSession(r) THEN WishOf(r) ELSE NULL]

claim ==
  [r \in Request |->
     IF AsksSession(r) /\ pc[r] = "answered"
     THEN Claim(page[r], email[r], answer[r])
     ELSE NULL]
=============================================================================
