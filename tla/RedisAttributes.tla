--------------------------- MODULE RedisAttributes ---------------------------
(***************************************************************************)
(* The v2 controllers of springboot-session: UserController keeps the      *)
(* signed-in user in a Redis record under the id of Tomcat's session, with *)
(* the helpers of BaseController, which make one call to Redis to read or  *)
(* to set, and two to remove.                                              *)
(*                                                                         *)
(* The record is a JSON map.  Its only attribute is __user__, so a record  *)
(* is a user, EmptyMap ("{}", what a removal leaves) or NULL (no record).  *)
(***************************************************************************)
EXTENDS UserPages

CONSTANT EmptyMap

ASSUME RecordAssumption == EmptyMap \notin User

VARIABLE record  \* Redis, for every session

vars == <<users, pageVars, record>>

TypeOK ==
  /\ PagesTypeOK
  /\ record \in [SessionId -> User \cup {EmptyMap, NULL}]

Init ==
  /\ PagesInit
  /\ record = [s \in SessionId |-> NULL]

-----------------------------------------------------------------------------
\* BaseController.getAttribute
GetAttribute(r) == IF record[session[r]] \in User THEN record[session[r]] ELSE NULL

\* BaseController.getKeyUser for a user that getAttribute found: the map
\* that Gson made of the record is printed and parsed again, which takes a
\* blank or a punctuation mark inside a field for the end of that field.
Converted(u) == IF u \in Readable THEN u ELSE Somebody

\* getKeyUser throws when the printed map does not parse, when there is no
\* user (toString of null), and when Redis does.
GetKeyUserThrows(r) ==
  \/ GetAttribute(r) = NULL
  \/ GetAttribute(r) \notin Readable
  \/ "get" \in FailingCalls

\* index puts the model itself under "user".
Index(r) ==
  /\ At(r, "index", "received")
  /\ GetAttribute(r) # NULL
  /\ Return(r, "index.html", Somebody)
  /\ UNCHANGED <<users, record>>

SigninPage(r) ==
  /\ At(r, "signin", "received")
  /\ GetAttribute(r) # NULL
  /\ Return(r, "redirect:/profile", NULL)
  /\ UNCHANGED <<users, record>>

Profile(r) ==
  /\ At(r, "profile", "received")
  /\ GetAttribute(r) # NULL
  /\ Return(r, "profile.html", Converted(GetAttribute(r)))
  /\ UNCHANGED <<users, record>>

ViewThrows(r) ==
  /\ pc[r] = "received"
  /\ page[r] \in Views
  /\ GetKeyUserThrows(r)
  /\ Throw(r)
  /\ UNCHANGED <<users, record>>

DoRegister(r) ==
  /\ At(r, "doRegister", "received")
  /\ \/ Register(email[r]) /\ Return(r, "redirect:/signin", NULL)
     \/ RegisterFails(email[r]) /\ Return(r, "register.html", NULL)
  /\ UNCHANGED record

DoSignin(r, password) ==
  /\ At(r, "doSignin", "received")
  /\ \/ Signin(email[r], password) /\ GoOn(r, "storing")
     \/ SigninFails(email[r], password) /\ Return(r, "signin.html", NULL)
  /\ UNCHANGED record

\* BaseController.setAttribute: a map of this one attribute.  When Redis
\* throws it may have stored the record all the same, but doSignin catches
\* the exception and says that the sign-in failed.
StoreUser(r) ==
  /\ At(r, "doSignin", "storing")
  /\ record' = [record EXCEPT ![session[r]] = email[r]]
  /\ \/ Return(r, "redirect:/profile", NULL)
     \/ /\ "set" \in FailingCalls
        /\ Return(r, "signin.html", NULL)
  /\ UNCHANGED users

StoreUserFails(r) ==
  /\ At(r, "doSignin", "storing")
  /\ "set" \in FailingCalls
  /\ Return(r, "signin.html", NULL)
  /\ UNCHANGED <<users, record>>

\* BaseController.removeAttribute reads the record and, unless there is none
\* or it is empty, writes it back without the attribute.
Signout(r) ==
  /\ At(r, "signout", "received")
  /\ \/ GetAttribute(r) = NULL /\ Return(r, "redirect:/signin", NULL)
     \/ GetAttribute(r) # NULL /\ GoOn(r, "removing")
  /\ UNCHANGED <<users, record>>

RemoveUser(r) ==
  /\ At(r, "signout", "removing")
  /\ record' = [record EXCEPT ![session[r]] = EmptyMap]
  /\ \/ Return(r, "redirect:/signin", NULL)
     \/ "set" \in FailingCalls /\ Throw(r)
  /\ UNCHANGED users

SignoutSwallows(r) ==
  /\ \/ At(r, "signout", "received") /\ "get" \in FailingCalls
     \/ At(r, "signout", "removing") /\ "set" \in FailingCalls
  /\ Return(r, "redirect:/signin", NULL)
  /\ UNCHANGED <<users, record>>

SignoutThrows(r) ==
  /\ \/ At(r, "signout", "received") /\ "get" \in FailingCalls
     \/ At(r, "signout", "removing") /\ "set" \in FailingCalls
  /\ Throw(r)
  /\ UNCHANGED <<users, record>>

\* The record's 1800 seconds, counted from the last write, are over.
Expire(s) ==
  /\ record[s] # NULL
  /\ record' = [record EXCEPT ![s] = NULL]
  /\ UNCHANGED <<users, pageVars>>

-----------------------------------------------------------------------------
Handle(r) ==
  \/ Index(r) \/ SigninPage(r) \/ Profile(r) \/ ViewThrows(r)
  \/ DoRegister(r)
  \/ \E password \in {"right", "wrong"} : DoSignin(r, password)
  \/ StoreUser(r) \/ StoreUserFails(r)
  \/ Signout(r) \/ RemoveUser(r) \/ SignoutThrows(r)

Environment(r) ==
  /\ \/ \E p \in Page, s \in SessionId, u \in Anyone : Receive(r, p, s, u)
     \/ Finish(r)
  /\ UNCHANGED <<users, record>>

Next ==
  \/ \E r \in Request : Handle(r) \/ Environment(r)
  \/ \E s \in SessionId : Expire(s)

Spec == Init /\ [][Next]_vars
=============================================================================
