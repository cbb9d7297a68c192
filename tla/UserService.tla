----------------------------- MODULE UserService -----------------------------
(***************************************************************************)
(* UserService: the table users, whose column email is unique.  A user is  *)
(* identified with the email.  Each operation is one transaction of one    *)
(* statement, so it happens at once or throws and changes nothing.         *)
(***************************************************************************)
CONSTANTS
  User,
  FailingCalls  \* the calls that may throw: "db", and "get" and "set" of the
                \* session's user or "send", where the application has them

VARIABLE users  \* the emails in the table

UsersInit == users = {}

\* register
Register(u) ==
  /\ u \notin users
  /\ users' = users \cup {u}

\* register throws: the email is taken, or the database does not answer.
RegisterFails(u) ==
  /\ u \in users \/ "db" \in FailingCalls
  /\ UNCHANGED users

\* signin
Signin(u, password) ==
  /\ u \in users
  /\ password = "right"
  /\ UNCHANGED users

\* signin throws: no such user, another password, no answer.
SigninFails(u, password) ==
  /\ u \notin users \/ password = "wrong" \/ "db" \in FailingCalls
  /\ UNCHANGED users
==============================================================================
