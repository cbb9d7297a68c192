--------------------------- MODULE BrowserSession ---------------------------
(***************************************************************************)
(* What a servlet developer expects of a session: every browser has one    *)
(* value under __user__, a request works on a view of its own browser's    *)
(* session, and saving the view replaces that session as a whole.  Nothing *)
(* is said of ids, cookies, Redis or stores.                               *)
(***************************************************************************)
CONSTANTS Browser, Request, User, NULL

VARIABLES
  session,  \* the signed-in user of every browser, or NULL
  view      \* what every open request sees of its browser's session, or NULL

View == [browser : Browser, user : User \cup {NULL}, valid : BOOLEAN]

Init ==
  /\ session = [b \in Browser |-> NULL]
  /\ view = [r \in Request |-> NULL]

\* One request at a time is open on a session.
Open(r, b) ==
  /\ view[r] = NULL
  /\ \A q \in Request : view[q] # NULL => view[q].browser # b
  /\ view' = [view EXCEPT ![r] = [browser |-> b, user |-> session[b], valid |-> TRUE]]
  /\ UNCHANGED session

Put(r, user) ==
  /\ view[r] # NULL
  /\ view' = [view EXCEPT ![r].user = user]
  /\ UNCHANGED session

Invalidate(r) ==
  /\ view[r] # NULL
  /\ view' = [view EXCEPT ![r].user = NULL, ![r].valid = FALSE]
  /\ UNCHANGED session

\* What the session becomes when its view is saved.
Saved(r) ==
  [session EXCEPT ![view[r].browser] = IF view[r].valid THEN view[r].user ELSE NULL]

Save(r) ==
  /\ view[r] # NULL
  /\ session' = Saved(r)
  /\ UNCHANGED view

\* A new session is forgotten when its answer does not reach the browser.  A
\* request that fails while saving may have saved.
Close(r) ==
  /\ view[r] # NULL
  /\ view' = [view EXCEPT ![r] = NULL]
  /\ session' \in {session, Saved(r), [session EXCEPT ![view[r].browser] = NULL]}

\* Idle for too long, or the browser closed.
Forget(b) ==
  /\ session' = [session EXCEPT ![b] = NULL]
  /\ UNCHANGED view

Next ==
  \/ \E r \in Request, b \in Browser : Open(r, b)
  \/ \E r \in Request, u \in User \cup {NULL} : Put(r, u)
  \/ \E r \in Request : Invalidate(r) \/ Save(r) \/ Close(r)
  \/ \E b \in Browser : Forget(b)

Spec == Init /\ [][Next]_<<session, view>>
=============================================================================
