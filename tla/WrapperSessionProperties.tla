---------------------- MODULE WrapperSessionProperties ----------------------
(***************************************************************************)
(* What the session framework has to guarantee, and the abstract session   *)
(* that it implements.                                                     *)
(***************************************************************************)
EXTENDS WrapperSessionFilter

UserOf(map) == map["__user__"]

\* No browser ever works with the account of another one: a record holds an
\* account only under an id generated for that person's browser, and the
\* local map of a request holds only accounts of the person who sent it.  This
\* relies on getSessionId generating unique ids, on CacheStore being created
\* per request, and on every read and write of Redis using the request's id.
SessionIsolation ==
  /\ \A s \in SessionId :
       UserOf(redis[s]) # NULL => AccountOf[UserOf(redis[s])] = issuer[s]
  /\ \A r \in Request :
       UserOf(attributes[r]) # NULL => AccountOf[UserOf(attributes[r])] = browser[r]

\* A session that is still valid always has lastVisitTime in its local map,
\* whatever Redis did, so its commit writes the record and renews its time to
\* live: writeToCache skips an empty map.
CommitRenewsRecord ==
  \A r \in Request :
    Active(r) /\ valid[r] => attributes[r]["lastVisitTime"] # NULL

\* The headers of a response agree with the session it was made in: an id is
\* sent only for a session the request did not name itself, and is the id the
\* session is stored under; the cookie is removed only for an invalidated
\* session whose id the request carried; and once the cookie store has
\* committed a valid session, the browser knows its id.
HeadersMatchSession ==
  \A r \in Request :
    LET carried == undecodedCookies[r]["sessionId"]
        header == setCookies[r]["sessionId"]
    IN  HasSession(r) =>
          /\ header \in SessionId => header = sessionId[r] /\ carried = NULL
          /\ header = Expired => ~valid[r] /\ carried = sessionId[r]
          /\ pc[r] = "committing" /\ "cookie" \notin todo[r] /\ valid[r]
               => sessionId[r] \in {carried, header}

\* A browser that was given a track id keeps one: invalidate spares the
\* entries with a positive life cycle, and closing the browser does too.
TrackIdKept ==
  [][\A b \in Browser, n \in CookieName \ ShortLived :
       jar[b][n] # NULL => jar'[b][n] # NULL]_vars

\* Every request that reaches the filter ends, with an answer or with an
\* exception, even when calls to Redis fail.
RequestEnds ==
  \A r \in Request : pc[r] = "sent" ~> pc[r] \in {"answered", "failed"}

-----------------------------------------------------------------------------
(* The abstract session.  A browser's session is the record of the id in   *)
(* its jar; as long as it has none, of the id that its request in flight   *)
(* generated.                                                              *)

IdsInFlight(b) ==
  UNION {{sessionId[r], setCookies[r]["sessionId"]} \cap SessionId : r \in RequestsOf(b)}

IdsOf(b) ==
  IF jar[b]["sessionId"] # NULL THEN {jar[b]["sessionId"]} ELSE IdsInFlight(b)

abstractSession ==
  [b \in Browser |->
     IF IdsOf(b) = {} THEN NULL ELSE UserOf(redis[CHOOSE s \in IdsOf(b) : TRUE])]

abstractView ==
  [r \in Request |->
     IF HasSession(r)
     THEN [browser |-> browser[r], user |-> UserOf(attributes[r]), valid |-> valid[r]]
     ELSE NULL]

Abstract == INSTANCE BrowserSession
              WITH session <- abstractSession, view <- abstractView

\* NULL stands for no view.
ASSUME ViewAssumption == NULL \notin Abstract!View

\* As long as browsers send one request at a time and Redis answers every read,
\* each browser sees one private session that every commit replaces as a whole:
\* cookies, ids, the two stores, writes that Redis refuses, lost answers and
\* requests of other browsers in between are invisible.
ImplementsBrowserSession == Abstract!Spec
=============================================================================
