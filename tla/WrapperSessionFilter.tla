------------------------ MODULE WrapperSessionFilter ------------------------
(***************************************************************************)
(* The session framework at work: browsers send requests with their        *)
(* cookies, WrapperSessionFilter gives each request a WrapperSession of    *)
(* its own over a CookieStore and a CacheStore, the handler uses that      *)
(* session, and WrapperSessionServletResponse commits it when the response *)
(* is written.  Requests run concurrently and share only Redis and the     *)
(* browser's cookie jar.                                                   *)
(*                                                                         *)
(* Browsers, the delivery of responses and Redis's expiry of records are   *)
(* the environment.                                                        *)
(***************************************************************************)
EXTENDS CookieStore, CacheStore, Naturals, FiniteSets

CONSTANTS
  Browser,
  AccountOf,    \* the browser whose user signs in with a given account
  HandlerName,  \* attribute names that handlers pass to setAttribute
  MaxCalls,     \* calls a handler makes on its session
  Serial        \* TRUE: a browser waits for its answer before its next request

ASSUME CallsAssumption == MaxCalls \in Nat
ASSUME SerialAssumption == Serial \in BOOLEAN
\* lastVisitTime belongs to the filter: no handler removes it.
ASSUME HandlerAssumption == "lastVisitTime" \notin HandlerName
ASSUME AccountAssumption == AccountOf \in [User -> Browser]
ASSUME DistinctAssumption ==
  /\ NULL \notin SessionId \cup User \cup Browser \cup {Track, Visit, Expired}
  /\ Visit \notin User
  /\ SessionId \cap {Track, Expired} = {}

VARIABLES
  jar,        \* the cookies of every browser
  pc,         \* what the thread of every request is doing
  browser,    \* the sender of every request
  sessionId,  \* WrapperSession.sessionId
  valid,      \* WrapperSession.valid
  calls,      \* calls on the session that the handler may still make
  todo,       \* the stores that a running commit has not handled yet
  issuer      \* the browser whose request generated an id

sessionVars == <<sessionId, valid>>

vars == <<redis, cacheVars, cookieVars, jar, pc, browser, sessionVars,
          calls, todo, issuer>>

Stage == {"idle", "sent", "handling", "committing", "answered", "failed"}

\* "write" is the second half of the cache store's commit, after its read.
Todo == {"cookie", "cache", "write"}

\* The session of r is in use by the handler or by a commit.
Active(r) == pc[r] \in {"handling", "committing"}

\* r has a session: its thread is past createWrapperSession.
HasSession(r) == sessionId[r] # NULL

TypeOK ==
  /\ CacheTypeOK
  /\ CookieTypeOK
  /\ jar \in [Browser -> Cookies]
  /\ pc \in [Request -> Stage]
  /\ browser \in [Request -> Browser \cup {NULL}]
  /\ sessionId \in [Request -> SessionId \cup {NULL}]
  /\ valid \in [Request -> BOOLEAN]
  /\ calls \in [Request -> 0..MaxCalls]
  /\ todo \in [Request -> SUBSET Todo]
  /\ issuer \in [SessionId -> Browser \cup {NULL}]

Init ==
  /\ CacheInit
  /\ CookieInit
  /\ jar = [b \in Browser |-> NoCookies]
  /\ pc = [r \in Request |-> "idle"]
  /\ browser = [r \in Request |-> NULL]
  /\ sessionId = [r \in Request |-> NULL]
  /\ valid = [r \in Request |-> TRUE]
  /\ calls = [r \in Request |-> 0]
  /\ todo = [r \in Request |-> {}]
  /\ issuer = [s \in SessionId |-> NULL]

-----------------------------------------------------------------------------
(* The filter *)

RequestsOf(b) == {r \in Request : browser[r] = b}

Unissued == {s \in SessionId : issuer[s] = NULL}

\* Bound: a request without an id is sent only while an id is left for it.
FreshIdLeft ==
  Cardinality({r \in Request : pc[r] = "sent" /\ undecodedCookies[r]["sessionId"] = NULL})
    < Cardinality(Unissued)

\* A browser sends a request with the cookies it holds.
Send(r, b) ==
  /\ pc[r] = "idle"
  /\ Serial => RequestsOf(b) = {}
  /\ jar[b]["sessionId"] = NULL => FreshIdLeft
  /\ pc' = [pc EXCEPT ![r] = "sent"]
  /\ browser' = [browser EXCEPT ![r] = b]
  /\ undecodedCookies' = [undecodedCookies EXCEPT ![r] = jar[b]]
  /\ UNCHANGED <<redis, cacheVars, cookieAttributes, modifiedCookies, setCookies,
                 jar, sessionVars, calls, todo, issuer>>

\* letitgo: a URL with a forbidden suffix goes down the chain without a session.
LetItGo(r) ==
  /\ pc[r] = "sent"
  /\ pc' = [pc EXCEPT ![r] = "answered"]
  /\ UNCHANGED <<redis, cacheVars, cookieVars, jar, browser, sessionVars,
                 calls, todo, issuer>>

\* Mutant: ids that are not unique.
SessionIdForAnyId(r, sid) ==
  IF undecodedCookies[r]["sessionId"] # NULL
  THEN sid = undecodedCookies[r]["sessionId"] /\ UNCHANGED issuer
  ELSE issuer' = [issuer EXCEPT ![sid] = browser[r]]

\* getSessionId: the id the request carried, or one never generated before.
SessionIdFor(r, sid) ==
  IF undecodedCookies[r]["sessionId"] # NULL
  THEN sid = undecodedCookies[r]["sessionId"] /\ UNCHANGED issuer
  ELSE issuer[sid] = NULL /\ issuer' = [issuer EXCEPT ![sid] = browser[r]]

\* createWrapperSession: init of the session and its stores, then lastVisitTime.
CreateWrapperSession(r) ==
  /\ pc[r] = "sent"
  /\ \E sid \in SessionId :
       /\ SessionIdFor(r, sid)
       /\ sessionId' = [sessionId EXCEPT ![r] = sid]
       /\ GenerateMissing(r, [sessionId |-> sid, trackId |-> Track])
       /\ CacheSetAttribute(r, sid, "lastVisitTime", Visit)
  /\ valid' = [valid EXCEPT ![r] = TRUE]
  /\ calls' = [calls EXCEPT ![r] = MaxCalls]
  /\ pc' = [pc EXCEPT ![r] = "handling"]
  /\ UNCHANGED <<redis, undecodedCookies, setCookies, jar, browser, todo>>

-----------------------------------------------------------------------------
(* The handler, on request.getSession() *)

Call(r) ==
  /\ pc[r] = "handling"
  /\ calls[r] > 0
  /\ calls' = [calls EXCEPT ![r] = @ - 1]

\* setAttribute and removeAttribute (value NULL) of a name that may be
\* written.  The person at the browser signs in with an account of theirs.
SetAttribute(r, name, value) ==
  /\ Call(r)
  /\ name \in CacheName \ ReadOnlyName
  /\ value # NULL => AccountOf[value] = browser[r]
  /\ CacheSetAttribute(r, sessionId[r], name, value)
  /\ UNCHANGED <<redis, cookieVars, jar, pc, browser, sessionId, valid, todo, issuer>>

\* setAttribute of a name that is not configured does nothing; of a read-only
\* name it throws ModifyReadOnlyAttributeException, which the handler may catch.
SetAttributeRefused(r, name) ==
  /\ Call(r)
  /\ name \notin ConfiguredName \/ name \in ReadOnlyName
  /\ UNCHANGED <<redis, cacheVars, cookieVars, jar, pc, browser, sessionVars,
                 todo, issuer>>

\* getAttribute("__user__")
GetAttribute(r) ==
  /\ Call(r)
  /\ CacheGetAttribute(r, sessionId[r])
  /\ UNCHANGED <<redis, cookieVars, jar, pc, browser, sessionVars, todo, issuer>>

\* Mutant: invalidate ignores the life cycle of the entries.
ForgetAllCookies(r) ==
  /\ cookieAttributes' = [cookieAttributes EXCEPT ![r] = NoCookies]
  /\ modifiedCookies' = [modifiedCookies EXCEPT ![r] = CookieName]

\* The cookie attributes that invalidate removes.
ForgetCookies(r) ==
  /\ cookieAttributes' = [cookieAttributes EXCEPT ![r] =
       [n \in CookieName |-> IF n \in ShortLived THEN NULL ELSE cookieAttributes[r][n]]]
  /\ modifiedCookies' = [modifiedCookies EXCEPT ![r] = @ \cup (CookieName \cap ShortLived)]

Invalidate(r) ==
  /\ Call(r)
  /\ ForgetCookies(r)
  /\ CacheRemoveAttributes(r, sessionId[r], CacheName \cap ShortLived)
  /\ valid' = [valid EXCEPT ![r] = FALSE]
  /\ UNCHANGED <<redis, undecodedCookies, setCookies, jar, pc, browser, sessionId,
                 todo, issuer>>

-----------------------------------------------------------------------------
(* The response *)

\* getWriter, getOutputStream or sendRedirect of the wrapped response: commit.
GetWriter(r) ==
  /\ Call(r)
  /\ pc' = [pc EXCEPT ![r] = "committing"]
  /\ todo' = [todo EXCEPT ![r] = {"cookie", "cache"}]
  /\ UNCHANGED <<redis, cacheVars, cookieVars, jar, browser, sessionVars, issuer>>

\* A store is done; after the last one commit returns to the handler.
StoreDone(r, rest) ==
  /\ todo' = [todo EXCEPT ![r] = rest]
  /\ pc' = [pc EXCEPT ![r] = IF rest = {} THEN "handling" ELSE "committing"]

\* commit visits the stores in the order of a HashMap keyed by an enum, which
\* differs from one start of the program to the next.
CommitCookies(r) ==
  /\ pc[r] = "committing"
  /\ "cookie" \in todo[r]
  /\ "write" \notin todo[r]
  /\ CookieCommit(r)
  /\ StoreDone(r, todo[r] \ {"cookie"})
  /\ UNCHANGED <<redis, cacheVars, undecodedCookies, cookieAttributes, jar, browser,
                 sessionVars, calls, issuer>>

CommitDelete(r) ==
  /\ pc[r] = "committing"
  /\ "cache" \in todo[r]
  /\ ~valid[r]
  /\ DeleteSession(sessionId[r])
  /\ StoreDone(r, todo[r] \ {"cache"})
  /\ UNCHANGED <<cacheVars, cookieVars, jar, browser, sessionVars, calls, issuer>>

\* Mutant: commit starts over, with both stores, until a read succeeds.
CommitReadRetrying(r, ok) ==
  /\ pc[r] = "committing"
  /\ "cache" \in todo[r]
  /\ valid[r]
  /\ ~isAlreadyReaded[r]
  /\ \E load \in ReadFromCache(r, sessionId[r]) : load.ok = ok /\ ReadBeforeWrite(r, load)
  /\ StoreDone(r, IF ok THEN (todo[r] \ {"cache"}) \cup {"write"} ELSE {"cookie", "cache"})
  /\ UNCHANGED <<redis, cookieVars, jar, browser, sessionVars, calls, issuer>>

CommitRead(r, ok) ==
  /\ pc[r] = "committing"
  /\ "cache" \in todo[r]
  /\ valid[r]
  /\ ~isAlreadyReaded[r]
  /\ \E load \in ReadFromCache(r, sessionId[r]) : load.ok = ok /\ ReadBeforeWrite(r, load)
  /\ StoreDone(r, (todo[r] \ {"cache"}) \cup {"write"})
  /\ UNCHANGED <<redis, cookieVars, jar, browser, sessionVars, calls, issuer>>

CommitWrite(r) ==
  /\ pc[r] = "committing"
  /\ \/ "write" \in todo[r]
     \/ "cache" \in todo[r] /\ valid[r] /\ isAlreadyReaded[r]
  /\ WriteToCache(r, sessionId[r])
  /\ StoreDone(r, todo[r] \ {"cache", "write"})
  /\ UNCHANGED <<cacheVars, cookieVars, jar, browser, sessionVars, calls, issuer>>

\* The session of r and its stores are garbage.
DropSession(r) ==
  /\ DropCacheStore(r)
  /\ DropCookieStore(r)
  /\ sessionId' = [sessionId EXCEPT ![r] = NULL]
  /\ valid' = [valid EXCEPT ![r] = TRUE]
  /\ calls' = [calls EXCEPT ![r] = 0]
  /\ todo' = [todo EXCEPT ![r] = {}]

\* The request ends with an exception; the headers added so far stay with
\* the response.
Fail(r) ==
  /\ DropSession(r)
  /\ pc' = [pc EXCEPT ![r] = "failed"]
  /\ UNCHANGED <<setCookies, jar, browser, issuer>>

\* The call to Redis throws, and nothing catches the exception before
\* doFilter.  Redis may have done what it was asked: the client gives up
\* waiting after spring.redis.timeout.
CommitThrows(r) ==
  /\ pc[r] = "committing"
  /\ todo[r] \cap {"cache", "write"} # {}
  /\ \/ /\ valid[r]
        /\ "set" \in FailingCalls
        /\ "write" \in todo[r] \/ isAlreadyReaded[r]
        /\ attributes[r] # NoAttributes
        /\ WriteToCache(r, sessionId[r]) \/ UNCHANGED redis
     \/ /\ ~valid[r]
        /\ "del" \in FailingCalls
        /\ DeleteSession(sessionId[r]) \/ UNCHANGED redis
  /\ Fail(r)

\* The handler itself throws.
HandlerThrows(r) ==
  /\ pc[r] = "handling"
  /\ Fail(r)
  /\ UNCHANGED redis

\* chain.doFilter returns.  Nothing commits the session here, so an answer
\* without a body (sendError, a status alone) leaves without a commit.
Finish(r) ==
  /\ pc[r] = "handling"
  /\ pc' = [pc EXCEPT ![r] = "answered"]
  /\ calls' = [calls EXCEPT ![r] = 0]
  /\ UNCHANGED <<redis, cacheVars, cookieVars, jar, browser, sessionVars, todo, issuer>>

-----------------------------------------------------------------------------
(* The environment *)

EndRequest(r) ==
  /\ DropSession(r)
  /\ setCookies' = [setCookies EXCEPT ![r] = NoCookies]
  /\ pc' = [pc EXCEPT ![r] = "idle"]
  /\ browser' = [browser EXCEPT ![r] = NULL]
  /\ UNCHANGED <<redis, issuer>>

\* Mutant: a removed cookie is sent without maxAge 0.
DeliverWithoutMaxAge(r) ==
  /\ pc[r] \in {"answered", "failed"}
  /\ jar' = [jar EXCEPT ![browser[r]] =
       [n \in CookieName |->
          IF setCookies[r][n] # NULL THEN setCookies[r][n] ELSE jar[browser[r]][n]]]
  /\ EndRequest(r)

\* The answer reaches the browser, with the headers added so far.
Deliver(r) ==
  /\ pc[r] \in {"answered", "failed"}
  /\ jar' = [jar EXCEPT ![browser[r]] =
       [n \in CookieName |->
          IF setCookies[r][n] = Expired THEN NULL
          ELSE IF setCookies[r][n] # NULL THEN setCookies[r][n]
          ELSE jar[browser[r]][n]]]
  /\ EndRequest(r)

\* The answer, or its headers, are lost.
Lose(r) ==
  /\ pc[r] \in {"answered", "failed"}
  /\ EndRequest(r)
  /\ UNCHANGED jar

\* The record's time to live, renewed by every write, has run out.
Expire(sid) ==
  /\ redis[sid] # NoAttributes
  /\ redis' = [redis EXCEPT ![sid] = NoAttributes]
  /\ UNCHANGED <<cacheVars, cookieVars, jar, pc, browser, sessionVars, calls, todo, issuer>>

\* The browser is closed: the cookie "js" has maxAge -1 and is dropped.
CloseBrowser(b) ==
  /\ jar[b]["sessionId"] # NULL
  /\ Serial => RequestsOf(b) = {}
  /\ jar' = [jar EXCEPT ![b]["sessionId"] = NULL]
  /\ UNCHANGED <<redis, cacheVars, cookieVars, pc, browser, sessionVars, calls, todo, issuer>>

\* Bound: an id that no browser, request or record holds any more is given
\* back, as the name of the next id to be generated.
Retire(sid) ==
  /\ issuer[sid] # NULL
  /\ \A b \in Browser : jar[b]["sessionId"] # sid
  /\ \A r \in Request :
       /\ undecodedCookies[r]["sessionId"] # sid
       /\ sessionId[r] # sid
       /\ setCookies[r]["sessionId"] # sid
  /\ redis[sid] = NoAttributes
  /\ issuer' = [issuer EXCEPT ![sid] = NULL]
  /\ UNCHANGED <<redis, cacheVars, cookieVars, jar, pc, browser, sessionVars, calls, todo>>

-----------------------------------------------------------------------------
Handler(r) ==
  \/ \E name \in HandlerName, value \in User \cup {NULL} : SetAttribute(r, name, value)
  \/ \E name \in HandlerName : SetAttributeRefused(r, name)
  \/ GetAttribute(r)
  \/ Invalidate(r)
  \/ HandlerThrows(r)

Commit(r) ==
  \/ GetWriter(r)
  \/ CommitCookies(r)
  \/ CommitDelete(r)
  \/ \E ok \in BOOLEAN : CommitRead(r, ok)
  \/ CommitWrite(r)
  \/ CommitThrows(r)

\* The steps of the thread that serves r.
Server(r) ==
  \/ LetItGo(r)
  \/ CreateWrapperSession(r)
  \/ Handler(r)
  \/ Commit(r)
  \/ Finish(r)

Environment ==
  \/ \E r \in Request, b \in Browser : Send(r, b)
  \/ \E r \in Request : Deliver(r) \/ Lose(r)
  \/ \E s \in SessionId : Expire(s) \/ Retire(s)
  \/ \E b \in Browser : CloseBrowser(b)

Next == Environment \/ \E r \in Request : Server(r)

Spec == Init /\ [][Next]_vars

\* The container runs every thread and each call to Redis returns or throws.
Fairness == \A r \in Request : WF_vars(Server(r))

FairSpec == Spec /\ Fairness
=============================================================================
