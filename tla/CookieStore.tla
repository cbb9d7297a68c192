----------------------------- MODULE CookieStore ----------------------------
(***************************************************************************)
(* The CookieStore that every request owns: the cookies the request        *)
(* carried, the attributes that have a cookie as their store, the names    *)
(* modified since they were last written, and the Set-Cookie headers that  *)
(* commit has added to the response.  getAttribute falls back to the       *)
(* carried cookie, so the attributes start as the carried cookies.  Names  *)
(* stand for keys ("sessionId" for "js", "trackId" for "tr").              *)
(***************************************************************************)
EXTENDS SessionConfig

\* A generated track id; which UUID it is makes no difference.
Track == "track"

\* A Set-Cookie header with maxAge 0.
Expired == "expired"

CookieValue == SessionId \cup {Track}

VARIABLES
  undecodedCookies,   \* the cookies of every request
  cookieAttributes,   \* CookieStore.attributes
  modifiedCookies,    \* CookieStore.modifiedCookies
  setCookies          \* the response's Set-Cookie header for each name, the last one winning

cookieVars == <<undecodedCookies, cookieAttributes, modifiedCookies, setCookies>>

NoCookies == [n \in CookieName |-> NULL]

Cookies == [CookieName -> CookieValue \cup {NULL}]

CookieTypeOK ==
  /\ undecodedCookies \in [Request -> Cookies]
  /\ cookieAttributes \in [Request -> Cookies]
  /\ modifiedCookies \in [Request -> SUBSET CookieName]
  /\ setCookies \in [Request -> [CookieName -> CookieValue \cup {NULL, Expired}]]

CookieInit ==
  /\ undecodedCookies = [r \in Request |-> NoCookies]
  /\ cookieAttributes = [r \in Request |-> NoCookies]
  /\ modifiedCookies = [r \in Request |-> {}]
  /\ setCookies = [r \in Request |-> NoCookies]

\* init, then the forced setAttribute of every name the request did not carry:
\* getSessionId and generateTrackId
GenerateMissing(r, generated) ==
  LET missing == {n \in CookieName : undecodedCookies[r][n] = NULL}
  IN  /\ cookieAttributes' = [cookieAttributes EXCEPT ![r] =
           [n \in CookieName |->
              IF n \in missing THEN generated[n] ELSE undecodedCookies[r][n]]]
      /\ modifiedCookies' = [modifiedCookies EXCEPT ![r] = missing]

\* Mutant: removed cookies are written even when the request carried none.
WritableAll(r) == modifiedCookies[r]

\* The modified names that buildSingleCookie makes a header for: a removed
\* attribute only when the request carried its cookie.
Writable(r) ==
  {n \in modifiedCookies[r] :
     cookieAttributes[r][n] # NULL \/ undecodedCookies[r][n] # NULL}

\* commit
CookieCommit(r) ==
  /\ setCookies' = [setCookies EXCEPT ![r] =
       [n \in CookieName |->
          IF n \notin Writable(r) THEN setCookies[r][n]
          ELSE IF cookieAttributes[r][n] = NULL THEN Expired
          ELSE cookieAttributes[r][n]]]
  /\ modifiedCookies' = [modifiedCookies EXCEPT ![r] = @ \ Writable(r)]

\* The CookieStore is garbage once its request has ended; its headers are
\* part of the response.
DropCookieStore(r) ==
  /\ undecodedCookies' = [undecodedCookies EXCEPT ![r] = NoCookies]
  /\ cookieAttributes' = [cookieAttributes EXCEPT ![r] = NoCookies]
  /\ modifiedCookies' = [modifiedCookies EXCEPT ![r] = {}]
=============================================================================
