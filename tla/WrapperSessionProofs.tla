------------------------ MODULE WrapperSessionProofs ------------------------
(***************************************************************************)
(* Proofs about WrapperSessionFilter, for any number of browsers, requests *)
(* and ids, whichever calls to Redis fail.                                 *)
(***************************************************************************)
EXTENDS WrapperSessionProperties, TLAPS

\* A thread that handles or commits a session has its id.
ActiveHasSession == \A r \in Request : Active(r) => HasSession(r)

TypeInv == TypeOK /\ ActiveHasSession

-----------------------------------------------------------------------------
(* The local map after a load *)

\* A map that a read or a load may leave in place of the local map of r: it is
\* a record, takes each attribute from the local map or from Redis, and lacks
\* no attribute that the local map has.
GoodMap(r, sid, map) ==
  /\ map \in Record
  /\ \A n \in CacheName :
       /\ map[n] \in {attributes[r][n], redis[sid][n]}
       /\ attributes[r][n] # NULL => map[n] # NULL

LEMMA ReadGood ==
  ASSUME CacheTypeOK, NEW r \in Request, NEW sid \in SessionId,
         NEW load \in ReadFromCache(r, sid)
  PROVE  GoodMap(r, sid, load.map) /\ load.ok \in BOOLEAN
<1>1. attributes[r] \in Record /\ redis[sid] \in Record
  BY DEF CacheTypeOK
<1>2. CASE load = [map |-> ReadInto(attributes[r], redis[sid]), ok |-> TRUE]
  <2>1. load.map = ReadInto(attributes[r], redis[sid]) /\ load.ok = TRUE
    BY <1>2
  <2>2. ReadInto(attributes[r], redis[sid]) \in Record
    BY <1>1 DEF ReadInto, Record
  <2>3. ASSUME NEW n \in CacheName
        PROVE  ReadInto(attributes[r], redis[sid])[n]
                 = IF redis[sid][n] # NULL THEN redis[sid][n] ELSE attributes[r][n]
    BY DEF ReadInto
  <2> QED
    BY <2>1, <2>2, <2>3 DEF GoodMap
<1>3. CASE load = [map |-> attributes[r], ok |-> FALSE]
  BY <1>1, <1>3 DEF GoodMap
<1> QED
  BY <1>2, <1>3 DEF ReadFromCache

LEMMA LoadGood ==
  ASSUME CacheTypeOK, NEW r \in Request, NEW sid \in SessionId,
         NEW load \in LoadCache(r, sid)
  PROVE  GoodMap(r, sid, load.map) /\ load.ok \in BOOLEAN
<1>1. CASE isAlreadyReaded[r]
  <2>1. load.map = attributes[r] /\ load.ok = TRUE
    BY <1>1 DEF LoadCache
  <2> QED
    BY <2>1 DEF CacheTypeOK, GoodMap
<1>2. CASE ~isAlreadyReaded[r]
  BY <1>2, ReadGood DEF LoadCache
<1> QED
  BY <1>1, <1>2

-----------------------------------------------------------------------------
(* The steps of the stores *)

\* Every step of a CacheStore replaces the local map of one request by a
\* record, and may set its flag.
NewMap(r, map) ==
  /\ map \in Record
  /\ attributes' = [attributes EXCEPT ![r] = map]
  /\ isAlreadyReaded' \in [Request -> BOOLEAN]

LEMMA CacheSetMap ==
  ASSUME CacheTypeOK, NEW r \in Request, NEW sid \in SessionId,
         NEW name \in CacheName, NEW value \in Value \cup {NULL},
         CacheSetAttribute(r, sid, name, value)
  PROVE  \E map : GoodMap(r, sid, map) /\ NewMap(r, [map EXCEPT ![name] = value])
<1>1. PICK load \in LoadCache(r, sid) :
        /\ attributes' = [attributes EXCEPT ![r] = [load.map EXCEPT ![name] = value]]
        /\ isAlreadyReaded' = [isAlreadyReaded EXCEPT ![r] = load.ok]
  BY DEF CacheSetAttribute
<1>2. GoodMap(r, sid, load.map) /\ load.ok \in BOOLEAN
  BY LoadGood
<1>3. [load.map EXCEPT ![name] = value] \in Record
  BY <1>2 DEF GoodMap, Record
<1>4. isAlreadyReaded' \in [Request -> BOOLEAN]
  BY <1>1, <1>2 DEF CacheTypeOK
<1> QED
  BY <1>1, <1>2, <1>3, <1>4 DEF NewMap

LEMMA CacheGetMap ==
  ASSUME CacheTypeOK, NEW r \in Request, NEW sid \in SessionId,
         CacheGetAttribute(r, sid)
  PROVE  \E map : GoodMap(r, sid, map) /\ NewMap(r, map)
<1>1. PICK load \in LoadCache(r, sid) :
        /\ attributes' = [attributes EXCEPT ![r] = load.map]
        /\ isAlreadyReaded' = [isAlreadyReaded EXCEPT ![r] = load.ok]
  BY DEF CacheGetAttribute
<1>2. GoodMap(r, sid, load.map) /\ load.ok \in BOOLEAN
  BY LoadGood
<1>3. isAlreadyReaded' \in [Request -> BOOLEAN]
  BY <1>1, <1>2 DEF CacheTypeOK
<1> QED
  BY <1>1, <1>2, <1>3 DEF NewMap, GoodMap

LEMMA CacheRemoveMap ==
  ASSUME CacheTypeOK, NEW r \in Request, NEW sid \in SessionId, NEW names,
         CacheRemoveAttributes(r, sid, names)
  PROVE  \E map : /\ NewMap(r, map)
                  /\ \A n \in CacheName : map[n] \in {NULL, attributes[r][n], redis[sid][n]}
<1>1. PICK load \in LoadCache(r, sid), early \in SUBSET names :
        /\ attributes' = [attributes EXCEPT ![r] =
             [n \in CacheName |->
                IF n \in early THEN redis[sid][n]
                ELSE IF n \in names THEN NULL ELSE load.map[n]]]
        /\ isAlreadyReaded' = [isAlreadyReaded EXCEPT ![r] = load.ok]
  BY DEF CacheRemoveAttributes
<1> DEFINE map == [n \in CacheName |->
                     IF n \in early THEN redis[sid][n]
                     ELSE IF n \in names THEN NULL ELSE load.map[n]]
<1>2. GoodMap(r, sid, load.map) /\ load.ok \in BOOLEAN
  BY LoadGood
<1>3. redis[sid] \in Record
  BY DEF CacheTypeOK
<1>4. map \in Record
  BY <1>2, <1>3 DEF GoodMap, Record
<1>5. \A n \in CacheName : map[n] \in {NULL, attributes[r][n], redis[sid][n]}
  BY <1>2 DEF GoodMap
<1>6. isAlreadyReaded' \in [Request -> BOOLEAN]
  BY <1>1, <1>2 DEF CacheTypeOK
<1> QED
  BY <1>1, <1>4, <1>5, <1>6 DEF NewMap

LEMMA CommitReadMap ==
  ASSUME CacheTypeOK, NEW r \in Request, NEW sid \in SessionId, NEW ok,
         \E load \in ReadFromCache(r, sid) : load.ok = ok /\ ReadBeforeWrite(r, load)
  PROVE  \E map : GoodMap(r, sid, map) /\ NewMap(r, map)
<1>1. PICK load \in ReadFromCache(r, sid) : ReadBeforeWrite(r, load)
  OBVIOUS
<1>2. GoodMap(r, sid, load.map)
  BY ReadGood
<1> QED
  BY <1>1, <1>2 DEF NewMap, GoodMap, ReadBeforeWrite, CacheTypeOK

\* A step of a CacheStore preserves its types, and so do the writes to Redis.
LEMMA CacheStepType ==
  ASSUME CacheTypeOK, NEW r \in Request
  PROVE  /\ (\E map : NewMap(r, map)) /\ UNCHANGED redis => CacheTypeOK'
         /\ DropCacheStore(r) /\ redis' \in [SessionId -> Record] => CacheTypeOK'
         /\ \A sid \in SessionId :
              DeleteSession(sid) \/ WriteToCache(r, sid) =>
                /\ redis' \in [SessionId -> Record]
                /\ UNCHANGED cacheVars => CacheTypeOK'
<1>1. NoAttributes \in Record
  BY DEF NoAttributes, Record
<1>2. (\E map : NewMap(r, map)) /\ UNCHANGED redis => CacheTypeOK'
  BY DEF CacheTypeOK, NewMap
<1>3. DropCacheStore(r) /\ redis' \in [SessionId -> Record] => CacheTypeOK'
  BY <1>1 DEF CacheTypeOK, DropCacheStore
<1>4. ASSUME NEW sid \in SessionId, DeleteSession(sid) \/ WriteToCache(r, sid)
      PROVE  redis' \in [SessionId -> Record]
  BY <1>1, <1>4 DEF CacheTypeOK, DeleteSession, WriteToCache
<1>5. redis' \in [SessionId -> Record] /\ UNCHANGED cacheVars => CacheTypeOK'
  BY DEF CacheTypeOK, cacheVars
<1> QED
  BY <1>2, <1>3, <1>4, <1>5

LEMMA CookieStepType ==
  ASSUME CookieTypeOK, NEW r \in Request
  PROVE  /\ ForgetCookies(r) /\ UNCHANGED <<undecodedCookies, setCookies>> => CookieTypeOK'
         /\ CookieCommit(r) /\ UNCHANGED <<undecodedCookies, cookieAttributes>>
              => CookieTypeOK'
         /\ DropCookieStore(r) /\ UNCHANGED setCookies => CookieTypeOK'
         /\ DropCookieStore(r) /\ setCookies' = [setCookies EXCEPT ![r] = NoCookies]
              => CookieTypeOK'
         /\ \A sid \in SessionId :
              /\ GenerateMissing(r, [sessionId |-> sid, trackId |-> Track])
              /\ UNCHANGED <<undecodedCookies, setCookies>>
              => CookieTypeOK'
<1>1. NoCookies \in Cookies /\ NoCookies \in [CookieName -> CookieValue \cup {NULL, Expired}]
  BY DEF NoCookies, Cookies
<1>2. ASSUME ForgetCookies(r), UNCHANGED <<undecodedCookies, setCookies>>
      PROVE  CookieTypeOK'
  <2>1. [n \in CookieName |-> IF n \in ShortLived THEN NULL ELSE cookieAttributes[r][n]]
          \in Cookies
    BY DEF CookieTypeOK, Cookies
  <2>2. cookieAttributes' \in [Request -> Cookies]
    BY <1>2, <2>1 DEF CookieTypeOK, ForgetCookies
  <2>3. modifiedCookies' \in [Request -> SUBSET CookieName]
    BY <1>2 DEF CookieTypeOK, ForgetCookies
  <2> QED
    BY <1>2, <2>2, <2>3 DEF CookieTypeOK
<1>3. ASSUME CookieCommit(r), UNCHANGED <<undecodedCookies, cookieAttributes>>
      PROVE  CookieTypeOK'
  <2> DEFINE headers == [n \in CookieName |->
                           IF n \notin Writable(r) THEN setCookies[r][n]
                           ELSE IF cookieAttributes[r][n] = NULL THEN Expired
                           ELSE cookieAttributes[r][n]]
  <2>1. headers \in [CookieName -> CookieValue \cup {NULL, Expired}]
    BY DEF CookieTypeOK, Cookies
  <2>2. setCookies' \in [Request -> [CookieName -> CookieValue \cup {NULL, Expired}]]
    BY <1>3, <2>1 DEF CookieTypeOK, CookieCommit
  <2>3. modifiedCookies' \in [Request -> SUBSET CookieName]
    BY <1>3 DEF CookieTypeOK, CookieCommit
  <2> QED
    BY <1>3, <2>2, <2>3 DEF CookieTypeOK
<1>4. ASSUME DropCookieStore(r),
             UNCHANGED setCookies \/ setCookies' = [setCookies EXCEPT ![r] = NoCookies]
      PROVE  CookieTypeOK'
  BY <1>1, <1>4 DEF CookieTypeOK, DropCookieStore
<1>5. ASSUME NEW sid \in SessionId,
             GenerateMissing(r, [sessionId |-> sid, trackId |-> Track]),
             UNCHANGED <<undecodedCookies, setCookies>>
      PROVE  CookieTypeOK'
  <2> DEFINE missing == {n \in CookieName : undecodedCookies[r][n] = NULL}
  <2> DEFINE generated == [sessionId |-> sid, trackId |-> Track]
  <2>1. \A n \in CookieName : generated[n] \in CookieValue
    BY CookieNameAssumption DEF CookieValue
  <2>2. [n \in CookieName |-> IF n \in missing THEN generated[n] ELSE undecodedCookies[r][n]]
          \in Cookies
    BY <2>1 DEF CookieTypeOK, Cookies
  <2>3. cookieAttributes' \in [Request -> Cookies]
    BY <1>5, <2>2 DEF CookieTypeOK, GenerateMissing
  <2>4. modifiedCookies' \in [Request -> SUBSET CookieName]
    BY <1>5 DEF CookieTypeOK, GenerateMissing
  <2> QED
    BY <1>5, <2>3, <2>4 DEF CookieTypeOK
<1> QED
  BY <1>2, <1>3, <1>4, <1>5

-----------------------------------------------------------------------------
(* Type correctness *)

LEMMA TypeInit == Init => TypeInv
<1> SUFFICES ASSUME Init PROVE TypeInv
  OBVIOUS
<1>1. CacheTypeOK
  BY DEF Init, CacheInit, CacheTypeOK, NoAttributes, Record
<1>2. CookieTypeOK
  BY DEF Init, CookieInit, CookieTypeOK, NoCookies, Cookies
<1>3. TypeOK
  BY <1>1, <1>2, CallsAssumption DEF Init, TypeOK, Stage, NoCookies, Cookies
<1>4. ActiveHasSession
  BY DEF Init, ActiveHasSession, Active
<1> QED
  BY <1>3, <1>4 DEF TypeInv

\* The frame of TypeOK: what is left to show once the two stores are typed.
FilterTypeOK ==
  /\ jar \in [Browser -> Cookies]
  /\ pc \in [Request -> Stage]
  /\ browser \in [Request -> Browser \cup {NULL}]
  /\ sessionId \in [Request -> SessionId \cup {NULL}]
  /\ valid \in [Request -> BOOLEAN]
  /\ calls \in [Request -> 0..MaxCalls]
  /\ todo \in [Request -> SUBSET Todo]
  /\ issuer \in [SessionId -> Browser \cup {NULL}]

LEMMA TypeStep == TypeInv /\ [Next]_vars => TypeInv'
<1> SUFFICES ASSUME TypeInv, [Next]_vars PROVE TypeInv'
  OBVIOUS
<1> USE DEF TypeInv
<1>0. CacheTypeOK /\ CookieTypeOK /\ FilterTypeOK /\ ActiveHasSession
  BY DEF TypeOK, FilterTypeOK
<1>a. CacheTypeOK' /\ CookieTypeOK' /\ FilterTypeOK' /\ ActiveHasSession' => TypeInv'
  BY DEF TypeOK, FilterTypeOK
<1>b. UNCHANGED <<redis, cacheVars>> => CacheTypeOK'
  BY <1>0 DEF CacheTypeOK, cacheVars
<1>c. UNCHANGED cookieVars => CookieTypeOK'
  BY <1>0 DEF CookieTypeOK, cookieVars
<1>d. \A r \in Request : pc[r] \in {"handling", "committing"} => sessionId[r] \in SessionId
  BY <1>0 DEF ActiveHasSession, Active, HasSession, FilterTypeOK
<1>1. CASE UNCHANGED vars
  <2>1. FilterTypeOK' /\ ActiveHasSession'
    BY <1>0, <1>1 DEF vars, sessionVars, FilterTypeOK, ActiveHasSession, Active, HasSession
  <2> QED
    BY <1>1, <1>a, <1>b, <1>c, <2>1 DEF vars
<1>2. ASSUME NEW r \in Request, NEW b \in Browser, Send(r, b)
      PROVE  TypeInv'
  <2>1. FilterTypeOK' /\ ActiveHasSession'
    BY <1>0, <1>2 DEF Send, sessionVars, FilterTypeOK, Stage, ActiveHasSession, Active, HasSession
  <2>2. CookieTypeOK'
    BY <1>0, <1>2 DEF Send, CookieTypeOK, FilterTypeOK
  <2> QED
    BY <1>2, <1>a, <1>b, <2>1, <2>2 DEF Send
<1>3. ASSUME NEW r \in Request, LetItGo(r)
      PROVE  TypeInv'
  <2>1. FilterTypeOK' /\ ActiveHasSession'
    BY <1>0, <1>3 DEF LetItGo, sessionVars, FilterTypeOK, Stage, ActiveHasSession, Active, HasSession
  <2> QED
    BY <1>3, <1>a, <1>b, <1>c, <2>1 DEF LetItGo
<1>4. ASSUME NEW r \in Request, CreateWrapperSession(r)
      PROVE  TypeInv'
  <2>1. PICK sid \in SessionId :
          /\ SessionIdFor(r, sid)
          /\ sessionId' = [sessionId EXCEPT ![r] = sid]
          /\ GenerateMissing(r, [sessionId |-> sid, trackId |-> Track])
          /\ CacheSetAttribute(r, sid, "lastVisitTime", Visit)
    BY <1>4 DEF CreateWrapperSession
  <2>2. issuer' \in [SessionId -> Browser \cup {NULL}]
    BY <1>0, <2>1 DEF SessionIdFor, FilterTypeOK
  <2>3. MaxCalls \in 0..MaxCalls
    BY CallsAssumption
  <2>4. FilterTypeOK'
    BY <1>0, <1>4, <2>1, <2>2, <2>3 DEF CreateWrapperSession, FilterTypeOK, Stage
  <2>5. ActiveHasSession'
    BY <1>0, <1>4, <2>1, DistinctAssumption
    DEF CreateWrapperSession, FilterTypeOK, ActiveHasSession, Active, HasSession
  <2>6. CacheTypeOK'
    <3>1. "lastVisitTime" \in CacheName /\ Visit \in Value
      BY DEF CacheName, Value
    <3>2. \E map : NewMap(r, map)
      BY <1>0, <2>1, <3>1, CacheSetMap
    <3> QED
      BY <1>0, <1>4, <3>2, CacheStepType DEF CreateWrapperSession
  <2>7. CookieTypeOK'
    BY <1>0, <1>4, <2>1, CookieStepType DEF CreateWrapperSession
  <2> QED
    BY <1>a, <2>4, <2>5, <2>6, <2>7
<1>5. ASSUME NEW r \in Request, Call(r), pc' = pc, UNCHANGED <<jar, browser, sessionId, todo, issuer>>,
             valid' \in [Request -> BOOLEAN]
      PROVE  FilterTypeOK' /\ ActiveHasSession'
  <2>1. calls' \in [Request -> 0..MaxCalls]
    <3>1. calls[r] - 1 \in 0..MaxCalls
      BY <1>0, <1>5, CallsAssumption DEF Call, FilterTypeOK
    <3> QED
      BY <1>0, <1>5, <3>1 DEF Call, FilterTypeOK
  <2> QED
    BY <1>0, <1>5, <2>1 DEF FilterTypeOK, ActiveHasSession, Active, HasSession
<1>6. ASSUME NEW r \in Request, NEW name \in HandlerName, NEW value \in User \cup {NULL},
             SetAttribute(r, name, value)
      PROVE  TypeInv'
  <2>1. FilterTypeOK' /\ ActiveHasSession'
    BY <1>0, <1>5, <1>6 DEF SetAttribute, FilterTypeOK
  <2>2. CacheTypeOK'
    <3>1. \E map : NewMap(r, map)
      <4>1. sessionId[r] \in SessionId /\ name \in CacheName /\ value \in Value \cup {NULL}
        BY <1>d, <1>6 DEF SetAttribute, Call, Value
      <4> QED
        BY <1>0, <1>6, <4>1, CacheSetMap DEF SetAttribute
    <3> QED
      BY <1>0, <1>6, <3>1, CacheStepType DEF SetAttribute
  <2> QED
    BY <1>6, <1>a, <1>c, <2>1, <2>2 DEF SetAttribute
<1>7. ASSUME NEW r \in Request, NEW name \in HandlerName, SetAttributeRefused(r, name)
      PROVE  TypeInv'
  <2>1. FilterTypeOK' /\ ActiveHasSession'
    BY <1>0, <1>5, <1>7 DEF SetAttributeRefused, sessionVars, FilterTypeOK
  <2> QED
    BY <1>7, <1>a, <1>b, <1>c, <2>1 DEF SetAttributeRefused
<1>8. ASSUME NEW r \in Request, GetAttribute(r)
      PROVE  TypeInv'
  <2>1. FilterTypeOK' /\ ActiveHasSession'
    BY <1>0, <1>5, <1>8 DEF GetAttribute, sessionVars, FilterTypeOK
  <2>2. CacheTypeOK'
    <3>1. \E map : NewMap(r, map)
      BY <1>0, <1>d, <1>8, CacheGetMap DEF GetAttribute, Call
    <3> QED
      BY <1>0, <1>8, <3>1, CacheStepType DEF GetAttribute
  <2> QED
    BY <1>8, <1>a, <1>c, <2>1, <2>2 DEF GetAttribute
<1>9. ASSUME NEW r \in Request, Invalidate(r)
      PROVE  TypeInv'
  <2>1. FilterTypeOK' /\ ActiveHasSession'
    BY <1>0, <1>5, <1>9 DEF Invalidate, FilterTypeOK
  <2>2. CacheTypeOK'
    <3>1. \E map : NewMap(r, map)
      BY <1>0, <1>d, <1>9, CacheRemoveMap DEF Invalidate, Call
    <3> QED
      BY <1>0, <1>9, <3>1, CacheStepType DEF Invalidate
  <2>3. CookieTypeOK'
    BY <1>0, <1>9, CookieStepType DEF Invalidate
  <2> QED
    BY <1>a, <2>1, <2>2, <2>3
<1>10. ASSUME NEW r \in Request, GetWriter(r)
       PROVE  TypeInv'
  <2>1. calls' \in [Request -> 0..MaxCalls]
    <3>1. calls[r] - 1 \in 0..MaxCalls
      BY <1>0, <1>10, CallsAssumption DEF GetWriter, Call, FilterTypeOK
    <3> QED
      BY <1>0, <1>10, <3>1 DEF GetWriter, Call, FilterTypeOK
  <2>2. FilterTypeOK' /\ ActiveHasSession'
    BY <1>0, <1>10, <2>1
    DEF GetWriter, Call, sessionVars, FilterTypeOK, Stage, Todo, ActiveHasSession, Active, HasSession
  <2> QED
    BY <1>10, <1>a, <1>b, <1>c, <2>2 DEF GetWriter
<1>11. ASSUME NEW r \in Request, NEW rest \in SUBSET Todo, StoreDone(r, rest),
              pc[r] = "committing", UNCHANGED <<jar, browser, sessionVars, calls, issuer>>
       PROVE  FilterTypeOK' /\ ActiveHasSession'
  BY <1>0, <1>11
  DEF StoreDone, sessionVars, FilterTypeOK, Stage, ActiveHasSession, Active, HasSession
<1>12. \A r \in Request : todo[r] \in SUBSET Todo
  BY <1>0 DEF FilterTypeOK
<1>13. ASSUME NEW r \in Request, CommitCookies(r)
       PROVE  TypeInv'
  <2>1. FilterTypeOK' /\ ActiveHasSession'
    BY <1>11, <1>12, <1>13 DEF CommitCookies
  <2>2. CookieTypeOK'
    BY <1>0, <1>13, CookieStepType DEF CommitCookies
  <2> QED
    BY <1>13, <1>a, <1>b, <2>1, <2>2 DEF CommitCookies
<1>14. ASSUME NEW r \in Request, CommitDelete(r)
       PROVE  TypeInv'
  <2>1. FilterTypeOK' /\ ActiveHasSession'
    BY <1>11, <1>12, <1>14 DEF CommitDelete
  <2>2. CacheTypeOK'
    BY <1>0, <1>d, <1>14, CacheStepType DEF CommitDelete
  <2> QED
    BY <1>14, <1>a, <1>c, <2>1, <2>2 DEF CommitDelete
<1>15. ASSUME NEW r \in Request, NEW ok \in BOOLEAN, CommitRead(r, ok)
       PROVE  TypeInv'
  <2>1. FilterTypeOK' /\ ActiveHasSession'
    <3>1. (todo[r] \ {"cache"}) \cup {"write"} \in SUBSET Todo
      BY <1>12 DEF Todo
    <3> QED
      BY <1>11, <1>15, <3>1 DEF CommitRead
  <2>2. CacheTypeOK'
    <3>1. \E map : NewMap(r, map)
      BY <1>0, <1>d, <1>15, CommitReadMap DEF CommitRead
    <3> QED
      BY <1>0, <1>15, <3>1, CacheStepType DEF CommitRead
  <2> QED
    BY <1>15, <1>a, <1>c, <2>1, <2>2 DEF CommitRead
<1>16. ASSUME NEW r \in Request, CommitWrite(r)
       PROVE  TypeInv'
  <2>1. FilterTypeOK' /\ ActiveHasSession'
    BY <1>11, <1>12, <1>16 DEF CommitWrite
  <2>2. CacheTypeOK'
    BY <1>0, <1>d, <1>16, CacheStepType DEF CommitWrite
  <2> QED
    BY <1>16, <1>a, <1>c, <2>1, <2>2 DEF CommitWrite
<1>17. ASSUME NEW r \in Request, DropSession(r), NEW stage \in Stage \ {"handling", "committing"},
              pc' = [pc EXCEPT ![r] = stage], UNCHANGED issuer,
              jar' \in [Browser -> Cookies], browser' \in [Request -> Browser \cup {NULL}]
       PROVE  FilterTypeOK' /\ ActiveHasSession'
  <2>1. 0 \in 0..MaxCalls
    BY CallsAssumption
  <2>2. FilterTypeOK'
    BY <1>0, <1>17, <2>1 DEF DropSession, FilterTypeOK
  <2>3. ActiveHasSession'
    BY <1>0, <1>17 DEF DropSession, FilterTypeOK, ActiveHasSession, Active, HasSession
  <2> QED
    BY <2>2, <2>3
<1>18. ASSUME NEW r \in Request, Fail(r), redis' \in [SessionId -> Record]
       PROVE  TypeInv'
  <2>1. FilterTypeOK' /\ ActiveHasSession'
    BY <1>0, <1>17, <1>18 DEF Fail, FilterTypeOK, Stage
  <2>2. CacheTypeOK'
    BY <1>0, <1>18, CacheStepType DEF Fail, DropSession
  <2>3. CookieTypeOK'
    BY <1>0, <1>18, CookieStepType DEF Fail, DropSession
  <2> QED
    BY <1>a, <2>1, <2>2, <2>3
<1>19. ASSUME NEW r \in Request, Finish(r)
       PROVE  TypeInv'
  <2>1. FilterTypeOK' /\ ActiveHasSession'
    <3>1. 0 \in 0..MaxCalls
      BY CallsAssumption
    <3> QED
      BY <1>0, <1>19, <3>1
      DEF Finish, sessionVars, FilterTypeOK, Stage, ActiveHasSession, Active, HasSession
  <2> QED
    BY <1>19, <1>a, <1>b, <1>c, <2>1 DEF Finish
<1>20. ASSUME NEW r \in Request, EndRequest(r), jar' \in [Browser -> Cookies]
       PROVE  TypeInv'
  <2>1. FilterTypeOK' /\ ActiveHasSession'
    BY <1>0, <1>17, <1>20 DEF EndRequest, FilterTypeOK, Stage
  <2>2. CacheTypeOK'
    BY <1>0, <1>20, CacheStepType DEF EndRequest, DropSession, CacheTypeOK
  <2>3. CookieTypeOK'
    BY <1>0, <1>20, CookieStepType DEF EndRequest, DropSession
  <2> QED
    BY <1>a, <2>1, <2>2, <2>3
<1>21. ASSUME NEW r \in Request, Deliver(r)
       PROVE  TypeInv'
  <2> DEFINE cookies == [n \in CookieName |->
                           IF setCookies[r][n] = Expired THEN NULL
                           ELSE IF setCookies[r][n] # NULL THEN setCookies[r][n]
                           ELSE jar[browser[r]][n]]
  <2>1. jar' = [jar EXCEPT ![browser[r]] = cookies]
    BY <1>21 DEF Deliver
  <2>2. ASSUME browser[r] \in Browser PROVE cookies \in Cookies
    BY <1>0, <2>2 DEF CookieTypeOK, FilterTypeOK, Cookies
  <2>3. jar' \in [Browser -> Cookies]
    BY <1>0, <2>1, <2>2 DEF FilterTypeOK
  <2> QED
    BY <1>20, <1>21, <2>3 DEF Deliver
<1>22. ASSUME NEW r \in Request, Lose(r)
       PROVE  TypeInv'
  BY <1>0, <1>20, <1>22 DEF Lose, FilterTypeOK
<1>23. ASSUME NEW sid \in SessionId, Expire(sid)
       PROVE  TypeInv'
  <2>1. FilterTypeOK' /\ ActiveHasSession'
    BY <1>0, <1>23 DEF Expire, sessionVars, FilterTypeOK, ActiveHasSession, Active, HasSession
  <2>2. CacheTypeOK'
    BY <1>0, <1>23 DEF Expire, cacheVars, CacheTypeOK, NoAttributes, Record
  <2> QED
    BY <1>23, <1>a, <1>c, <2>1, <2>2 DEF Expire
<1>24. ASSUME NEW sid \in SessionId, Retire(sid)
       PROVE  TypeInv'
  <2>1. FilterTypeOK' /\ ActiveHasSession'
    BY <1>0, <1>24 DEF Retire, sessionVars, FilterTypeOK, ActiveHasSession, Active, HasSession
  <2> QED
    BY <1>24, <1>a, <1>b, <1>c, <2>1 DEF Retire
<1>25. ASSUME NEW r \in Request, HandlerThrows(r)
       PROVE  TypeInv'
  BY <1>0, <1>18, <1>25 DEF HandlerThrows, CacheTypeOK
<1>26. ASSUME NEW r \in Request, CommitThrows(r)
       PROVE  TypeInv'
  <2>1. redis' \in [SessionId -> Record]
    BY <1>0, <1>d, <1>26, CacheStepType DEF CommitThrows, CacheTypeOK
  <2> QED
    BY <1>18, <1>26, <2>1 DEF CommitThrows
<1>27. ASSUME NEW b \in Browser, CloseBrowser(b)
       PROVE  TypeInv'
  <2>1. jar' \in [Browser -> Cookies]
    BY <1>0, <1>27 DEF CloseBrowser, FilterTypeOK, Cookies
  <2>2. FilterTypeOK' /\ ActiveHasSession'
    BY <1>0, <1>27, <2>1 DEF CloseBrowser, sessionVars, FilterTypeOK, ActiveHasSession, Active, HasSession
  <2> QED
    BY <1>27, <1>a, <1>b, <1>c, <2>2 DEF CloseBrowser
<1> QED
  BY <1>1, <1>2, <1>3, <1>4, <1>6, <1>7, <1>8, <1>9, <1>10, <1>13, <1>14, <1>15, <1>16,
     <1>19, <1>21, <1>22, <1>23, <1>24, <1>25, <1>26, <1>27
  DEF Next, Environment, Server, Handler, Commit

\* Every variable keeps its type, and a thread that uses a session has its id,
\* for every instance of the framework.
THEOREM TypeCorrect == Spec => []TypeOK
<1>1. TypeInv => TypeOK
  BY DEF TypeInv
<1> QED
  BY <1>1, TypeInit, TypeStep, PTL DEF Spec

-----------------------------------------------------------------------------
(* The record's time to live *)

LEMMA RenewStep == TypeInv /\ CommitRenewsRecord /\ [Next]_vars => CommitRenewsRecord'
<1> SUFFICES ASSUME TypeInv, CommitRenewsRecord, [Next]_vars,
                    NEW q \in Request, Active(q)', valid'[q]
             PROVE  attributes'[q]["lastVisitTime"] # NULL
  BY DEF CommitRenewsRecord
<1>0. CacheTypeOK /\ FilterTypeOK
  BY DEF TypeInv, TypeOK, FilterTypeOK
<1>a. \A r \in Request : pc[r] \in {"handling", "committing"} => sessionId[r] \in SessionId
  BY <1>0 DEF TypeInv, ActiveHasSession, Active, HasSession, FilterTypeOK
<1>b. "lastVisitTime" \in CacheName
  BY DEF CacheName
<1>c. Active(q) /\ valid[q] => attributes[q]["lastVisitTime"] # NULL
  BY DEF CommitRenewsRecord
<1>d. ASSUME UNCHANGED attributes, Active(q), valid[q]
      PROVE  attributes'[q]["lastVisitTime"] # NULL
  BY <1>c, <1>d
\* A step that replaces the map of r by a good one, or by a good one with
\* another attribute changed.
<1>e. ASSUME NEW r \in Request, NEW map, NEW sid, GoodMap(r, sid, map),
             attributes' = [attributes EXCEPT ![r] = map], Active(q), valid[q]
      PROVE  attributes'[q]["lastVisitTime"] # NULL
  BY <1>0, <1>b, <1>c, <1>e DEF GoodMap, CacheTypeOK
<1>1. CASE UNCHANGED vars
  BY <1>1, <1>d DEF vars, cacheVars, sessionVars, Active
<1>2. ASSUME NEW r \in Request, NEW b \in Browser, Send(r, b)
      PROVE  attributes'[q]["lastVisitTime"] # NULL
  BY <1>0, <1>2, <1>d DEF Send, cacheVars, sessionVars, Active, FilterTypeOK
<1>3. ASSUME NEW r \in Request, LetItGo(r) \/ Finish(r)
      PROVE  attributes'[q]["lastVisitTime"] # NULL
  BY <1>0, <1>3, <1>d DEF LetItGo, Finish, cacheVars, sessionVars, Active, FilterTypeOK
<1>4. ASSUME NEW r \in Request, CreateWrapperSession(r)
      PROVE  attributes'[q]["lastVisitTime"] # NULL
  <2>1. PICK sid \in SessionId : CacheSetAttribute(r, sid, "lastVisitTime", Visit)
    BY <1>4 DEF CreateWrapperSession
  <2>2. Visit \in Value
    BY DEF Value
  <2>3. PICK map : NewMap(r, [map EXCEPT !["lastVisitTime"] = Visit]) /\ map \in Record
    BY <1>0, <1>b, <2>1, <2>2, CacheSetMap DEF GoodMap
  <2>4. CASE q = r
    BY <1>0, <1>b, <2>3, <2>4, DistinctAssumption DEF NewMap, CacheTypeOK, Record
  <2>5. CASE q # r
    BY <1>0, <1>4, <1>c, <2>3, <2>5
    DEF CreateWrapperSession, NewMap, CacheTypeOK, Active, FilterTypeOK
  <2> QED
    BY <2>4, <2>5
<1>5. ASSUME NEW r \in Request, NEW name \in HandlerName, NEW value \in User \cup {NULL},
             SetAttribute(r, name, value)
      PROVE  attributes'[q]["lastVisitTime"] # NULL
  <2>1. sessionId[r] \in SessionId /\ name \in CacheName /\ value \in Value \cup {NULL}
    BY <1>a, <1>5 DEF SetAttribute, Call, Value
  <2>2. PICK map : /\ GoodMap(r, sessionId[r], map)
                   /\ NewMap(r, [map EXCEPT ![name] = value])
    BY <1>0, <1>5, <2>1, CacheSetMap DEF SetAttribute
  <2>3. name # "lastVisitTime"
    BY HandlerAssumption
  <2>4. Active(q) /\ valid[q]
    BY <1>5 DEF SetAttribute, Active
  <2>5. CASE q = r
    BY <1>0, <1>b, <1>c, <2>2, <2>3, <2>4, <2>5 DEF GoodMap, NewMap, CacheTypeOK, Record
  <2>6. CASE q # r
    BY <1>0, <1>c, <2>2, <2>4, <2>6 DEF NewMap, CacheTypeOK
  <2> QED
    BY <2>5, <2>6
<1>6. ASSUME NEW r \in Request, NEW name \in HandlerName, SetAttributeRefused(r, name)
      PROVE  attributes'[q]["lastVisitTime"] # NULL
  BY <1>6, <1>d DEF SetAttributeRefused, cacheVars, sessionVars, Active
<1>7. ASSUME NEW r \in Request, GetAttribute(r)
      PROVE  attributes'[q]["lastVisitTime"] # NULL
  <2>1. PICK map : GoodMap(r, sessionId[r], map) /\ NewMap(r, map)
    BY <1>0, <1>a, <1>7, CacheGetMap DEF GetAttribute, Call
  <2> QED
    BY <1>7, <1>e, <2>1 DEF GetAttribute, sessionVars, Active, NewMap
<1>8. ASSUME NEW r \in Request, Invalidate(r)
      PROVE  attributes'[q]["lastVisitTime"] # NULL
  <2>1. q # r /\ Active(q) /\ valid[q]
    BY <1>0, <1>8 DEF Invalidate, Active, FilterTypeOK
  <2>2. PICK map : NewMap(r, map)
    BY <1>0, <1>a, <1>8, CacheRemoveMap DEF Invalidate, Call
  <2> QED
    BY <1>0, <1>c, <2>1, <2>2 DEF NewMap, CacheTypeOK
<1>9. ASSUME NEW r \in Request, GetWriter(r)
      PROVE  attributes'[q]["lastVisitTime"] # NULL
  BY <1>0, <1>9, <1>d DEF GetWriter, Call, cacheVars, sessionVars, Active, FilterTypeOK
<1>10. ASSUME NEW r \in Request, CommitCookies(r) \/ CommitDelete(r) \/ CommitWrite(r)
       PROVE  attributes'[q]["lastVisitTime"] # NULL
  BY <1>0, <1>10, <1>d
  DEF CommitCookies, CommitDelete, CommitWrite, StoreDone, cacheVars, sessionVars, Active,
      FilterTypeOK
<1>11. ASSUME NEW r \in Request, NEW ok \in BOOLEAN, CommitRead(r, ok)
       PROVE  attributes'[q]["lastVisitTime"] # NULL
  <2>1. PICK map : GoodMap(r, sessionId[r], map) /\ NewMap(r, map)
    BY <1>0, <1>a, <1>11, CommitReadMap DEF CommitRead
  <2>2. Active(q) /\ valid[q]
    BY <1>0, <1>11 DEF CommitRead, StoreDone, sessionVars, Active, FilterTypeOK
  <2> QED
    BY <1>e, <2>1, <2>2 DEF NewMap
<1>12. ASSUME NEW r \in Request, Fail(r) \/ EndRequest(r)
       PROVE  attributes'[q]["lastVisitTime"] # NULL
  <2>1. q # r /\ Active(q) /\ valid[q]
    BY <1>0, <1>12 DEF Fail, EndRequest, DropSession, Active, FilterTypeOK
  <2> QED
    BY <1>0, <1>12, <1>c, <2>1 DEF Fail, EndRequest, DropSession, DropCacheStore, CacheTypeOK
<1>13. ASSUME NEW sid \in SessionId, Expire(sid) \/ Retire(sid)
       PROVE  attributes'[q]["lastVisitTime"] # NULL
  BY <1>13, <1>d DEF Expire, Retire, cacheVars, sessionVars, Active
<1>14. ASSUME NEW b \in Browser, CloseBrowser(b)
       PROVE  attributes'[q]["lastVisitTime"] # NULL
  BY <1>14, <1>d DEF CloseBrowser, cacheVars, sessionVars, Active
<1> QED
  BY <1>1, <1>2, <1>3, <1>4, <1>5, <1>6, <1>7, <1>8, <1>9, <1>10, <1>11, <1>12, <1>13, <1>14
  DEF Next, Environment, Server, Handler, Commit, CommitThrows, HandlerThrows, Deliver, Lose

\* Whichever calls to Redis fail, a session that is still valid has something
\* to write at its commit, so that the record's time to live is renewed.
THEOREM CommitRenews == Spec => []CommitRenewsRecord
<1>1. Init => CommitRenewsRecord
  BY DEF Init, CommitRenewsRecord, Active
<1> QED
  BY <1>1, TypeInit, TypeStep, RenewStep, PTL DEF Spec

-----------------------------------------------------------------------------
(* The headers of a response *)

Carried(r) == undecodedCookies[r]["sessionId"]

Header(r) == setCookies[r]["sessionId"]

CookieId(r) == cookieAttributes[r]["sessionId"]

\* Before its session is created a request has added no header.
NoHeaderBefore ==
  \A r \in Request :
    pc[r] \in {"idle", "sent"} => Header(r) = NULL /\ ~HasSession(r)

\* The id in the cookie store is the session's or was removed, and as long as
\* the session is valid the browser has sent it, will be sent it by the next
\* commit, or was sent it by an earlier one.
CookieStoreAgrees ==
  \A r \in Request : HasSession(r) =>
    /\ Carried(r) \in {NULL, sessionId[r]}
    /\ CookieId(r) # sessionId[r] => CookieId(r) = NULL /\ ~valid[r]
    /\ CookieId(r) # NULL /\ "sessionId" \in modifiedCookies[r] => Carried(r) = NULL
    /\ valid[r] => \/ Carried(r) = sessionId[r]
                   \/ Header(r) = sessionId[r]
                   \/ /\ "sessionId" \in modifiedCookies[r]
                      /\ pc[r] = "committing" => "cookie" \in todo[r]

HeaderInv == NoHeaderBefore /\ CookieStoreAgrees /\ HeadersMatchSession

LEMMA HeaderInit == Init => HeaderInv
BY CookieNameAssumption DEF Init, CookieInit, NoCookies, HeaderInv, NoHeaderBefore, CookieStoreAgrees,
       HeadersMatchSession, HasSession, Header

\* The part of HeaderInv that is about the request q.
HeaderInvOf(q) ==
  LET carried == Carried(q)
      header == Header(q)
      cookie == CookieId(q)
      id == sessionId[q]
      modified == "sessionId" \in modifiedCookies[q]
  IN  /\ pc[q] \in {"idle", "sent"} => header = NULL /\ id = NULL
      /\ id # NULL =>
           /\ carried \in {NULL, id}
           /\ cookie # id => cookie = NULL /\ ~valid[q]
           /\ cookie # NULL /\ modified => carried = NULL
           /\ valid[q] => \/ carried = id
                          \/ header = id
                          \/ modified /\ (pc[q] = "committing" => "cookie" \in todo[q])
           /\ header \in SessionId => header = id /\ carried = NULL
           /\ header = Expired => ~valid[q] /\ carried = id
           /\ pc[q] = "committing" /\ "cookie" \notin todo[q] /\ valid[q]
                => id \in {carried, header}

LEMMA HeaderInvIs == HeaderInv <=> \A q \in Request : HeaderInvOf(q)
BY DEF HeaderInv, HeaderInvOf, NoHeaderBefore, CookieStoreAgrees, HeadersMatchSession,
       HasSession, Header, Carried, CookieId

LEMMA HeaderStep == TypeInv /\ HeaderInv /\ [Next]_vars => HeaderInv'
<1> SUFFICES ASSUME TypeInv, \A q \in Request : HeaderInvOf(q), [Next]_vars, NEW q \in Request
             PROVE  HeaderInvOf(q)'
  BY HeaderInvIs DEF HeaderInvOf, HeaderInv, NoHeaderBefore, CookieStoreAgrees,
     HeadersMatchSession, HasSession, Header, Carried, CookieId
<1>0. CookieTypeOK /\ FilterTypeOK /\ HeaderInvOf(q) /\ "sessionId" \in CookieName
  BY CookieNameAssumption DEF TypeInv, TypeOK, FilterTypeOK
<1> USE DEF HeaderInvOf, Header, Carried, CookieId
<1>a. ASSUME UNCHANGED <<cookieVars, sessionId>>, valid'[q] => valid[q],
             pc'[q] \in {"idle", "sent"} => pc[q] \in {"idle", "sent"},
             pc'[q] = "committing" => pc[q] = "committing" /\ ("cookie" \in todo[q] <=> "cookie" \in todo'[q])
      PROVE  HeaderInvOf(q)'
  BY <1>0, <1>a DEF cookieVars
<1>1. CASE UNCHANGED vars
  BY <1>1, <1>a DEF vars, sessionVars
<1>2. ASSUME NEW r \in Request, NEW b \in Browser, Send(r, b)
      PROVE  HeaderInvOf(q)'
  <2>1. CASE q = r
    BY <1>0, <1>2, <2>1 DEF Send, sessionVars, FilterTypeOK
  <2>2. CASE q # r
    BY <1>0, <1>2, <2>2 DEF Send, sessionVars, FilterTypeOK, CookieTypeOK
  <2> QED
    BY <2>1, <2>2
<1>3. ASSUME NEW r \in Request, LetItGo(r) \/ Finish(r)
      PROVE  HeaderInvOf(q)'
  BY <1>0, <1>3, <1>a DEF LetItGo, Finish, cookieVars, sessionVars, FilterTypeOK
<1>4. ASSUME NEW r \in Request, CreateWrapperSession(r)
      PROVE  HeaderInvOf(q)'
  <2>1. PICK sid \in SessionId :
          /\ SessionIdFor(r, sid)
          /\ sessionId' = [sessionId EXCEPT ![r] = sid]
          /\ GenerateMissing(r, [sessionId |-> sid, trackId |-> Track])
    BY <1>4 DEF CreateWrapperSession
  <2>2. CASE q = r
    <3>1. Carried(r) # NULL => sid = Carried(r)
      BY <2>1 DEF SessionIdFor
    <3>2. /\ cookieAttributes'[r]["sessionId"] = sid
          /\ "sessionId" \in modifiedCookies'[r] <=> Carried(r) = NULL
      BY <1>0, <2>1, <3>1 DEF GenerateMissing, CookieTypeOK
    <3>3. sessionId'[r] = sid /\ pc'[r] = "handling" /\ setCookies'[r]["sessionId"] = NULL
          /\ undecodedCookies'[r]["sessionId"] = Carried(r)
      BY <1>0, <1>4, <2>1, <2>2 DEF CreateWrapperSession, FilterTypeOK
    <3> QED
      BY <2>2, <3>1, <3>2, <3>3, DistinctAssumption
  <2>3. CASE q # r
    BY <1>0, <1>4, <2>1, <2>3 DEF CreateWrapperSession, GenerateMissing, FilterTypeOK, CookieTypeOK
  <2> QED
    BY <2>2, <2>3
<1>5. ASSUME NEW r \in Request, NEW name \in HandlerName, NEW value \in User \cup {NULL},
             SetAttribute(r, name, value)
      PROVE  HeaderInvOf(q)'
  BY <1>5, <1>a DEF SetAttribute
<1>6. ASSUME NEW r \in Request, NEW name \in HandlerName, SetAttributeRefused(r, name)
      PROVE  HeaderInvOf(q)'
  BY <1>6, <1>a DEF SetAttributeRefused, sessionVars
<1>7. ASSUME NEW r \in Request, GetAttribute(r)
      PROVE  HeaderInvOf(q)'
  BY <1>7, <1>a DEF GetAttribute, sessionVars
<1>8. ASSUME NEW r \in Request, Invalidate(r)
      PROVE  HeaderInvOf(q)'
  <2>1. CASE q = r
    <3>1. cookieAttributes'[r]["sessionId"] = NULL /\ ~valid'[r]
      BY <1>0, <1>8 DEF Invalidate, ForgetCookies, CookieTypeOK, FilterTypeOK, ShortLived, ConfiguredName
    <3> QED
      BY <1>0, <1>8, <2>1, <3>1 DEF Invalidate, Call
  <2>2. CASE q # r
    BY <1>0, <1>8, <2>2 DEF Invalidate, ForgetCookies, CookieTypeOK, FilterTypeOK
  <2> QED
    BY <2>1, <2>2
<1>9. ASSUME NEW r \in Request, GetWriter(r)
      PROVE  HeaderInvOf(q)'
  <2>1. CASE q = r
    <3>1. pc[r] = "handling" /\ "cookie" \in todo'[r] /\ pc'[r] = "committing"
      BY <1>0, <1>9 DEF GetWriter, Call, FilterTypeOK
    <3> QED
      BY <1>0, <1>9, <2>1, <3>1 DEF GetWriter, cookieVars, sessionVars
  <2>2. CASE q # r
    BY <1>0, <1>9, <1>a, <2>2 DEF GetWriter, sessionVars, FilterTypeOK
  <2> QED
    BY <2>1, <2>2
<1>10. ASSUME NEW r \in Request, CommitCookies(r)
       PROVE  HeaderInvOf(q)'
  <2>1. CASE q = r
    <3>1. /\ "sessionId" \notin Writable(r) =>
               /\ Header(r)' = Header(r)
               /\ "sessionId" \in modifiedCookies'[r] <=> "sessionId" \in modifiedCookies[r]
          /\ "sessionId" \in Writable(r) =>
               /\ Header(r)' = IF CookieId(r) = NULL THEN Expired ELSE CookieId(r)
               /\ "sessionId" \notin modifiedCookies'[r]
      BY <1>0, <1>10 DEF CommitCookies, CookieCommit, CookieTypeOK
    <3>2. "sessionId" \in Writable(r) <=>
            "sessionId" \in modifiedCookies[r] /\ (CookieId(r) # NULL \/ Carried(r) # NULL)
      BY <1>0 DEF Writable
    <3>3. UNCHANGED <<CookieId(r), Carried(r), sessionId[r], valid[r]>>
      BY <1>10 DEF CommitCookies, sessionVars
    <3>4. pc[r] = "committing" /\ pc'[r] \in {"committing", "handling"} /\ "cookie" \in todo[r]
      BY <1>0, <1>10 DEF CommitCookies, StoreDone, FilterTypeOK
    <3>5. sessionId[r] \in SessionId
      BY <1>0, <3>4 DEF TypeInv, ActiveHasSession, Active, HasSession, FilterTypeOK
    <3> QED
      BY <1>0, <2>1, <3>1, <3>2, <3>3, <3>4, <3>5, DistinctAssumption
  <2>2. CASE q # r
    BY <1>0, <1>10, <2>2
    DEF CommitCookies, CookieCommit, StoreDone, sessionVars, FilterTypeOK, CookieTypeOK
  <2> QED
    BY <2>1, <2>2
<1>11. ASSUME NEW r \in Request, NEW rest, StoreDone(r, rest), pc[r] = "committing",
              "cookie" \in todo[r] <=> "cookie" \in rest, rest \in SUBSET Todo,
              UNCHANGED <<cookieVars, sessionVars>>
       PROVE  HeaderInvOf(q)'
  BY <1>0, <1>11, <1>a DEF StoreDone, sessionVars, FilterTypeOK
<1>12. \A r \in Request : todo[r] \in SUBSET Todo
  BY <1>0 DEF FilterTypeOK
<1>13. ASSUME NEW r \in Request, CommitDelete(r) \/ CommitWrite(r)
       PROVE  HeaderInvOf(q)'
  BY <1>11, <1>12, <1>13 DEF CommitDelete, CommitWrite
<1>14. ASSUME NEW r \in Request, NEW ok \in BOOLEAN, CommitRead(r, ok)
       PROVE  HeaderInvOf(q)'
  <2>1. (todo[r] \ {"cache"}) \cup {"write"} \in SUBSET Todo
    BY <1>12 DEF Todo
  <2> QED
    BY <1>11, <1>14, <2>1 DEF CommitRead
<1>15. ASSUME NEW r \in Request, Fail(r) \/ EndRequest(r)
       PROVE  HeaderInvOf(q)'
  <2>1. CASE q = r
    BY <1>0, <1>15, <2>1
    DEF Fail, EndRequest, DropSession, FilterTypeOK, CookieTypeOK, NoCookies
  <2>2. CASE q # r
    BY <1>0, <1>15, <2>2
    DEF Fail, EndRequest, DropSession, DropCookieStore, FilterTypeOK, CookieTypeOK
  <2> QED
    BY <2>1, <2>2
<1>16. ASSUME NEW sid \in SessionId, Expire(sid) \/ Retire(sid)
       PROVE  HeaderInvOf(q)'
  BY <1>16, <1>a DEF Expire, Retire, sessionVars
<1>17. ASSUME NEW b \in Browser, CloseBrowser(b)
       PROVE  HeaderInvOf(q)'
  BY <1>17, <1>a DEF CloseBrowser, sessionVars
<1> QED
  BY <1>1, <1>2, <1>3, <1>4, <1>5, <1>6, <1>7, <1>8, <1>9, <1>10, <1>13, <1>14, <1>15, <1>16,
     <1>17
  DEF Next, Environment, Server, Handler, Commit, CommitThrows, HandlerThrows, Deliver, Lose

\* The Set-Cookie header for the id always agrees with the session that the
\* response was made in, however often the response is committed.
THEOREM HeadersAgree == Spec => []HeadersMatchSession
<1>1. HeaderInv => HeadersMatchSession
  BY DEF HeaderInv
<1> QED
  BY <1>1, TypeInit, TypeStep, HeaderInit, HeaderStep, PTL DEF Spec

-----------------------------------------------------------------------------
(* Track ids *)

\* A name whose cookie outlives the session.
LongLived == CookieName \ ShortLived

\* No response removes a long-lived cookie, since no session in use lacks it.
TrackInvOf(q) ==
  \A n \in LongLived :
    /\ setCookies[q][n] # Expired
    /\ Active(q) => cookieAttributes[q][n] # NULL

TrackInv == \A q \in Request : TrackInvOf(q)

LEMMA LongLivedIs == LongLived \subseteq CookieName \cap {"trackId"}
BY CookieNameAssumption DEF LongLived, ShortLived, ConfiguredName

LEMMA TrackInit == Init => TrackInv
BY DistinctAssumption, LongLivedIs
DEF Init, CookieInit, NoCookies, TrackInv, TrackInvOf, Active

LEMMA TrackStep == TypeInv /\ TrackInv /\ [Next]_vars => TrackInv'
<1> SUFFICES ASSUME TypeInv, TrackInv, [Next]_vars, NEW q \in Request PROVE TrackInvOf(q)'
  BY DEF TrackInv
<1>0. CookieTypeOK /\ FilterTypeOK /\ TrackInvOf(q)
  BY DEF TypeInv, TypeOK, FilterTypeOK, TrackInv
<1>a. ASSUME UNCHANGED <<setCookies[q], cookieAttributes[q]>>, Active(q)' => Active(q)
      PROVE  TrackInvOf(q)'
  BY <1>0, <1>a DEF TrackInvOf
<1>1. CASE UNCHANGED vars
  BY <1>1, <1>a DEF vars, cookieVars, Active
<1>2. ASSUME NEW r \in Request, NEW b \in Browser, Send(r, b) PROVE TrackInvOf(q)'
  BY <1>0, <1>2, <1>a DEF Send, Active, FilterTypeOK
<1>3. ASSUME NEW r \in Request, LetItGo(r) \/ Finish(r) \/ GetWriter(r) PROVE TrackInvOf(q)'
  BY <1>0, <1>3, <1>a DEF LetItGo, Finish, GetWriter, Call, cookieVars, Active, FilterTypeOK
<1>4. ASSUME NEW r \in Request, CreateWrapperSession(r) PROVE TrackInvOf(q)'
  <2>1. PICK sid \in SessionId : GenerateMissing(r, [sessionId |-> sid, trackId |-> Track])
    BY <1>4 DEF CreateWrapperSession
  <2>2. CASE q = r
    <3> SUFFICES ASSUME NEW n \in LongLived PROVE cookieAttributes'[q][n] # NULL
      BY <1>0, <1>4 DEF CreateWrapperSession, TrackInvOf
    <3>1. n = "trackId" /\ n \in CookieName
      BY LongLivedIs
    <3>2. cookieAttributes'[q][n]
            = IF undecodedCookies[q][n] = NULL THEN Track ELSE undecodedCookies[q][n]
      BY <1>0, <2>1, <2>2, <3>1 DEF GenerateMissing, CookieTypeOK
    <3> QED
      BY <3>2, DistinctAssumption
  <2>3. CASE q # r
    BY <1>0, <1>4, <1>a, <2>1, <2>3
    DEF CreateWrapperSession, GenerateMissing, Active, CookieTypeOK, FilterTypeOK
  <2> QED
    BY <2>2, <2>3
<1>5. ASSUME NEW r \in Request,
             \/ \E name \in HandlerName, value \in User \cup {NULL} : SetAttribute(r, name, value)
             \/ \E name \in HandlerName : SetAttributeRefused(r, name)
             \/ GetAttribute(r)
      PROVE  TrackInvOf(q)'
  BY <1>5, <1>a DEF SetAttribute, SetAttributeRefused, GetAttribute, cookieVars, Active
<1>6. ASSUME NEW r \in Request, Invalidate(r) PROVE TrackInvOf(q)'
  <2>1. ASSUME NEW n \in LongLived PROVE cookieAttributes'[q][n] = cookieAttributes[q][n]
    BY <1>0, <1>6, <2>1 DEF Invalidate, ForgetCookies, CookieTypeOK, LongLived
  <2> QED
    BY <1>0, <1>6, <2>1 DEF Invalidate, TrackInvOf, Active
<1>7. ASSUME NEW r \in Request, CommitCookies(r) PROVE TrackInvOf(q)'
  <2>1. CASE q = r
    <3>1. Active(q) /\ UNCHANGED cookieAttributes
      BY <1>7, <2>1 DEF CommitCookies, Active
    <3>2. ASSUME NEW n \in LongLived PROVE setCookies'[q][n] # Expired
      <4>1. n \in CookieName /\ cookieAttributes[q][n] # NULL /\ setCookies[q][n] # Expired
        BY <1>0, <3>1, LongLivedIs DEF TrackInvOf
      <4>2. cookieAttributes[q][n] # Expired
        <5>1. cookieAttributes[q][n] \in CookieValue
          BY <1>0, <4>1 DEF CookieTypeOK, Cookies
        <5> QED
          BY <5>1, DistinctAssumption DEF CookieValue, Track, Expired
      <4>3. setCookies'[q][n] \in {setCookies[q][n], cookieAttributes[q][n]}
        BY <1>0, <1>7, <2>1, <4>1 DEF CommitCookies, CookieCommit, CookieTypeOK
      <4> QED
        BY <4>1, <4>2, <4>3
    <3> QED
      BY <1>0, <3>1, <3>2 DEF TrackInvOf
  <2>2. CASE q # r
    BY <1>0, <1>7, <1>a, <2>2
    DEF CommitCookies, CookieCommit, StoreDone, Active, CookieTypeOK, FilterTypeOK
  <2> QED
    BY <2>1, <2>2
<1>8. ASSUME NEW r \in Request,
             CommitDelete(r) \/ CommitWrite(r) \/ \E ok \in BOOLEAN : CommitRead(r, ok)
      PROVE  TrackInvOf(q)'
  BY <1>0, <1>8, <1>a
  DEF CommitDelete, CommitWrite, CommitRead, StoreDone, cookieVars, Active, FilterTypeOK
<1>9. ASSUME NEW r \in Request, Fail(r) \/ EndRequest(r) PROVE TrackInvOf(q)'
  <2>1. CASE q = r
    <3>1. ~Active(q)'
      BY <1>0, <1>9, <2>1 DEF Fail, EndRequest, Active, FilterTypeOK
    <3>2. \A n \in LongLived : setCookies'[q][n] \in {setCookies[q][n], NULL}
      BY <1>0, <1>9, <2>1, LongLivedIs DEF Fail, EndRequest, NoCookies, CookieTypeOK
    <3> QED
      BY <1>0, <3>1, <3>2, DistinctAssumption DEF TrackInvOf
  <2>2. CASE q # r
    BY <1>0, <1>9, <1>a, <2>2
    DEF Fail, EndRequest, DropSession, DropCookieStore, Active, CookieTypeOK, FilterTypeOK
  <2> QED
    BY <2>1, <2>2
<1>10. ASSUME \/ \E sid \in SessionId : Expire(sid) \/ Retire(sid)
              \/ \E b \in Browser : CloseBrowser(b)
       PROVE  TrackInvOf(q)'
  BY <1>10, <1>a DEF Expire, Retire, CloseBrowser, cookieVars, Active
<1> QED
  BY <1>1, <1>2, <1>3, <1>4, <1>5, <1>6, <1>7, <1>8, <1>9, <1>10
  DEF Next, Environment, Server, Handler, Commit, HandlerThrows, CommitThrows, Deliver, Lose

\* A track id that a browser has is never taken away, only replaced: no
\* response removes it and the end of the browser's session leaves it alone.
THEOREM TrackIdStays == Spec => TrackIdKept
<1> DEFINE Kept ==
      \A b \in Browser, n \in CookieName \ ShortLived : jar[b][n] # NULL => jar'[b][n] # NULL
<1>1. ASSUME TypeInv, TrackInv, [Next]_vars PROVE Kept
  <2> SUFFICES ASSUME NEW b \in Browser, NEW n \in LongLived, jar[b][n] # NULL
               PROVE  jar'[b][n] # NULL
    BY DEF LongLived
  <2>0. FilterTypeOK /\ CookieTypeOK /\ n \in CookieName /\ n # "sessionId"
    BY <1>1, LongLivedIs DEF TypeInv, TypeOK, FilterTypeOK
  <2>1. ASSUME NEW r \in Request, Deliver(r) PROVE jar'[b][n] # NULL
    <3>1. CASE b = browser[r]
      <4>1. setCookies[r][n] # Expired
        BY <1>1 DEF TrackInv, TrackInvOf
      <4>2. jar'[b][n] = IF setCookies[r][n] # NULL THEN setCookies[r][n] ELSE jar[b][n]
        BY <2>0, <2>1, <3>1, <4>1 DEF Deliver, FilterTypeOK
      <4> QED
        BY <4>2
    <3>2. CASE b # browser[r]
      BY <2>0, <2>1, <3>2 DEF Deliver, FilterTypeOK
    <3> QED
      BY <3>1, <3>2
  <2>2. ASSUME NEW c \in Browser, CloseBrowser(c) PROVE jar'[b][n] # NULL
    BY <2>0, <2>2 DEF CloseBrowser, FilterTypeOK, Cookies
  <2>3. CASE UNCHANGED jar
    BY <2>3
  <2>4. (\E r \in Request : Deliver(r)) \/ (\E c \in Browser : CloseBrowser(c)) \/ UNCHANGED jar
    BY <1>1
    DEF Next, Environment, Server, Handler, Commit, vars, Send, Lose, Expire, Retire, LetItGo,
        CreateWrapperSession, SetAttribute, SetAttributeRefused, GetAttribute, Invalidate,
        HandlerThrows, CommitThrows, Fail, GetWriter, CommitCookies, CommitDelete, CommitRead,
        CommitWrite, Finish
  <2> QED
    BY <2>1, <2>2, <2>3, <2>4
<1> QED
  BY <1>1, TypeInit, TypeStep, TrackInit, TrackStep, PTL DEF Spec, TrackIdKept

-----------------------------------------------------------------------------
(* Isolation *)

\* The id in a browser's jar was generated for that browser.
JarOwned ==
  \A b \in Browser :
    jar[b]["sessionId"] \in SessionId => issuer[jar[b]["sessionId"]] = b

\* So were all ids that a request of the browser holds.
RequestOwned ==
  \A r \in Request :
    \A s \in {sessionId[r], Carried(r), Header(r)} \cap SessionId : issuer[s] = browser[r]

\* An account in a map belongs to the person at browser b.
Owned(map, b) ==
  UserOf(map) # NULL => UserOf(map) \in User /\ AccountOf[UserOf(map)] = b

RecordsOwned == \A s \in SessionId : Owned(redis[s], issuer[s])

MapsOwned == \A r \in Request : Owned(attributes[r], browser[r])

\* A slot without a session has an empty local map; one without a request
\* holds no cookies.
SlotsClean ==
  \A r \in Request :
    /\ ~HasSession(r) => attributes[r] = NoAttributes
    /\ pc[r] = "idle" => Carried(r) = NULL
    /\ pc[r] # "idle" => browser[r] \in Browser

IsolationInv == RecordsOwned /\ MapsOwned /\ JarOwned /\ RequestOwned /\ SlotsClean

LEMMA IsolationInit == Init => IsolationInv
<1> SUFFICES ASSUME Init PROVE IsolationInv
  OBVIOUS
<1>1. UserOf(NoAttributes) = NULL
  BY DEF UserOf, NoAttributes, CacheName
<1>2. RecordsOwned /\ MapsOwned
  BY <1>1 DEF Init, CacheInit, RecordsOwned, MapsOwned, Owned
<1>3. JarOwned /\ RequestOwned /\ SlotsClean
  BY CookieNameAssumption, DistinctAssumption
  DEF Init, CacheInit, CookieInit, NoCookies, JarOwned, RequestOwned, SlotsClean, HasSession,
      Carried, Header
<1> QED
  BY <1>2, <1>3 DEF IsolationInv

LEMMA IsolationStep ==
  TypeInv /\ HeaderInv /\ IsolationInv /\ [Next]_vars => IsolationInv'
<1> SUFFICES ASSUME TypeInv, HeaderInv, IsolationInv, [Next]_vars
             PROVE  IsolationInv'
  OBVIOUS
<1>0. /\ CacheTypeOK /\ CookieTypeOK /\ FilterTypeOK
      /\ RecordsOwned /\ MapsOwned /\ JarOwned /\ RequestOwned /\ SlotsClean
      /\ NoHeaderBefore /\ CookieStoreAgrees /\ HeadersMatchSession
      /\ "sessionId" \in CookieName /\ "__user__" \in CacheName
  BY CookieNameAssumption
  DEF TypeInv, TypeOK, FilterTypeOK, IsolationInv, HeaderInv, CacheName
<1>a. \A r \in Request : pc[r] \in {"handling", "committing"} => sessionId[r] \in SessionId
  BY <1>0 DEF TypeInv, ActiveHasSession, Active, HasSession, FilterTypeOK
<1>b. UserOf(NoAttributes) = NULL
  BY DEF UserOf, NoAttributes, CacheName
<1>c. \A b : b \in Browser \cup {NULL} => \A map : Owned(map, NULL) => UserOf(map) = NULL
  BY AccountAssumption, DistinctAssumption DEF Owned
\* Requests keep their ids, and nothing else changes hands.
<1>d. UNCHANGED <<sessionId, undecodedCookies, setCookies, jar, browser, issuer>> =>
        JarOwned' /\ RequestOwned'
  BY <1>0 DEF JarOwned, RequestOwned, Carried, Header
<1>e. UNCHANGED <<redis, issuer>> => RecordsOwned'
  BY <1>0 DEF RecordsOwned, Owned
<1>f. UNCHANGED <<attributes, browser>> => MapsOwned'
  BY <1>0 DEF MapsOwned, Owned
\* A good map is owned by the browser whose id it was loaded under.
<1>g. ASSUME NEW r \in Request, sessionId[r] \in SessionId, NEW map,
             \A n \in CacheName : map[n] \in {NULL, attributes[r][n], redis[sessionId[r]][n]}
      PROVE  Owned(map, browser[r])
  <2>1. issuer[sessionId[r]] = browser[r]
    BY <1>0, <1>g DEF RequestOwned
  <2>2. Owned(redis[sessionId[r]], browser[r]) /\ Owned(attributes[r], browser[r])
    BY <1>0, <1>g, <2>1 DEF RecordsOwned, MapsOwned
  <2> QED
    BY <1>0, <1>g, <2>2 DEF Owned, UserOf
<1>h. ASSUME NEW r \in Request, NEW map, NewMap(r, map), Owned(map, browser[r]),
             UNCHANGED browser
      PROVE  MapsOwned'
  BY <1>0, <1>h DEF MapsOwned, NewMap, CacheTypeOK
\* A step of the handler or of a commit on the session of r.
<1>i. ASSUME NEW r \in Request, pc[r] \in {"handling", "committing"}, NEW map, NewMap(r, map),
             Owned(map, browser[r]), pc'[r] # "idle", \A q \in Request \ {r} : pc'[q] = pc[q],
             UNCHANGED <<redis, undecodedCookies, setCookies, jar, browser, sessionId, issuer>>
      PROVE  IsolationInv'
  <2>1. MapsOwned'
    BY <1>h, <1>i
  <2>2. SlotsClean'
    BY <1>0, <1>a, <1>i, DistinctAssumption
    DEF SlotsClean, NewMap, CacheTypeOK, HasSession, Carried, FilterTypeOK
  <2> QED
    BY <1>d, <1>e, <1>i, <2>1, <2>2 DEF IsolationInv
\* What a commit does to Redis.
<1>j. ASSUME NEW r \in Request, pc[r] = "committing", UNCHANGED issuer,
             \/ DeleteSession(sessionId[r])
             \/ WriteToCache(r, sessionId[r])
      PROVE  RecordsOwned'
  <2>1. Owned(attributes[r], issuer[sessionId[r]])
    BY <1>0, <1>a, <1>j DEF MapsOwned, RequestOwned
  <2>2. CASE DeleteSession(sessionId[r])
    BY <1>0, <1>b, <1>j, <2>2 DEF DeleteSession, RecordsOwned, Owned, CacheTypeOK
  <2>3. CASE WriteToCache(r, sessionId[r])
    BY <1>0, <1>j, <2>1, <2>3 DEF WriteToCache, RecordsOwned, CacheTypeOK
  <2> QED
    BY <1>j, <2>2, <2>3
<1>1. CASE UNCHANGED vars
  <2>1. SlotsClean'
    BY <1>0, <1>1 DEF vars, cacheVars, cookieVars, sessionVars, SlotsClean, HasSession, Carried
  <2> QED
    BY <1>1, <1>d, <1>e, <1>f, <2>1 DEF vars, cacheVars, cookieVars, sessionVars, IsolationInv
<1>2. ASSUME NEW r \in Request, NEW b \in Browser, Send(r, b)
      PROVE  IsolationInv'
  <2>1. attributes[r] = NoAttributes /\ sessionId[r] = NULL /\ Header(r) = NULL
    BY <1>0, <1>2 DEF Send, SlotsClean, NoHeaderBefore, HasSession
  <2>2. MapsOwned'
    BY <1>0, <1>2, <1>b, <2>1 DEF Send, cacheVars, MapsOwned, Owned, FilterTypeOK
  <2>3. RequestOwned'
    <3>1. ASSUME NEW q \in Request, NEW s \in {sessionId[q], Carried(q), Header(q)}' \cap SessionId
          PROVE  issuer[s] = browser'[q]
      <4>1. CASE q = r
        <5>1. Carried(r)' = jar[b]["sessionId"] /\ browser'[r] = b
          BY <1>0, <1>2 DEF Send, Carried, FilterTypeOK, CookieTypeOK
        <5> QED
          BY <1>0, <1>2, <2>1, <3>1, <4>1, <5>1, DistinctAssumption
          DEF Send, sessionVars, Header, JarOwned
      <4>2. CASE q # r
        BY <1>0, <1>2, <3>1, <4>2
        DEF Send, sessionVars, RequestOwned, Carried, Header, FilterTypeOK, CookieTypeOK
      <4> QED
        BY <4>1, <4>2
    <3> QED
      BY <1>2, <3>1 DEF RequestOwned, Send
  <2>4. JarOwned'
    BY <1>0, <1>2 DEF Send, JarOwned
  <2>5. SlotsClean'
    BY <1>0, <1>2, <2>1
    DEF Send, sessionVars, cacheVars, SlotsClean, HasSession, Carried, FilterTypeOK, CookieTypeOK
  <2> QED
    BY <1>2, <1>e, <2>2, <2>3, <2>4, <2>5 DEF Send, IsolationInv
<1>3. ASSUME NEW r \in Request, LetItGo(r) \/ Finish(r)
      PROVE  IsolationInv'
  <2>1. SlotsClean'
    BY <1>0, <1>3
    DEF LetItGo, Finish, sessionVars, cacheVars, cookieVars, SlotsClean, HasSession, Carried,
        FilterTypeOK
  <2> QED
    BY <1>3, <1>d, <1>e, <1>f, <2>1
    DEF LetItGo, Finish, sessionVars, cacheVars, cookieVars, IsolationInv
<1>4. ASSUME NEW r \in Request, CreateWrapperSession(r)
      PROVE  IsolationInv'
  <2>1. PICK sid \in SessionId :
          /\ SessionIdFor(r, sid)
          /\ sessionId' = [sessionId EXCEPT ![r] = sid]
          /\ CacheSetAttribute(r, sid, "lastVisitTime", Visit)
    BY <1>4 DEF CreateWrapperSession
  <2>2. /\ attributes[r] = NoAttributes /\ Header(r) = NULL /\ sessionId[r] = NULL
        /\ browser[r] \in Browser /\ pc[r] = "sent"
    BY <1>0, <1>4 DEF CreateWrapperSession, SlotsClean, NoHeaderBefore, HasSession
  <2>3. PICK map : GoodMap(r, sid, map) /\ NewMap(r, [map EXCEPT !["lastVisitTime"] = Visit])
    <3>1. "lastVisitTime" \in CacheName /\ Visit \in Value
      BY DEF CacheName, Value
    <3> QED
      BY <1>0, <2>1, <3>1, CacheSetMap
  \* The record under the id belongs to the sender: its id, or a fresh one.
  <2>4. Owned(redis[sid], browser[r])
    <3>1. CASE Carried(r) # NULL
      BY <1>0, <2>1, <3>1 DEF SessionIdFor, Carried, RequestOwned, RecordsOwned
    <3>2. CASE Carried(r) = NULL
      <4>1. issuer[sid] = NULL
        BY <2>1, <3>2 DEF SessionIdFor, Carried
      <4>2. UserOf(redis[sid]) = NULL
        BY <1>0, <1>c, <4>1 DEF RecordsOwned
      <4> QED
        BY <4>2 DEF Owned
    <3> QED
      BY <3>1, <3>2
  <2>5. MapsOwned'
    <3>1. Owned([map EXCEPT !["lastVisitTime"] = Visit], browser[r])
      <4>1. UserOf([map EXCEPT !["lastVisitTime"] = Visit]) = UserOf(map)
        BY <1>0, <2>3 DEF UserOf, GoodMap, Record
      <4>2. UserOf(map) \in {NULL, UserOf(redis[sid])}
        BY <1>0, <1>b, <2>2, <2>3 DEF GoodMap, UserOf
      <4> QED
        BY <2>4, <4>1, <4>2 DEF Owned
    <3> QED
      BY <1>4, <1>h, <2>3, <3>1 DEF CreateWrapperSession
  \* Only an id that nothing holds gets a new owner.
  <2>6. ASSUME NEW s \in SessionId, issuer[s] # NULL
        PROVE  issuer'[s] = issuer[s]
    BY <1>0, <2>1, <2>6 DEF SessionIdFor, FilterTypeOK
  <2>7. RecordsOwned'
    <3>1. ASSUME NEW s \in SessionId
          PROVE  Owned(redis[s], issuer'[s])
      <4>1. CASE issuer[s] = NULL
        BY <1>0, <1>c, <4>1 DEF RecordsOwned, Owned
      <4>2. CASE issuer[s] # NULL
        BY <1>0, <2>6, <4>2 DEF RecordsOwned
      <4> QED
        BY <4>1, <4>2
    <3> QED
      BY <1>4, <3>1 DEF RecordsOwned, CreateWrapperSession
  <2>8. JarOwned'
    BY <1>0, <1>4, <2>6, DistinctAssumption DEF JarOwned, CreateWrapperSession
  <2>9. issuer'[sid] = browser[r]
    BY <1>0, <2>1 DEF SessionIdFor, RequestOwned, Carried, FilterTypeOK
  <2>10. \A q \in Request : browser[q] = NULL =>
           /\ sessionId[q] \notin SessionId
           /\ Carried(q) \notin SessionId
           /\ Header(q) \notin SessionId
    <3>1. \A q \in Request : browser[q] = NULL => pc[q] = "idle"
      BY <1>0, DistinctAssumption DEF SlotsClean
    <3> QED
      BY <1>0, <3>1, DistinctAssumption DEF SlotsClean, NoHeaderBefore, HasSession
  <2>11. RequestOwned'
    <3>1. ASSUME NEW q \in Request, NEW s \in {sessionId[q], Carried(q), Header(q)} \cap SessionId
          PROVE  issuer'[s] = browser[q]
      <4>1. issuer[s] = browser[q]
        BY <1>0, <3>1 DEF RequestOwned
      <4>2. browser[q] # NULL
        BY <2>10, <3>1
      <4> QED
        BY <2>6, <4>1, <4>2
    <3>2. \A q \in Request : sessionId'[q] \in {sid, sessionId[q]} /\ (q # r => sessionId'[q] = sessionId[q])
      BY <1>0, <2>1 DEF FilterTypeOK
    <3> QED
      BY <1>4, <2>9, <3>1, <3>2 DEF CreateWrapperSession, RequestOwned, Carried, Header
  <2>12. SlotsClean'
    BY <1>0, <1>4, <2>1, <2>2, <2>3, DistinctAssumption
    DEF CreateWrapperSession, NewMap, SlotsClean, HasSession, Carried, FilterTypeOK, CacheTypeOK
  <2> QED
    BY <2>5, <2>7, <2>8, <2>11, <2>12 DEF IsolationInv
<1>5. ASSUME NEW r \in Request, NEW name \in HandlerName, NEW value \in User \cup {NULL},
             SetAttribute(r, name, value)
      PROVE  IsolationInv'
  <2>1. sessionId[r] \in SessionId /\ name \in CacheName /\ value \in Value \cup {NULL}
    BY <1>a, <1>5 DEF SetAttribute, Call, Value
  <2>2. PICK map : /\ GoodMap(r, sessionId[r], map)
                   /\ NewMap(r, [map EXCEPT ![name] = value])
    BY <1>0, <1>5, <2>1, CacheSetMap DEF SetAttribute
  <2>3. Owned(map, browser[r])
    BY <1>g, <2>1, <2>2 DEF GoodMap
  <2>4. Owned([map EXCEPT ![name] = value], browser[r])
    BY <1>0, <1>5, <2>1, <2>2, <2>3 DEF SetAttribute, Owned, UserOf, GoodMap, Record
  <2> QED
    BY <1>5, <1>i, <2>2, <2>4 DEF SetAttribute, Call, cookieVars
<1>6. ASSUME NEW r \in Request, NEW name \in HandlerName, SetAttributeRefused(r, name)
      PROVE  IsolationInv'
  <2>1. SlotsClean'
    BY <1>0, <1>6
    DEF SetAttributeRefused, sessionVars, cacheVars, cookieVars, SlotsClean, HasSession, Carried
  <2> QED
    BY <1>6, <1>d, <1>e, <1>f, <2>1
    DEF SetAttributeRefused, sessionVars, cacheVars, cookieVars, IsolationInv
<1>7. ASSUME NEW r \in Request, GetAttribute(r)
      PROVE  IsolationInv'
  <2>1. PICK map : GoodMap(r, sessionId[r], map) /\ NewMap(r, map)
    BY <1>0, <1>a, <1>7, CacheGetMap DEF GetAttribute, Call
  <2>2. Owned(map, browser[r])
    BY <1>a, <1>7, <1>g, <2>1 DEF GetAttribute, Call, GoodMap
  <2> QED
    BY <1>7, <1>i, <2>1, <2>2 DEF GetAttribute, Call, cookieVars, sessionVars
<1>8. ASSUME NEW r \in Request, Invalidate(r)
      PROVE  IsolationInv'
  <2>1. PICK map : /\ NewMap(r, map)
                   /\ \A n \in CacheName :
                        map[n] \in {NULL, attributes[r][n], redis[sessionId[r]][n]}
    BY <1>0, <1>a, <1>8, CacheRemoveMap DEF Invalidate, Call
  <2>2. Owned(map, browser[r])
    BY <1>a, <1>8, <1>g, <2>1 DEF Invalidate, Call
  <2> QED
    BY <1>8, <1>i, <2>1, <2>2 DEF Invalidate, Call
<1>9. ASSUME NEW r \in Request, GetWriter(r)
      PROVE  IsolationInv'
  <2>1. SlotsClean'
    BY <1>0, <1>9
    DEF GetWriter, Call, sessionVars, cacheVars, cookieVars, SlotsClean, HasSession, Carried,
        FilterTypeOK
  <2> QED
    BY <1>9, <1>d, <1>e, <1>f, <2>1
    DEF GetWriter, sessionVars, cacheVars, cookieVars, IsolationInv
<1>10. ASSUME NEW r \in Request, CommitCookies(r)
       PROVE  IsolationInv'
  <2>1. /\ UNCHANGED <<redis, attributes, jar, browser, issuer, sessionId, undecodedCookies>>
        /\ sessionId[r] \in SessionId
    BY <1>a, <1>10 DEF CommitCookies, cacheVars, sessionVars
  <2>2. RequestOwned'
    <3>1. Header(r)' \in {Header(r), Expired, CookieId(r)}
      BY <1>0, <1>10 DEF CommitCookies, CookieCommit, Header, CookieId, CookieTypeOK
    <3>2. CookieId(r) \in {NULL, sessionId[r]}
      BY <1>0, <2>1, DistinctAssumption DEF CookieStoreAgrees, HasSession
    <3>3. \A q \in Request \ {r} : Header(q)' = Header(q)
      BY <1>0, <1>10 DEF CommitCookies, CookieCommit, Header, CookieTypeOK
    <3> QED
      BY <1>0, <2>1, <3>1, <3>2, <3>3, DistinctAssumption DEF RequestOwned, Carried
  <2>3. SlotsClean'
    BY <1>0, <1>10, <2>1
    DEF CommitCookies, StoreDone, SlotsClean, HasSession, Carried, FilterTypeOK
  <2>4. JarOwned'
    BY <1>0, <2>1 DEF JarOwned
  <2> QED
    BY <1>e, <1>f, <2>1, <2>2, <2>3, <2>4 DEF IsolationInv
<1>11. ASSUME NEW r \in Request, NEW rest, StoreDone(r, rest), pc[r] = "committing",
              UNCHANGED <<cacheVars, cookieVars, jar, browser, sessionVars, issuer>>,
              RecordsOwned'
       PROVE  IsolationInv'
  <2>1. SlotsClean'
    BY <1>0, <1>11
    DEF StoreDone, cacheVars, cookieVars, sessionVars, SlotsClean, HasSession, Carried, FilterTypeOK
  <2> QED
    BY <1>11, <1>d, <1>f, <2>1 DEF cacheVars, cookieVars, sessionVars, IsolationInv
<1>12. ASSUME NEW r \in Request, CommitDelete(r)
       PROVE  IsolationInv'
  <2>1. RecordsOwned'
    BY <1>j, <1>12 DEF CommitDelete
  <2> QED
    BY <1>11, <1>12, <2>1 DEF CommitDelete
<1>13. ASSUME NEW r \in Request, CommitWrite(r)
       PROVE  IsolationInv'
  <2>1. RecordsOwned'
    BY <1>j, <1>13 DEF CommitWrite
  <2> QED
    BY <1>11, <1>13, <2>1 DEF CommitWrite
<1>14. ASSUME NEW r \in Request, NEW ok \in BOOLEAN, CommitRead(r, ok)
       PROVE  IsolationInv'
  <2>1. PICK map : GoodMap(r, sessionId[r], map) /\ NewMap(r, map)
    BY <1>0, <1>a, <1>14, CommitReadMap DEF CommitRead
  <2>2. Owned(map, browser[r])
    BY <1>a, <1>14, <1>g, <2>1 DEF CommitRead, GoodMap
  <2>3. pc'[r] # "idle" /\ \A q \in Request \ {r} : pc'[q] = pc[q]
    BY <1>0, <1>14 DEF CommitRead, StoreDone, FilterTypeOK
  <2> QED
    BY <1>14, <1>i, <2>1, <2>2, <2>3 DEF CommitRead, cookieVars, sessionVars
\* The end of a request: its map is dropped, and the jar may have changed.
<1>15. ASSUME NEW r \in Request, DropSession(r), UNCHANGED issuer, RecordsOwned', JarOwned',
              pc[r] # "idle",
              \/ /\ UNCHANGED <<browser, setCookies>>
                 /\ pc' = [pc EXCEPT ![r] = "failed"]
              \/ /\ browser' = [browser EXCEPT ![r] = NULL]
                 /\ setCookies' = [setCookies EXCEPT ![r] = NoCookies]
                 /\ pc' = [pc EXCEPT ![r] = "idle"]
       PROVE  IsolationInv'
  <2>1. /\ attributes' = [attributes EXCEPT ![r] = NoAttributes]
        /\ undecodedCookies' = [undecodedCookies EXCEPT ![r] = NoCookies]
        /\ sessionId' = [sessionId EXCEPT ![r] = NULL]
    BY <1>15 DEF DropSession, DropCacheStore, DropCookieStore
  <2>2. NoCookies["sessionId"] = NULL
    BY <1>0 DEF NoCookies
  <2>3. MapsOwned'
    BY <1>0, <1>15, <1>b, <2>1 DEF MapsOwned, Owned, CacheTypeOK, FilterTypeOK
  <2>4. RequestOwned'
    <3>1. ASSUME NEW q \in Request, NEW s \in {sessionId[q], Carried(q), Header(q)}' \cap SessionId
          PROVE  issuer[s] = browser'[q]
      <4>1. CASE q = r
        BY <1>0, <1>15, <2>1, <2>2, <3>1, <4>1, DistinctAssumption
        DEF RequestOwned, Carried, Header, FilterTypeOK, CookieTypeOK
      <4>2. CASE q # r
        BY <1>0, <1>15, <2>1, <3>1, <4>2
        DEF RequestOwned, Carried, Header, FilterTypeOK, CookieTypeOK
      <4> QED
        BY <4>1, <4>2
    <3> QED
      BY <1>15, <3>1 DEF RequestOwned
  <2>5. SlotsClean'
    BY <1>0, <1>15, <2>1, <2>2
    DEF SlotsClean, HasSession, Carried, FilterTypeOK, CookieTypeOK, CacheTypeOK
  <2> QED
    BY <1>15, <2>3, <2>4, <2>5 DEF IsolationInv
<1>16. UNCHANGED <<jar, issuer>> => JarOwned'
  BY <1>0 DEF JarOwned
<1>17. ASSUME NEW r \in Request, Fail(r), pc[r] # "idle", RecordsOwned'
       PROVE  IsolationInv'
  BY <1>15, <1>16, <1>17 DEF Fail
<1>18. ASSUME NEW r \in Request, Lose(r)
       PROVE  IsolationInv'
  BY <1>e, <1>15, <1>16, <1>18 DEF Lose, EndRequest
<1>19. ASSUME NEW r \in Request, Deliver(r)
       PROVE  IsolationInv'
  <2>1. browser[r] \in Browser
    BY <1>0, <1>19 DEF Deliver, SlotsClean
  <2>2. jar'[browser[r]]["sessionId"] \in {NULL, Header(r), jar[browser[r]]["sessionId"]}
    BY <1>0, <1>19, <2>1 DEF Deliver, Header, FilterTypeOK
  <2>3. \A b \in Browser \ {browser[r]} : jar'[b] = jar[b]
    BY <1>0, <1>19 DEF Deliver, FilterTypeOK
  <2>4. UNCHANGED issuer
    BY <1>19 DEF Deliver, EndRequest
  <2>5. JarOwned'
    BY <1>0, <2>1, <2>2, <2>3, <2>4, DistinctAssumption DEF JarOwned, RequestOwned
  <2> QED
    BY <1>e, <1>15, <1>19, <2>5 DEF Deliver, EndRequest
<1>20. ASSUME NEW sid \in SessionId, Expire(sid)
       PROVE  IsolationInv'
  <2>1. RecordsOwned'
    BY <1>0, <1>20, <1>b DEF Expire, RecordsOwned, Owned, CacheTypeOK
  <2>2. SlotsClean'
    BY <1>0, <1>20
    DEF Expire, sessionVars, cacheVars, cookieVars, SlotsClean, HasSession, Carried
  <2> QED
    BY <1>20, <1>d, <1>f, <2>1, <2>2
    DEF Expire, sessionVars, cacheVars, cookieVars, IsolationInv
\* An id loses its owner only when nothing holds it.
<1>21. ASSUME NEW sid \in SessionId, Retire(sid)
       PROVE  IsolationInv'
  <2>1. /\ UNCHANGED <<redis, attributes, jar, browser, sessionId, undecodedCookies, setCookies, pc>>
        /\ \A s \in SessionId \ {sid} : issuer'[s] = issuer[s]
    BY <1>0, <1>21 DEF Retire, cacheVars, cookieVars, sessionVars, FilterTypeOK
  <2>2. RecordsOwned'
    BY <1>0, <1>21, <1>b, <2>1 DEF Retire, RecordsOwned, Owned
  <2>3. JarOwned'
    BY <1>0, <1>21, <2>1 DEF Retire, JarOwned
  <2>4. RequestOwned'
    BY <1>0, <1>21, <2>1 DEF Retire, RequestOwned, Carried, Header
  <2>5. SlotsClean'
    BY <1>0, <2>1 DEF SlotsClean, HasSession, Carried
  <2> QED
    BY <1>f, <2>1, <2>2, <2>3, <2>4, <2>5 DEF IsolationInv
<1>22. ASSUME NEW b \in Browser, CloseBrowser(b)
       PROVE  IsolationInv'
  <2>1. /\ UNCHANGED <<redis, attributes, browser, issuer, sessionId, undecodedCookies, setCookies, pc>>
        /\ jar' = [jar EXCEPT ![b]["sessionId"] = NULL]
    BY <1>22 DEF CloseBrowser, cacheVars, cookieVars, sessionVars
  <2>2. JarOwned'
    BY <1>0, <2>1, DistinctAssumption DEF JarOwned, FilterTypeOK, Cookies
  <2>3. RequestOwned' /\ SlotsClean'
    BY <1>0, <2>1 DEF RequestOwned, SlotsClean, HasSession, Carried, Header
  <2> QED
    BY <1>e, <1>f, <2>1, <2>2, <2>3 DEF IsolationInv
<1>23. ASSUME NEW r \in Request, HandlerThrows(r)
       PROVE  IsolationInv'
  BY <1>e, <1>17, <1>23 DEF HandlerThrows, Fail
<1>24. ASSUME NEW r \in Request, CommitThrows(r)
       PROVE  IsolationInv'
  <2>1. RecordsOwned'
    BY <1>e, <1>j, <1>24 DEF CommitThrows, Fail
  <2> QED
    BY <1>17, <1>24, <2>1 DEF CommitThrows
<1> QED
  BY <1>1, <1>2, <1>3, <1>4, <1>5, <1>6, <1>7, <1>8, <1>9, <1>10, <1>12, <1>13, <1>14,
     <1>18, <1>19, <1>20, <1>21, <1>22, <1>23, <1>24
  DEF Next, Environment, Server, Handler, Commit

\* However requests interleave and whichever calls to Redis fail, no request
\* ever works with, and no record ever holds, an account of another browser.
THEOREM Isolation == Spec => []SessionIsolation
<1>1. IsolationInv => SessionIsolation
  BY DEF IsolationInv, RecordsOwned, MapsOwned, Owned, SessionIsolation
<1> QED
  BY <1>1, TypeInit, TypeStep, HeaderInit, HeaderStep, IsolationInit, IsolationStep, PTL DEF Spec
-----------------------------------------------------------------------------
(* Browsers that wait for their answers, and reads that succeed *)

\* What the refinement needs of the environment.
Waiting == Serial = TRUE /\ "get" \notin FailingCalls

\* Only ids are stored under the name of the id.
IdsAreIds ==
  /\ \A b \in Browser : jar[b]["sessionId"] \in SessionId \cup {NULL}
  /\ \A r \in Request : Carried(r) \in SessionId \cup {NULL}
  /\ \A r \in Request : Header(r) \in SessionId \cup {NULL, Expired}

\* A browser has at most one request in flight.
OneAtATime ==
  /\ \A r \in Request : pc[r] = "idle" => browser[r] = NULL
  /\ \A r, q \in Request : browser[r] = browser[q] /\ browser[r] # NULL => r = q

\* Until its answer arrives a browser keeps the id that its request carried; a
\* failed request, whose cookies are gone, adds an id only to an empty jar.
JarWaits ==
  \A r \in Request :
    /\ pc[r] = "sent" \/ HasSession(r) => Carried(r) = jar[browser[r]]["sessionId"]
    /\ pc[r] # "idle" /\ Header(r) \in SessionId => jar[browser[r]]["sessionId"] = NULL

\* A session has read its record, once: no commit reads.
ReadOnce ==
  \A r \in Request :
    /\ HasSession(r) <=> isAlreadyReaded[r]
    /\ "write" \notin todo[r]

WaitingInv == IdsAreIds /\ OneAtATime /\ JarWaits /\ ReadOnce

LEMMA WaitingInit == Init => WaitingInv
BY CookieNameAssumption, DistinctAssumption
DEF Init, CacheInit, CookieInit, NoCookies, WaitingInv, IdsAreIds, OneAtATime, JarWaits,
    ReadOnce, HasSession, Carried, Header

\* When reads succeed a load reads the record, unless an earlier one has.
LEMMA LoadReads ==
  ASSUME "get" \notin FailingCalls, NEW r \in Request, NEW sid, NEW load \in LoadCache(r, sid)
  PROVE  /\ load.ok = TRUE
         /\ load.map = IF isAlreadyReaded[r] THEN attributes[r]
                       ELSE ReadInto(attributes[r], redis[sid])
<1>1. CASE isAlreadyReaded[r]
  <2>1. load = [map |-> attributes[r], ok |-> TRUE]
    BY <1>1 DEF LoadCache
  <2> QED
    BY <1>1, <2>1
<1>2. CASE ~isAlreadyReaded[r]
  <2>1. load = [map |-> ReadInto(attributes[r], redis[sid]), ok |-> TRUE]
    BY <1>2 DEF LoadCache, ReadFromCache
  <2> QED
    BY <1>2, <2>1
<1> QED
  BY <1>1, <1>2

LEMMA WaitingStep ==
  TypeInv /\ HeaderInv /\ IsolationInv /\ WaitingInv /\ Waiting /\ [Next]_vars => WaitingInv'
<1> SUFFICES ASSUME TypeInv, HeaderInv, IsolationInv, WaitingInv, Waiting, [Next]_vars
             PROVE  WaitingInv'
  OBVIOUS
<1>0. /\ CacheTypeOK /\ CookieTypeOK /\ FilterTypeOK
      /\ IdsAreIds /\ OneAtATime /\ JarWaits /\ ReadOnce
      /\ CookieStoreAgrees /\ NoHeaderBefore /\ HeadersMatchSession /\ SlotsClean
      /\ "sessionId" \in CookieName
  BY CookieNameAssumption
  DEF TypeInv, TypeOK, FilterTypeOK, WaitingInv, HeaderInv, IsolationInv
<1>a. \A r \in Request : Active(r) => HasSession(r) /\ isAlreadyReaded[r]
  BY <1>0 DEF TypeInv, ActiveHasSession, ReadOnce
\* Steps that leave the cookies on their way alone.
<1>b. ASSUME UNCHANGED <<jar, browser, undecodedCookies, setCookies>>,
             \A q \in Request : /\ pc'[q] = "idle" <=> pc[q] = "idle"
                                /\ pc'[q] = "sent" => pc[q] = "sent"
                                /\ HasSession(q)' => HasSession(q) \/ pc[q] = "sent"
      PROVE  IdsAreIds' /\ OneAtATime' /\ JarWaits'
  BY <1>0, <1>b DEF IdsAreIds, OneAtATime, JarWaits, Carried, Header
<1>c. UNCHANGED <<sessionId, isAlreadyReaded, todo>> => ReadOnce'
  BY <1>0 DEF ReadOnce, HasSession
<1>1. CASE UNCHANGED vars
  <2>1. IdsAreIds' /\ OneAtATime' /\ JarWaits'
    BY <1>1, <1>b DEF vars, cookieVars, sessionVars, HasSession
  <2> QED
    BY <1>1, <1>c, <2>1 DEF vars, cacheVars, sessionVars, WaitingInv
<1>2. ASSUME NEW r \in Request, NEW b \in Browser, Send(r, b)
      PROVE  WaitingInv'
  <2>1. /\ \A q \in Request : browser[q] # b
        /\ pc[r] = "idle" /\ browser[r] = NULL /\ Header(r) = NULL
    BY <1>0, <1>2 DEF Send, Waiting, RequestsOf, OneAtATime, NoHeaderBefore
  <2>2. /\ pc' = [pc EXCEPT ![r] = "sent"]
        /\ browser' = [browser EXCEPT ![r] = b]
        /\ undecodedCookies' = [undecodedCookies EXCEPT ![r] = jar[b]]
        /\ UNCHANGED <<jar, setCookies, sessionId, isAlreadyReaded, todo>>
    BY <1>2 DEF Send, cacheVars, sessionVars
  <2>3. IdsAreIds'
    BY <1>0, <2>2 DEF IdsAreIds, Carried, Header, CookieTypeOK
  <2>4. OneAtATime'
    BY <1>0, <2>1, <2>2 DEF OneAtATime, FilterTypeOK
  <2>5. JarWaits'
    BY <1>0, <2>1, <2>2, DistinctAssumption
    DEF JarWaits, HasSession, Carried, Header, FilterTypeOK, CookieTypeOK
  <2> QED
    BY <1>c, <2>2, <2>3, <2>4, <2>5 DEF WaitingInv
<1>3. ASSUME NEW r \in Request, LetItGo(r) \/ Finish(r)
      PROVE  WaitingInv'
  <2>1. IdsAreIds' /\ OneAtATime' /\ JarWaits'
    BY <1>0, <1>3, <1>b DEF LetItGo, Finish, cookieVars, sessionVars, HasSession, FilterTypeOK
  <2> QED
    BY <1>3, <1>c, <2>1 DEF LetItGo, Finish, cacheVars, sessionVars, WaitingInv
<1>4. ASSUME NEW r \in Request, CreateWrapperSession(r)
      PROVE  WaitingInv'
  <2>1. PICK sid \in SessionId :
          /\ sessionId' = [sessionId EXCEPT ![r] = sid]
          /\ CacheSetAttribute(r, sid, "lastVisitTime", Visit)
    BY <1>4 DEF CreateWrapperSession
  <2>2. isAlreadyReaded' = [isAlreadyReaded EXCEPT ![r] = TRUE]
    BY <2>1, LoadReads DEF CacheSetAttribute, Waiting
  <2>3. ReadOnce'
    BY <1>0, <1>4, <2>1, <2>2, DistinctAssumption
    DEF CreateWrapperSession, ReadOnce, HasSession, CacheTypeOK, FilterTypeOK
  <2>4. IdsAreIds' /\ OneAtATime' /\ JarWaits'
    BY <1>0, <1>4, <1>b, <2>1 DEF CreateWrapperSession, HasSession, FilterTypeOK
  <2> QED
    BY <2>3, <2>4 DEF WaitingInv
\* The calls of the handler: the record has been read.
<1>5. ASSUME NEW r \in Request, Call(r), UNCHANGED <<pc, jar, browser, undecodedCookies,
             setCookies, sessionId, isAlreadyReaded, todo>>
      PROVE  WaitingInv'
  BY <1>5, <1>b, <1>c DEF HasSession, WaitingInv
<1>6. ASSUME NEW r \in Request, Call(r), NEW load \in LoadCache(r, sessionId[r]),
             isAlreadyReaded' = [isAlreadyReaded EXCEPT ![r] = load.ok]
      PROVE  UNCHANGED isAlreadyReaded
  <2>1. isAlreadyReaded[r] = TRUE
    BY <1>0, <1>a, <1>6 DEF Call, Active, CacheTypeOK
  <2> QED
    BY <1>0, <1>6, <2>1, LoadReads DEF CacheTypeOK, Waiting
<1>7. ASSUME NEW r \in Request, NEW name \in HandlerName, NEW value \in User \cup {NULL},
             SetAttribute(r, name, value)
      PROVE  WaitingInv'
  BY <1>5, <1>6, <1>7 DEF SetAttribute, CacheSetAttribute, cookieVars
<1>8. ASSUME NEW r \in Request, NEW name \in HandlerName, SetAttributeRefused(r, name)
      PROVE  WaitingInv'
  BY <1>5, <1>8 DEF SetAttributeRefused, cacheVars, cookieVars, sessionVars
<1>9. ASSUME NEW r \in Request, GetAttribute(r)
      PROVE  WaitingInv'
  BY <1>5, <1>6, <1>9 DEF GetAttribute, CacheGetAttribute, cookieVars, sessionVars
<1>10. ASSUME NEW r \in Request, Invalidate(r)
       PROVE  WaitingInv'
  BY <1>5, <1>6, <1>10 DEF Invalidate, CacheRemoveAttributes
<1>11. ASSUME NEW r \in Request, GetWriter(r)
       PROVE  WaitingInv'
  <2>1. IdsAreIds' /\ OneAtATime' /\ JarWaits'
    BY <1>0, <1>11, <1>b DEF GetWriter, Call, cookieVars, sessionVars, HasSession, FilterTypeOK
  <2>2. ReadOnce'
    BY <1>0, <1>11 DEF GetWriter, cacheVars, sessionVars, ReadOnce, HasSession, FilterTypeOK
  <2> QED
    BY <2>1, <2>2 DEF WaitingInv
\* A store of a commit is done.
<1>12. ASSUME NEW r \in Request, NEW rest, pc[r] = "committing", StoreDone(r, rest),
              rest \subseteq todo[r], UNCHANGED <<sessionId, isAlreadyReaded>>
       PROVE  /\ ReadOnce'
              /\ \A q \in Request : /\ pc'[q] = "idle" <=> pc[q] = "idle"
                                    /\ pc'[q] = "sent" => pc[q] = "sent"
  BY <1>0, <1>12 DEF StoreDone, ReadOnce, HasSession, FilterTypeOK
<1>13. ASSUME NEW r \in Request, CommitCookies(r)
       PROVE  WaitingInv'
  <2>1. /\ ReadOnce'
        /\ \A q \in Request : /\ pc'[q] = "idle" <=> pc[q] = "idle"
                              /\ pc'[q] = "sent" => pc[q] = "sent"
    BY <1>12, <1>13 DEF CommitCookies, cacheVars, sessionVars
  <2>2. UNCHANGED <<jar, browser, undecodedCookies>>
    BY <1>13 DEF CommitCookies
  <2>3. Header(r)' = Header(r) \/ Header(r)' \in {Expired, CookieId(r)}
    BY <1>0, <1>13 DEF CommitCookies, CookieCommit, Header, CookieId, CookieTypeOK
  <2>4. \A q \in Request \ {r} : Header(q)' = Header(q)
    BY <1>0, <1>13 DEF CommitCookies, CookieCommit, Header, CookieTypeOK
  <2>5. pc[r] = "committing" /\ sessionId[r] \in SessionId
    BY <1>0, <1>a, <1>13 DEF CommitCookies, Active, HasSession, FilterTypeOK
  <2>6. CookieId(r) \in {NULL, sessionId[r]}
    BY <1>0, <1>a, <2>5 DEF CookieStoreAgrees, Active
  <2>7. IdsAreIds'
    BY <1>0, <2>2, <2>3, <2>4, <2>5, <2>6 DEF IdsAreIds, Carried
  <2>8. OneAtATime'
    BY <1>0, <2>1, <2>2 DEF OneAtATime
  <2>9. Header(r)' \in SessionId => Carried(r) = NULL
    <3>1. CASE Header(r)' = Header(r)
      BY <1>0, <1>a, <2>5, <3>1 DEF HeadersMatchSession, Header, Carried, Active
    <3>2. CASE Header(r)' # Header(r)
      <4>1. "sessionId" \in Writable(r)
        BY <1>0, <1>13, <3>2 DEF CommitCookies, CookieCommit, Header, CookieTypeOK
      <4>2. "sessionId" \in modifiedCookies[r]
        BY <4>1 DEF Writable
      <4>3. CookieId(r) # NULL => Carried(r) = NULL
        BY <1>0, <1>a, <2>5, <4>2 DEF CookieStoreAgrees, Active
      <4> QED
        BY <2>3, <3>2, <4>3, DistinctAssumption
    <3> QED
      BY <3>1, <3>2
  <2>10. JarWaits'
    <3>1. Carried(r) = jar[browser[r]]["sessionId"]
      BY <1>0, <1>a, <2>5 DEF JarWaits, Active
    <3>2. UNCHANGED sessionId
      BY <1>13 DEF CommitCookies, sessionVars
    <3> QED
      BY <1>0, <2>1, <2>2, <2>4, <2>9, <3>1, <3>2 DEF JarWaits, HasSession, Carried
  <2> QED
    BY <2>1, <2>7, <2>8, <2>10 DEF WaitingInv
<1>14. ASSUME NEW r \in Request, CommitDelete(r) \/ CommitWrite(r)
       PROVE  WaitingInv'
  <2>1. /\ ReadOnce'
        /\ \A q \in Request : /\ pc'[q] = "idle" <=> pc[q] = "idle"
                              /\ pc'[q] = "sent" => pc[q] = "sent"
    BY <1>12, <1>14 DEF CommitDelete, CommitWrite, cacheVars, sessionVars
  <2> QED
    BY <1>14, <1>b, <2>1
    DEF CommitDelete, CommitWrite, cookieVars, sessionVars, HasSession, WaitingInv
<1>15. ASSUME NEW r \in Request, NEW ok \in BOOLEAN, CommitRead(r, ok)
       PROVE  FALSE
  BY <1>a, <1>15 DEF CommitRead, Active
\* The end of a request.
<1>16. ASSUME NEW r \in Request, DropSession(r)
       PROVE  /\ ReadOnce' /\ ~HasSession(r)'
              /\ \A q \in Request \ {r} : sessionId'[q] = sessionId[q]
              /\ undecodedCookies' = [undecodedCookies EXCEPT ![r] = NoCookies]
  BY <1>0, <1>16
  DEF DropSession, DropCacheStore, DropCookieStore, ReadOnce, HasSession, CacheTypeOK,
      FilterTypeOK
<1>17. NoCookies["sessionId"] = NULL
  BY <1>0 DEF NoCookies
<1>18. ASSUME NEW r \in Request, Fail(r), pc[r] # "idle"
       PROVE  WaitingInv'
  <2>1. /\ pc' = [pc EXCEPT ![r] = "failed"]
        /\ UNCHANGED <<setCookies, jar, browser>>
        /\ undecodedCookies' = [undecodedCookies EXCEPT ![r] = NoCookies]
    BY <1>16, <1>18 DEF Fail
  <2>2. IdsAreIds'
    BY <1>0, <1>17, <2>1 DEF IdsAreIds, Carried, Header, CookieTypeOK
  <2>3. OneAtATime'
    BY <1>0, <1>18, <2>1 DEF OneAtATime, FilterTypeOK
  <2>4. JarWaits'
    BY <1>0, <1>16, <1>18, <2>1
    DEF Fail, JarWaits, HasSession, Carried, Header, FilterTypeOK, CookieTypeOK
  <2> QED
    BY <1>16, <1>18, <2>2, <2>3, <2>4 DEF Fail, WaitingInv
<1>19. ASSUME NEW r \in Request, EndRequest(r), browser[r] \in Browser,
              jar'[browser[r]]["sessionId"] \in SessionId \cup {NULL},
              \A b \in Browser \ {browser[r]} : jar'[b] = jar[b]
       PROVE  WaitingInv'
  <2>1. /\ pc' = [pc EXCEPT ![r] = "idle"]
        /\ browser' = [browser EXCEPT ![r] = NULL]
        /\ setCookies' = [setCookies EXCEPT ![r] = NoCookies]
        /\ undecodedCookies' = [undecodedCookies EXCEPT ![r] = NoCookies]
    BY <1>16, <1>19 DEF EndRequest
  <2>2. IdsAreIds'
    BY <1>0, <1>17, <1>19, <2>1 DEF IdsAreIds, Carried, Header, CookieTypeOK
  <2>3. OneAtATime'
    BY <1>0, <2>1 DEF OneAtATime, FilterTypeOK
  <2>4. JarWaits'
    <3> SUFFICES ASSUME NEW q \in Request,
                        pc'[q] = "sent" \/ HasSession(q)' \/ pc'[q] # "idle"
                 PROVE  /\ pc'[q] = "sent" \/ HasSession(q)' =>
                             Carried(q)' = jar'[browser'[q]]["sessionId"]
                        /\ Header(q)' \in SessionId => jar'[browser'[q]]["sessionId"] = NULL
      BY DEF JarWaits
    <3>1. q # r /\ pc'[q] = pc[q]
      BY <1>0, <1>16, <1>19, <2>1 DEF EndRequest, FilterTypeOK
    <3>2. /\ browser'[q] = browser[q] /\ Carried(q)' = Carried(q) /\ Header(q)' = Header(q)
          /\ HasSession(q)' = HasSession(q)
      BY <1>0, <1>16, <1>19, <2>1, <3>1
      DEF EndRequest, HasSession, Carried, Header, FilterTypeOK, CookieTypeOK
    <3>3. pc[q] # "idle" /\ browser[q] \in Browser /\ browser[q] # browser[r]
      BY <1>0, <1>19, <3>1, <3>2, DistinctAssumption DEF SlotsClean, NoHeaderBefore, OneAtATime
    <3> QED
      BY <1>0, <1>19, <3>1, <3>2, <3>3 DEF JarWaits
  <2> QED
    BY <1>16, <1>19, <2>2, <2>3, <2>4 DEF EndRequest, WaitingInv
<1>20. ASSUME NEW r \in Request, Deliver(r)
       PROVE  WaitingInv'
  <2>1. browser[r] \in Browser
    BY <1>0, <1>20 DEF Deliver, SlotsClean
  <2>2. jar'[browser[r]]["sessionId"]
          = IF Header(r) = Expired THEN NULL
            ELSE IF Header(r) # NULL THEN Header(r) ELSE jar[browser[r]]["sessionId"]
    BY <1>0, <1>20, <2>1 DEF Deliver, Header, FilterTypeOK
  <2>3. \A b \in Browser \ {browser[r]} : jar'[b] = jar[b]
    BY <1>0, <1>20 DEF Deliver, FilterTypeOK
  <2>4. jar'[browser[r]]["sessionId"] \in SessionId \cup {NULL}
    BY <1>0, <2>1, <2>2 DEF IdsAreIds
  <2> QED
    BY <1>19, <1>20, <2>1, <2>3, <2>4 DEF Deliver
<1>21. ASSUME NEW r \in Request, Lose(r)
       PROVE  WaitingInv'
  <2>1. browser[r] \in Browser
    BY <1>0, <1>21 DEF Lose, SlotsClean
  <2> QED
    BY <1>0, <1>19, <1>21, <2>1 DEF Lose, IdsAreIds
<1>22. ASSUME NEW sid \in SessionId, Expire(sid) \/ Retire(sid)
       PROVE  WaitingInv'
  <2>1. IdsAreIds' /\ OneAtATime' /\ JarWaits'
    BY <1>22, <1>b DEF Expire, Retire, cookieVars, sessionVars, HasSession
  <2> QED
    BY <1>22, <1>c, <2>1 DEF Expire, Retire, cacheVars, sessionVars, WaitingInv
<1>23. ASSUME NEW b \in Browser, CloseBrowser(b)
       PROVE  WaitingInv'
  <2>1. /\ jar' = [jar EXCEPT ![b]["sessionId"] = NULL]
        /\ UNCHANGED <<pc, browser, undecodedCookies, setCookies, sessionId, isAlreadyReaded, todo>>
        /\ \A q \in Request : browser[q] # b
    BY <1>23 DEF CloseBrowser, cacheVars, cookieVars, sessionVars, Waiting, RequestsOf
  <2>2. IdsAreIds' /\ OneAtATime' /\ JarWaits'
    BY <1>0, <2>1
    DEF IdsAreIds, OneAtATime, JarWaits, NoHeaderBefore, SlotsClean, HasSession, Carried, Header,
        FilterTypeOK, Cookies
  <2> QED
    BY <1>c, <2>1, <2>2 DEF WaitingInv
<1>24. ASSUME NEW r \in Request, HandlerThrows(r) \/ CommitThrows(r)
       PROVE  WaitingInv'
  BY <1>18, <1>24 DEF HandlerThrows, CommitThrows
<1> QED
  BY <1>1, <1>2, <1>3, <1>4, <1>7, <1>8, <1>9, <1>10, <1>11, <1>13, <1>14, <1>15, <1>20,
     <1>21, <1>22, <1>23, <1>24
  DEF Next, Environment, Server, Handler, Commit

-----------------------------------------------------------------------------
(* The session that a browser sees *)

\* What the refinement rests on.
RefinementInv ==
  TypeInv /\ HeaderInv /\ IsolationInv /\ CommitRenewsRecord /\ WaitingInv

\* A request with a session uses the id that its browser's session is under.
LEMMA IdOfSession ==
  ASSUME RefinementInv, NEW r \in Request, HasSession(r)
  PROVE  /\ browser[r] \in Browser /\ sessionId[r] \in SessionId
         /\ IdsOf(browser[r]) = {sessionId[r]}
<1>0. /\ FilterTypeOK /\ NoHeaderBefore /\ CookieStoreAgrees /\ HeadersMatchSession
      /\ SlotsClean /\ OneAtATime /\ JarWaits
  BY DEF RefinementInv, TypeInv, TypeOK, FilterTypeOK, HeaderInv, IsolationInv, WaitingInv
<1>1. sessionId[r] \in SessionId
  BY <1>0 DEF FilterTypeOK, HasSession
<1>2. pc[r] # "idle" /\ browser[r] \in Browser
  BY <1>0 DEF NoHeaderBefore, SlotsClean
<1>3. RequestsOf(browser[r]) = {r}
  BY <1>0, <1>2, DistinctAssumption DEF RequestsOf, OneAtATime
<1>4. IdsInFlight(browser[r]) = {sessionId[r], Header(r)} \cap SessionId
  BY <1>3 DEF IdsInFlight, Header
<1>5. Header(r) \in SessionId => Header(r) = sessionId[r]
  BY <1>0 DEF HeadersMatchSession, Header
<1>6. jar[browser[r]]["sessionId"] \in {NULL, sessionId[r]}
  BY <1>0 DEF JarWaits, CookieStoreAgrees
<1> QED
  BY <1>1, <1>2, <1>4, <1>5, <1>6 DEF IdsOf

\* A browser without a session in use has at most the id of a lost answer.
LEMMA IdWithoutSession ==
  ASSUME RefinementInv, NEW r \in Request, ~HasSession(r), browser[r] \in Browser
  PROVE  /\ Header(r) \in SessionId => IdsOf(browser[r]) = {Header(r)}
         /\ Header(r) \notin SessionId =>
              IdsOf(browser[r]) = {jar[browser[r]]["sessionId"]} \ {NULL}
<1>0. OneAtATime /\ JarWaits /\ IdsAreIds
  BY DEF RefinementInv, WaitingInv
<1>1. RequestsOf(browser[r]) = {r} /\ pc[r] # "idle"
  BY <1>0, DistinctAssumption DEF RequestsOf, OneAtATime
<1>2. IdsInFlight(browser[r]) = {NULL, Header(r)} \cap SessionId
  BY <1>1 DEF IdsInFlight, Header, HasSession
<1>3. Header(r) \in SessionId => jar[browser[r]]["sessionId"] = NULL
  BY <1>0, <1>1 DEF JarWaits
<1> QED
  BY <1>0, <1>2, <1>3, DistinctAssumption DEF IdsOf

\* The id of a browser without a request is the one in its jar.
LEMMA IdAtRest ==
  ASSUME NEW b \in Browser, RequestsOf(b) = {}
  PROVE  IdsOf(b) = {jar[b]["sessionId"]} \ {NULL}
<1>1. IdsInFlight(b) = {}
  BY DEF IdsInFlight
<1> QED
  BY <1>1 DEF IdsOf

\* A browser's session is under at most one id, which is its own.
LEMMA OneId ==
  ASSUME RefinementInv, NEW b \in Browser
  PROVE  \/ IdsOf(b) = {}
         \/ \E s \in SessionId : IdsOf(b) = {s} /\ issuer[s] = b
<1>0. JarOwned /\ RequestOwned /\ IdsAreIds /\ FilterTypeOK
  BY DEF RefinementInv, IsolationInv, WaitingInv, TypeInv, TypeOK, FilterTypeOK
<1>a. jar[b]["sessionId"] \in SessionId \cup {NULL}
  BY <1>0 DEF IdsAreIds
<1>1. CASE RequestsOf(b) = {}
  BY <1>0, <1>a, <1>1, IdAtRest DEF JarOwned
<1>2. CASE RequestsOf(b) # {}
  <2>1. PICK r \in Request : browser[r] = b
    BY <1>2 DEF RequestsOf
  <2>2. CASE HasSession(r)
    <3>1. IdsOf(b) = {sessionId[r]} /\ sessionId[r] \in SessionId
      BY <2>1, <2>2, IdOfSession
    <3> QED
      BY <1>0, <2>1, <3>1 DEF RequestOwned
  <2>3. CASE ~HasSession(r)
    <3>1. CASE Header(r) \in SessionId
      BY <1>0, <2>1, <2>3, <3>1, IdWithoutSession DEF RequestOwned
    <3>2. CASE Header(r) \notin SessionId
      BY <1>0, <1>a, <2>1, <2>3, <3>2, IdWithoutSession DEF JarOwned
    <3> QED
      BY <3>1, <3>2
  <2> QED
    BY <2>2, <2>3
<1> QED
  BY <1>1, <1>2

\* The session under a browser's id, before a step and after it.
LEMMA SessionUnderId ==
  ASSUME NEW b \in Browser
  PROVE  /\ IdsOf(b) = {} => abstractSession[b] = NULL
         /\ \A s : IdsOf(b) = {s} => abstractSession[b] = UserOf(redis[s])
         /\ IdsOf(b)' = {} => abstractSession'[b] = NULL
         /\ \A s : IdsOf(b)' = {s} => abstractSession'[b] = UserOf(redis'[s])
<1>1. ASSUME NEW s PROVE (CHOOSE t \in {s} : TRUE) = s
  OBVIOUS
<1> QED
  BY <1>1 DEF abstractSession, UserOf

\* The view of a request in use is a view, and NULL is none.
LEMMA ViewOfSession ==
  ASSUME RefinementInv, NEW r \in Request
  PROVE  /\ HasSession(r) =>
              /\ abstractView[r] = [browser |-> browser[r], user |-> UserOf(attributes[r]),
                                    valid |-> valid[r]]
              /\ abstractView[r] # NULL
         /\ ~HasSession(r) => abstractView[r] = NULL
<1>1. ASSUME HasSession(r) PROVE abstractView[r] \in Abstract!View
  <2>1. browser[r] \in Browser
    BY <1>1, IdOfSession
  <2>2. UserOf(attributes[r]) \in User \cup {NULL}
    BY DEF RefinementInv, IsolationInv, MapsOwned, Owned
  <2>3. valid[r] \in BOOLEAN
    BY DEF RefinementInv, TypeInv, TypeOK
  <2> QED
    BY <1>1, <2>1, <2>2, <2>3 DEF abstractView, Abstract!View
<1> QED
  BY <1>1, ViewAssumption DEF abstractView

-----------------------------------------------------------------------------
(* Frames: what a step leaves as it was *)

\* The ids of a browser whose jar and requests stay as they are.
LEMMA SameIds ==
  ASSUME NEW b \in Browser, jar'[b]["sessionId"] = jar[b]["sessionId"],
         \A r \in Request :
           /\ browser'[r] = b <=> browser[r] = b
           /\ browser[r] = b => UNCHANGED <<sessionId[r], Header(r)>>
  PROVE  IdsOf(b)' = IdsOf(b)
<1>1. RequestsOf(b)' = RequestsOf(b)
  BY DEF RequestsOf
<1>2. IdsInFlight(b)' = IdsInFlight(b)
  BY <1>1 DEF IdsInFlight, RequestsOf, Header
<1> QED
  BY <1>2 DEF IdsOf

LEMMA SameSession ==
  ASSUME RefinementInv, NEW b \in Browser, IdsOf(b)' = IdsOf(b),
         \A s \in SessionId : IdsOf(b) = {s} => UserOf(redis'[s]) = UserOf(redis[s])
  PROVE  abstractSession'[b] = abstractSession[b]
BY OneId, SessionUnderId

LEMMA SessionIsFunction ==
  /\ abstractSession = [c \in Browser |-> abstractSession[c]]
  /\ abstractSession' = [c \in Browser |-> abstractSession'[c]]
BY DEF abstractSession

\* A step that changes no id and no record.
LEMMA QuietSession ==
  ASSUME UNCHANGED <<redis, jar, browser, sessionId, setCookies>>
  PROVE  abstractSession' = abstractSession
BY DEF abstractSession, IdsOf, IdsInFlight, RequestsOf, UserOf

\* A step that is about one browser's id or its record.
LEMMA OneSession ==
  ASSUME RefinementInv, NEW b \in Browser,
         \A c \in Browser \ {b} : jar'[c]["sessionId"] = jar[c]["sessionId"],
         \A q \in Request : \/ UNCHANGED <<browser[q], sessionId[q], Header(q)>>
                            \/ {browser[q], browser'[q]} \subseteq {b, NULL},
         \A s \in SessionId : issuer[s] # b => redis'[s] = redis[s]
  PROVE  abstractSession' = [abstractSession EXCEPT ![b] = abstractSession'[b]]
<1>1. ASSUME NEW c \in Browser \ {b} PROVE abstractSession'[c] = abstractSession[c]
  <2>1. IdsOf(c)' = IdsOf(c)
    BY SameIds, DistinctAssumption
  <2>2. \A s \in SessionId : IdsOf(c) = {s} => issuer[s] = c
    BY OneId
  <2> QED
    BY <2>1, <2>2, SameSession
<1> QED
  BY <1>1, SessionIsFunction

LEMMA OneView ==
  ASSUME NEW r \in Request,
         \A q \in Request \ {r} : UNCHANGED <<browser[q], sessionId[q], attributes[q], valid[q]>>
  PROVE  abstractView' = [abstractView EXCEPT ![r] = abstractView'[r]]
BY DEF abstractView, HasSession, UserOf

\* A step of the thread that serves r, or the arrival of its answer.
StepOf(r) ==
  /\ \A q \in Request \ {r} :
       UNCHANGED <<browser[q], sessionId[q], Header(q), attributes[q], valid[q]>>
  /\ browser'[r] \in {browser[r], NULL}
  /\ \A c \in Browser \ {browser[r]} : jar'[c] = jar[c]
  /\ \A s \in SessionId \ {sessionId[r]} : redis'[s] = redis[s]

LEMMA StepOfOne ==
  ASSUME RefinementInv, NEW r \in Request, browser[r] \in Browser, StepOf(r)
  PROVE  /\ abstractSession' = [abstractSession EXCEPT ![browser[r]] = abstractSession'[browser[r]]]
         /\ abstractView' = [abstractView EXCEPT ![r] = abstractView'[r]]
<1>1. \A s \in SessionId : issuer[s] # browser[r] => redis'[s] = redis[s]
  BY DEF RefinementInv, IsolationInv, RequestOwned, StepOf
<1>2. abstractView' = [abstractView EXCEPT ![r] = abstractView'[r]]
  BY OneView DEF StepOf
<1> QED
  BY <1>1, <1>2, OneSession DEF StepOf

-----------------------------------------------------------------------------
(* Steps that are seen *)

LEMMA InitIsOpen == Init => Abstract!Init
<1> SUFFICES ASSUME Init PROVE Abstract!Init
  OBVIOUS
<1>1. ASSUME NEW b \in Browser PROVE IdsOf(b) = {}
  BY CookieNameAssumption, DistinctAssumption
  DEF Init, CookieInit, NoCookies, IdsOf, IdsInFlight, RequestsOf
<1>2. abstractSession = [b \in Browser |-> NULL]
  BY <1>1 DEF abstractSession
<1>3. abstractView = [r \in Request |-> NULL]
  BY DEF Init, abstractView, HasSession
<1> QED
  BY <1>2, <1>3 DEF Abstract!Init

\* A session ends: its record is kept, replaced by its map or no longer found.
LEMMA SessionCloses ==
  ASSUME RefinementInv, NEW r \in Request, NEW b \in Browser, browser[r] = b,
         HasSession(r), StepOf(r), ~HasSession(r)', IdsOf(b)' \subseteq {sessionId[r]},
         UserOf(redis'[sessionId[r]])
           \in {UserOf(redis[sessionId[r]]), IF valid[r] THEN UserOf(attributes[r]) ELSE NULL}
  PROVE  Abstract!Close(r)
<1> DEFINE saved == IF valid[r] THEN UserOf(attributes[r]) ELSE NULL
<1>1. IdsOf(b) = {sessionId[r]}
  BY IdOfSession
<1>2. /\ abstractSession' = [abstractSession EXCEPT ![b] = abstractSession'[b]]
      /\ abstractView' = [abstractView EXCEPT ![r] = abstractView'[r]]
  BY StepOfOne
<1>3. abstractView'[r] = NULL
  BY DEF abstractView
<1>4. /\ abstractView[r] # NULL
      /\ abstractView[r].browser = b /\ abstractView[r].user = UserOf(attributes[r])
      /\ abstractView[r].valid = valid[r]
  <2>1. /\ abstractView[r] = [browser |-> b, user |-> UserOf(attributes[r]), valid |-> valid[r]]
        /\ abstractView[r] # NULL
    BY ViewOfSession
  <2> QED
    BY <2>1
<1>5. abstractSession'[b] \in {abstractSession[b], saved, NULL}
  <2>1. IdsOf(b)' = {} \/ IdsOf(b)' = {sessionId[r]}
    OBVIOUS
  <2> QED
    BY <1>1, <2>1, SessionUnderId
<1>6. Abstract!Saved(r) = [abstractSession EXCEPT ![b] = saved]
  BY <1>4 DEF Abstract!Saved
<1>7. [abstractSession EXCEPT ![b] = abstractSession[b]] = abstractSession
  BY DEF abstractSession
<1>8. abstractSession' \in {abstractSession, Abstract!Saved(r), [abstractSession EXCEPT ![b] = NULL]}
  BY <1>2, <1>5, <1>6, <1>7
<1> QED
  BY <1>2, <1>3, <1>4, <1>8 DEF Abstract!Close

\* The ids of r's browser after a step of r: no other request is in flight.
LEMMA IdsAfter ==
  ASSUME RefinementInv, NEW r \in Request, NEW b \in Browser, browser[r] = b, StepOf(r)
  PROVE  IdsOf(b)' = IF jar'[b]["sessionId"] # NULL THEN {jar'[b]["sessionId"]}
                     ELSE IF browser'[r] = b THEN {sessionId'[r], Header(r)'} \cap SessionId
                     ELSE {}
<1>1. ASSUME NEW q \in Request \ {r} PROVE browser'[q] # b
  BY DistinctAssumption DEF RefinementInv, WaitingInv, OneAtATime, StepOf
<1>2. RequestsOf(b)' = IF browser'[r] = b THEN {r} ELSE {}
  BY <1>1 DEF RequestsOf
<1>3. IdsInFlight(b)'
        = IF browser'[r] = b THEN {sessionId'[r], Header(r)'} \cap SessionId ELSE {}
  BY <1>2 DEF IdsInFlight, RequestsOf, Header
<1> QED
  BY <1>3 DEF IdsOf

\* A browser has no session any more.
LEMMA SessionForgotten ==
  ASSUME NEW b \in Browser, IdsOf(b)' = {}, abstractView' = abstractView,
         abstractSession' = [abstractSession EXCEPT ![b] = abstractSession'[b]]
  PROVE  Abstract!Forget(b)
<1>1. abstractSession'[b] = NULL
  BY SessionUnderId
<1> QED
  BY <1>1 DEF Abstract!Forget

\* Nothing changes that a browser can see.
Unseen == UNCHANGED <<abstractSession, abstractView>>

\* The views of requests whose sessions and local users stay as they are.
LEMMA SameViews ==
  ASSUME \A q \in Request :
           /\ HasSession(q)' <=> HasSession(q)
           /\ HasSession(q) => UNCHANGED <<browser[q], UserOf(attributes[q]), valid[q]>>
  PROVE  abstractView' = abstractView
BY DEF abstractView

LEMMA SendUnseen ==
  ASSUME RefinementInv, Waiting, NEW r \in Request, NEW b \in Browser, Send(r, b)
  PROVE  Unseen
<1>1. /\ RequestsOf(b) = {} /\ browser[r] = NULL
      /\ sessionId[r] = NULL /\ Header(r) = NULL /\ FilterTypeOK
  BY DEF Send, Waiting, RefinementInv, WaitingInv, OneAtATime, HeaderInv, NoHeaderBefore,
         HasSession, TypeInv, TypeOK, FilterTypeOK
<1>2. /\ UNCHANGED <<redis, attributes, jar, sessionId, setCookies, valid>>
      /\ browser' = [browser EXCEPT ![r] = b]
  BY DEF Send, cacheVars, sessionVars
<1>3. RequestsOf(b)' = {r}
  BY <1>1, <1>2 DEF RequestsOf, FilterTypeOK
<1>4. IdsInFlight(b)' = {}
  BY <1>1, <1>2, <1>3, DistinctAssumption DEF IdsInFlight, Header
<1>5. ASSUME NEW c \in Browser PROVE abstractSession'[c] = abstractSession[c]
  <2>1. IdsOf(c)' = IdsOf(c)
    <3>1. CASE c = b
      BY <1>1, <1>2, <1>4, <3>1, IdAtRest DEF IdsOf
    <3>2. CASE c # b
      BY <1>1, <1>2, <3>2, SameIds, DistinctAssumption DEF Header, FilterTypeOK
    <3> QED
      BY <3>1, <3>2
  <2> QED
    BY <1>2, <2>1, SameSession
<1>6. abstractSession' = abstractSession
  BY <1>5, SessionIsFunction
<1>7. abstractView' = abstractView
  BY <1>1, <1>2, SameViews DEF HasSession, FilterTypeOK
<1> QED
  BY <1>6, <1>7 DEF Unseen

\* A request that gets its session opens what its browser's session holds.
LEMMA CreateOpens ==
  ASSUME RefinementInv, Waiting, NEW r \in Request, CreateWrapperSession(r)
  PROVE  Abstract!Open(r, browser[r])
<1>0. /\ CacheTypeOK /\ CookieTypeOK /\ FilterTypeOK /\ NoHeaderBefore /\ SlotsClean /\ RecordsOwned
      /\ OneAtATime /\ JarWaits /\ ReadOnce /\ IdsAreIds
      /\ "__user__" \in CacheName
  BY DEF RefinementInv, TypeInv, TypeOK, FilterTypeOK, HeaderInv, IsolationInv, WaitingInv, CacheName
<1> DEFINE b == browser[r]
<1>1. PICK sid \in SessionId :
        /\ SessionIdFor(r, sid)
        /\ sessionId' = [sessionId EXCEPT ![r] = sid]
        /\ CacheSetAttribute(r, sid, "lastVisitTime", Visit)
  BY DEF CreateWrapperSession
<1>2. /\ ~HasSession(r) /\ Header(r) = NULL /\ attributes[r] = NoAttributes
      /\ ~isAlreadyReaded[r] /\ b \in Browser /\ Carried(r) = jar[b]["sessionId"]
  BY <1>0 DEF CreateWrapperSession, NoHeaderBefore, SlotsClean, ReadOnce, JarWaits
<1>3. /\ UNCHANGED <<redis, setCookies, jar, browser>>
      /\ valid' = [valid EXCEPT ![r] = TRUE]
  BY DEF CreateWrapperSession
\* The local map is the record with lastVisitTime.
<1>4. PICK map : /\ map = ReadInto(NoAttributes, redis[sid])
                 /\ attributes' = [attributes EXCEPT ![r] = [map EXCEPT !["lastVisitTime"] = Visit]]
  <2>1. PICK load \in LoadCache(r, sid) :
          attributes' = [attributes EXCEPT ![r] = [load.map EXCEPT !["lastVisitTime"] = Visit]]
    BY <1>1 DEF CacheSetAttribute
  <2> QED
    BY <1>2, <2>1, LoadReads DEF Waiting
<1>5. UserOf(attributes'[r]) = UserOf(redis[sid])
  <2>1. UserOf(map) = UserOf(redis[sid])
    BY <1>0, <1>4 DEF ReadInto, UserOf, NoAttributes
  <2>2. UserOf([map EXCEPT !["lastVisitTime"] = Visit]) = UserOf(map)
    BY <1>0, <1>4 DEF ReadInto, UserOf
  <2> QED
    BY <1>0, <1>4, <2>1, <2>2 DEF CacheTypeOK
<1>6. StepOf(r)
  BY <1>0, <1>1, <1>3, <1>4 DEF StepOf, Header, CacheTypeOK, FilterTypeOK
<1>7. IdsOf(b)' = {sid}
  <2>1. Carried(r) # NULL => Carried(r) = sid
    BY <1>1 DEF SessionIdFor, Carried
  <2>2. sessionId'[r] = sid /\ Header(r)' = NULL /\ browser'[r] = b /\ jar'[b] = jar[b]
    BY <1>0, <1>1, <1>2, <1>3 DEF Header, FilterTypeOK
  <2> QED
    BY <1>2, <1>6, <2>1, <2>2, IdsAfter, DistinctAssumption
<1>8. abstractSession'[b] = UserOf(redis[sid]) /\ abstractSession[b] = UserOf(redis[sid])
  <2>1. abstractSession'[b] = UserOf(redis[sid])
    BY <1>2, <1>3, <1>7, SessionUnderId
  <2>2. CASE Carried(r) # NULL
    <3>1. IdsOf(b) = {sid}
      BY <1>1, <1>2, <2>2 DEF SessionIdFor, Carried, IdsOf
    <3> QED
      BY <1>2, <2>1, <3>1, SessionUnderId
  <2>3. CASE Carried(r) = NULL
    <3>1. IdsOf(b) = {}
      BY <1>2, <2>3, IdWithoutSession, DistinctAssumption
    <3>2. issuer[sid] = NULL
      BY <1>1, <2>3 DEF SessionIdFor, Carried
    <3>3. UserOf(redis[sid]) = NULL
      BY <1>0, <3>2, AccountAssumption, DistinctAssumption DEF RecordsOwned, Owned
    <3> QED
      BY <1>2, <2>1, <3>1, <3>3, SessionUnderId
  <2> QED
    BY <2>2, <2>1, <2>3
<1>9. abstractSession' = abstractSession
  BY <1>2, <1>6, <1>8, StepOfOne, SessionIsFunction
<1>10. abstractView'[r] = [browser |-> b, user |-> abstractSession[b], valid |-> TRUE]
  BY <1>0, <1>1, <1>3, <1>5, <1>8, DistinctAssumption DEF abstractView, HasSession, FilterTypeOK
<1>11. abstractView' = [abstractView EXCEPT ![r] = abstractView'[r]]
  BY <1>2, <1>6, StepOfOne
<1>12. ASSUME NEW q \in Request, abstractView[q] # NULL PROVE abstractView[q].browser # b
  <2>1. HasSession(q) /\ q # r
    BY <1>2, <1>12, ViewOfSession
  <2>2. abstractView[q].browser = browser[q] /\ browser[q] # b
    BY <1>0, <1>2, <2>1, DistinctAssumption DEF abstractView, OneAtATime
  <2> QED
    BY <2>2
<1>13. abstractView[r] = NULL
  BY <1>2, ViewOfSession
<1> QED
  BY <1>9, <1>10, <1>11, <1>12, <1>13 DEF Abstract!Open

\* A call of the handler finds the record read.
LEMMA CallHasRead ==
  ASSUME RefinementInv, NEW r \in Request, Call(r)
  PROVE  /\ HasSession(r) /\ isAlreadyReaded[r]
         /\ CacheTypeOK /\ FilterTypeOK
<1>1. Active(r) /\ CacheTypeOK /\ FilterTypeOK
  BY DEF RefinementInv, TypeInv, TypeOK, FilterTypeOK, Active, Call
<1> QED
  BY <1>1 DEF RefinementInv, TypeInv, ActiveHasSession, WaitingInv, ReadOnce

\* The handler changes its view only.
LEMMA HandlerView ==
  ASSUME RefinementInv, NEW r \in Request, Call(r),
         UNCHANGED <<redis, jar, browser, sessionId, setCookies>>,
         \A q \in Request \ {r} : UNCHANGED <<attributes[q], valid[q]>>
  PROVE  /\ abstractView[r] # NULL
         /\ abstractSession' = abstractSession
         /\ abstractView' = [abstractView EXCEPT ![r] =
              [abstractView[r] EXCEPT !.user = UserOf(attributes'[r]), !.valid = valid'[r]]]
<1>1. HasSession(r) /\ HasSession(r)'
  BY CallHasRead DEF HasSession
<1>2. /\ abstractView[r] = [browser |-> browser[r], user |-> UserOf(attributes[r]), valid |-> valid[r]]
      /\ abstractView[r] # NULL
  BY <1>1, ViewOfSession
<1>3. abstractView'[r]
        = [browser |-> browser[r], user |-> UserOf(attributes'[r]), valid |-> valid'[r]]
  BY <1>1 DEF abstractView, UserOf
<1>4. abstractView'[r]
        = [abstractView[r] EXCEPT !.user = UserOf(attributes'[r]), !.valid = valid'[r]]
  <2>1. ASSUME NEW old,
               old = [browser |-> browser[r], user |-> UserOf(attributes[r]), valid |-> valid[r]],
               NEW new, new = [old EXCEPT !.user = UserOf(attributes'[r]), !.valid = valid'[r]]
        PROVE  new = [browser |-> browser[r], user |-> UserOf(attributes'[r]), valid |-> valid'[r]]
    BY <2>1
  <2> QED
    BY <1>2, <1>3, <2>1
<1>5. abstractView' = [abstractView EXCEPT ![r] = abstractView'[r]]
  BY OneView
<1> QED
  BY <1>2, <1>4, <1>5, QuietSession

LEMMA SetAttributePuts ==
  ASSUME RefinementInv, Waiting, NEW r \in Request, NEW name \in HandlerName,
         NEW value \in User \cup {NULL}, SetAttribute(r, name, value)
  PROVE  Abstract!Put(r, value)
<1>1. /\ name = "__user__" /\ Call(r)
      /\ UNCHANGED <<redis, setCookies, jar, browser, sessionId, valid>>
  BY HandlerAssumption DEF SetAttribute, CacheName, cookieVars
<1>2. attributes' = [attributes EXCEPT ![r] = [attributes[r] EXCEPT !["__user__"] = value]]
  BY <1>1, CallHasRead, LoadReads DEF SetAttribute, CacheSetAttribute, Waiting
<1>3. UserOf(attributes'[r]) = value /\ \A q \in Request \ {r} : attributes'[q] = attributes[q]
  BY <1>1, <1>2, CallHasRead DEF CacheTypeOK, Record, CacheName, UserOf
<1>4. /\ abstractView[r] # NULL /\ abstractSession' = abstractSession
      /\ abstractView'
           = [abstractView EXCEPT ![r] = [abstractView[r] EXCEPT !.user = value, !.valid = valid[r]]]
  BY <1>1, <1>3, HandlerView
<1>5. abstractView[r] = [browser |-> browser[r], user |-> UserOf(attributes[r]), valid |-> valid[r]]
  BY <1>1, CallHasRead, ViewOfSession
<1>6. [abstractView[r] EXCEPT !.user = value, !.valid = valid[r]] = [abstractView[r] EXCEPT !.user = value]
  <2>1. ASSUME NEW old,
               old = [browser |-> browser[r], user |-> UserOf(attributes[r]), valid |-> valid[r]],
               NEW new, new = [old EXCEPT !.user = value, !.valid = valid[r]]
        PROVE  new = [browser |-> browser[r], user |-> value, valid |-> valid[r]]
    BY <2>1
  <2>2. ASSUME NEW old,
               old = [browser |-> browser[r], user |-> UserOf(attributes[r]), valid |-> valid[r]],
               NEW new, new = [old EXCEPT !.user = value]
        PROVE  new = [browser |-> browser[r], user |-> value, valid |-> valid[r]]
    BY <2>2
  <2>3. [abstractView[r] EXCEPT !.user = value, !.valid = valid[r]]
          = [browser |-> browser[r], user |-> value, valid |-> valid[r]]
    BY <1>5, <2>1
  <2>4. [abstractView[r] EXCEPT !.user = value]
          = [browser |-> browser[r], user |-> value, valid |-> valid[r]]
    BY <1>5, <2>2
  <2> QED
    BY <2>3, <2>4
<1>7. [abstractView EXCEPT ![r].user = value]
        = [abstractView EXCEPT ![r] = [abstractView[r] EXCEPT !.user = value]]
  OBVIOUS
<1> QED
  BY <1>4, <1>6, <1>7 DEF Abstract!Put

LEMMA InvalidateSeen ==
  ASSUME RefinementInv, Waiting, NEW r \in Request, Invalidate(r)
  PROVE  Abstract!Invalidate(r)
<1>1. /\ Call(r) /\ valid' = [valid EXCEPT ![r] = FALSE]
      /\ UNCHANGED <<redis, setCookies, jar, browser, sessionId>>
  BY DEF Invalidate
<1>2. "__user__" \in CacheName \cap ShortLived
  BY DEF CacheName, ShortLived, ConfiguredName
\* Nothing removed comes back, as the record has been read.
<1>3. PICK load \in LoadCache(r, sessionId[r]) :
        attributes' = [attributes EXCEPT ![r] =
          [n \in CacheName |-> IF n \in CacheName \cap ShortLived THEN NULL ELSE load.map[n]]]
  BY <1>1, CallHasRead DEF Invalidate, CacheRemoveAttributes
<1>4. UserOf(attributes'[r]) = NULL /\ \A q \in Request \ {r} : attributes'[q] = attributes[q]
  BY <1>1, <1>2, <1>3, CallHasRead DEF CacheTypeOK, UserOf
<1>5. valid'[r] = FALSE /\ \A q \in Request \ {r} : valid'[q] = valid[q]
  BY <1>1, CallHasRead DEF FilterTypeOK
<1>6. /\ abstractView[r] # NULL /\ abstractSession' = abstractSession
      /\ abstractView'
           = [abstractView EXCEPT ![r] = [abstractView[r] EXCEPT !.user = NULL, !.valid = FALSE]]
  <2>1. \A q \in Request \ {r} : UNCHANGED <<attributes[q], valid[q]>>
    BY <1>4, <1>5
  <2> QED
    BY <1>1, <1>4, <1>5, <2>1, HandlerView
<1>7. [abstractView EXCEPT ![r].user = NULL, ![r].valid = FALSE]
        = [abstractView EXCEPT ![r] = [abstractView[r] EXCEPT !.user = NULL, !.valid = FALSE]]
  BY DEF abstractView
<1> QED
  BY <1>6, <1>7 DEF Abstract!Invalidate

\* A read of the session that its view already agrees with.
LEMMA GetAttributeUnseen ==
  ASSUME RefinementInv, Waiting, NEW r \in Request, GetAttribute(r)
  PROVE  Unseen
<1>1. Call(r) /\ UNCHANGED <<redis, setCookies, jar, browser, sessionId, valid>>
  BY DEF GetAttribute, cookieVars, sessionVars
<1>2. PICK load \in LoadCache(r, sessionId[r]) : attributes' = [attributes EXCEPT ![r] = load.map]
  BY DEF GetAttribute, CacheGetAttribute
<1>3. load.map = attributes[r]
  BY <1>1, CallHasRead, LoadReads DEF Waiting
<1>4. UNCHANGED attributes
  BY <1>1, <1>2, <1>3, CallHasRead DEF CacheTypeOK
<1> QED
  BY <1>1, <1>4, QuietSession, SameViews DEF Unseen, HasSession

\* Steps that have nothing to do with the session.
LEMMA QuietUnseen ==
  ASSUME UNCHANGED <<redis, attributes, setCookies, jar, browser, sessionId, valid>>
  PROVE  Unseen
BY QuietSession, SameViews DEF Unseen, HasSession

\* What holds of a request whose commit is running.
LEMMA CommitHasSession ==
  ASSUME RefinementInv, NEW r \in Request, pc[r] = "committing"
  PROVE  /\ HasSession(r) /\ isAlreadyReaded[r] /\ browser[r] \in Browser
         /\ IdsOf(browser[r]) = {sessionId[r]} /\ sessionId[r] \in SessionId
         /\ "write" \notin todo[r]
         /\ CacheTypeOK /\ CookieTypeOK /\ FilterTypeOK
<1>1. Active(r) /\ CacheTypeOK /\ CookieTypeOK /\ FilterTypeOK
  BY DEF RefinementInv, TypeInv, TypeOK, FilterTypeOK, Active
<1> QED
  BY <1>1, IdOfSession DEF RefinementInv, TypeInv, ActiveHasSession, WaitingInv, ReadOnce

\* The header names the id that the session already has.
LEMMA CommitCookiesUnseen ==
  ASSUME RefinementInv, NEW r \in Request, CommitCookies(r)
  PROVE  Unseen
<1> DEFINE b == browser[r]
<1>1. /\ pc[r] = "committing"
      /\ UNCHANGED <<redis, attributes, jar, browser, sessionId, valid>>
  BY DEF CommitCookies, cacheVars, sessionVars
<1>2. CookieId(r) \in {NULL, sessionId[r]} /\ Header(r) \in {NULL, Expired, sessionId[r]}
  BY <1>1, CommitHasSession
  DEF RefinementInv, HeaderInv, CookieStoreAgrees, HeadersMatchSession, WaitingInv, IdsAreIds, Header
<1>3. /\ Header(r)' \in {NULL, Expired, sessionId[r]}
      /\ \A q \in Request \ {r} : Header(q)' = Header(q)
  BY <1>1, <1>2, CommitHasSession, CookieNameAssumption
  DEF CommitCookies, CookieCommit, Header, CookieId, CookieTypeOK
<1>4. StepOf(r)
  BY <1>1, <1>3 DEF StepOf
<1>5. jar[b]["sessionId"] \in {NULL, sessionId[r]}
  BY <1>1, CommitHasSession DEF IdsOf
<1>6. IdsOf(b)' = {sessionId[r]}
  BY <1>1, <1>3, <1>4, <1>5, CommitHasSession, IdsAfter, DistinctAssumption
<1>7. abstractSession'[b] = abstractSession[b]
  BY <1>1, <1>6, CommitHasSession, SessionUnderId
<1>8. abstractSession' = abstractSession
  BY <1>1, <1>4, <1>7, CommitHasSession, StepOfOne, SessionIsFunction
<1> QED
  BY <1>1, <1>8, SameViews DEF Unseen, HasSession

\* A commit saves the view as a whole: the record is the local map, or gone.
LEMMA CommitSaves ==
  ASSUME RefinementInv, NEW r \in Request, CommitDelete(r) \/ CommitWrite(r)
  PROVE  Abstract!Save(r)
<1>1. /\ pc[r] = "committing"
      /\ UNCHANGED <<attributes, jar, browser, sessionId, valid, setCookies>>
  BY DEF CommitDelete, CommitWrite, cacheVars, cookieVars, sessionVars
<1>2. /\ CacheTypeOK /\ FilterTypeOK /\ HasSession(r) /\ browser[r] \in Browser
      /\ sessionId[r] \in SessionId /\ IdsOf(browser[r]) = {sessionId[r]}
      /\ "write" \notin todo[r]
  BY <1>1, CommitHasSession
<1>3. redis' = [redis EXCEPT ![sessionId[r]] = IF valid[r] THEN attributes[r] ELSE NoAttributes]
  <2>1. CASE CommitDelete(r)
    BY <2>1 DEF CommitDelete, DeleteSession
  <2>2. CASE CommitWrite(r)
    <3>1. valid[r]
      BY <1>2, <2>2 DEF CommitWrite
    <3>2. attributes[r]["lastVisitTime"] # NULL
      BY <1>1, <3>1 DEF RefinementInv, CommitRenewsRecord, Active
    <3>3. attributes[r] # NoAttributes
      BY <3>2 DEF NoAttributes, CacheName
    <3> QED
      BY <2>2, <3>1, <3>3 DEF CommitWrite, WriteToCache
  <2> QED
    BY <2>1, <2>2
<1>4. UserOf(redis'[sessionId[r]]) = IF valid[r] THEN UserOf(attributes[r]) ELSE NULL
  BY <1>2, <1>3 DEF CacheTypeOK, UserOf, NoAttributes, CacheName
<1>5. StepOf(r)
  BY <1>1, <1>2, <1>3 DEF StepOf, Header, CacheTypeOK
<1> SUFFICES ASSUME NEW b \in Browser, browser[r] = b
             PROVE  Abstract!Save(r)
  BY <1>2
<1>6. IdsOf(b)' = {sessionId[r]}
  BY <1>1, <1>2, SameIds DEF Header
<1>7. abstractSession'[b] = IF valid[r] THEN UserOf(attributes[r]) ELSE NULL
  BY <1>4, <1>6, SessionUnderId
<1>8. abstractSession' = [abstractSession EXCEPT ![b] = abstractSession'[b]]
  BY <1>5, StepOfOne
<1>9. abstractView' = abstractView
  BY <1>1, SameViews DEF HasSession, UserOf
<1>10. /\ abstractView[r] # NULL /\ abstractView[r].browser = b
       /\ abstractView[r].user = UserOf(attributes[r]) /\ abstractView[r].valid = valid[r]
  <2>1. /\ abstractView[r] = [browser |-> b, user |-> UserOf(attributes[r]), valid |-> valid[r]]
        /\ abstractView[r] # NULL
    BY <1>2, ViewOfSession
  <2> QED
    BY <2>1
<1> QED
  BY <1>7, <1>8, <1>9, <1>10 DEF Abstract!Save, Abstract!Saved

\* A thread that dies keeps its headers; Redis may have done what it was asked.
LEMMA FailCloses ==
  ASSUME RefinementInv, NEW r \in Request, HandlerThrows(r) \/ CommitThrows(r)
  PROVE  Abstract!Close(r)
<1>1. /\ pc[r] \in {"handling", "committing"} /\ Fail(r)
      /\ UNCHANGED <<jar, browser, setCookies>>
  BY DEF HandlerThrows, CommitThrows, Fail
<1>2. /\ CacheTypeOK /\ FilterTypeOK /\ HasSession(r) /\ sessionId[r] \in SessionId
      /\ browser[r] \in Browser /\ IdsOf(browser[r]) = {sessionId[r]}
  <2>1. HasSession(r)
    BY <1>1 DEF RefinementInv, TypeInv, ActiveHasSession, Active
  <2> QED
    BY <2>1, IdOfSession DEF RefinementInv, TypeInv, TypeOK, FilterTypeOK
<1>3. redis' \in {redis, [redis EXCEPT ![sessionId[r]]
                            = IF valid[r] THEN attributes[r] ELSE NoAttributes]}
  BY DEF HandlerThrows, CommitThrows, WriteToCache, DeleteSession
<1>4. UserOf(redis'[sessionId[r]])
        \in {UserOf(redis[sessionId[r]]), IF valid[r] THEN UserOf(attributes[r]) ELSE NULL}
  BY <1>2, <1>3 DEF CacheTypeOK, UserOf, NoAttributes, CacheName
<1>5. StepOf(r) /\ ~HasSession(r)' /\ sessionId'[r] = NULL
  BY <1>1, <1>2, <1>3
  DEF StepOf, Header, HasSession, Fail, DropSession, DropCacheStore, CacheTypeOK, FilterTypeOK
<1> SUFFICES ASSUME NEW b \in Browser, browser[r] = b
             PROVE  Abstract!Close(r)
  BY <1>2
<1>6. {jar[b]["sessionId"], Header(r)} \cap SessionId \subseteq {sessionId[r]}
  BY <1>2, DistinctAssumption DEF IdsOf, RefinementInv, HeaderInv, HeadersMatchSession, Header
<1>7. jar[b]["sessionId"] \in SessionId \cup {NULL}
  BY DEF RefinementInv, WaitingInv, IdsAreIds
<1>8. IdsOf(b)' \subseteq {sessionId[r]}
  BY <1>1, <1>5, <1>6, <1>7, IdsAfter, DistinctAssumption DEF Header
<1> QED
  BY <1>2, <1>4, <1>5, <1>8, SessionCloses

\* An answer that arrives, or is lost, closes a session still open; after a
\* failed request it decides whether the browser learns of the new session.
LEMMA AnswerSeen ==
  ASSUME RefinementInv, NEW r \in Request, Deliver(r) \/ Lose(r)
  PROVE  Abstract!Close(r) \/ Abstract!Forget(browser[r]) \/ Unseen
<1>0. /\ CacheTypeOK /\ CookieTypeOK /\ FilterTypeOK /\ IdsAreIds /\ JarWaits
      /\ SlotsClean /\ CookieNameAssumption
  BY CookieNameAssumption
  DEF RefinementInv, TypeInv, TypeOK, FilterTypeOK, IsolationInv, WaitingInv
<1>1. pc[r] # "idle" /\ browser[r] \in Browser /\ EndRequest(r)
  BY <1>0 DEF Deliver, Lose, SlotsClean
<1>2. /\ UNCHANGED redis
      /\ sessionId'[r] = NULL /\ browser'[r] = NULL /\ ~HasSession(r)'
  BY <1>0, <1>1 DEF EndRequest, DropSession, HasSession, FilterTypeOK
<1>3. \A c \in Browser \ {browser[r]} : jar'[c] = jar[c]
  BY <1>0 DEF Deliver, Lose, FilterTypeOK
<1>4. StepOf(r)
  BY <1>0, <1>1, <1>2, <1>3
  DEF StepOf, Header, EndRequest, DropSession, DropCacheStore, CacheTypeOK, CookieTypeOK,
      FilterTypeOK
<1>5. jar'[browser[r]]["sessionId"]
        \in {jar[browser[r]]["sessionId"],
             IF Header(r) = Expired THEN NULL
             ELSE IF Header(r) # NULL THEN Header(r) ELSE jar[browser[r]]["sessionId"]}
  BY <1>0, <1>1 DEF Deliver, Lose, Header, FilterTypeOK
<1> SUFFICES ASSUME NEW b \in Browser, browser[r] = b
             PROVE  Abstract!Close(r) \/ Abstract!Forget(b) \/ Unseen
  BY <1>1
<1>6. IdsOf(b)' = {jar'[b]["sessionId"]} \ {NULL}
  BY <1>2, <1>4, IdsAfter, DistinctAssumption
<1>7. Header(r) \in SessionId \cup {NULL, Expired} /\ jar[b]["sessionId"] \in SessionId \cup {NULL}
  BY <1>0 DEF IdsAreIds
<1>8. CASE HasSession(r)
  <2>1. {jar[b]["sessionId"], Header(r)} \cap SessionId \subseteq {sessionId[r]}
    BY <1>8, IdOfSession, DistinctAssumption
    DEF IdsOf, RefinementInv, HeaderInv, HeadersMatchSession, Header
  <2>2. IdsOf(b)' \subseteq {sessionId[r]}
    BY <1>5, <1>6, <1>7, <2>1
  <2> QED
    BY <1>2, <1>4, <1>8, <2>2, SessionCloses
<1>9. CASE ~HasSession(r)
  <2>1. abstractView' = abstractView
    BY <1>2, <1>4, <1>9, SameViews DEF StepOf, HasSession, UserOf
  <2>2. abstractSession' = [abstractSession EXCEPT ![b] = abstractSession'[b]]
    BY <1>4, StepOfOne
  <2>3. IdsOf(b)' = IdsOf(b) \/ IdsOf(b)' = {}
    <3>1. CASE Header(r) \in SessionId
      <4>1. IdsOf(b) = {Header(r)} /\ jar[b]["sessionId"] = NULL
        BY <1>0, <1>1, <1>9, <3>1, IdWithoutSession DEF JarWaits
      <4> QED
        BY <1>5, <1>6, <3>1, <4>1, DistinctAssumption
    <3>2. CASE Header(r) \notin SessionId
      <4>1. IdsOf(b) = {jar[b]["sessionId"]} \ {NULL}
        BY <1>9, <3>2, IdWithoutSession
      <4> QED
        BY <1>5, <1>6, <1>7, <3>2, <4>1
    <3> QED
      BY <3>1, <3>2
  <2>4. CASE IdsOf(b)' = IdsOf(b)
    <3>1. abstractSession'[b] = abstractSession[b]
      BY <1>2, <2>4, SameSession
    <3> QED
      BY <2>1, <2>2, <3>1, SessionIsFunction DEF Unseen
  <2>5. CASE IdsOf(b)' = {}
    BY <2>1, <2>2, <2>5, SessionForgotten
  <2> QED
    BY <2>3, <2>4, <2>5
<1> QED
  BY <1>8, <1>9

\* A record that expires is the session of one browser at most.
LEMMA ExpireSeen ==
  ASSUME RefinementInv, NEW sid \in SessionId, Expire(sid)
  PROVE  (\E c \in Browser : Abstract!Forget(c)) \/ Unseen
<1>1. /\ redis' = [redis EXCEPT ![sid] = NoAttributes] /\ CacheTypeOK
      /\ UNCHANGED <<attributes, jar, browser, sessionId, setCookies, valid>>
  BY DEF Expire, cacheVars, cookieVars, sessionVars, RefinementInv, TypeInv, TypeOK
<1>2. abstractView' = abstractView
  BY <1>1, SameViews DEF HasSession, UserOf
<1>3. ASSUME NEW c \in Browser PROVE IdsOf(c)' = IdsOf(c)
  BY <1>1, SameIds DEF Header
<1>4. \A s \in SessionId \ {sid} : redis'[s] = redis[s]
  BY <1>1 DEF CacheTypeOK
<1>5. CASE \E c \in Browser : IdsOf(c) = {sid}
  <2>1. PICK c \in Browser : IdsOf(c) = {sid}
    BY <1>5
  <2>2. issuer[sid] = c
    BY <2>1, OneId
  <2>3. abstractSession' = [abstractSession EXCEPT ![c] = abstractSession'[c]]
    BY <1>1, <1>4, <2>2, OneSession DEF Header
  <2>4. abstractSession'[c] = NULL
    <3>1. UserOf(redis'[sid]) = NULL
      BY <1>1 DEF CacheTypeOK, NoAttributes, CacheName, UserOf
    <3> QED
      BY <1>3, <2>1, <3>1, SessionUnderId
  <2> QED
    BY <1>2, <2>3, <2>4 DEF Abstract!Forget
<1>6. CASE \A c \in Browser : IdsOf(c) # {sid}
  <2>1. ASSUME NEW c \in Browser PROVE abstractSession'[c] = abstractSession[c]
    BY <1>3, <1>4, <1>6, SameSession
  <2> QED
    BY <1>2, <2>1, SessionIsFunction DEF Unseen
<1> QED
  BY <1>5, <1>6

\* A browser that is closed has no request in flight.
LEMMA CloseBrowserForgets ==
  ASSUME RefinementInv, Waiting, NEW b \in Browser, CloseBrowser(b)
  PROVE  Abstract!Forget(b)
<1>1. /\ RequestsOf(b) = {} /\ jar' = [jar EXCEPT ![b]["sessionId"] = NULL]
      /\ UNCHANGED <<redis, attributes, browser, sessionId, setCookies, valid>>
  BY DEF CloseBrowser, Waiting, cacheVars, cookieVars, sessionVars
<1>2. jar'[b]["sessionId"] = NULL /\ \A c \in Browser \ {b} : jar'[c] = jar[c]
  BY <1>1, CookieNameAssumption
  DEF RefinementInv, TypeInv, TypeOK, Cookies
<1>3. RequestsOf(b)' = {}
  BY <1>1 DEF RequestsOf
<1>4. IdsOf(b)' = {}
  BY <1>2, <1>3 DEF IdsOf, IdsInFlight
<1>5. abstractSession' = [abstractSession EXCEPT ![b] = abstractSession'[b]]
  BY <1>1, <1>2, OneSession DEF Header
<1>6. abstractView' = abstractView
  BY <1>1, SameViews DEF HasSession, UserOf
<1> QED
  BY <1>4, <1>5, <1>6, SessionForgotten

-----------------------------------------------------------------------------
(* The refinement *)

\* Every step of the framework is a step of the abstract session or unseen.
LEMMA StepImplements ==
  ASSUME RefinementInv, Waiting, [Next]_vars
  PROVE  [Abstract!Next]_<<abstractSession, abstractView>>
<1>1. ASSUME NEW r \in Request, LetItGo(r) \/ Finish(r) \/ GetWriter(r) PROVE Unseen
  BY <1>1, QuietUnseen
  DEF LetItGo, Finish, GetWriter, cacheVars, cookieVars, sessionVars
<1>2. ASSUME NEW r \in Request, CreateWrapperSession(r) PROVE Abstract!Next
  <2>1. browser[r] \in Browser
    BY <1>2 DEF CreateWrapperSession, RefinementInv, IsolationInv, SlotsClean
  <2> QED
    BY <1>2, <2>1, CreateOpens DEF Abstract!Next
<1>3. ASSUME NEW r \in Request, Handler(r) PROVE Abstract!Next \/ Unseen
  <2>1. ASSUME NEW name \in HandlerName, NEW value \in User \cup {NULL},
               SetAttribute(r, name, value)
        PROVE  Abstract!Next
    BY <2>1, SetAttributePuts DEF Abstract!Next
  <2>2. ASSUME NEW name \in HandlerName, SetAttributeRefused(r, name) PROVE Unseen
    BY <2>2, QuietUnseen DEF SetAttributeRefused, cacheVars, cookieVars, sessionVars
  <2>3. CASE GetAttribute(r)
    BY <2>3, GetAttributeUnseen
  <2>4. CASE Invalidate(r)
    BY <2>4, InvalidateSeen DEF Abstract!Next
  <2>5. CASE HandlerThrows(r)
    BY <2>5, FailCloses DEF Abstract!Next
  <2> QED
    BY <1>3, <2>1, <2>2, <2>3, <2>4, <2>5 DEF Handler
<1>4. ASSUME NEW r \in Request, Commit(r) PROVE Abstract!Next \/ Unseen
  <2>1. CASE CommitCookies(r)
    BY <2>1, CommitCookiesUnseen
  <2>2. CASE CommitDelete(r) \/ CommitWrite(r)
    BY <2>2, CommitSaves DEF Abstract!Next
  \* The record has been read before.
  <2>3. ASSUME NEW ok \in BOOLEAN, CommitRead(r, ok) PROVE FALSE
    BY <2>3, CommitHasSession DEF CommitRead
  <2>4. CASE CommitThrows(r)
    BY <2>4, FailCloses DEF Abstract!Next
  <2> QED
    BY <1>1, <1>4, <2>1, <2>2, <2>3, <2>4 DEF Commit
<1>5. ASSUME NEW r \in Request, NEW b \in Browser, Send(r, b) PROVE Unseen
  BY <1>5, SendUnseen
<1>6. ASSUME NEW r \in Request, Deliver(r) \/ Lose(r) PROVE Abstract!Next \/ Unseen
  <2>1. browser[r] \in Browser
    BY <1>6 DEF Deliver, Lose, RefinementInv, IsolationInv, SlotsClean
  <2> QED
    BY <1>6, <2>1, AnswerSeen DEF Abstract!Next
<1>7. ASSUME NEW s \in SessionId, Expire(s) PROVE Abstract!Next \/ Unseen
  BY <1>7, ExpireSeen DEF Abstract!Next
<1>8. ASSUME NEW s \in SessionId, Retire(s) PROVE Unseen
  BY <1>8, QuietUnseen DEF Retire, cacheVars, cookieVars, sessionVars
<1>9. ASSUME NEW b \in Browser, CloseBrowser(b) PROVE Abstract!Next
  BY <1>9, CloseBrowserForgets DEF Abstract!Next
<1>10. ASSUME UNCHANGED vars PROVE Unseen
  BY <1>10, QuietUnseen DEF vars, cacheVars, cookieVars, sessionVars
<1> QED
  BY <1>1, <1>2, <1>3, <1>4, <1>5, <1>6, <1>7, <1>8, <1>9, <1>10
  DEF Next, Environment, Server, Unseen

\* What a servlet developer expects of a session holds of this framework for
\* every number of browsers, requests, ids, accounts and calls: if browsers wait
\* for their answers and Redis answers every read, then each browser sees one
\* session, which only a commit, the end of a request, an expiry or the closing
\* of the browser changes, and which a commit replaces as a whole.  Writes may
\* fail or be done although they seem to fail, answers may be lost, commits may
\* visit the stores in either order, and requests of other browsers may come in
\* between.
THEOREM FrameworkImplements ==
  ASSUME Waiting
  PROVE  Spec => ImplementsBrowserSession
<1>1. Init => RefinementInv
  <2>1. Init => CommitRenewsRecord
    BY DEF Init, CommitRenewsRecord, Active
  <2> QED
    BY <2>1, TypeInit, HeaderInit, IsolationInit, WaitingInit DEF RefinementInv
<1>2. RefinementInv /\ [Next]_vars => RefinementInv'
  BY TypeStep, HeaderStep, IsolationStep, RenewStep, WaitingStep DEF RefinementInv
<1>3. RefinementInv /\ [Next]_vars => [Abstract!Next]_<<abstractSession, abstractView>>
  BY StepImplements
<1> QED
  BY <1>1, <1>2, <1>3, InitIsOpen, PTL DEF Spec, ImplementsBrowserSession, Abstract!Spec

-----------------------------------------------------------------------------
(* The steps that a thread has left *)

\* A commit costs the call that begins it, and one step for the cookie store
\* and two for the cache store, which may read before it writes.
CommitSteps(r) ==
  (IF "cookie" \in todo[r] THEN 1 ELSE 0)
    + (IF "cache" \in todo[r] THEN 2 ELSE 0)
    + (IF "write" \in todo[r] THEN 1 ELSE 0)

\* An upper bound of what the thread of r can still do.
StepsLeft(r) ==
  CASE pc[r] = "sent" -> 4 * MaxCalls + 2
    [] pc[r] = "handling" -> 4 * calls[r] + 1
    [] pc[r] = "committing" -> 4 * calls[r] + 1 + CommitSteps(r)
    [] OTHER -> 0

\* Where the stores that a commit has done leave the thread.
LEMMA StoreCounts ==
  ASSUME FilterTypeOK, NEW r \in Request, pc[r] = "committing", UNCHANGED calls,
         NEW rest \in SUBSET Todo, StoreDone(r, rest),
         NEW n \in Nat, n < CommitSteps(r),
         n = (IF "cookie" \in rest THEN 1 ELSE 0) + (IF "cache" \in rest THEN 2 ELSE 0)
               + (IF "write" \in rest THEN 1 ELSE 0)
  PROVE  StepsLeft(r)' < StepsLeft(r)
<1>1. /\ todo'[r] = rest /\ calls'[r] = calls[r] /\ calls[r] \in Nat
      /\ pc'[r] = IF rest = {} THEN "handling" ELSE "committing"
  BY CallsAssumption DEF StoreDone, FilterTypeOK
<1>2. CommitSteps(r)' = n
  BY <1>1 DEF CommitSteps
<1>3. StepsLeft(r) = 4 * calls[r] + 1 + CommitSteps(r) /\ CommitSteps(r) \in Nat
  BY DEF StepsLeft, CommitSteps
<1>4. StepsLeft(r)' \in {4 * calls[r] + 1, 4 * calls[r] + 1 + n}
  BY <1>1, <1>2 DEF StepsLeft
<1> QED
  BY <1>1, <1>3, <1>4

\* A step of the thread that serves r leaves it fewer.
LEMMA ServerStepCounts ==
  ASSUME TypeInv, NEW r \in Request, Server(r)
  PROVE  StepsLeft(r)' < StepsLeft(r)
<1>0. /\ FilterTypeOK /\ MaxCalls \in Nat /\ calls[r] \in 0..MaxCalls /\ todo[r] \subseteq Todo
      /\ calls \in [Request -> 0..MaxCalls]
  BY CallsAssumption DEF TypeInv, TypeOK, FilterTypeOK
<1>1. CASE LetItGo(r)
  BY <1>0, <1>1 DEF LetItGo, StepsLeft, FilterTypeOK
<1>2. CASE CreateWrapperSession(r)
  BY <1>0, <1>2 DEF CreateWrapperSession, StepsLeft, FilterTypeOK
<1>3. ASSUME pc[r] \in {"handling", "committing"}, Fail(r) \/ Finish(r)
      PROVE  StepsLeft(r)' < StepsLeft(r)
  <2>1. StepsLeft(r)' = 0
    BY <1>0, <1>3 DEF Fail, Finish, StepsLeft, FilterTypeOK
  <2>2. StepsLeft(r) \in Nat /\ StepsLeft(r) > 0
    BY <1>0, <1>3 DEF StepsLeft, CommitSteps
  <2> QED
    BY <2>1, <2>2
\* A call is one less, also if the handler gets its answer at once.
<1>4. ASSUME Call(r), UNCHANGED pc
      PROVE  StepsLeft(r)' < StepsLeft(r)
  BY <1>0, <1>4 DEF Call, StepsLeft
<1>5. CASE GetWriter(r)
  <2>1. /\ pc'[r] = "committing" /\ todo'[r] = {"cookie", "cache"}
        /\ pc[r] = "handling" /\ calls'[r] = calls[r] - 1
    BY <1>0, <1>5 DEF GetWriter, Call, FilterTypeOK
  <2>2. CommitSteps(r)' = 3
    BY <2>1 DEF CommitSteps
  <2> QED
    BY <1>0, <2>1, <2>2 DEF StepsLeft
<1>6. CASE CommitCookies(r)
  <2>1. /\ pc[r] = "committing" /\ UNCHANGED calls /\ StoreDone(r, todo[r] \ {"cookie"})
        /\ "cookie" \in todo[r]
    BY <1>6 DEF CommitCookies
  <2> QED
    BY <1>0, <2>1, StoreCounts DEF CommitSteps
<1>7. CASE CommitDelete(r)
  <2>1. /\ pc[r] = "committing" /\ UNCHANGED calls /\ StoreDone(r, todo[r] \ {"cache"})
        /\ "cache" \in todo[r]
    BY <1>7 DEF CommitDelete
  <2> QED
    BY <1>0, <2>1, StoreCounts DEF CommitSteps
<1>8. ASSUME NEW ok \in BOOLEAN, CommitRead(r, ok)
      PROVE  StepsLeft(r)' < StepsLeft(r)
  <2>1. /\ pc[r] = "committing" /\ UNCHANGED calls
        /\ StoreDone(r, (todo[r] \ {"cache"}) \cup {"write"})
        /\ "cache" \in todo[r]
    BY <1>8 DEF CommitRead
  <2>2. (todo[r] \ {"cache"}) \cup {"write"} \in SUBSET Todo
    BY <1>0 DEF Todo
  <2> QED
    BY <1>0, <2>1, <2>2, StoreCounts DEF CommitSteps
<1>9. CASE CommitWrite(r)
  <2>1. /\ pc[r] = "committing" /\ UNCHANGED calls
        /\ StoreDone(r, todo[r] \ {"cache", "write"})
        /\ "cache" \in todo[r] \/ "write" \in todo[r]
    BY <1>9 DEF CommitWrite
  <2> QED
    BY <1>0, <2>1, StoreCounts DEF CommitSteps
<1> QED
  BY <1>1, <1>2, <1>3, <1>4, <1>5, <1>6, <1>7, <1>8, <1>9
  DEF Server, Handler, Commit, SetAttribute, SetAttributeRefused, GetAttribute, Invalidate,
      HandlerThrows, CommitThrows, Finish

\* Nobody else gives a thread at work more to do.
LEMMA OthersCount ==
  ASSUME TypeInv, NEW q \in Request, pc[q] # "idle",
         NEW r \in Request, r # q, Server(r)
  PROVE  StepsLeft(q)' = StepsLeft(q)
<1>0. FilterTypeOK /\ calls \in [Request -> 0..MaxCalls]
  BY DEF TypeInv, TypeOK, FilterTypeOK
<1>1. UNCHANGED <<pc[q], calls[q], todo[q]>>
  BY <1>0
  DEF Server, Handler, Commit, LetItGo, CreateWrapperSession, SetAttribute, SetAttributeRefused,
      GetAttribute, Invalidate, HandlerThrows, GetWriter, CommitCookies, CommitDelete, CommitRead,
      CommitWrite, CommitThrows, Finish, Fail, DropSession, StoreDone, Call, FilterTypeOK
<1> QED
  BY <1>1 DEF StepsLeft, CommitSteps

LEMMA EnvironmentCounts ==
  ASSUME TypeInv, NEW q \in Request, pc[q] # "idle", Environment
  PROVE  StepsLeft(q)' = StepsLeft(q) \/ StepsLeft(q)' = 0
<1>0. FilterTypeOK /\ calls \in [Request -> 0..MaxCalls]
  BY DEF TypeInv, TypeOK, FilterTypeOK
<1>1. \/ pc'[q] = "idle"
      \/ UNCHANGED <<pc[q], calls[q], todo[q]>>
  BY <1>0
  DEF Environment, Send, Deliver, Lose, EndRequest, DropSession, Expire, Retire, CloseBrowser,
      FilterTypeOK
<1> QED
  BY <1>1 DEF StepsLeft, CommitSteps

\* No request runs for ever, whichever calls to Redis fail and whatever the
\* others do: each step of its thread leaves it fewer steps and nobody gives it
\* more, so that a handler with MaxCalls calls makes its thread end after at
\* most 4 * MaxCalls + 2 steps.  No read is repeated without a call, and a
\* commit never starts over.
THEOREM ThreadsRunOut ==
  Spec => [][\A r \in Request :
               /\ StepsLeft(r) \in Nat
               /\ Server(r) => StepsLeft(r)' < StepsLeft(r)
               /\ pc[r] # "idle" =>
                    StepsLeft(r)' = StepsLeft(r) \/ Server(r) \/ StepsLeft(r)' = 0]_vars
<1> DEFINE RunsOut ==
      \A r \in Request :
        /\ StepsLeft(r) \in Nat
        /\ Server(r) => StepsLeft(r)' < StepsLeft(r)
        /\ pc[r] # "idle" =>
             StepsLeft(r)' = StepsLeft(r) \/ Server(r) \/ StepsLeft(r)' = 0
<1>1. TypeInv /\ Next => RunsOut
  <2>1. ASSUME TypeInv, NEW r \in Request PROVE StepsLeft(r) \in Nat
    <3>1. MaxCalls \in Nat /\ calls[r] \in 0..MaxCalls
      BY <2>1, CallsAssumption DEF TypeInv, TypeOK
    <3> QED
      BY <3>1 DEF StepsLeft, CommitSteps
  <2> QED
    BY <2>1, ServerStepCounts, OthersCount, EnvironmentCounts DEF Next
<1>2. TypeInv /\ [Next]_vars => [RunsOut]_vars
  BY <1>1
<1> HIDE DEF RunsOut
<1>3. Spec => [][RunsOut]_vars
  BY <1>2, TypeInit, TypeStep, PTL DEF Spec
<1> QED
  BY <1>3 DEF RunsOut
=============================================================================
