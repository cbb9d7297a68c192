---------------------- MODULE WrapperSessionHistoryProofs ----------------------
(***************************************************************************)
(* Proofs about WrapperSessionHistory, for any number of overlapping       *)
(* requests, whichever calls to Redis fail.                                *)
(***************************************************************************)
EXTENDS WrapperSessionHistory, WrapperSessionProofs

\* A thread that the filter has not reached yet has an empty CacheStore.
FreshInv ==
  \A r \in Request :
    pc[r] \in {"idle", "sent"} => attributes[r] = NoAttributes /\ ~isAlreadyReaded[r]

\* A commit writes only for a valid session.
TodoInv ==
  \A r \in Request : pc[r] = "committing" /\ "write" \in todo[r] => valid[r]

\* What the proofs use of the session framework itself.
FrameworkInv == TypeInv /\ CommitRenewsRecord /\ FreshInv /\ TodoInv

HistoryTypeOK ==
  /\ put \in [Request -> User \cup {NULL, NoPut}]
  /\ dirty \in [Request -> BOOLEAN]
  /\ hasRead \in [Request -> BOOLEAN]
  /\ behind \in [Request -> BOOLEAN]

\* The running commit of r is done with the record.
RecordDone(r) == pc[r] = "committing" /\ todo[r] \cap {"cache", "write"} = {}

\* Redis holds the session of r as r left it: since the last commit, or since
\* the running commit has dealt with the record.
Stored(r) ==
  HasSession(r) /\ (~dirty[r] \/ RecordDone(r)) /\ ~behind[r] =>
    redis[sessionId[r]] = Copy(r)

\* A request whose handler stored no user of its own has the user it read.
SameUser(r) ==
  Active(r) /\ valid[r] /\ put[r] = NoPut =>
    /\ ~hasRead[r] => UserOf(attributes[r]) = NULL
    /\ hasRead[r] /\ ~behind[r] => UserOf(attributes[r]) = UserOf(redis[sessionId[r]])

\* CacheStore relies on a read only if there was one.
ReadBefore(r) == Active(r) /\ isAlreadyReaded[r] => hasRead[r]

HistoryInv == \A r \in Request : Stored(r) /\ SameUser(r) /\ ReadBefore(r)

IInv == FrameworkInv /\ HistoryTypeOK /\ HistoryInv

-----------------------------------------------------------------------------
(* The framework *)

LEMMA HistoryIsNext == [HistoryNext]_allVars => [Next]_vars
<1> SUFFICES ASSUME HistoryNext PROVE Next
  BY DEF allVars
<1>1. ASSUME NEW r \in Request, HistoryServer(r) PROVE Server(r)
  BY <1>1 DEF HistoryServer, Server, Handler, Commit
<1>2. ASSUME HistoryEnvironment PROVE Environment
  BY <1>2 DEF HistoryEnvironment, Environment
<1> QED
  BY <1>1, <1>2 DEF HistoryNext, Next

LEMMA FrameworkStep == FrameworkInv /\ [Next]_vars => FrameworkInv'
<1> SUFFICES ASSUME FrameworkInv, [Next]_vars PROVE FrameworkInv'
  OBVIOUS
<1>0. CacheTypeOK /\ FilterTypeOK
  BY DEF FrameworkInv, TypeInv, TypeOK, FilterTypeOK
<1>1. TypeInv' /\ CommitRenewsRecord'
  BY TypeStep, RenewStep DEF FrameworkInv
<1>2. ASSUME NEW q \in Request
      PROVE  /\ pc'[q] \in {"idle", "sent"} =>
                  attributes'[q] = NoAttributes /\ ~isAlreadyReaded'[q]
             /\ pc'[q] = "committing" /\ "write" \in todo'[q] => valid'[q]
  <2> DEFINE Goal == /\ pc'[q] \in {"idle", "sent"} =>
                          attributes'[q] = NoAttributes /\ ~isAlreadyReaded'[q]
                     /\ pc'[q] = "committing" /\ "write" \in todo'[q] => valid'[q]
  <2>0. /\ pc[q] \in {"idle", "sent"} => attributes[q] = NoAttributes /\ ~isAlreadyReaded[q]
        /\ pc[q] = "committing" /\ "write" \in todo[q] => valid[q]
    BY DEF FrameworkInv, FreshInv, TodoInv
  <2>1. CASE UNCHANGED vars
    BY <2>0, <2>1 DEF vars, cacheVars, sessionVars
  <2>2. ASSUME NEW r \in Request, NEW b \in Browser, Send(r, b) PROVE Goal
    BY <1>0, <2>0, <2>2 DEF Send, cacheVars, sessionVars, FilterTypeOK
  <2>3. ASSUME NEW r \in Request, LetItGo(r) \/ Finish(r) \/ GetWriter(r) PROVE Goal
    BY <1>0, <2>0, <2>3
    DEF LetItGo, Finish, GetWriter, Call, cacheVars, sessionVars, FilterTypeOK
  <2>4. ASSUME NEW r \in Request, CreateWrapperSession(r) PROVE Goal
    <3>1. PICK sid \in SessionId : CacheSetAttribute(r, sid, "lastVisitTime", Visit)
      BY <2>4 DEF CreateWrapperSession
    <3> QED
      BY <1>0, <2>0, <2>4, <3>1
      DEF CreateWrapperSession, CacheSetAttribute, CacheTypeOK, FilterTypeOK
  <2>5. ASSUME NEW r \in Request,
               (\E name \in HandlerName, value \in User \cup {NULL} : SetAttribute(r, name, value))
                 \/ GetAttribute(r)
        PROVE  Goal
    BY <1>0, <2>0, <2>5
    DEF SetAttribute, GetAttribute, Call, CacheSetAttribute, CacheGetAttribute, sessionVars,
        CacheTypeOK, FilterTypeOK
  <2>6. ASSUME NEW r \in Request, NEW name \in HandlerName, SetAttributeRefused(r, name) PROVE Goal
    BY <2>0, <2>6 DEF SetAttributeRefused, cacheVars, sessionVars
  <2>7. ASSUME NEW r \in Request, Invalidate(r) PROVE Goal
    BY <1>0, <2>0, <2>7
    DEF Invalidate, Call, CacheRemoveAttributes, CacheTypeOK, FilterTypeOK
  <2>8. ASSUME NEW r \in Request, CommitCookies(r) \/ CommitDelete(r) \/ CommitWrite(r) PROVE Goal
    BY <1>0, <2>0, <2>8
    DEF CommitCookies, CommitDelete, CommitWrite, StoreDone, cacheVars, sessionVars, FilterTypeOK
  <2>9. ASSUME NEW r \in Request, NEW ok \in BOOLEAN, CommitRead(r, ok) PROVE Goal
    BY <1>0, <2>0, <2>9
    DEF CommitRead, StoreDone, ReadBeforeWrite, sessionVars, CacheTypeOK, FilterTypeOK
  <2>10. ASSUME NEW r \in Request, Fail(r) \/ EndRequest(r) PROVE Goal
    BY <1>0, <2>0, <2>10
    DEF Fail, EndRequest, DropSession, DropCacheStore, CacheTypeOK, FilterTypeOK
  <2>11. ASSUME NEW sid \in SessionId, Expire(sid) \/ Retire(sid) PROVE Goal
    BY <2>0, <2>11 DEF Expire, Retire, cacheVars, sessionVars
  <2>12. ASSUME NEW b \in Browser, CloseBrowser(b) PROVE Goal
    BY <2>0, <2>12 DEF CloseBrowser, cacheVars, sessionVars
  <2> QED
    BY <2>1, <2>2, <2>3, <2>4, <2>5, <2>6, <2>7, <2>8, <2>9, <2>10, <2>11, <2>12
    DEF Next, Environment, Server, Handler, Commit, HandlerThrows, CommitThrows, Deliver, Lose
<1> QED
  BY <1>1, <1>2 DEF FrameworkInv, FreshInv, TodoInv

-----------------------------------------------------------------------------
(* Records and local maps *)

\* A read of the record that the local map already agrees with changes nothing.
LEMMA ReadIntoSame ==
  ASSUME NEW map \in Record
  PROVE  ReadInto(map, map) = map
BY DEF ReadInto, Record

\* What a load can leave in the local map.
LEMMA LoadIs ==
  ASSUME CacheTypeOK, NEW r \in Request, NEW sid \in SessionId, NEW load \in LoadCache(r, sid)
  PROVE  \/ load.map = attributes[r] /\ (load.ok => isAlreadyReaded[r])
         \/ load.map = ReadInto(attributes[r], redis[sid]) /\ load.ok = TRUE
<1>1. CASE isAlreadyReaded[r]
  <2>1. load.map = attributes[r]
    BY <1>1 DEF LoadCache
  <2> QED
    BY <1>1, <2>1
<1>2. CASE ~isAlreadyReaded[r]
  <2>1. load \in ReadFromCache(r, sid)
    BY <1>2 DEF LoadCache
  <2>2. CASE load = [map |-> ReadInto(attributes[r], redis[sid]), ok |-> TRUE]
    BY <2>2
  <2>3. CASE load = [map |-> attributes[r], ok |-> FALSE]
    <3>1. load.map = attributes[r] /\ load.ok = FALSE
      BY <2>3
    <3> QED
      BY <3>1
  <2> QED
    BY <2>1, <2>2, <2>3 DEF ReadFromCache
<1> QED
  BY <1>1, <1>2

LEMMA ReadIntoUser ==
  ASSUME NEW map, NEW record
  PROVE  UserOf(ReadInto(map, record)) = IF UserOf(record) # NULL THEN UserOf(record) ELSE UserOf(map)
BY DEF ReadInto, UserOf, CacheName

-----------------------------------------------------------------------------
(* The history variables *)

\* A request whose copy is not behind agrees with the record, or did so before
\* a step that is its own or leaves its record alone.
LEMMA NotBehind ==
  ASSUME HistoryTypeOK, NEW q \in Request, NEW actors, FallBehind(actors),
         sessionId'[q] # NULL, ~behind'[q]
  PROVE  \/ redis'[sessionId'[q]] = Copy(q)'
         \/ ~behind[q] /\ (q \in actors \/ redis'[sessionId'[q]] = redis[sessionId'[q]])
BY DEF FallBehind

\* Nothing that is private to q changes.
Same(q) ==
  UNCHANGED <<sessionId[q], valid[q], attributes[q], isAlreadyReaded[q], todo[q],
              put[q], dirty[q], hasRead[q]>>

LEMMA SameStep ==
  ASSUME IInv, NEW q \in Request, NEW actors, FallBehind(actors),
         q \notin actors \/ UNCHANGED redis, Same(q),
         pc'[q] = pc[q] \/ {pc'[q], pc[q]} \cap {"handling", "committing"} = {}
  PROVE  Stored(q)' /\ SameUser(q)' /\ ReadBefore(q)'
<1>0. Stored(q) /\ SameUser(q) /\ ReadBefore(q) /\ HistoryTypeOK
  BY DEF IInv, HistoryInv
<1>1. RecordDone(q)' => RecordDone(q)
  BY DEF RecordDone, Same
<1>2. Active(q)' => Active(q) /\ HasSession(q) /\ HasSession(q)'
  BY DEF Active, Same, IInv, FrameworkInv, TypeInv, ActiveHasSession, HasSession
<1>3. Stored(q)'
  <2> SUFFICES ASSUME HasSession(q)', (~dirty[q] \/ RecordDone(q))', ~behind'[q]
               PROVE  redis'[sessionId'[q]] = Copy(q)'
    BY DEF Stored
  <2>1. CASE ~behind[q] /\ redis'[sessionId'[q]] = redis[sessionId'[q]]
    BY <1>0, <1>1, <2>1 DEF Stored, HasSession, Same, Copy
  <2> QED
    BY <1>0, <2>1, NotBehind DEF HasSession
<1>4. SameUser(q)'
  <2> SUFFICES ASSUME Active(q)', valid'[q], put'[q] = NoPut
               PROVE  /\ ~hasRead'[q] => UserOf(attributes'[q]) = NULL
                      /\ hasRead'[q] /\ ~behind'[q] =>
                           UserOf(attributes'[q]) = UserOf(redis'[sessionId'[q]])
    BY DEF SameUser, UserOf
  <2>1. CASE behind'[q] \/ ~hasRead'[q]
    BY <1>0, <1>2, <2>1 DEF SameUser, Same, UserOf
  <2>2. CASE ~behind[q] /\ redis'[sessionId'[q]] = redis[sessionId'[q]]
    BY <1>0, <1>2, <2>2 DEF SameUser, Same, UserOf
  <2>3. CASE redis'[sessionId'[q]] = Copy(q)' /\ hasRead'[q]
    BY <2>3 DEF Copy, UserOf
  <2> QED
    BY <1>0, <1>2, <2>1, <2>2, <2>3, NotBehind DEF HasSession
<1>5. ReadBefore(q)'
  BY <1>0, <1>2 DEF ReadBefore, Same
<1> QED
  BY <1>3, <1>4, <1>5

\* A step of one thread leaves the sessions of the others alone.
LEMMA OthersSame ==
  ASSUME IInv, NEW r \in Request, HistoryServer(r), NEW q \in Request \ {r}
  PROVE  Same(q) /\ pc'[q] = pc[q]
<1>0. CacheTypeOK /\ FilterTypeOK /\ HistoryTypeOK
  BY DEF IInv, FrameworkInv, TypeInv, TypeOK, FilterTypeOK
<1>1. ASSUME NEW p, NEW d, NEW h, Note(r, p, d, h) PROVE UNCHANGED <<put[q], dirty[q], hasRead[q]>>
  BY <1>0, <1>1 DEF Note, HistoryTypeOK
<1>2. UNCHANGED historyVars => UNCHANGED <<put[q], dirty[q], hasRead[q]>>
  BY DEF historyVars
<1>3. UNCHANGED <<put[q], dirty[q], hasRead[q]>>
  BY <1>1, <1>2 DEF HistoryServer
<1> DEFINE Private == UNCHANGED <<sessionId[q], valid[q], attributes[q], isAlreadyReaded[q],
                                  todo[q], pc[q]>>
<1>4. CASE LetItGo(r) \/ Finish(r) \/ GetWriter(r)
  <2>1. Private
    BY <1>0, <1>4 DEF LetItGo, Finish, GetWriter, cacheVars, sessionVars, FilterTypeOK
  <2> QED
    BY <1>3, <2>1 DEF Same
<1>5. CASE CreateWrapperSession(r)
  <2>1. PICK sid \in SessionId :
          /\ sessionId' = [sessionId EXCEPT ![r] = sid]
          /\ CacheSetAttribute(r, sid, "lastVisitTime", Visit)
    BY <1>5 DEF CreateWrapperSession
  <2>2. Private
    BY <1>0, <1>5, <2>1
    DEF CreateWrapperSession, CacheSetAttribute, CacheTypeOK, FilterTypeOK
  <2> QED
    BY <1>3, <2>2 DEF Same
<1>6. ASSUME NEW name \in HandlerName, NEW value \in User \cup {NULL}, SetAttribute(r, name, value)
      PROVE  Private
  BY <1>0, <1>6 DEF SetAttribute, CacheSetAttribute, CacheTypeOK
<1>7. ASSUME GetAttribute(r) \/ \E name \in HandlerName : SetAttributeRefused(r, name)
      PROVE  Private
  BY <1>0, <1>7
  DEF GetAttribute, SetAttributeRefused, CacheGetAttribute, cacheVars, sessionVars, CacheTypeOK
<1>8. ASSUME Invalidate(r) PROVE Private
  BY <1>0, <1>8 DEF Invalidate, CacheRemoveAttributes, CacheTypeOK, FilterTypeOK
<1>9. ASSUME NEW ok \in BOOLEAN, CommitRead(r, ok) PROVE Private
  BY <1>0, <1>9
  DEF CommitRead, ReadBeforeWrite, StoreDone, sessionVars, CacheTypeOK, FilterTypeOK
<1>10. ASSUME CommitCookies(r) \/ CommitDelete(r) \/ CommitWrite(r) PROVE Private
  BY <1>0, <1>10
  DEF CommitCookies, CommitDelete, CommitWrite, StoreDone, cacheVars, sessionVars, FilterTypeOK
<1>11. ASSUME Fail(r) PROVE Private
  BY <1>0, <1>11 DEF Fail, DropSession, DropCacheStore, CacheTypeOK, FilterTypeOK
<1>12. Private => Same(q) /\ pc'[q] = pc[q]
  BY <1>3 DEF Same
<1> HIDE DEF Private
<1> QED
  BY <1>4, <1>5, <1>6, <1>7, <1>8, <1>9, <1>10, <1>11, <1>12
  DEF HistoryServer, HandlerThrows, CommitThrows

\* A load gives the local map the record's user, unless the copy is behind.
LEMMA LoadedUser ==
  ASSUME IInv, NEW r \in Request, Active(r), valid[r], put[r] = NoPut,
         NEW load \in LoadCache(r, sessionId[r])
  PROVE  /\ ~hasRead[r] /\ ~load.ok => UserOf(load.map) = NULL
         /\ (hasRead[r] \/ load.ok) /\ ~behind[r] =>
              UserOf(load.map) = UserOf(redis[sessionId[r]])
<1>0. CacheTypeOK /\ sessionId[r] \in SessionId
  BY DEF IInv, FrameworkInv, TypeInv, TypeOK, ActiveHasSession, HasSession
<1>1. SameUser(r) /\ ReadBefore(r)
  BY DEF IInv, HistoryInv
<1>2. CASE load.map = attributes[r] /\ (load.ok => isAlreadyReaded[r])
  BY <1>1, <1>2 DEF SameUser, ReadBefore
<1>3. CASE load.map = ReadInto(attributes[r], redis[sessionId[r]]) /\ load.ok = TRUE
  BY <1>1, <1>3, ReadIntoUser DEF SameUser
<1> QED
  BY <1>0, <1>2, <1>3, LoadIs

\* A load changes nothing where the local map is the record.
LEMMA LoadedSame ==
  ASSUME IInv, NEW r \in Request, NEW sid \in SessionId, attributes[r] = redis[sid],
         NEW load \in LoadCache(r, sid)
  PROVE  load.map = attributes[r]
<1>0. CacheTypeOK
  BY DEF IInv, FrameworkInv, TypeInv, TypeOK
<1>1. redis[sid] \in Record
  BY <1>0 DEF CacheTypeOK
<1> QED
  BY <1>0, <1>1, LoadIs, ReadIntoSame

\* The steps of the thread that serves r, one by one.
LEMMA OwnStep ==
  ASSUME IInv, NEW r \in Request, HistoryServer(r)
  PROVE  Stored(r)' /\ SameUser(r)' /\ ReadBefore(r)'
<1>0. CacheTypeOK /\ FilterTypeOK /\ HistoryTypeOK
  BY DEF IInv, FrameworkInv, TypeInv, TypeOK, FilterTypeOK
<1>a. Stored(r) /\ SameUser(r) /\ ReadBefore(r)
  BY DEF IInv, HistoryInv
<1>b. FallBehind({r})
  BY DEF HistoryServer
<1>c. Active(r) => sessionId[r] \in SessionId /\ sessionId[r] # NULL
  BY <1>0 DEF IInv, FrameworkInv, TypeInv, ActiveHasSession, HasSession, FilterTypeOK
<1>d. ASSUME NEW p, NEW d, NEW h, Note(r, p, d, h)
      PROVE  put'[r] = p /\ dirty'[r] = d /\ hasRead'[r] = h
  BY <1>0, <1>d DEF Note, HistoryTypeOK
\* Whoever is behind no longer agrees with the record; else it was not behind.
<1>e. ASSUME HasSession(r)', ~behind'[r]
      PROVE  redis'[sessionId'[r]] = Copy(r)' \/ ~behind[r]
  BY <1>0, <1>b, <1>e, NotBehind DEF HasSession
\* A load by a handler that notes nothing but the load.
<1>g. ASSUME NEW load \in LoadCache(r, sessionId[r]), pc[r] = "handling", pc'[r] = "handling",
             UNCHANGED <<redis, sessionId, valid>>,
             isAlreadyReaded'[r] = load.ok, hasRead'[r] = (hasRead[r] \/ load.ok),
             put'[r] = NoPut => put[r] = NoPut /\ UserOf(attributes'[r]) = UserOf(load.map)
      PROVE  SameUser(r)' /\ ReadBefore(r)'
  <2>1. ReadBefore(r)'
    BY <1>g DEF ReadBefore
  <2>2. Active(r) /\ HasSession(r)'
    BY <1>c, <1>g DEF Active, HasSession
  <2> SUFFICES ASSUME valid'[r], put'[r] = NoPut
               PROVE  /\ ~hasRead'[r] => UserOf(attributes'[r]) = NULL
                      /\ hasRead'[r] /\ ~behind'[r] =>
                           UserOf(attributes'[r]) = UserOf(redis'[sessionId'[r]])
    BY <2>1 DEF SameUser, UserOf
  <2>3. CASE redis'[sessionId'[r]] = Copy(r)' /\ hasRead'[r]
    BY <2>3 DEF Copy, UserOf
  <2>4. CASE ~hasRead'[r] \/ ~behind[r]
    BY <1>g, <2>2, <2>4, LoadedUser
  <2> QED
    BY <1>e, <2>2, <2>3, <2>4
\* A step of the commit that changes neither the record nor the local map.
<1>h. ASSUME Active(r), HasSession(r)',
             UNCHANGED <<redis, attributes, sessionId, valid, isAlreadyReaded>>,
             put'[r] = put[r], hasRead'[r] = hasRead[r],
             ~dirty'[r] \/ RecordDone(r)' => ~dirty[r] \/ RecordDone(r)
      PROVE  Stored(r)' /\ SameUser(r)' /\ ReadBefore(r)'
  <2>1. Stored(r)'
    BY <1>a, <1>e, <1>h DEF Stored, HasSession, Copy
  <2>2. SameUser(r)'
    BY <1>a, <1>e, <1>h DEF SameUser, Copy, UserOf
  <2>3. ReadBefore(r)'
    BY <1>a, <1>h DEF ReadBefore
  <2> QED
    BY <2>1, <2>2, <2>3
<1>1. CASE (LetItGo(r) \/ \E name \in HandlerName : SetAttributeRefused(r, name))
             /\ UNCHANGED historyVars
  <2>1. /\ Same(r)
        /\ UNCHANGED redis
        /\ pc'[r] = pc[r] \/ {pc'[r], pc[r]} \cap {"handling", "committing"} = {}
    BY <1>0, <1>1
    DEF LetItGo, SetAttributeRefused, Same, cacheVars, sessionVars, historyVars, FilterTypeOK
  <2> QED
    BY <1>b, <2>1, SameStep
<1>2. CASE CreateWrapperSession(r) /\ Note(r, NoPut, TRUE, isAlreadyReaded'[r])
  <2>1. PICK sid \in SessionId :
          /\ sessionId' = [sessionId EXCEPT ![r] = sid]
          /\ CacheSetAttribute(r, sid, "lastVisitTime", Visit)
    BY <1>2 DEF CreateWrapperSession
  <2>2. PICK load \in LoadCache(r, sid) :
          /\ attributes' = [attributes EXCEPT ![r] = [load.map EXCEPT !["lastVisitTime"] = Visit]]
          /\ isAlreadyReaded' = [isAlreadyReaded EXCEPT ![r] = load.ok]
    BY <2>1 DEF CacheSetAttribute
  <2>3. /\ sessionId'[r] = sid /\ pc'[r] = "handling" /\ UNCHANGED redis
        /\ isAlreadyReaded'[r] = load.ok
        /\ attributes'[r] = [load.map EXCEPT !["lastVisitTime"] = Visit]
    BY <1>0, <1>2, <2>1, <2>2 DEF CreateWrapperSession, CacheTypeOK, FilterTypeOK
  <2>4. dirty'[r] = TRUE /\ hasRead'[r] = load.ok
    BY <1>2, <1>d, <2>3
  <2>5. attributes[r] = NoAttributes /\ ~isAlreadyReaded[r]
    BY <1>2 DEF CreateWrapperSession, IInv, FrameworkInv, FreshInv
  <2>6. UserOf(attributes'[r]) = UserOf(load.map)
    BY <2>3 DEF UserOf
  <2>7. UserOf(NoAttributes) = NULL
    BY DEF UserOf, NoAttributes, CacheName
  <2>8. /\ ~load.ok => UserOf(load.map) = NULL
        /\ load.ok => UserOf(load.map) = UserOf(redis[sid])
    <3>1. CASE load.map = attributes[r] /\ (load.ok => isAlreadyReaded[r])
      BY <2>5, <2>7, <3>1
    <3>2. CASE load.map = ReadInto(attributes[r], redis[sid]) /\ load.ok = TRUE
      BY <2>5, <2>7, <3>2, ReadIntoUser
    <3> QED
      BY <1>0, <3>1, <3>2, LoadIs
  <2>9. SameUser(r)'
    BY <2>3, <2>4, <2>6, <2>8 DEF SameUser, UserOf
  <2> QED
    BY <2>3, <2>4, <2>9 DEF Stored, RecordDone, ReadBefore
<1>3. ASSUME NEW name \in HandlerName, NEW value \in User \cup {NULL},
             SetAttribute(r, name, value),
             Note(r, IF name = "__user__" THEN value ELSE put[r], TRUE,
                  hasRead[r] \/ isAlreadyReaded'[r])
      PROVE  Stored(r)' /\ SameUser(r)' /\ ReadBefore(r)'
  <2>1. PICK load \in LoadCache(r, sessionId[r]) :
          /\ attributes' = [attributes EXCEPT ![r] = [load.map EXCEPT ![name] = value]]
          /\ isAlreadyReaded' = [isAlreadyReaded EXCEPT ![r] = load.ok]
    BY <1>3 DEF SetAttribute, CacheSetAttribute
  <2>2. /\ attributes'[r] = [load.map EXCEPT ![name] = value]
        /\ isAlreadyReaded'[r] = load.ok
        /\ pc[r] = "handling" /\ pc' = pc /\ UNCHANGED <<redis, sessionId, valid>>
    BY <1>0, <1>3, <2>1 DEF SetAttribute, Call, CacheTypeOK
  <2>3. /\ put'[r] = IF name = "__user__" THEN value ELSE put[r]
        /\ dirty'[r] = TRUE
        /\ hasRead'[r] = (hasRead[r] \/ load.ok)
    BY <1>3, <1>d, <2>2
  <2>4. put'[r] = NoPut => name # "__user__"
    BY <2>3, NoPutAssumption
  <2>5. put'[r] = NoPut => put[r] = NoPut /\ UserOf(attributes'[r]) = UserOf(load.map)
    BY <2>2, <2>3, <2>4 DEF UserOf
  <2>6. Stored(r)'
    BY <2>2, <2>3 DEF Stored, RecordDone
  <2> QED
    BY <1>g, <2>2, <2>3, <2>5, <2>6
<1>4. CASE GetAttribute(r) /\ Note(r, put[r], dirty[r], hasRead[r] \/ isAlreadyReaded'[r])
  <2>1. PICK load \in LoadCache(r, sessionId[r]) :
          /\ attributes' = [attributes EXCEPT ![r] = load.map]
          /\ isAlreadyReaded' = [isAlreadyReaded EXCEPT ![r] = load.ok]
    BY <1>4 DEF GetAttribute, CacheGetAttribute
  <2>2. /\ attributes'[r] = load.map
        /\ isAlreadyReaded'[r] = load.ok
        /\ pc[r] = "handling" /\ pc' = pc /\ UNCHANGED <<redis, sessionId, valid>>
    BY <1>0, <1>4, <2>1 DEF GetAttribute, Call, sessionVars, CacheTypeOK
  <2>3. /\ put'[r] = put[r] /\ dirty'[r] = dirty[r]
        /\ hasRead'[r] = (hasRead[r] \/ load.ok)
    BY <1>4, <1>d, <2>2
  <2>4. Stored(r)'
    <3> SUFFICES ASSUME HasSession(r)', ~dirty'[r] \/ RecordDone(r)', ~behind[r]
                 PROVE  redis'[sessionId'[r]] = Copy(r)'
      BY <1>e DEF Stored
    <3>1. redis[sessionId[r]] = Copy(r)
      BY <1>a, <2>2, <2>3 DEF Stored, RecordDone, HasSession
    <3>2. CASE valid[r]
      BY <1>c, <2>2, <3>1, <3>2, LoadedSame DEF Copy, Active
    <3>3. CASE ~valid[r]
      BY <2>2, <3>1, <3>3 DEF Copy
    <3> QED
      BY <3>2, <3>3
  <2> QED
    BY <1>g, <2>2, <2>3, <2>4
<1>5. CASE Invalidate(r) /\ Note(r, NoPut, TRUE, hasRead[r] \/ isAlreadyReaded'[r])
  <2>1. ~valid'[r] /\ pc'[r] = "handling"
    BY <1>0, <1>5 DEF Invalidate, Call, FilterTypeOK
  <2>2. dirty'[r] = TRUE /\ hasRead'[r] = (hasRead[r] \/ isAlreadyReaded'[r])
    BY <1>5, <1>d
  <2> QED
    BY <2>1, <2>2 DEF Stored, SameUser, ReadBefore, RecordDone
<1>6. CASE GetWriter(r) /\ UNCHANGED historyVars
  <2>1. /\ UNCHANGED <<redis, attributes, sessionId, valid, isAlreadyReaded>>
        /\ pc[r] = "handling" /\ pc'[r] = "committing" /\ "cache" \in todo'[r]
        /\ UNCHANGED <<put, dirty, hasRead>>
    BY <1>0, <1>6 DEF GetWriter, Call, cacheVars, sessionVars, historyVars, FilterTypeOK
  <2>2. ~RecordDone(r)'
    BY <2>1 DEF RecordDone
  <2>3. Active(r) /\ HasSession(r)'
    BY <1>c, <2>1 DEF Active, HasSession
  <2> QED
    BY <1>h, <2>1, <2>2, <2>3
<1>7. ASSUME NEW ok \in BOOLEAN, CommitRead(r, ok),
             IF ok THEN Note(r, put[r], dirty[r], TRUE) ELSE UNCHANGED historyVars
      PROVE  Stored(r)' /\ SameUser(r)' /\ ReadBefore(r)'
  <2>1. PICK load \in ReadFromCache(r, sessionId[r]) :
          /\ load.ok = ok
          /\ attributes' = [attributes EXCEPT ![r] = load.map]
    BY <1>7 DEF CommitRead, ReadBeforeWrite
  <2>2. /\ attributes'[r] = load.map
        /\ pc[r] = "committing" /\ pc'[r] = "committing" /\ "write" \in todo'[r]
        /\ valid[r] /\ ~isAlreadyReaded[r]
        /\ UNCHANGED <<redis, sessionId, valid, isAlreadyReaded>>
    BY <1>0, <1>7, <2>1
    DEF CommitRead, ReadBeforeWrite, StoreDone, sessionVars, CacheTypeOK, FilterTypeOK
  <2>3. put'[r] = put[r] /\ dirty'[r] = dirty[r] /\ (hasRead'[r] <=> hasRead[r] \/ load.ok)
    BY <1>7, <1>d, <2>1 DEF historyVars
  <2>4. load \in LoadCache(r, sessionId[r])
    BY <2>1, <2>2 DEF LoadCache
  <2>5. Active(r) /\ HasSession(r)'
    BY <1>c, <2>2 DEF Active, HasSession
  <2>6. Stored(r)'
    <3> SUFFICES ASSUME ~dirty'[r], ~behind[r]
                 PROVE  redis'[sessionId'[r]] = Copy(r)'
      BY <1>e, <2>2 DEF Stored, RecordDone
    <3>1. redis[sessionId[r]] = attributes[r]
      BY <1>a, <2>2, <2>3, <2>5 DEF Stored, HasSession, Copy
    <3> QED
      BY <1>c, <2>2, <2>4, <2>5, <3>1, LoadedSame DEF Copy
  <2>7. SameUser(r)'
    <3> SUFFICES ASSUME put[r] = NoPut
                 PROVE  /\ ~hasRead'[r] => UserOf(load.map) = NULL
                        /\ hasRead'[r] /\ ~behind'[r] =>
                             UserOf(load.map) = UserOf(redis'[sessionId'[r]])
      BY <2>2, <2>3 DEF SameUser, UserOf
    <3>1. CASE redis'[sessionId'[r]] = Copy(r)' /\ hasRead'[r]
      BY <2>2, <3>1 DEF Copy, UserOf
    <3>2. CASE ~hasRead'[r] \/ ~behind[r]
      BY <2>2, <2>3, <2>4, <2>5, <3>2, LoadedUser
    <3> QED
      BY <1>e, <2>5, <3>1, <3>2
  <2> QED
    BY <2>2, <2>6, <2>7 DEF ReadBefore
<1>8. CASE CommitCookies(r) /\ Note(r, put[r], dirty[r] /\ todo'[r] # {}, hasRead[r])
  <2>1. /\ pc[r] = "committing" /\ todo'[r] = todo[r] \ {"cookie"}
        /\ pc'[r] = IF todo'[r] = {} THEN "handling" ELSE "committing"
        /\ UNCHANGED <<redis, attributes, sessionId, valid, isAlreadyReaded>>
    BY <1>0, <1>8 DEF CommitCookies, StoreDone, cacheVars, sessionVars, FilterTypeOK
  <2>2. put'[r] = put[r] /\ dirty'[r] = (dirty[r] /\ todo'[r] # {}) /\ hasRead'[r] = hasRead[r]
    BY <1>8, <1>d
  <2>3. ~dirty'[r] \/ RecordDone(r)' => ~dirty[r] \/ RecordDone(r)
    BY <2>1, <2>2 DEF RecordDone
  <2>4. Active(r) /\ HasSession(r)'
    BY <1>c, <2>1 DEF Active, HasSession
  <2> QED
    BY <1>h, <2>1, <2>2, <2>3, <2>4
<1>9. CASE CommitDelete(r) /\ Note(r, put[r], dirty[r] /\ todo'[r] # {}, hasRead[r])
  <2>1. /\ pc[r] = "committing" /\ redis'[sessionId[r]] = NoAttributes
        /\ ~valid[r] /\ UNCHANGED <<sessionId, valid, isAlreadyReaded>>
    BY <1>0, <1>c, <1>9
    DEF CommitDelete, DeleteSession, cacheVars, sessionVars, Active, CacheTypeOK
  <2>2. hasRead'[r] = hasRead[r]
    BY <1>9, <1>d
  <2>3. redis'[sessionId'[r]] = Copy(r)'
    BY <2>1 DEF Copy
  <2> QED
    BY <1>a, <2>1, <2>2, <2>3 DEF Stored, SameUser, ReadBefore, Active
<1>10. CASE CommitWrite(r) /\ Note(r, put[r], dirty[r] /\ todo'[r] # {}, hasRead[r])
  <2>1. /\ pc[r] = "committing" /\ valid[r] /\ WriteToCache(r, sessionId[r])
        /\ UNCHANGED <<attributes, sessionId, valid, isAlreadyReaded>>
    BY <1>10 DEF CommitWrite, cacheVars, sessionVars, IInv, FrameworkInv, TodoInv
  <2>2. put'[r] = put[r] /\ hasRead'[r] = hasRead[r]
    BY <1>10, <1>d
  <2>3. attributes[r] # NoAttributes
    <3>1. attributes[r]["lastVisitTime"] # NULL
      BY <2>1 DEF IInv, FrameworkInv, CommitRenewsRecord, Active
    <3> QED
      BY <3>1 DEF NoAttributes, CacheName
  <2>4. redis'[sessionId'[r]] = Copy(r)'
    BY <1>0, <1>c, <2>1, <2>3 DEF WriteToCache, Copy, Active, CacheTypeOK
  <2>5. Active(r)
    BY <2>1 DEF Active
  <2>6. SameUser(r)'
    BY <1>a, <2>1, <2>2, <2>4, <2>5 DEF SameUser, Copy, UserOf
  <2> QED
    BY <1>a, <2>1, <2>2, <2>4, <2>5, <2>6 DEF Stored, ReadBefore
<1>11. CASE Fail(r)
  <2>1. sessionId'[r] = NULL /\ pc'[r] = "failed"
    BY <1>0, <1>11 DEF Fail, DropSession, FilterTypeOK
  <2> QED
    BY <2>1 DEF Stored, SameUser, ReadBefore, HasSession, Active
<1>12. CASE Finish(r) /\ Note(r, NoPut, dirty[r], FALSE)
  <2>1. /\ pc'[r] = "answered" /\ UNCHANGED <<redis, attributes, sessionId, valid>>
        /\ dirty'[r] = dirty[r]
    BY <1>0, <1>12, <1>d DEF Finish, cacheVars, sessionVars, FilterTypeOK
  <2>2. Stored(r)'
    BY <1>a, <1>e, <2>1 DEF Stored, RecordDone, HasSession, Copy
  <2> QED
    BY <2>1, <2>2 DEF SameUser, ReadBefore, Active
<1> QED
  BY <1>1, <1>2, <1>3, <1>4, <1>5, <1>6, <1>7, <1>8, <1>9, <1>10, <1>11, <1>12
  DEF HistoryServer, HandlerThrows, CommitThrows

\* Sends, answers and expiries.
LEMMA EnvironmentStep ==
  ASSUME IInv, HistoryEnvironment, NEW q \in Request
  PROVE  Stored(q)' /\ SameUser(q)' /\ ReadBefore(q)'
<1>0. CacheTypeOK /\ FilterTypeOK /\ HistoryTypeOK
  BY DEF IInv, FrameworkInv, TypeInv, TypeOK, FilterTypeOK
<1>a. FallBehind({})
  BY DEF HistoryEnvironment
<1>1. ASSUME NEW r \in Request, NEW b \in Browser, Send(r, b), UNCHANGED historyVars
      PROVE  Stored(q)' /\ SameUser(q)' /\ ReadBefore(q)'
  <2>1. Same(q) /\ (pc'[q] = pc[q] \/ {pc'[q], pc[q]} \cap {"handling", "committing"} = {})
    BY <1>0, <1>1 DEF Send, Same, cacheVars, sessionVars, historyVars, FilterTypeOK
  <2> QED
    BY <1>a, <2>1, SameStep
<1>2. ASSUME NEW r \in Request, Deliver(r) \/ Lose(r), Note(r, NoPut, FALSE, FALSE)
      PROVE  Stored(q)' /\ SameUser(q)' /\ ReadBefore(q)'
  <2>1. EndRequest(r)
    BY <1>2 DEF Deliver, Lose
  <2>2. CASE q = r
    <3>1. sessionId'[q] = NULL /\ pc'[q] = "idle"
      BY <1>0, <2>1, <2>2 DEF EndRequest, DropSession, FilterTypeOK
    <3> QED
      BY <3>1 DEF Stored, SameUser, ReadBefore, HasSession, Active
  <2>3. CASE q # r
    <3>1. Same(q) /\ pc'[q] = pc[q]
      BY <1>0, <1>2, <2>1, <2>3
      DEF EndRequest, DropSession, DropCacheStore, Note, Same, CacheTypeOK, FilterTypeOK,
          HistoryTypeOK
    <3> QED
      BY <1>a, <3>1, SameStep
  <2> QED
    BY <2>2, <2>3
<1>3. ASSUME \/ \E s \in SessionId : Expire(s) \/ Retire(s)
             \/ \E b \in Browser : CloseBrowser(b),
             UNCHANGED historyVars
      PROVE  Stored(q)' /\ SameUser(q)' /\ ReadBefore(q)'
  <2>1. Same(q) /\ pc'[q] = pc[q]
    BY <1>3 DEF Expire, Retire, CloseBrowser, Same, cacheVars, sessionVars, historyVars
  <2> QED
    BY <1>a, <2>1, SameStep
<1> QED
  BY <1>1, <1>2, <1>3 DEF HistoryEnvironment

LEMMA HistoryTypeStep == HistoryTypeOK /\ CacheTypeOK' /\ HistoryNext => HistoryTypeOK'
<1> SUFFICES ASSUME HistoryTypeOK, CacheTypeOK', HistoryNext PROVE HistoryTypeOK'
  OBVIOUS
<1>1. behind' \in [Request -> BOOLEAN]
  BY DEF HistoryNext, HistoryServer, HistoryEnvironment, FallBehind, HistoryTypeOK
<1>2. ASSUME NEW r \in Request, NEW p \in User \cup {NULL, NoPut}, NEW d \in BOOLEAN,
             NEW h \in BOOLEAN, Note(r, p, d, h)
      PROVE  HistoryTypeOK'
  BY <1>1, <1>2 DEF Note, HistoryTypeOK
<1>3. CASE UNCHANGED historyVars
  BY <1>1, <1>3 DEF historyVars, HistoryTypeOK
<1>4. ASSUME NEW r \in Request
      PROVE  /\ put[r] \in User \cup {NULL, NoPut}
             /\ dirty[r] \in BOOLEAN /\ (dirty[r] /\ todo'[r] # {}) \in BOOLEAN
             /\ hasRead[r] \in BOOLEAN /\ isAlreadyReaded'[r] \in BOOLEAN
             /\ (hasRead[r] \/ isAlreadyReaded'[r]) \in BOOLEAN
  BY DEF HistoryTypeOK, CacheTypeOK
<1>5. ASSUME NEW r \in Request, HistoryServer(r) PROVE HistoryTypeOK'
  BY <1>2, <1>3, <1>4, <1>5 DEF HistoryServer
<1>6. CASE HistoryEnvironment
  BY <1>2, <1>3, <1>6 DEF HistoryEnvironment
<1> QED
  BY <1>5, <1>6 DEF HistoryNext

LEMMA HistoryStep == IInv /\ [HistoryNext]_allVars => IInv'
<1> SUFFICES ASSUME IInv, [HistoryNext]_allVars PROVE IInv'
  OBVIOUS
<1>1. FrameworkInv'
  BY HistoryIsNext, FrameworkStep DEF IInv
<1>2. CASE UNCHANGED allVars
  <2>1. HistoryTypeOK'
    BY <1>2 DEF allVars, historyVars, HistoryTypeOK, IInv
  <2>2. HistoryInv'
    BY <1>2
    DEF allVars, vars, cacheVars, sessionVars, historyVars, IInv, HistoryInv, Stored, SameUser,
        ReadBefore, RecordDone, Active, HasSession, Copy, UserOf
  <2> QED
    BY <1>1, <2>1, <2>2 DEF IInv
<1>3. CASE HistoryNext
  <2>1. HistoryTypeOK'
    BY <1>1, <1>3, HistoryTypeStep DEF IInv, FrameworkInv, TypeInv, TypeOK
  <2>2. ASSUME NEW q \in Request, NEW r \in Request, HistoryServer(r)
        PROVE  Stored(q)' /\ SameUser(q)' /\ ReadBefore(q)'
    <3>1. CASE q = r
      BY <2>2, <3>1, OwnStep
    <3>2. CASE q # r
      <4>1. Same(q) /\ pc'[q] = pc[q]
        BY <2>2, <3>2, OthersSame
      <4>2. FallBehind({r}) /\ q \notin {r}
        BY <2>2, <3>2 DEF HistoryServer
      <4> QED
        BY <4>1, <4>2, SameStep
    <3> QED
      BY <3>1, <3>2
  <2>3. HistoryInv'
    BY <1>3, <2>2, EnvironmentStep DEF HistoryNext, HistoryInv
  <2> QED
    BY <1>1, <2>1, <2>3 DEF IInv
<1> QED
  BY <1>2, <1>3

LEMMA HistoryStart == HistoryInit => IInv
<1> SUFFICES ASSUME HistoryInit PROVE IInv
  OBVIOUS
<1>1. TypeInv
  BY TypeInit DEF HistoryInit
<1>2. CommitRenewsRecord /\ FreshInv /\ TodoInv
  BY DEF HistoryInit, Init, CacheInit, CommitRenewsRecord, FreshInv, TodoInv, Active
<1>3. HistoryTypeOK
  BY DEF HistoryInit, HistoryTypeOK
<1>4. HistoryInv
  BY DEF HistoryInit, Init, HistoryInv, Stored, SameUser, ReadBefore, HasSession, Active
<1> QED
  BY <1>1, <1>2, <1>3, <1>4 DEF IInv, FrameworkInv

LEMMA HistoryAlways == HistorySpec => []IInv
BY HistoryStart, HistoryStep, PTL DEF HistorySpec

-----------------------------------------------------------------------------
(* The theorems *)

\* Once a commit has completed, Redis holds the session as its request left
\* it, until another request of the session or its expiry changes the record:
\* for every number of overlapping requests and whichever calls fail.
THEOREM CommittedStored == HistorySpec => []CommittedIsStored
<1>1. IInv => CommittedIsStored
  BY DEF IInv, HistoryInv, Stored, CommittedIsStored
<1> QED
  BY <1>1, HistoryAlways, PTL

\* The steps that write to Redis.
LEMMA RedisStep ==
  ASSUME IInv, HistoryNext
  PROVE  \/ UNCHANGED redis
         \/ \E s \in SessionId : redis' = [redis EXCEPT ![s] = NoAttributes]
         \/ \E r \in Request :
              pc[r] = "committing" /\ valid[r] /\ WriteToCache(r, sessionId[r])
<1>0. \A r \in Request : pc[r] = "committing" => sessionId[r] \in SessionId
  BY DEF IInv, FrameworkInv, TypeInv, TypeOK, ActiveHasSession, Active, HasSession
<1>1. ASSUME HistoryEnvironment
      PROVE  UNCHANGED redis \/ \E s \in SessionId : redis' = [redis EXCEPT ![s] = NoAttributes]
  BY <1>1
  DEF HistoryEnvironment, Send, Deliver, Lose, EndRequest, Expire, Retire, CloseBrowser
<1>2. ASSUME NEW r \in Request, CommitDelete(r)
      PROVE  \E s \in SessionId : redis' = [redis EXCEPT ![s] = NoAttributes]
  BY <1>0, <1>2 DEF CommitDelete, DeleteSession
<1>3. ASSUME NEW r \in Request, CommitWrite(r)
      PROVE  pc[r] = "committing" /\ valid[r] /\ WriteToCache(r, sessionId[r])
  BY <1>3 DEF CommitWrite, IInv, FrameworkInv, TodoInv
<1>4. ASSUME NEW r \in Request, CommitThrows(r)
      PROVE  \/ UNCHANGED redis
             \/ \E s \in SessionId : redis' = [redis EXCEPT ![s] = NoAttributes]
             \/ pc[r] = "committing" /\ valid[r] /\ WriteToCache(r, sessionId[r])
  BY <1>0, <1>4 DEF CommitThrows, DeleteSession
<1>5. ASSUME NEW r \in Request, HistoryServer(r),
             ~CommitDelete(r), ~CommitWrite(r), ~CommitThrows(r)
      PROVE  UNCHANGED redis
  BY <1>5
  DEF HistoryServer, LetItGo, CreateWrapperSession, SetAttribute, SetAttributeRefused,
      GetAttribute, Invalidate, GetWriter, CommitRead, CommitCookies, HandlerThrows, Finish
<1> QED
  BY <1>1, <1>2, <1>3, <1>4, <1>5 DEF HistoryNext

\* The user of a record changes only with the whole record, or by the commit
\* of a request that stored a value, was behind, or never could read Redis.
THEOREM UserChanges == HistorySpec => UserChangeExplained
<1> DEFINE Explained ==
      \A s \in SessionId :
        UserOf(redis'[s]) # UserOf(redis[s]) =>
          \/ redis'[s] = NoAttributes
          \/ \E r \in Request :
               /\ sessionId[r] = s
               /\ pc[r] = "committing"
               /\ put[r] # NoPut \/ behind[r] \/ ~hasRead[r]
<1>1. ASSUME IInv, [HistoryNext]_allVars PROVE Explained
  <2> SUFFICES ASSUME NEW s \in SessionId, UserOf(redis'[s]) # UserOf(redis[s]),
                      redis'[s] # NoAttributes
               PROVE  \E r \in Request :
                        /\ sessionId[r] = s
                        /\ pc[r] = "committing"
                        /\ put[r] # NoPut \/ behind[r] \/ ~hasRead[r]
    OBVIOUS
  <2>0. CacheTypeOK
    BY <1>1 DEF IInv, FrameworkInv, TypeInv, TypeOK
  <2>1. HistoryNext
    BY <1>1 DEF allVars, vars
  <2>2. PICK r \in Request : pc[r] = "committing" /\ valid[r] /\ WriteToCache(r, sessionId[r])
    BY <1>1, <2>0, <2>1, RedisStep DEF CacheTypeOK
  <2>3. sessionId[r] = s /\ redis'[s] = attributes[r]
    BY <2>0, <2>2 DEF WriteToCache, CacheTypeOK
  <2>4. SameUser(r)
    BY <1>1 DEF IInv, HistoryInv
  <2> QED
    BY <2>2, <2>3, <2>4 DEF SameUser, Active
<1> QED
  BY <1>1, HistoryAlways, PTL DEF HistorySpec, UserChangeExplained

-----------------------------------------------------------------------------
(* What setAttribute promises *)

\* A session in use has read its record before anything was put, and holds
\* what was put last.
PutKept(r) ==
  Active(r) =>
    /\ isAlreadyReaded[r]
    /\ valid[r] /\ put[r] # NoPut => UserOf(attributes[r]) = put[r]

LEMMA PutKeptStep ==
  ASSUME "get" \notin FailingCalls, IInv, [HistoryNext]_allVars, NEW q \in Request, PutKept(q)
  PROVE  PutKept(q)'
<1>0. CacheTypeOK /\ FilterTypeOK /\ HistoryTypeOK
  BY DEF IInv, FrameworkInv, TypeInv, TypeOK, FilterTypeOK
\* Nothing of q changes, and no thread gets to use its session.
<1>1. ASSUME Same(q), pc'[q] = pc[q] \/ {pc'[q], pc[q]} \cap {"handling", "committing"} = {}
      PROVE  PutKept(q)'
  BY <1>1 DEF PutKept, Active, Same, UserOf
<1>2. CASE UNCHANGED allVars
  <2>1. Same(q) /\ pc'[q] = pc[q]
    BY <1>2 DEF allVars, vars, cacheVars, sessionVars, historyVars, Same
  <2> QED
    BY <1>1, <2>1
<1>3. CASE HistoryEnvironment
  <2>1. ASSUME NEW r \in Request, NEW b \in Browser, Send(r, b), UNCHANGED historyVars
        PROVE  PutKept(q)'
    BY <1>0, <1>1, <2>1 DEF Send, Same, cacheVars, sessionVars, historyVars, FilterTypeOK
  <2>2. ASSUME NEW r \in Request, EndRequest(r), Note(r, NoPut, FALSE, FALSE)
        PROVE  PutKept(q)'
    <3>1. CASE q = r
      BY <1>0, <2>2, <3>1 DEF EndRequest, PutKept, Active, FilterTypeOK
    <3>2. CASE q # r
      <4>1. Same(q) /\ pc'[q] = pc[q]
        BY <1>0, <2>2, <3>2
        DEF EndRequest, DropSession, DropCacheStore, Note, Same, CacheTypeOK, FilterTypeOK,
            HistoryTypeOK
      <4> QED
        BY <1>1, <4>1
    <3> QED
      BY <3>1, <3>2
  <2>3. ASSUME \/ \E s \in SessionId : Expire(s) \/ Retire(s)
               \/ \E b \in Browser : CloseBrowser(b),
               UNCHANGED historyVars
        PROVE  PutKept(q)'
    <3>1. Same(q) /\ pc'[q] = pc[q]
      BY <2>3 DEF Expire, Retire, CloseBrowser, Same, cacheVars, sessionVars, historyVars
    <3> QED
      BY <1>1, <3>1
  <2> QED
    BY <1>3, <2>1, <2>2, <2>3 DEF HistoryEnvironment, Deliver, Lose
<1>4. ASSUME NEW r \in Request, r # q, HistoryServer(r)
      PROVE  PutKept(q)'
  BY <1>1, <1>4, OthersSame
<1>5. ASSUME HistoryServer(q)
      PROVE  PutKept(q)'
  <2>d. ASSUME NEW p, NEW d, NEW h, Note(q, p, d, h) PROVE put'[q] = p
    BY <1>0, <2>d DEF Note, HistoryTypeOK
  <2>1. CASE CreateWrapperSession(q) /\ Note(q, NoPut, TRUE, isAlreadyReaded'[q])
    <3>1. PICK sid \in SessionId : CacheSetAttribute(q, sid, "lastVisitTime", Visit)
      BY <2>1 DEF CreateWrapperSession
    <3>2. isAlreadyReaded'[q] = TRUE
      BY <1>0, <3>1, LoadReads DEF CacheSetAttribute, CacheTypeOK
    <3> QED
      BY <2>1, <2>d, <3>2 DEF PutKept
  \* The local map already has what Redis had, so a load does not change it.
  <2>2. ASSUME NEW load \in LoadCache(q, sessionId[q]), Call(q)
        PROVE  load.ok = TRUE /\ load.map = attributes[q] /\ Active(q)
    BY <2>2, LoadReads DEF PutKept, Active, Call
  <2>3. ASSUME NEW name \in HandlerName, NEW value \in User \cup {NULL},
               SetAttribute(q, name, value),
               Note(q, IF name = "__user__" THEN value ELSE put[q], TRUE,
                    hasRead[q] \/ isAlreadyReaded'[q])
        PROVE  PutKept(q)'
    <3>1. /\ Call(q) /\ UNCHANGED valid /\ name \in CacheName
          /\ put'[q] = IF name = "__user__" THEN value ELSE put[q]
      BY <2>3, <2>d DEF SetAttribute
    <3>2. PICK load \in LoadCache(q, sessionId[q]) :
            /\ attributes' = [attributes EXCEPT ![q] = [load.map EXCEPT ![name] = value]]
            /\ isAlreadyReaded' = [isAlreadyReaded EXCEPT ![q] = load.ok]
      BY <2>3 DEF SetAttribute, CacheSetAttribute
    <3>3. attributes'[q] = [attributes[q] EXCEPT ![name] = value] /\ isAlreadyReaded'[q] = TRUE
      BY <1>0, <2>2, <3>1, <3>2 DEF CacheTypeOK
    <3>4. attributes'[q]["__user__"]
            = IF name = "__user__" THEN value ELSE attributes[q]["__user__"]
      BY <1>0, <3>1, <3>3 DEF CacheTypeOK, Record, CacheName
    <3> QED
      BY <2>2, <3>1, <3>2, <3>3, <3>4 DEF PutKept, UserOf
  <2>4. CASE GetAttribute(q) /\ Note(q, put[q], dirty[q], hasRead[q] \/ isAlreadyReaded'[q])
    <3>1. Call(q) /\ UNCHANGED valid /\ put'[q] = put[q]
      BY <2>4, <2>d DEF GetAttribute, sessionVars
    <3>2. PICK load \in LoadCache(q, sessionId[q]) :
            /\ attributes' = [attributes EXCEPT ![q] = load.map]
            /\ isAlreadyReaded' = [isAlreadyReaded EXCEPT ![q] = load.ok]
      BY <2>4 DEF GetAttribute, CacheGetAttribute
    <3>3. attributes'[q] = attributes[q] /\ isAlreadyReaded'[q] = TRUE
      BY <1>0, <2>2, <3>1, <3>2 DEF CacheTypeOK
    <3> QED
      BY <2>2, <3>1, <3>2, <3>3 DEF PutKept, UserOf
  <2>5. CASE Invalidate(q) /\ Note(q, NoPut, TRUE, hasRead[q] \/ isAlreadyReaded'[q])
    <3>1. PICK load \in LoadCache(q, sessionId[q]) :
            isAlreadyReaded' = [isAlreadyReaded EXCEPT ![q] = load.ok]
      BY <2>5 DEF Invalidate, CacheRemoveAttributes
    <3>2. isAlreadyReaded'[q] = TRUE
      BY <1>0, <2>2, <2>5, <3>1 DEF Invalidate, CacheTypeOK
    <3> QED
      BY <2>5, <2>d, <3>2 DEF PutKept
  <2>6. CASE (LetItGo(q) \/ GetWriter(q) \/ \E name \in HandlerName : SetAttributeRefused(q, name))
               /\ UNCHANGED historyVars
    <3>1. /\ UNCHANGED <<attributes, isAlreadyReaded, valid, put>>
          /\ Active(q)' => Active(q)
      BY <1>0, <2>6
      DEF LetItGo, GetWriter, SetAttributeRefused, Call, Active, cacheVars, sessionVars,
          historyVars, FilterTypeOK
    <3> QED
      BY <3>1 DEF PutKept, UserOf
  \* The record has been read, so that no commit reads it.
  <2>7. ASSUME NEW ok \in BOOLEAN, CommitRead(q, ok) PROVE FALSE
    BY <2>7 DEF CommitRead, PutKept, Active
  <2>8. CASE /\ CommitCookies(q) \/ CommitDelete(q) \/ CommitWrite(q)
             /\ Note(q, put[q], dirty[q] /\ todo'[q] # {}, hasRead[q])
    <3>1. UNCHANGED <<attributes, isAlreadyReaded, valid>> /\ Active(q) /\ put'[q] = put[q]
      BY <2>8, <2>d
      DEF CommitCookies, CommitDelete, CommitWrite, Active, cacheVars, sessionVars
    <3> QED
      BY <3>1 DEF PutKept, UserOf
  <2>9. CASE Fail(q) \/ Finish(q)
    BY <1>0, <2>9 DEF Fail, Finish, PutKept, Active, FilterTypeOK
  <2> QED
    BY <1>5, <2>1, <2>3, <2>4, <2>5, <2>6, <2>7, <2>8, <2>9
    DEF HistoryServer, HandlerThrows, CommitThrows
<1> QED
  BY <1>2, <1>3, <1>4, <1>5 DEF HistoryNext

\* The comment on setAttribute is right whenever Redis answers every read, for
\* every number of overlapping requests, also when writes fail: only a read that
\* fails and succeeds later can bring an old value back.
THEOREM SetAttributeKept ==
  ASSUME "get" \notin FailingCalls
  PROVE  HistorySpec => []SetAttributeOverrides
<1> DEFINE Kept == \A q \in Request : PutKept(q)
<1>1. HistoryInit => Kept
  BY DEF HistoryInit, Init, PutKept, Active
<1>2. IInv /\ Kept /\ [HistoryNext]_allVars => Kept'
  BY PutKeptStep
<1>3. Kept => SetAttributeOverrides
  BY DEF PutKept, SetAttributeOverrides
<1> QED
  BY <1>1, <1>2, <1>3, HistoryAlways, PTL DEF HistorySpec
=============================================================================
