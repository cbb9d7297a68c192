----------------------------- MODULE CacheStore -----------------------------
(***************************************************************************)
(* The CacheStore that every request owns: a local map of attributes that  *)
(* is filled from the session's Redis record and written back to it by     *)
(* commit.  Redis itself (RedisSessionCacheContainer, RedisUtils) is the   *)
(* variable redis.  A record is a total function in which NULL stands for  *)
(* a missing attribute; the record without attributes is no record, since  *)
(* writeToCache never stores an empty map.                                 *)
(*                                                                         *)
(* The operators below are steps of request r on the session id sid; the   *)
(* module WrapperSessionFilter says when they are taken.  Each one makes   *)
(* at most one call to Redis.                                              *)
(***************************************************************************)
EXTENDS SessionConfig

CONSTANTS
  User,         \* values of the attribute __user__
  FailingCalls  \* the Redis calls that may throw: a subset of {"get", "set", "del"}

\* The value of lastVisitTime; the instant itself is abstracted.
Visit == "visit"

Value == User \cup {Visit}

VARIABLES
  redis,            \* the record of every session id
  attributes,       \* CacheStore.attributes of every request
  isAlreadyReaded   \* CacheStore.isAlreadyReaded of every request

cacheVars == <<attributes, isAlreadyReaded>>

NoAttributes == [n \in CacheName |-> NULL]

Record == [CacheName -> Value \cup {NULL}]

CacheTypeOK ==
  /\ redis \in [SessionId -> Record]
  /\ attributes \in [Request -> Record]
  /\ isAlreadyReaded \in [Request -> BOOLEAN]

CacheInit ==
  /\ redis = [s \in SessionId |-> NoAttributes]
  /\ attributes = [r \in Request |-> NoAttributes]
  /\ isAlreadyReaded = [r \in Request |-> FALSE]

\* Mutant: the record replaces the local map.
ReadReplacing(map, record) == record

\* Mutant: only String values survive the conversion from JSON.
ReadStringsOnly(map, record) == [map EXCEPT !["lastVisitTime"] = record["lastVisitTime"]]

\* What readFromCache leaves in the local map: the record is put over it.
ReadInto(map, record) ==
  [n \in CacheName |-> IF record[n] # NULL THEN record[n] ELSE map[n]]

\* readFromCache: the local maps it can return with, and its result.
ReadFromCache(r, sid) ==
  {[map |-> ReadInto(attributes[r], redis[sid]), ok |-> TRUE]}
    \cup {[map |-> attributes[r], ok |-> FALSE] : c \in FailingCalls \cap {"get"}}

\* loadCache: reads until a read has succeeded.
LoadCache(r, sid) ==
  IF isAlreadyReaded[r]
  THEN {[map |-> attributes[r], ok |-> TRUE]}
  ELSE ReadFromCache(r, sid)

\* setAttribute and, with the value NULL, removal.
CacheSetAttribute(r, sid, name, value) ==
  \E load \in LoadCache(r, sid) :
    /\ attributes' = [attributes EXCEPT ![r] = [load.map EXCEPT ![name] = value]]
    /\ isAlreadyReaded' = [isAlreadyReaded EXCEPT ![r] = load.ok]

\* getAttribute
CacheGetAttribute(r, sid) ==
  \E load \in LoadCache(r, sid) :
    /\ attributes' = [attributes EXCEPT ![r] = load.map]
    /\ isAlreadyReaded' = [isAlreadyReaded EXCEPT ![r] = load.ok]

\* The removals that invalidate makes one by one.  Each of them loads the
\* cache first, so the names in "early", removed before the read that
\* succeeded, come back with the record's value.
CacheRemoveAttributes(r, sid, names) ==
  \E load \in LoadCache(r, sid), early \in SUBSET names :
    /\ early # {} =>
         /\ ~isAlreadyReaded[r] /\ load.ok
         /\ early # names /\ "get" \in FailingCalls
    /\ attributes' = [attributes EXCEPT ![r] =
         [n \in CacheName |->
            IF n \in early THEN redis[sid][n]
            ELSE IF n \in names THEN NULL ELSE load.map[n]]]
    /\ isAlreadyReaded' = [isAlreadyReaded EXCEPT ![r] = load.ok]

\* commit of a session that is no longer valid
DeleteSession(sid) == redis' = [redis EXCEPT ![sid] = NoAttributes]

\* The read that commit makes when no earlier read succeeded; the field
\* isAlreadyReaded is not assigned here.
ReadBeforeWrite(r, load) ==
  /\ attributes' = [attributes EXCEPT ![r] = load.map]
  /\ UNCHANGED isAlreadyReaded

\* Mutant: the map is put over the record instead of replacing it.
WriteMerged(r, sid) ==
  redis' = [redis EXCEPT ![sid] = ReadInto(redis[sid], attributes[r])]

\* writeToCache: the whole map, unless it is empty.
WriteToCache(r, sid) ==
  redis' = IF attributes[r] = NoAttributes
           THEN redis
           ELSE [redis EXCEPT ![sid] = attributes[r]]

\* Mutant: requests that share a thread share a CacheStore.
KeepCacheStore(r) == UNCHANGED <<attributes, isAlreadyReaded>>

\* The CacheStore is garbage once its request has ended.
DropCacheStore(r) ==
  /\ attributes' = [attributes EXCEPT ![r] = NoAttributes]
  /\ isAlreadyReaded' = [isAlreadyReaded EXCEPT ![r] = FALSE]
=============================================================================
