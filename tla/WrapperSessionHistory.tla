----------------------- MODULE WrapperSessionHistory ------------------------
(***************************************************************************)
(* WrapperSessionFilter with history variables, which its steps set and    *)
(* never read, for the properties that speak of what a request did before. *)
(***************************************************************************)
EXTENDS WrapperSessionProperties

CONSTANT NoPut

ASSUME NoPutAssumption == NoPut \notin User \cup {NULL}

VARIABLES
  put,      \* what the handler last stored under __user__, NULL for a removal
  dirty,    \* the session was changed since the last commit that completed
  hasRead,  \* readFromCache has returned true for this request
  behind    \* others have changed the record since the local copy agreed with it

historyVars == <<put, dirty, hasRead>>

allVars == <<vars, historyVars, behind>>

HistoryInit ==
  /\ Init
  /\ put = [r \in Request |-> NoPut]
  /\ dirty = [r \in Request |-> FALSE]
  /\ hasRead = [r \in Request |-> FALSE]
  /\ behind = [r \in Request |-> FALSE]

Note(r, p, d, h) ==
  /\ put' = [put EXCEPT ![r] = p]
  /\ dirty' = [dirty EXCEPT ![r] = d]
  /\ hasRead' = [hasRead EXCEPT ![r] = h]

\* What a commit of r leaves in Redis.
Copy(r) == IF valid[r] THEN attributes[r] ELSE NoAttributes

\* A step of the requests in "actors" (none: of Redis) leaves behind the
\* others whose record it changes, until their copy agrees with it again.
FallBehind(actors) ==
  behind' = [r \in Request |->
    /\ sessionId'[r] # NULL
    /\ Copy(r)' # redis'[sessionId'[r]]
    /\ \/ behind[r]
       \/ r \notin actors /\ redis'[sessionId'[r]] # redis[sessionId'[r]]]

HistoryServer(r) ==
  /\ \/ LetItGo(r) /\ UNCHANGED historyVars
     \/ CreateWrapperSession(r) /\ Note(r, NoPut, TRUE, isAlreadyReaded'[r])
     \/ \E name \in HandlerName, value \in User \cup {NULL} :
          /\ SetAttribute(r, name, value)
          /\ Note(r, IF name = "__user__" THEN value ELSE put[r], TRUE,
                  hasRead[r] \/ isAlreadyReaded'[r])
     \/ \E name \in HandlerName : SetAttributeRefused(r, name) /\ UNCHANGED historyVars
     \/ GetAttribute(r) /\ Note(r, put[r], dirty[r], hasRead[r] \/ isAlreadyReaded'[r])
     \/ Invalidate(r) /\ Note(r, NoPut, TRUE, hasRead[r] \/ isAlreadyReaded'[r])
     \/ GetWriter(r) /\ UNCHANGED historyVars
     \/ CommitRead(r, TRUE) /\ Note(r, put[r], dirty[r], TRUE)
     \/ CommitRead(r, FALSE) /\ UNCHANGED historyVars
     \/ /\ CommitCookies(r) \/ CommitDelete(r) \/ CommitWrite(r)
        /\ Note(r, put[r], dirty[r] /\ todo'[r] # {}, hasRead[r])
     \/ (HandlerThrows(r) \/ CommitThrows(r)) /\ Note(r, NoPut, FALSE, FALSE)
     \/ Finish(r) /\ Note(r, NoPut, dirty[r], FALSE)
  /\ FallBehind({r})

HistoryEnvironment ==
  /\ \/ \E r \in Request, b \in Browser : Send(r, b) /\ UNCHANGED historyVars
     \/ \E r \in Request : (Deliver(r) \/ Lose(r)) /\ Note(r, NoPut, FALSE, FALSE)
     \/ \E s \in SessionId : (Expire(s) \/ Retire(s)) /\ UNCHANGED historyVars
     \/ \E b \in Browser : CloseBrowser(b) /\ UNCHANGED historyVars
  /\ FallBehind({})

HistoryNext == HistoryEnvironment \/ \E r \in Request : HistoryServer(r)

HistorySpec == HistoryInit /\ [][HistoryNext]_allVars

FairHistorySpec == HistorySpec /\ Fairness

-----------------------------------------------------------------------------
\* Once a commit has completed, and until the request changes its session
\* again, Redis holds exactly what the request has in its local map, nothing
\* after invalidate; unless somebody else has changed the record since: another
\* request of the session, or its expiry.  It depends on each of the reads,
\* among them the one commit makes without noting it in isAlreadyReaded.
CommittedIsStored ==
  \A r \in Request :
    HasSession(r) /\ pc[r] # "committing" /\ ~dirty[r] /\ ~behind[r] =>
      redis[sessionId[r]] = Copy(r)

\* Requests of one session may overlap and every commit writes the whole map.
\* What this can do to the signed-in user of a record, in either direction, a
\* user lost or one that was signed out coming back, is limited to this: the
\* whole record goes (expiry, invalidate); or the request that commits has
\* stored a value of its own, or was behind, so that it undoes what another
\* request did to the record since; or Redis had refused every read of it, which
\* the comment on CacheStore.commit concedes.
UserChangeExplained ==
  [][\A s \in SessionId :
       UserOf(redis'[s]) # UserOf(redis[s]) =>
         \/ redis'[s] = NoAttributes
         \/ \E r \in Request :
              /\ sessionId[r] = s
              /\ pc[r] = "committing"
              /\ put[r] # NoPut \/ behind[r] \/ ~hasRead[r]]_allVars

\* What the handler stored is what its session holds until it is stored again:
\* the comment on WrapperSession.setAttribute says that setAttribute reads
\* Redis and overrides what is there.
SetAttributeOverrides ==
  \A r \in Request :
    Active(r) /\ valid[r] /\ put[r] # NoPut => UserOf(attributes[r]) = put[r]

\* The comment on the commit that doFilter leaves out: it may be omitted
\* since getWriter is called for every request that returns.
AnswerIsCommitted ==
  \A r \in Request : pc[r] = "answered" => ~dirty[r]
=============================================================================
