---------------------------- MODULE SessionConfig ----------------------------
(***************************************************************************)
(* The entries of session-config.xml, as SessionConfigFactory reads them.  *)
(* An entry is its name; what the framework asks of an entry - its store,  *)
(* whether it is read-only, its life cycle - is membership in a set.       *)
(* The other constants are those that both session stores share.           *)
(***************************************************************************)
CONSTANTS
  Request,    \* slots of the servlet container's threads
  SessionId,  \* ids that generateNewSessionId can produce
  CookieName, \* the entries with <storeType>cookie</storeType>
  NULL

\* The file may leave trackId out: setAttribute then ignores it.
ASSUME CookieNameAssumption ==
  {"sessionId"} \subseteq CookieName /\ CookieName \subseteq {"sessionId", "trackId"}

\* entries with <storeType>cache</storeType>
CacheName == {"lastVisitTime", "__user__"}

\* getSessionConfigEntry answers null for every other name
ConfiguredName == CookieName \cup CacheName

\* entries with <readonly>true</readonly>
ReadOnlyName == {"sessionId", "trackId"}

\* entries with lifeCycle <= 0: all but trackId, which lives 311040000 seconds
ShortLived == ConfiguredName \ {"trackId"}
==============================================================================
