------------------------- MODULE SessionConfigFactory ------------------------
(***************************************************************************)
(* SessionConfigFactory.readSessionConfig on session-config.xml: which     *)
(* entry goes to which store, which ones may not be written, which ones    *)
(* invalidate removes.  The other modules take the result from             *)
(* SessionConfig.                                                          *)
(***************************************************************************)
EXTENDS SessionConfig, Integers

\* An <entry>; NULL stands for an element that it leaves out.
Entry(lifecycle, readonly, storeType) ==
  [lifecycle |-> lifecycle, readonly |-> readonly, storeType |-> storeType]

\* session-config.xml
Document ==
  [defaultConfig |-> [lifecycle |-> -1, storeType |-> NULL],
   entries |-> [sessionId     |-> Entry(NULL, "true", "cookie"),
                trackId       |-> Entry(311040000, "true", "cookie"),
                lastVisitTime |-> Entry(NULL, "false", "cache"),
                __user__      |-> Entry(NULL, NULL, "cache")]]

\* <defaultConfig> replaces both built-in defaults, also the one it leaves out.
Defaults(document) ==
  IF document.defaultConfig = NULL
  THEN [lifecycle |-> -1, storeType |-> "cookie"]
  ELSE document.defaultConfig

OrDefault(text, default) == IF text = NULL THEN default ELSE text

\* initEntries, for one entry
ReadEntry(element, defaults) ==
  [lifeCycle |-> OrDefault(element.lifecycle, defaults.lifecycle),
   readOnly  |-> element.readonly = "true",
   storeType |-> IF OrDefault(element.storeType, defaults.storeType) = "cookie"
                 THEN "cookie" ELSE "cache"]

\* readSessionConfig; the filter's init is its only caller.
readSessionConfig ==
  [n \in ConfiguredName |-> ReadEntry(Document.entries[n], Defaults(Document))]

\* What the other modules say of the entries is what the factory reads.
ASSUME ConfigurationAssumption ==
  /\ CacheName = {n \in ConfiguredName : readSessionConfig[n].storeType = "cache"}
  /\ CookieName = {n \in ConfiguredName : readSessionConfig[n].storeType = "cookie"}
  /\ ReadOnlyName \cap ConfiguredName = {n \in ConfiguredName : readSessionConfig[n].readOnly}
  /\ ShortLived = {n \in ConfiguredName : readSessionConfig[n].lifeCycle <= 0}
==============================================================================
