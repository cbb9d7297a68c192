---------------------- MODULE ProviderClientProperties ----------------------
(***************************************************************************)
(* What the consumer may rely on when it calls the provider.               *)
(***************************************************************************)
EXTENDS ProviderClient

\* No call is handled twice, whatever breaks: Feign never tries again, and
\* HttpClient, which does, takes no request with an entity for idempotent.  A
\* call that returns a value has been handled.
HandledAtMostOnce ==
  \A c \in Call :
    /\ handled[c] <= 1
    /\ result[c] = "value" => handled[c] = 1

\* The pool never lends more connections than it has, and a call that has
\* ended, or waits for a connection, holds none: each way out of execute, of
\* the decoder and of the body gives it back.
ConnectionsComeBack ==
  /\ Cardinality(leased) <= MaxPerRoute
  /\ \A c \in leased : pc[c] \in {"sending", "waiting", "reading", "closing"}

\* Every call ends, with a value or an exception: connections that come late,
\* answers that never come and retries are all bounded.
CallsEnd == \A c \in Call : pc[c] = "leasing" ~> pc[c] = "ended"
=============================================================================
