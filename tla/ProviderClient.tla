--------------------------- MODULE ProviderClient ---------------------------
(***************************************************************************)
(* springboot-openfeign: the consumer's calls of the provider.  Feign      *)
(* calls AccessTraceHttpClient, which converts the request, executes it    *)
(* with Apache's HttpClient on a connection of the pool and converts the   *)
(* response; Feign decodes the body and closes it.  The network may break  *)
(* at any point, and answers may come too late.                            *)
(***************************************************************************)
EXTENDS Naturals, FiniteSets

CONSTANTS
  Call,         \* the calls of HomeController
  MaxPerRoute,  \* setDefaultMaxPerRoute
  RetryCount,   \* the retries of HttpClient's DefaultHttpRequestRetryHandler
  NULL

ASSUME LimitAssumption == MaxPerRoute \in Nat \ {0} /\ RetryCount \in Nat

ASSUME NullAssumption == NULL # "value"

VARIABLES
  pc,       \* what the thread of every call is about to do
  api,      \* the method of UserApi
  tries,    \* how often HttpClient has tried again
  leased,   \* the calls that hold a connection of the pool
  onWay,    \* <<call, try>>: requests that have left and are not handled
  handled,  \* how often the provider has handled every call
  answer,   \* the response on the call's connection
  result    \* what the caller gets

network == <<onWay, handled>>
vars == <<pc, api, tries, leased, network, answer, result>>

Api == {"signin", "statusVersion"}
Response == {"ok", "error", "empty"}  \* "empty": an error without a body
Try == 0 .. RetryCount

TypeOK ==
  /\ pc \in [Call -> {"idle", "leasing", "sending", "waiting", "reading", "closing", "ended"}]
  /\ api \in [Call -> Api \cup {NULL}]
  /\ tries \in [Call -> Try]
  /\ leased \in SUBSET Call
  /\ onWay \in SUBSET (Call \X Try)
  /\ handled \in [Call -> Nat]
  /\ answer \in [Call -> Response \cup {NULL}]
  /\ result \in [Call -> {"value", "exception", NULL}]

Init ==
  /\ pc = [c \in Call |-> "idle"]
  /\ api = [c \in Call |-> NULL]
  /\ tries = [c \in Call |-> 0]
  /\ leased = {}
  /\ onWay = {}
  /\ handled = [c \in Call |-> 0]
  /\ answer = [c \in Call |-> NULL]
  /\ result = [c \in Call |-> NULL]

-----------------------------------------------------------------------------
(* HttpClient *)

Goto(c, stage) == pc' = [pc EXCEPT ![c] = stage]

\* The request has an entity in the sense of HttpEntityEnclosingRequest.
EnclosesBodyOnly(method) == method = "signin"

\* toHttpUriRequest gives every request an entity, an empty one to a GET.
EnclosesEntity(method) == method \in Api

MayRetryOnceMore(c) == tries[c] <= RetryCount

MayRetry(c) == tries[c] < RetryCount

\* HttpClient tries again: it gives the connection up and leases one anew.
TryAgain(c) ==
  /\ MayRetry(c)
  /\ Goto(c, "leasing")
  /\ tries' = [tries EXCEPT ![c] = @ + 1]
  /\ leased' = leased \ {c}
  /\ answer' = [answer EXCEPT ![c] = NULL]
  /\ UNCHANGED <<api, network, result>>

\* execute throws an IOException; Feign's Retryer is NEVER_RETRY.
Throw(c) ==
  /\ Goto(c, "ended")
  /\ result' = [result EXCEPT ![c] = "exception"]
  /\ leased' = leased \ {c}
  /\ UNCHANGED <<api, tries, network, answer>>

Lease(c) ==
  /\ pc[c] = "leasing"
  /\ Cardinality(leased) < MaxPerRoute
  /\ leased' = leased \cup {c}
  /\ Goto(c, "sending")
  /\ UNCHANGED <<api, tries, network, answer, result>>

\* setConnectionRequestTimeout: no connection has come back in time.
LeaseTimesOut(c) ==
  /\ pc[c] = "leasing"
  /\ Cardinality(leased) >= MaxPerRoute
  /\ Throw(c)

\* setConnectTimeout, or the provider refuses the connection: never tried again.
ConnectFails(c) ==
  /\ pc[c] = "sending"
  /\ Throw(c)

\* The connection breaks before the request has left.
SendFails(c) ==
  /\ pc[c] = "sending"
  /\ TryAgain(c) \/ (~MayRetry(c) /\ Throw(c))

Send(c) ==
  /\ pc[c] = "sending"
  /\ onWay' = onWay \cup {<<c, tries[c]>>}
  /\ Goto(c, "waiting")
  /\ UNCHANGED <<api, tries, leased, handled, answer, result>>

ReadWaits(c) == pc[c] = "waiting" /\ answer[c] # NULL /\ Throw(c)

\* setSocketTimeout
ReadTimesOut(c) == pc[c] = "waiting" /\ Throw(c)

\* The connection breaks when the request has left, an idle one that the
\* provider has closed, for instance: HttpClient tries again what it takes for
\* idempotent, and that is no request with an entity.
ConnectionBreaks(c) ==
  /\ pc[c] = "waiting"
  /\ \/ ~EnclosesEntity(api[c]) /\ TryAgain(c)
     \/ (EnclosesEntity(api[c]) \/ ~MayRetry(c)) /\ Throw(c)

-----------------------------------------------------------------------------
(* The client *)

\* HomeController calls UserApi, and Feign AccessTraceHttpClient.execute.
Execute(c, method) ==
  /\ pc[c] = "idle"
  /\ api' = [api EXCEPT ![c] = method]
  /\ Goto(c, "leasing")
  /\ UNCHANGED <<tries, leased, network, answer, result>>

\* toFeignResponse: the status and the headers are there, the body is still on
\* the connection; HttpClient gives a connection back that has no body.
ToFeignResponse(c) ==
  /\ pc[c] = "waiting"
  /\ answer[c] # NULL
  /\ leased' = IF answer[c] = "empty" THEN leased \ {c} ELSE leased
  /\ Goto(c, "reading")
  /\ UNCHANGED <<api, tries, network, answer, result>>

\* Feign decodes the body, or the error.  It may stop before the end of the
\* body, which leaves the connection leased.
Decode(c) ==
  /\ pc[c] = "reading"
  /\ \/ answer[c] = "ok" /\ result' = [result EXCEPT ![c] = "value"]
     \/ result' = [result EXCEPT ![c] = "exception"]
  /\ leased' \in {leased, leased \ {c}}
  /\ Goto(c, "closing")
  /\ UNCHANGED <<api, tries, network, answer>>

CloseWithoutConsuming(c) ==
  /\ pc[c] = "closing"
  /\ Goto(c, "ended")
  /\ UNCHANGED <<api, tries, leased, network, answer, result>>

\* Response.Body.close consumes what is left of the entity.
Close(c) ==
  /\ pc[c] = "closing"
  /\ leased' = leased \ {c}
  /\ Goto(c, "ended")
  /\ UNCHANGED <<api, tries, network, answer, result>>

-----------------------------------------------------------------------------
(* The provider and the network *)

\* The provider handles a request, also when nobody waits for its answer any
\* more; the answer arrives if somebody does, or is lost.
Handle(c, n) ==
  /\ <<c, n>> \in onWay
  /\ onWay' = onWay \ {<<c, n>>}
  /\ handled' = [handled EXCEPT ![c] = @ + 1]
  /\ \/ /\ pc[c] = "waiting" /\ tries[c] = n
        /\ \E response \in Response : answer' = [answer EXCEPT ![c] = response]
     \/ UNCHANGED answer
  /\ UNCHANGED <<pc, api, tries, leased, result>>

Lose(c, n) ==
  /\ <<c, n>> \in onWay
  /\ onWay' = onWay \ {<<c, n>>}
  /\ UNCHANGED <<pc, api, tries, leased, handled, answer, result>>

-----------------------------------------------------------------------------
\* The steps of a thread that does not wait for ever.
Thread(c) ==
  \/ Lease(c) \/ LeaseTimesOut(c) \/ Send(c) \/ ReadTimesOut(c)
  \/ ToFeignResponse(c) \/ Decode(c) \/ Close(c)

Next ==
  \/ \E c \in Call :
       \/ \E method \in Api : Execute(c, method)
       \/ Thread(c)
       \/ ConnectFails(c) \/ SendFails(c) \/ ConnectionBreaks(c)
       \/ \E n \in Try : Handle(c, n) \/ Lose(c, n)

Spec == Init /\ [][Next]_vars

FairSpec == Spec /\ \A c \in Call : WF_vars(Thread(c))
=============================================================================
