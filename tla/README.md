# Verification of springboot-demos

This directory holds TLA+ models of the programs in this repository, the TLC
configurations that check them and the theorems that TLAPS proves about them.
The repository is a collection of Spring Boot applications; the one with most
logic of its own is `springboot-session`, a session framework that keeps HTTP
sessions in cookies and Redis, and the project starts there. That application
holds three generations of the same pages, of which one is compiled in as a
controller at a time: v1 and v3 use `HttpSession`, behind which the framework is
put by enabling its filter in `SessionApplication`; v2, the one that the
committed code enables, keeps its attributes in Redis with helpers of its own.

## 1. The system

| Component | State | Operations | Talks to |
|---|---|---|---|
| **Session framework** (`springboot-session`, package `session`): `WrapperSessionFilter`, `WrapperSession`, the request and response wrappers | a `WrapperSession` per request: its id, `valid`, its two stores | `doFilter`, `letitgo`, `createWrapperSession`; `getAttribute`, `setAttribute`, `removeAttribute`, `invalidate`, `commit`; `getWriter`, `getOutputStream`, `sendRedirect` | the servlet container, the handlers, both stores |
| **CacheStore** and `RedisSessionCacheContainer`, `RedisUtils` | per request: `attributes`, `isAlreadyReaded`; shared: one Redis record per session id, with a time to live | `loadCache`, `readFromCache`, `writeToCache`, `commit` | Redis, which may fail at any call |
| **CookieStore**, `BlowfishUtils` | per request: the carried cookies, `attributes`, `modifiedCookies`; ciphers per thread | `getAttribute`, `setAttribute`, `commit` (the `Set-Cookie` headers) | the request, the response |
| **Session configuration**: `SessionConfigFactory`, `session-config.xml` | a static configuration, filled once | `readSessionConfig` | the filter's `init` |
| **v2 controllers**: attributes kept in Redis under Tomcat's own session id | one Redis record per id | `setAttribute`, `getAttribute`, `getKeyUser`, `removeAttribute`; the pages | Redis, `UserService` |
| v1 and v3 controllers | none | the same pages on `HttpSession` | the session framework |
| `MvcInterceptor` | none | logging around handlers; no registry ever gets it, so it does not run | nothing |
| `UserService` | the table `users`, `email` unique | `signin`, `register`, `updateUser` | the database |
| **springboot-rabbitmq-lxf**: registration and login with messages | the table `users`, the HTTP session, the queues `q_mail`, `q_sms`, `q_app` | `doRegister`, `doSignin`, the senders, five listeners | the database, RabbitMQ |
| springboot-rabbitmq: two pages, each of which sends a message | the queue `waitfile`, and the exchange `login`, which it shares with springboot-rabbitmq-lxf | `sendMessage`, `sendMessageGet`, the two senders, one listener | RabbitMQ |
| springboot-redisson: a program that takes a lock and keeps it | the record of the lock; the watchdog of every process | `main`, `RedisLock.getLock`; nothing unlocks | Redis, through Redisson |
| springboot-openfeign: consumer, client, provider | a pool of connections, three timeouts, HttpClient's retries under Feign's none | the client's `execute`, the body it returns, the two APIs | HTTP |
| springboot-shiro | users, roles, permissions, Shiro's session | login, logout, authentication and authorisation of the realm, the filter chain | the database |
| springboot-exception | none | `GlobalExceptionHandler`: exceptions to answers | the controllers |
| springboot-sitemesh | none | decoration of pages, by configuration | a library |

What is hard in it:

* **Interleaving.** Requests of one session run at once, each on its own copy of
  the record, and share Redis and the browser's cookies.
* **Partial failure.** A call to Redis may throw at any point; a failed read is
  logged and forgotten, a failed write ends the request in the middle of a commit.
* **Order.** Reads are retried at every access, so a late successful read comes
  after attributes have been set; the two stores commit in an order that the
  code does not fix; a handler may change the session between two commits.
* **Things outside.** Records expire, answers are lost, browsers close,
  processes crash with a lock in their hands.

What makes each part correct, and the lines where it could go wrong, is listed
under `hazards` in `PROJECT.json`.

## 2. Modules

| Module | What it models |
|---|---|
| `SessionConfig` | the configured entries as sets of names: store, read-only, life cycle |
| `SessionConfigFactory` | `readSessionConfig` on `session-config.xml`; an assumption says that its result is what `SessionConfig` has |
| `CacheStore` | `redis` (the record of every id), `attributes` and `isAlreadyReaded` of every request; each operator is one operation of the class and makes at most one call to Redis |
| `CookieStore` | the carried cookies, the attributes, `modifiedCookies` and the headers of the response |
| `WrapperSessionFilter` | composes both stores with the filter, the session, the handler, the response and the environment; holds `Next`, `Spec` and the fairness |
| `BrowserSession` | the abstract specification: one private session per browser |
| `WrapperSessionProperties` | the properties and the refinement mapping |
| `WrapperSessionHistory` | history variables (what a handler stored, whether anything is uncommitted, whether a read succeeded, whether another request has changed the record since) and the properties that need them |
| `WrapperSessionProofs`, `WrapperSessionHistoryProofs` | the theorems |
| `UserService` | the table `users`; `register` and `signin`, which may throw |
| `SignedInUser` | the abstract specification of the pages: who is signed in, what a request wants, what its answer claims |
| `UserPages`, `UserPagesProofs` | what the v2 controllers and springboot-rabbitmq-lxf have in common: requests, forms, views, and what a request asks and its answer claims; composes `UserService` |
| `RedisAttributes` | the v2 controllers and their helpers over Redis, on `UserPages` |
| `RedisAttributesProperties`, `RedisAttributesProofs` | its refinement of `SignedInUser`; the theorems |
| `RegistrationMessaging` | springboot-rabbitmq-lxf: the pages on the container's session, the senders, the queues and the listeners, on `UserPages`; with springboot-rabbitmq on the same broker |
| `RegistrationMessagingProperties`, `RegistrationMessagingProofs` | messages are about users; the refinement of `SignedInUser`; the theorems |
| `ShiroLogin` | springboot-shiro: sessions, Subjects, the filter chain, the controllers and the realm |
| `ShiroLoginProperties`, `ShiroLoginProofs` | what logging in and out promises; the theorems |
| `ProviderClient` | springboot-openfeign: calls, the pool, HttpClient's timeouts and retries, the provider and the network |
| `ProviderClientProperties`, `ProviderClientProofs` | what a caller may rely on; the theorems |
| `RedisLock` | springboot-redisson: runs of the program, Redisson's lock and watchdog, the record in Redis, time |
| `RedisLockProperties`, `RedisLockProofs` | what the lock promises; the theorems |
| `MCWrapperSessionFilter`, `MCWrapperSessionHistory`, `MCRedisLock`, `MCRedisAttributes`, `MCRegistrationMessaging`, `MCShiroLogin`, `MCProviderClient` | instances for TLC |

### From code to model

A request is a slot `r` of the container's threads; `pc[r]` says where it is:
`sent` (before the filter), `handling` (in `chain.doFilter`), `committing` (in
`WrapperSession.commit`), `answered` or `failed` (the response waits to be
delivered), `idle`. A step is a stretch of the thread that touches shared state
at most once: `CreateWrapperSession` (ids, then the read that the first
`setAttribute` makes), one call of the handler on its session, one store of a
commit. The cache store's commit is two steps when it reads before it writes,
since another request may write in between.

* The values of attributes are accounts (`__user__`) and a single instant
  (`lastVisitTime`): two different times are told apart by nothing here. A
  record is a function on the configured cache names with `NULL` for a missing
  one; the record without attributes is "no record", as the code never writes
  an empty map.
* `FailingCalls` says which of Redis's `get`, `set` and `del` may throw. A read
  that throws is caught (`readFromCache` returns false). A write or a deletion
  that throws ends the request (`CommitThrows`): `doFilter` wraps the exception
  and headers already added stay. The client gives up after
  `spring.redis.timeout`, so a write or a deletion that threw may have taken
  effect all the same, and both outcomes are steps of the model.
* `CacheRemoveAttributes` is `invalidate`'s loop over the cache entries, whose
  removals each load the record first. Some may come before the read that
  succeeds, and those attributes return with the record: the operator lets any
  such part be the early one. `__user__` and `lastVisitTime` are the only two.
  The loop is one step: of its reads of Redis only the one that succeeds
  matters, as after it there are no more.
* `CookieCommit` writes headers per name. A later header of a name replaces the
  earlier one, as it does in a browser.
* `SetAttributeRefused` covers names that are not configured (ignored) and
  read-only names (an exception, caught by the handler; when it is not,
  `HandlerThrows`).
* `getAttribute` of a cookie entry changes nothing but a cache of the decoded
  cookie inside the store. `GenerateMissing` starts with the carried cookies as
  the attributes, which is what `getSessionId` and `generateTrackId` leave
  behind for them.
* `MCWrapperSessionFilter` extends `SessionConfigFactory`, so that every run of
  the framework evaluates its assumption: the sets in `SessionConfig` are what
  `readSessionConfig` makes of the file. `<defaultConfig>` has no `<storeType>`
  and replaces the built-in one all the same: an entry without `<storeType>`
  would go to Redis and not, as the built-in default has it, to a cookie.
* `behind` (`WrapperSessionHistory`) becomes true of a request when somebody else
  changes the record of its session, and false again when its copy agrees with
  the record. It is a history variable: no action of the framework reads it,
  since the framework has nothing to notice an overlap with.
* `AccountOf` gives every account to one browser's user. A handler stores an
  account only for the person who sent the request, which is what `signin`
  establishes with a password. `SessionIsolation` is about what the framework
  does with it afterwards.

In `UserPages` a request is a slot `r` again: `Receive` is its arrival, each
action of a handler ends in `Return` or goes on (`GoOn`) to the next stage, and
`Finish` takes the answer away. The parameters of a form are required, so Spring
answers a request without them before the handler (`Receive`). `Claim` is what an
answer says about the user of the session. A `doSignin` that shows the form again,
or an error page, says that the sign-in failed (`SigninFailed`): where storing the
user cannot throw, its claim is that nothing was changed; where it can, the user
may be stored or not, and the answer claims nothing.

In `RedisAttributes` every call to Redis is a step: the pages read once; a
sign-in asks the database (`DoSignin`) and then writes (`StoreUser`); a sign-out
reads (`Signout`) and writes back what is left (`RemoveUser`). The only attribute
is `__user__`, so a record is a user, the empty map that a sign-out leaves, or
nothing. `getKeyUser` prints the map and parses it again: `Readable` are the
users for whom that gives the same fields; for another one it throws or yields a
different user (`Somebody`). A session of Tomcat is an id here; when it times out
its id is not used again, which is a record nobody asks for any more.

In `RegistrationMessaging` the attribute is in the container's session, which
does not fail, and every call to RabbitMQ is a step: `DoRegister` commits the
user and `AnnounceRegistration` sends; `DoSignin`, `AnnounceLogin`, `StoreUser`
are the three calls of a sign-in, and `ReportFailure` is the send in its catch
block. `index` puts the model into itself under the name "user": the page shows
that there is a user and not which (`Somebody`). `convertAndSend` waits for no
confirmation, so whether the message gets to the queues (`Reach`) and whether
the call throws (`SendThrows`) are independent. The repository declares no
exchange, queue or binding: `Bindings` is a constant, and the runs take those
that the listeners imply. Several listeners of one queue compete for its
messages; the JSON converter takes the type from the parameter of the method, so
a method takes a message of either type (`Consume`). A message whose
acknowledgement is lost stays in its queue. `SendMessage` is the two pages of
springboot-rabbitmq, whose answer says only whether the send threw; its message
is a text, of which the email is a copy, and stands for any. Its configuration
names the same broker, and its POST publishes to the exchange `login`: with the
bindings of the runs its messages arrive among those of logins. The session times out only between
requests (`Expire`), as the container counts from the last request.

In `ShiroLogin` Shiro and the container are external, and modelled by what
Shiro 1.4 does with the container's sessions, since the code relies on it. A
Subject is made when a request starts: it takes the principal of the session
(`Receive`), and saving it puts that principal, or that there is none, back into
the session (`SaveSubject`), whatever another request has put there meanwhile. A
request that starts before a login and is saved after it thus undoes the login.
The session of a request is fixed from then on, or opened by the first
`getSession` (`Opens`). `Subject.logout` is two steps: it takes the principal out
of the session (`RemovePrincipal`) and then invalidates the session (`Stop`).
Between them a request with an older Subject is still shown the index, and the
session may even get the principal back; what is promised begins with the answer
of the logout. Using a session that is gone throws an `InvalidSessionException`
(`ThrowInvalidSession`): in the filter "user" (`Admit`, `Deny`), in the
controllers after it, for `Subject.getPrincipal` looks into the session too, and
in `login`, whose catch block does not catch it; `LogoutFilter` catches it,
`LogoutController` does not. Filter and controller are two steps, so a session
may go in between; a controller that reads the session twice does it in one
step. The page 403 reads nothing. `login` is two steps since another request may
log out in between: `StoreName` puts the name into the session, `Login`
authenticates and lets Shiro store the principal. The filter "user" saves a denied
request in the session and so opens one (`Deny`); nothing reads it again, since
`login` redirects to the index whatever happened. The tables have no writers in
the code and are constants. A session id stands for another session once no
request has the old one.

In `ProviderClient` a call `c` goes through `leasing`, `sending`, `waiting`
(inside `client.execute`), `reading` (Feign has the response, its body is still
on the connection), `closing` and `ended`. HttpClient is external and modelled
by its documented defaults, because the code relies on them: it tries a request
again whose connection broke before the request had left (`SendFails`), or
afterwards if it takes the request for idempotent (`ConnectionBreaks`), never
after a timeout or a refused connection. To its retry handler a request with an
entity is not idempotent, and `toHttpUriRequest` gives even a GET an empty one:
`EnclosesEntity` holds of both methods of `UserApi`. A request keeps the number
of the try that sent it; the provider handles what arrives, also when nobody
waits any more (`Handle`). `Decode` may give the connection back, by reading to
the end or by an exception of the stream, or leave that to `Close`, which
consumes what is left. There is one route, so the limit of 500 for all routes
never bites. `doSignin` of the provider refuses only two empty strings, which
the consumer does not send; both handlers are stateless.

In `RedisLock` a process is one run of the program: `Main`, then `lock()` in
`getLock`. Redisson's `lock()` asks Redis for the lock (`GetLock`, `Wait`,
`GetLockThrows`); when it is somebody else's it sleeps for the time to live that
Redis answered and asks again. The message that wakes a waiter early is sent by
`unlock`, which this program never calls. `lock()` without a lease time turns the
watchdog on, and only once the lock is known to be taken: it renews the lock
every `Period` (`Renew`) and stops for good when a renewal throws or finds the
lock gone (`StopRenewing`), of which the program learns nothing. Time (`Tick`)
waits for nobody, so a renewal may be late for any length of time. `End` is an
orderly end or a crash: neither releases the lock.

### The environment

`Send`, `Deliver`, `Lose`, `Expire`, `CloseBrowser` are not code of the
repository: browsers send the cookies they hold and apply the headers they get,
answers may be lost, Redis drops records whose time has run out. `Serial = TRUE`
restricts browsers to one request at a time. `Retire` is the bound on ids: the
code draws a new UUID for every session, and the model gives an id back once no
jar, request, header or record has it, so that a few names are enough for any
number of sessions.

## 3. Runs

| Run | Instance | What it shows |
|---|---|---|
| `concurrent` | 2 browsers, 2 requests at once, 2 ids, 2 calls per handler, every call to Redis may fail | `TypeOK`; no account ever reaches another browser (`SessionIsolation`); the commit of a valid session always writes, so its time to live is renewed (`CommitRenewsRecord`); headers agree with their session (`HeadersMatchSession`) |
| `refinement` | one request per browser at a time, 3 accounts, both cookies, 3 calls, writes and deletions may fail, reads succeed | the framework implements `BrowserSession` (`ImplementsBrowserSession`); track ids survive sign-out (`TrackIdKept`) |
| `history` | one browser, one account, 2 overlapping requests of one session, 2 calls per handler, every call may fail, running threads | what a completed commit leaves in Redis until somebody else changes it (`CommittedIsStored`); the only ways in which the user of a record can change, a sign-out undone by an overlapping request among them (`UserChangeExplained`); every request that reaches the filter ends (`RequestEnds`) |
| `set_attribute_lost` | one browser, failing reads | **violated**: a value set while reads fail is replaced by the old record when a later read succeeds |
| `no_commit` | one browser | **violated**: an answer without a body leaves the session uncommitted |
| `redis_attributes` | v2: 2 requests at once, 2 sessions, 2 users of whom one does not read back, every call may fail | the pages keep the promises of `SignedInUser` (`ImplementsSignedInUser`): what an answer says of the signed-in user was true at one moment of its request, an answered sign-out has signed out, a failed sign-in has signed in its own user or nobody, the profile shows a user as stored unless the conversion cannot read it, and nothing but sign-ins, sign-outs and expiry changes the user |
| `visitor_pages` | v2: one visitor, nothing fails | **violated**: start page, sign-in page and profile are errors for whoever is not signed in |
| `messaging` | 2 requests at once on a session, 2 users, queues of at most one message, the pages of both programs, the database and every send may fail | messages of registrations and successful logins are about users in the table (`MessagesAreOfUsers`); the pages keep the promises of `SignedInUser` (`ImplementsSignedInUser`): a sign-in that is answered as failed, also with the error page of a failing report, has changed nothing |
| `shiro_login` | 2 requests at once, 2 sessions, 2 accounts and a name without one, the database may fail | a logout is final also while a login of the session is under way (`InvalidatedIsEmpty`); whoever is signed in has a name (`SignedInHasName`); the index meets no Subject without a principal (`IndexFindsUser`); once a logout is answered, no request of its session is shown a page for users, however old its Subject is (`LogoutShutsOut`) |
| `roles` | one request, an account whose only role is not available | **violated**: it gets the page that its role permits (`AvailableRolesOnly`) |
| `redis_lock` | 3 runs of the program, a lease of three periods, every call may fail, every process may end | whoever has returned from `getLock` owns the lock, and alone, as long as it is renewed in time (`HolderOwnsLock`); a lock whose owner will not renew it becomes free (`OrphanedLockIsFreed`); whoever waits does so for somebody who got the lock (`LockIsTaken`) |
| `provider_client` | 2 calls, one connection, one retry | the provider handles no call twice and everything that returns a value once (`HandledAtMostOnce`); only calls at work hold connections (`ConnectionsComeBack`); every call ends (`CallsEnd`) |

Why the bounds are enough. Requests interact only through one record and one
jar, so two of them, of the same or of different browsers, make every conflict
of a pair. Two ids are what two requests without cookie need at once, and
retired ids are used again. Two calls of a handler are a change and a commit, or
a read and a change; three add a second commit or a second change. Permuting
requests and ids is a symmetry: no definition tells them apart.

In `history` one browser and one session are enough: the requests of other
sessions share nothing with them but ids, which `concurrent` is about. In
`redis_lock` the third process makes a waiter whose lock is taken by another one
at the moment it expires; with a lease of three periods, as Redisson has it, a
renewal may be missed and the lock still be alive.
In `messaging` one session is enough, since sessions share nothing but the
table, and a queue with room for one message is full, empty and shared by two
listeners; `MaxLength` only refuses a message that the broker may lose anyway.
In `shiro_login` two requests on one session make every race of a login, a
logout and a page, and as many ids as requests let each have a session.
In `provider_client` one connection is enough for a call to wait for another and
time out, and one retry gives a call two requests. Calls make no further ones,
so the system stops when all have ended: this is the run that allows deadlock.

Fairness (`FairSpec`, `FairHistorySpec`) is weak fairness of each request's thread. The container
runs its threads, every call to Redis returns or throws (the client has
timeouts), and handlers do not loop: `MaxCalls` bounds the calls a handler
makes. Nothing is assumed of browsers, of Redis's success or of delivery.
`ProviderClient` has the same fairness for the thread of each call: `requestConfig`
sets a limit to every wait, so a thread that waits goes on, with a timeout if
with nothing else. No fairness is assumed of the provider or the network.
`RedisLock` has weak fairness of time and of the threads of each process: a call
to Redis returns or throws, and the timers of Redisson fire. Nobody has to start
or to end, and a process that lives may keep the lock for ever, which is why
`LockIsTaken` promises no more than it does.

Four runs end in a violation, which `findings` in `PROJECT.json` explains. Three
are comments that state more than the code does: `set_attribute_lost` on what
happens when Redis fails for a while (where it does not, the comment is right:
`SetAttributeKept` in section 4); `no_commit` on an answer that never opens
its body, which in the pages of the controllers is a resource answered with 304
or an error sent with `sendError`; `roles` on roles that are not available. One
is a bug: in `visitor_pages` `getKeyUser` calls `toString` on a user that is not
there.

Two listeners of springboot-rabbitmq-lxf that expect different types of message
share each of the queues `q_mail` and `q_sms`, and the broker deals out what is
in a queue: with bindings that put both types there, a method gets the other
one's messages. The bindings are not in the repository, so no run claims it.

The name that the index of springboot-shiro greets with is the one that was
typed last into the login form of the session, also when that login failed. No
comment says otherwise, so no run checks it; `SignedInHasName` is what holds. The
state of a user (`UserInfo.state`, locked among others) is read by nothing in the
code and is not in the model.

## 4. Proofs

`WrapperSessionProofs` proves for every number of browsers, requests, ids,
accounts and calls, and every set of failing calls:

* `TypeCorrect`: the type invariant. The inductive invariant is `TypeInv`, which
  adds that a request that handles or commits has a session id.
* `CommitRenews`: `CommitRenewsRecord`, by the lemmas on the local map: reads
  never take an attribute away (`ReadGood`, `LoadGood`), and no handler removes
  `lastVisitTime` (the assumption `HandlerAssumption`).
* `HeadersAgree`: `HeadersMatchSession`, from `HeaderInv`, which relates the
  carried cookie, the store's attribute, the modified names, the header and the
  session id of one request at every point of its life.
* `Isolation`: `SessionIsolation`, from `IsolationInv`. It says who owns an id:
  every id in a jar, a carried cookie, a store, a header or a session was
  issued to that browser, and a record has attributes only under an issued id.
  Isolation alone is not inductive: without the ownership of ids a request
  could load a record that is not its own.
* `TrackIdStays`: `TrackIdKept`, from `TrackInv`: a session in use has a track id
  in its cookie store, so that no response ever has a header that removes it.
* `FrameworkImplements`: the framework implements `BrowserSession`
  (`ImplementsBrowserSession`), under the hypotheses of the run `refinement`
  (`Waiting`): browsers wait for their answers and reads succeed. Without the
  first two requests work on one session, without the second a session starts
  empty although its record is not; the runs with such instances show what is
  left of the promise then. Writes and deletions may still fail, answers be
  lost, stores be visited in either order and other browsers come in between.
  The inductive invariant is `RefinementInv`. To the invariants above, which keep
  other browsers out and the record of a commit whole, it adds `WaitingInv`: only
  ids are stored under the id's name, a browser has one request in flight, its
  jar keeps the id that the request carried until the answer arrives, and a
  session has read its record once, so that a commit never reads. It follows
  that a browser has at most one id (`IdOfSession`, `IdWithoutSession`), which is
  what makes the mapping of its session to a record well defined; without it a
  commit would change a record that the browser does not see. Then there is one
  lemma per kind of step: those that nobody sees (`SendUnseen`,
  `GetAttributeUnseen`, `CommitCookiesUnseen`, ...), those that open, change,
  commit or close the session (`CreateOpens`, `SetAttributePuts`, `CommitSaves`,
  `FailCloses`, `AnswerSeen`, `ExpireSeen`, ...), and `StepImplements`, which
  puts them together.
* `ThreadsRunOut`: each step of a request's thread leaves it fewer steps
  (`StepsLeft`, at most `4 * MaxCalls + 2`), and no step of anybody else leaves it
  more. It is what `RequestEnds` says without the fairness: given that a thread
  goes on, it ends.

`WrapperSessionHistoryProofs` proves, with the history variables and for any
number of overlapping requests:

* `CommittedStored`: `CommittedIsStored`. `Stored` is what makes it inductive: it
  says the same of a commit under way, from the moment it is done with the
  record, and of a second commit without changes, whose reads then change
  nothing (`LoadedSame`). It needs `CommitRenewsRecord`: a commit of an empty map
  would write nothing.
* `UserChanges`: `UserChangeExplained`. `SameUser` says that a request which stored
  nothing has the record's user once it has read it, and none before, unless it
  is behind (`LoadedUser`). `SameStep` is about all other requests, `OwnStep` has
  one case per action; `HistoryIsNext` lets the invariants of the framework in.
* `SetAttributeKept`: if reads succeed, `SetAttributeOverrides` holds, for
  overlapping requests and failing writes too. The run `set_attribute_lost` shows
  that the hypothesis is needed. `PutKept` is the invariant: who has stored a user
  has read the record before, so that no later read replaces what was stored.

`RedisAttributesProofs` proves, for every number of requests, sessions and users:

* `AttributesTypeCorrect`: the type invariant of the v2 controllers.
* `ControllersImplement`: they implement `SignedInUser`. The inductive invariant
  `IInv` adds to the types that a request at work has a session and a form has
  its email. `AnswerStep` is the core of the argument: a handler that returns
  makes the abstract answer at that very step, so what its answer claims is
  compared with the user after the step; the first call of a sign-in or a
  sign-out is invisible. `RefuseStep` is about a sign-in that fails, with and
  without "set" among the failing calls. `StepImplements` has one step per action.

`UserPagesProofs` has the lemmas on which the refinement proofs of both
applications rest: what each shared step does to the types (`ReturnInv`,
`GoOnInv`, ...) and to what requests ask and claim (`ReceiveAsks`,
`ReturnClaims`, ...).

`RegistrationMessagingProofs` proves, for any bindings and any bound on queues:

* `MessagingTypeCorrect`: the type invariant.
* `MessagesCorrect`: `MessagesAreOfUsers`. The inductive invariant adds
  `AnnouncedAreUsers`: whoever is about to be announced is in the table already.
  Users are never removed, so a message stays right for as long as it is queued;
  `ReachQueued` and `ConsumeQueued` say what sending and receiving do to the
  contents of a queue.
* `MessagingImplements`: the refinement of `SignedInUser`. Sends are invisible;
  the sign-in takes place at `StoreUser`, and `ReportFailure` is a step of
  `Refuse`, which may change nobody's user.

`ShiroLoginProofs` proves, for any accounts, roles and permissions:

* `ShiroTypeCorrect`, `LogoutFinal` (`InvalidatedIsEmpty`) and `NamesStored`
  (`SignedInHasName`). The inductive invariant adds what a request knows of its
  session while others may invalidate it, change its user or write an older one
  back: `SubjectInv` says that a Subject with a principal was made from a session
  that has a name for as long as it lives. It cannot say that the session still
  has a principal: between the two steps of a logout it has none.
* `IndexCorrect` (`IndexFindsUser`) and `LogoutCorrect` (`LogoutShutsOut`). The
  first needs that the filter has seen a principal in the Subject (`StageInv`),
  the second `LogoutInv`: an answered logout has left no session, and none is
  opened again under an id that a request still has. `Others` says what a step
  of one request leaves to the rest, and `OthersKeep` that this is enough for
  their part of the invariant; so each step has a lemma about its own request.

`RedisLockProofs` proves, for any number of processes, every lease and period:

* `LockTypeCorrect`, `HolderOwns` (`HolderOwnsLock`) and `MutualExclusion`: of two
  processes at most one may rely on the lock. The inductive invariant relates
  the age of the last renewal to what is left of the time to live: both clocks
  tick together, so the record outlives every owner that is in time.
* `OrphansAge`: a lock whose owner has ended, has been refused or has stopped to
  renew it ages with every tick, and until it is free no call of any process
  gives it more time or another owner. It is what `OrphanedLockIsFreed` says
  without the fairness of time. `WatchdogInv` is needed for it: a process that has
  ended, or has been refused, has no watchdog that could still renew.

`ProviderClientProofs` proves, for any number of calls, connections and retries:

* `ClientTypeCorrect`, `NeverHandledTwice` (`HandledAtMostOnce`) and
  `PoolCorrect` (`ConnectionsComeBack`). The first two need `UnsentInv` (before
  its request has left, nothing of a call is on its way, handled or answered)
  and `OnceInv` (what is handled and what is on its way is at most one request):
  a retry is only ever possible where `UnsentInv` holds. `FewerLeased` and
  `OneMoreLeased` count the pool.
* `CallsRunOut`: each step of a call leaves it fewer steps (`StepsLeft`, at most
  `5 * (RetryCount + 1)`), and nobody else's leaves it more: what `CallsEnd` says
  without the fairness. The retry is the only step back, and it is counted.

The assumptions on the constants are named where they are declared:
`CookieNameAssumption`, `CallsAssumption`, `SerialAssumption`,
`HandlerAssumption`, `AccountAssumption`, `DistinctAssumption`,
`NoPutAssumption` and `ViewAssumption` (`NULL` is no view of a session) for the framework; `UserAssumption`,
`RecordAssumption`, `WishAssumption` for the pages; `BindingsAssumption`,
`LengthAssumption` and `FailingAssumption` (the session's attributes are in memory,
so that only the database and the sends may fail) for the messages; `NameAssumption`, `AccountAssumption` for
Shiro; `LimitAssumption`, `NullAssumption` for the client; `NoOneAssumption`,
`LeaseAssumption` for the lock. TLC evaluates them in every run of their modules,
and `ConfigurationAssumption` in those of the framework, which is all there is
to check of it: it has no free constants but `CookieName`.

Only model-checked: the four liveness properties `RequestEnds`, `CallsEnd`,
`OrphanedLockIsFreed` and `LockIsTaken`, since liveness under fairness is beyond
the prover. `ThreadsRunOut`, `CallsRunOut` and `OrphansAge` prove for every
instance what the first three rest on: a measure that each fair step lowers and
no other step raises. `LockIsTaken` is left to TLC as a whole: which
step brings it about depends on who finds the lock free first. Every invariant and every
other action property or refinement that a run checks is proved.

## 5. Not modelled

Encoding and encryption of cookies (no entry is encrypted), the conversion of
`Map` entries in `getAttribute` (no such entry is configured), the paths and
domains of cookies, timestamps, logging, the templates, the build. `isNew`,
`getCreationTime` and the other getters change nothing.

Whole components without a model:

* springboot-exception: `GlobalExceptionHandler` has one method per exception type
  and no state; which method is called is Spring's doing, and what it returns is
  a constant or the exception's own code and message.
* springboot-sitemesh: configuration of a library, and pages.
* The scripts and styles under `static`, which are jQuery and Bootstrap.

Of the components that are modelled in part: `MvcInterceptor` is in no registry and
never runs; `updateUser` of `UserService` has no caller; `BlowfishUtils` decrypts
nothing but the configured key.

## 6. Plan

All components with state have a model, and all that the runs check and the
prover can reach is proved. What is left is to keep the proofs short as the code
changes: the frame lemmas of `WrapperSessionProofs` (`SameIds`, `OneSession`,
`OneView`, `StepOf`) are the place to start from when the filter gets a new step.
