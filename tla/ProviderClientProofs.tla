------------------------ MODULE ProviderClientProofs ------------------------
(***************************************************************************)
(* For any number of calls, of connections and of retries: the types, that *)
(* no call is handled twice, and that the pool gets its connections back.  *)
(***************************************************************************)
EXTENDS ProviderClientProperties, FiniteSetTheorems, TLAPS

\* A call that has started knows its method.
ApiInv == \A c \in Call : pc[c] # "idle" => api[c] \in Api

\* Nothing of a call is under way, handled or answered before its request has
\* left.
UnsentInv ==
  \A c \in Call : pc[c] \in {"idle", "leasing", "sending"} =>
    /\ handled[c] = 0
    /\ answer[c] = NULL
    /\ \A n \in Try : <<c, n>> \notin onWay

\* A call is handled at most once, counting the request that is on its way.
OnceInv ==
  \A c \in Call :
    /\ handled[c] <= 1
    /\ handled[c] = 1 => \A n \in Try : <<c, n>> \notin onWay
    /\ \A n, k \in Try : <<c, n>> \in onWay /\ <<c, k>> \in onWay => n = k

\* What is answered has been handled.
AnswerInv ==
  \A c \in Call :
    /\ pc[c] = "waiting" /\ answer[c] # NULL => handled[c] = 1
    /\ pc[c] = "reading" => handled[c] = 1
    /\ result[c] = "value" => handled[c] = 1

PoolInv == IsFiniteSet(leased) /\ ConnectionsComeBack

IInv ==
  /\ TypeOK
  /\ ApiInv
  /\ UnsentInv
  /\ OnceInv
  /\ AnswerInv
  /\ PoolInv

-----------------------------------------------------------------------------
(* The pool *)

\* A pool from which connections are taken away stays within its limit.
LEMMA FewerLeased ==
  ASSUME IsFiniteSet(leased), Cardinality(leased) <= MaxPerRoute, NEW c
  PROVE  /\ IsFiniteSet(leased \ {c})
         /\ Cardinality(leased \ {c}) <= MaxPerRoute
<1>1. IsFiniteSet(leased \ {c}) /\ Cardinality(leased \ {c}) <= Cardinality(leased)
  BY FS_Subset
<1>2. Cardinality(leased \ {c}) \in Nat /\ Cardinality(leased) \in Nat
  BY <1>1, FS_CardinalityType
<1> QED BY <1>1, <1>2, LimitAssumption

\* Lease takes the pool to its limit at most.
LEMMA OneMoreLeased ==
  ASSUME IsFiniteSet(leased), Cardinality(leased) < MaxPerRoute, NEW c
  PROVE  /\ IsFiniteSet(leased \cup {c})
         /\ Cardinality(leased \cup {c}) <= MaxPerRoute
<1>1. /\ IsFiniteSet(leased \cup {c})
      /\ \/ Cardinality(leased \cup {c}) = Cardinality(leased)
         \/ Cardinality(leased \cup {c}) = Cardinality(leased) + 1
  BY FS_AddElement
<1>2. Cardinality(leased) \in Nat
  BY FS_CardinalityType
<1> QED BY <1>1, <1>2, LimitAssumption

-----------------------------------------------------------------------------
(* The two ways out of HttpClient that are not an answer *)

\* An exception ends the call and gives its connection back.
LEMMA ThrowInv ==
  ASSUME IInv, NEW c \in Call, pc[c] \in {"leasing", "sending", "waiting"}, Throw(c)
  PROVE  IInv'
<1> USE DEF Throw, Goto, network
<1>1. TypeOK'
  BY DEF IInv, TypeOK
<1>2. ApiInv' /\ UnsentInv' /\ OnceInv' /\ AnswerInv'
  BY DEF IInv, TypeOK, ApiInv, UnsentInv, OnceInv, AnswerInv
<1>3. PoolInv'
  <2>1. IsFiniteSet(leased') /\ Cardinality(leased') <= MaxPerRoute
    BY FewerLeased DEF IInv, PoolInv, ConnectionsComeBack
  <2>2. \A d \in leased' : pc'[d] \in {"sending", "waiting", "reading", "closing"}
    BY DEF IInv, TypeOK, PoolInv, ConnectionsComeBack
  <2> QED BY <2>1, <2>2 DEF PoolInv, ConnectionsComeBack
<1> QED BY <1>1, <1>2, <1>3 DEF IInv

\* A call tries again as long as its request has not left.
LEMMA TryAgainInv ==
  ASSUME IInv, NEW c \in Call, pc[c] = "sending", TryAgain(c)
  PROVE  IInv'
<1> USE DEF TryAgain, Goto, network
<1>1. TypeOK'
  <2>1. tries[c] + 1 \in Try
    BY LimitAssumption DEF IInv, TypeOK, Try, MayRetry
  <2> QED BY <2>1 DEF IInv, TypeOK
<1>2. ApiInv' /\ UnsentInv' /\ OnceInv' /\ AnswerInv'
  BY DEF IInv, TypeOK, ApiInv, UnsentInv, OnceInv, AnswerInv
<1>3. PoolInv'
  <2>1. IsFiniteSet(leased') /\ Cardinality(leased') <= MaxPerRoute
    BY FewerLeased DEF IInv, PoolInv, ConnectionsComeBack
  <2>2. \A d \in leased' : pc'[d] \in {"sending", "waiting", "reading", "closing"}
    BY DEF IInv, TypeOK, PoolInv, ConnectionsComeBack
  <2> QED BY <2>1, <2>2 DEF PoolInv, ConnectionsComeBack
<1> QED BY <1>1, <1>2, <1>3 DEF IInv

-----------------------------------------------------------------------------
(* The invariant *)

LEMMA InitInv == Init => IInv
<1> SUFFICES ASSUME Init PROVE IInv
  OBVIOUS
<1>1. TypeOK
  BY LimitAssumption DEF Init, TypeOK, Try
<1>2. ApiInv /\ UnsentInv /\ OnceInv /\ AnswerInv
  BY NullAssumption DEF Init, ApiInv, UnsentInv, OnceInv, AnswerInv
<1>3. PoolInv
  BY FS_EmptySet, LimitAssumption DEF Init, PoolInv, ConnectionsComeBack
<1> QED BY <1>1, <1>2, <1>3 DEF IInv

LEMMA StepInv == IInv /\ [Next]_vars => IInv'
<1> SUFFICES ASSUME IInv, [Next]_vars PROVE IInv'
  OBVIOUS
<1> USE DEF Goto, network
<1>1. ASSUME NEW c \in Call, NEW method \in Api, Execute(c, method) PROVE IInv'
  <2> USE <1>1 DEF Execute
  <2>1. TypeOK'
    BY DEF IInv, TypeOK
  <2>2. ApiInv' /\ UnsentInv' /\ OnceInv' /\ AnswerInv'
    BY DEF IInv, TypeOK, ApiInv, UnsentInv, OnceInv, AnswerInv
  <2>3. PoolInv'
    BY DEF IInv, TypeOK, PoolInv, ConnectionsComeBack
  <2> QED BY <2>1, <2>2, <2>3 DEF IInv
<1>2. ASSUME NEW c \in Call, Lease(c) PROVE IInv'
  <2> USE <1>2 DEF Lease
  <2>1. TypeOK'
    BY DEF IInv, TypeOK
  <2>2. ApiInv' /\ UnsentInv' /\ OnceInv' /\ AnswerInv'
    BY DEF IInv, TypeOK, ApiInv, UnsentInv, OnceInv, AnswerInv
  <2>3. IsFiniteSet(leased') /\ Cardinality(leased') <= MaxPerRoute
    BY OneMoreLeased DEF IInv, PoolInv
  <2>4. \A d \in leased' : pc'[d] \in {"sending", "waiting", "reading", "closing"}
    BY DEF IInv, TypeOK, PoolInv, ConnectionsComeBack
  <2> QED BY <2>1, <2>2, <2>3, <2>4 DEF IInv, PoolInv, ConnectionsComeBack
<1>3. ASSUME NEW c \in Call, LeaseTimesOut(c) \/ ConnectFails(c) \/ ReadTimesOut(c)
      PROVE  IInv'
  BY <1>3, ThrowInv DEF LeaseTimesOut, ConnectFails, ReadTimesOut
<1>4. ASSUME NEW c \in Call, SendFails(c) PROVE IInv'
  BY <1>4, ThrowInv, TryAgainInv DEF SendFails
<1>5. ASSUME NEW c \in Call, ConnectionBreaks(c) PROVE IInv'
  <2>1. EnclosesEntity(api[c])
    BY <1>5 DEF ConnectionBreaks, EnclosesEntity, IInv, ApiInv
  <2> QED BY <1>5, <2>1, ThrowInv DEF ConnectionBreaks
<1>6. ASSUME NEW c \in Call, Send(c) PROVE IInv'
  <2> USE <1>6 DEF Send
  <2>1. TypeOK'
    BY DEF IInv, TypeOK
  <2>2. ApiInv' /\ UnsentInv'
    BY DEF IInv, TypeOK, ApiInv, UnsentInv
  <2>3. OnceInv'
    BY DEF IInv, TypeOK, UnsentInv, OnceInv
  <2>4. AnswerInv'
    BY DEF IInv, TypeOK, UnsentInv, AnswerInv
  <2>5. PoolInv'
    BY DEF IInv, TypeOK, PoolInv, ConnectionsComeBack
  <2> QED BY <2>1, <2>2, <2>3, <2>4, <2>5 DEF IInv
<1>7. ASSUME NEW c \in Call, ToFeignResponse(c) PROVE IInv'
  <2> USE <1>7 DEF ToFeignResponse
  <2>1. TypeOK'
    BY DEF IInv, TypeOK
  <2>2. ApiInv' /\ UnsentInv' /\ OnceInv' /\ AnswerInv'
    BY DEF IInv, TypeOK, ApiInv, UnsentInv, OnceInv, AnswerInv
  <2>3. IsFiniteSet(leased') /\ Cardinality(leased') <= MaxPerRoute
    BY FewerLeased DEF IInv, PoolInv, ConnectionsComeBack
  <2>4. \A d \in leased' : pc'[d] \in {"sending", "waiting", "reading", "closing"}
    BY DEF IInv, TypeOK, PoolInv, ConnectionsComeBack
  <2> QED BY <2>1, <2>2, <2>3, <2>4 DEF IInv, PoolInv, ConnectionsComeBack
<1>8. ASSUME NEW c \in Call, Decode(c) PROVE IInv'
  <2> USE <1>8 DEF Decode
  <2>1. TypeOK'
    BY DEF IInv, TypeOK
  <2>2. ApiInv' /\ UnsentInv' /\ OnceInv' /\ AnswerInv'
    BY DEF IInv, TypeOK, ApiInv, UnsentInv, OnceInv, AnswerInv
  <2>3. IsFiniteSet(leased') /\ Cardinality(leased') <= MaxPerRoute
    BY FewerLeased DEF IInv, PoolInv, ConnectionsComeBack
  <2>4. \A d \in leased' : pc'[d] \in {"sending", "waiting", "reading", "closing"}
    BY DEF IInv, TypeOK, PoolInv, ConnectionsComeBack
  <2> QED BY <2>1, <2>2, <2>3, <2>4 DEF IInv, PoolInv, ConnectionsComeBack
<1>9. ASSUME NEW c \in Call, Close(c) PROVE IInv'
  <2> USE <1>9 DEF Close
  <2>1. TypeOK'
    BY DEF IInv, TypeOK
  <2>2. ApiInv' /\ UnsentInv' /\ OnceInv' /\ AnswerInv'
    BY DEF IInv, TypeOK, ApiInv, UnsentInv, OnceInv, AnswerInv
  <2>3. IsFiniteSet(leased') /\ Cardinality(leased') <= MaxPerRoute
    BY FewerLeased DEF IInv, PoolInv, ConnectionsComeBack
  <2>4. \A d \in leased' : pc'[d] \in {"sending", "waiting", "reading", "closing"}
    BY DEF IInv, TypeOK, PoolInv, ConnectionsComeBack
  <2> QED BY <2>1, <2>2, <2>3, <2>4 DEF IInv, PoolInv, ConnectionsComeBack
<1>10. ASSUME NEW c \in Call, NEW n \in Try, Handle(c, n) PROVE IInv'
  <2> USE <1>10 DEF Handle
  <2>1. handled[c] = 0
    BY DEF IInv, TypeOK, OnceInv
  <2>2. \A k \in Try : <<c, k>> \notin onWay'
    BY DEF IInv, OnceInv
  <2>3. TypeOK'
    BY DEF IInv, TypeOK
  <2>4. ApiInv' /\ PoolInv'
    BY DEF IInv, ApiInv, PoolInv, ConnectionsComeBack
  <2>5. pc[c] \notin {"idle", "leasing", "sending"}
    BY DEF IInv, UnsentInv
  <2>6. UnsentInv'
    BY <2>5 DEF IInv, TypeOK, UnsentInv
  <2>7. OnceInv'
    BY <2>1, <2>2 DEF IInv, TypeOK, OnceInv
  <2>8. AnswerInv'
    BY <2>1 DEF IInv, TypeOK, AnswerInv
  <2> QED BY <2>3, <2>4, <2>6, <2>7, <2>8 DEF IInv
<1>11. ASSUME NEW c \in Call, NEW n \in Try, Lose(c, n) PROVE IInv'
  <2> USE <1>11 DEF Lose
  <2>1. TypeOK'
    BY DEF IInv, TypeOK
  <2>2. ApiInv' /\ UnsentInv' /\ OnceInv' /\ AnswerInv'
    BY DEF IInv, TypeOK, ApiInv, UnsentInv, OnceInv, AnswerInv
  <2>3. PoolInv'
    BY DEF IInv, PoolInv, ConnectionsComeBack
  <2> QED BY <2>1, <2>2, <2>3 DEF IInv
<1>12. CASE UNCHANGED vars
  BY <1>12 DEF vars, IInv, TypeOK, ApiInv, UnsentInv, OnceInv, AnswerInv, PoolInv,
               ConnectionsComeBack
<1> QED BY <1>1, <1>2, <1>3, <1>4, <1>5, <1>6, <1>7, <1>8, <1>9, <1>10, <1>11, <1>12
           DEF Next, Thread

LEMMA Invariance == Spec => []IInv
<1>1. Init => IInv
  BY InitInv
<1>2. IInv /\ [Next]_vars => IInv'
  BY StepInv
<1> QED BY <1>1, <1>2, PTL DEF Spec

-----------------------------------------------------------------------------
\* The types of ProviderClient's variables.
THEOREM ClientTypeCorrect == Spec => []TypeOK
<1>1. IInv => TypeOK
  BY DEF IInv
<1> QED BY <1>1, Invariance, PTL

\* The provider handles no call twice, and handles whatever returns a value:
\* the retries of HttpClient never repeat a request that toHttpUriRequest has
\* built and that has left.
THEOREM NeverHandledTwice == Spec => []HandledAtMostOnce
<1>1. IInv => HandledAtMostOnce
  BY DEF IInv, OnceInv, AnswerInv, HandledAtMostOnce
<1> QED BY <1>1, Invariance, PTL

\* The pool keeps its limit, and only calls at work hold its connections.
THEOREM PoolCorrect == Spec => []ConnectionsComeBack
<1>1. IInv => ConnectionsComeBack
  BY DEF IInv, PoolInv
<1> QED BY <1>1, Invariance, PTL

-----------------------------------------------------------------------------
(* The steps that a call has left *)

\* Five steps from the pool to the end, once for every try that is left.
StepsLeft(c) ==
  IF pc[c] \in {"idle", "ended"} THEN 0
  ELSE 5 * (RetryCount - tries[c])
         + CASE pc[c] = "leasing" -> 5
             [] pc[c] = "sending" -> 4
             [] pc[c] = "waiting" -> 3
             [] pc[c] = "reading" -> 2
             [] OTHER -> 1

\* What the thread of c does, the failures of the network included.
StepOf(c) == Thread(c) \/ ConnectFails(c) \/ SendFails(c) \/ ConnectionBreaks(c)

\* Another try is one less, from wherever it starts.
LEMMA TryAgainCounts ==
  ASSUME TypeOK, NEW c \in Call, pc[c] \in {"sending", "waiting"}, TryAgain(c)
  PROVE  StepsLeft(c)' < StepsLeft(c)
<1>1. RetryCount \in Nat /\ tries[c] \in Nat /\ tries[c] < RetryCount
  BY LimitAssumption DEF TypeOK, Try, TryAgain, MayRetry
<1>2. pc'[c] = "leasing" /\ tries'[c] = tries[c] + 1
  BY DEF TypeOK, TryAgain, Goto
<1> QED
  BY <1>1, <1>2 DEF StepsLeft

LEMMA OwnStepCounts ==
  ASSUME TypeOK, NEW c \in Call, StepOf(c)
  PROVE  StepsLeft(c)' < StepsLeft(c)
<1>0. RetryCount \in Nat /\ tries[c] \in 0..RetryCount
  BY LimitAssumption DEF TypeOK, Try
<1>1. ASSUME Throw(c), pc[c] \in {"leasing", "sending", "waiting"}
      PROVE  StepsLeft(c)' < StepsLeft(c)
  <2>1. pc'[c] = "ended"
    BY <1>1 DEF TypeOK, Throw, Goto
  <2> QED
    BY <1>0, <1>1, <2>1 DEF StepsLeft
<1>2. CASE Lease(c) \/ Send(c)
  BY <1>0, <1>2 DEF Lease, Send, Goto, TypeOK, StepsLeft
<1>3. CASE ToFeignResponse(c) \/ Decode(c) \/ Close(c)
  BY <1>0, <1>3 DEF ToFeignResponse, Decode, Close, Goto, TypeOK, StepsLeft
<1>4. CASE LeaseTimesOut(c) \/ ConnectFails(c) \/ ReadTimesOut(c)
  BY <1>1, <1>4 DEF LeaseTimesOut, ConnectFails, ReadTimesOut
<1>5. CASE SendFails(c) \/ ConnectionBreaks(c)
  BY <1>1, <1>5, TryAgainCounts DEF SendFails, ConnectionBreaks
<1> QED
  BY <1>2, <1>3, <1>4, <1>5 DEF StepOf, Thread

\* Every other step leaves a call that has started where it is.
LEMMA OthersCount ==
  ASSUME TypeOK, NEW c \in Call, pc[c] # "idle", Next
  PROVE  StepOf(c) \/ StepsLeft(c)' = StepsLeft(c)
<1>1. ASSUME NEW d \in Call, d # c, StepOf(d) \/ \E method \in Api : Execute(d, method)
      PROVE  UNCHANGED <<pc[c], tries[c]>>
  BY <1>1
  DEF StepOf, Thread, Lease, LeaseTimesOut, Send, ReadTimesOut, ToFeignResponse, Decode, Close,
      ConnectFails, SendFails, ConnectionBreaks, Execute, Throw, TryAgain, Goto, TypeOK
<1>2. ASSUME NEW d \in Call, NEW n \in Try, Handle(d, n) \/ Lose(d, n)
      PROVE  UNCHANGED <<pc[c], tries[c]>>
  BY <1>2 DEF Handle, Lose
<1>3. ASSUME NEW method \in Api PROVE ~Execute(c, method)
  BY DEF Execute
<1> QED
  BY <1>1, <1>2, <1>3 DEF Next, StepOf, StepsLeft

\* No call runs for ever, whatever the provider, the network and the other
\* calls do: each of its steps leaves it fewer, and nobody gives it more, so
\* that it ends after at most 5 * (RetryCount + 1) steps.  The retries of
\* HttpClient are the only way back, and each is counted.
THEOREM CallsRunOut ==
  Spec => [][\A c \in Call :
               /\ StepsLeft(c) \in Nat
               /\ StepOf(c) => StepsLeft(c)' < StepsLeft(c)
               /\ pc[c] # "idle" => StepOf(c) \/ StepsLeft(c)' = StepsLeft(c)]_vars
<1> DEFINE RunsOut ==
      \A c \in Call :
        /\ StepsLeft(c) \in Nat
        /\ StepOf(c) => StepsLeft(c)' < StepsLeft(c)
        /\ pc[c] # "idle" => StepOf(c) \/ StepsLeft(c)' = StepsLeft(c)
<1>1. ASSUME TypeOK, NEW c \in Call PROVE StepsLeft(c) \in Nat
  <2>1. RetryCount \in Nat /\ tries[c] \in 0..RetryCount
    BY <1>1, LimitAssumption DEF TypeOK, Try
  <2>2. RetryCount - tries[c] \in Nat
    BY <2>1
  <2> QED
    BY <2>2 DEF StepsLeft
<1>2. IInv /\ [Next]_vars => [RunsOut]_vars
  BY <1>1, OwnStepCounts, OthersCount DEF IInv
<1> HIDE DEF RunsOut
<1>3. Spec => [][RunsOut]_vars
  BY <1>2, Invariance, PTL DEF Spec
<1> QED
  BY <1>3 DEF RunsOut
=============================================================================
