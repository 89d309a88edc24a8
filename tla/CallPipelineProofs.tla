------------------------- MODULE CallPipelineProofs -------------------------
(***************************************************************************)
(* The safety properties of CallPipeline, for any number of calls, any     *)
(* deployments and any network behaviour.  The inductive invariant IInv    *)
(* adds to the properties who holds the mutex (Ownership), what a call     *)
(* knows at each stage of its service (Fresh, Signed, Counted) and what    *)
(* the network may hold of it (Traffic).                                   *)
(***************************************************************************)
EXTENDS CallPipeline, FiniteSetTheorems, TLAPS

\* The stages of a call that may have put a request on the wire.
Dispatching == {"sending", "awaiting"}

\* A call in service is the one at the head of the queue of the mutex.
Ownership == \A c \in Calls : pc[c] \in InService => Holds(c)

\* A call is answered once, at its end.
Unanswered == \A c \in Calls : pc[c] # "answered" => outcome[c] = "none"

\* The guards of a call in service have seen no other call.
Fresh ==
  \A c \in Calls :
    /\ pc[c] = "limiting" => client[c].timestamps = {}
    /\ pc[c] \in {"limiting", "signing", "entering"} =>
         client[c].breaker = NewBreaker

RightCredential(c) ==
  /\ header[c] # NoCredential
  /\ config.transport = "Http" => header[c] = presented[c]
  /\ config.transport = "Stdio" => header[c] = config.operator

\* The header of a call that is past apply_auth_headers is its own, and the
\* cache never holds anything but the operator's credential.
Signed ==
  /\ cached \in {NoCredential, config.operator}
  /\ \A c \in Calls :
       pc[c] \in {"entering", "sending", "awaiting"} => RightCredential(c)

\* Only a call that reached dispatch has requests on the network; they bear
\* its header and no later attempt than its own.
Traffic ==
  \A r \in Sent :
    /\ pc[r.call] \in Dispatching \cup {"answered"}
    /\ outcome[r.call] \notin Refusals
    /\ r.credential = header[r.call]
    /\ r.attempt <= attempt[r.call]
    /\ r.attempt <= config.retry_attempts
    /\ RightCredential(r.call)

\* The loop of dispatch turns at most retry_attempts + 1 times, and an answer
\* under way belongs to the attempt that waits for it.
Counted ==
  \A c \in Calls :
    /\ pc[c] \in Dispatching => attempt[c] <= config.retry_attempts
    /\ outcome[c] = "unreachable" => attempt[c] = config.retry_attempts + 1
    /\ reply[c] # "none" => pc[c] = "awaiting" /\ Request(c) \in executed
    /\ outcome[c] \in UpstreamAnswers => Request(c) \in executed

IInv ==
  /\ TypeOK
  /\ Ownership
  /\ Unanswered
  /\ Fresh
  /\ GuardsForgetOtherCalls
  /\ Signed
  /\ Traffic
  /\ Counted
-----------------------------------------------------------------------------
(* Types of the data that travels.                                         *)

LEMMA RequestTyped ==
  ASSUME TypeOK, NEW c \in Calls
  PROVE  Request(c) \in RequestType
BY DEF TypeOK, Request, RequestType

LEMMA QueueTyped ==
  ASSUME NEW q \in Seq(Calls), NEW c \in Calls
  PROVE  /\ Append(q, c) \in Seq(Calls)
         /\ q # <<>> => Tail(q) \in Seq(Calls)
OBVIOUS

\* A new call in the queue leaves its head where it is.
LEMMA AppendKeepsHead ==
  ASSUME NEW q \in Seq(Calls), NEW c \in Calls
  PROVE  /\ Append(q, c) # <<>>
         /\ q # <<>> => Head(Append(q, c)) = Head(q)
<1>1. Len(Append(q, c)) = Len(q) + 1
  OBVIOUS
<1>2. Len(q) \in Nat /\ Len(<<>>) = 0
  OBVIOUS
<1>3. Append(q, c) # <<>>
  BY <1>1, <1>2
<1>4. q # <<>> => Head(Append(q, c)) = Head(q)
  OBVIOUS
<1> QED
  BY <1>3, <1>4

LEMMA ClientTyped ==
  ASSUME client \in [Calls -> [breaker : BreakerType, timestamps : SUBSET Nat]],
         NEW c \in Calls, NEW b \in BreakerType
  PROVE  [client EXCEPT ![c].breaker = b]
           \in [Calls -> [breaker : BreakerType, timestamps : SUBSET Nat]]
OBVIOUS

LEMMA LimiterChanged ==
  ASSUME client \in [Calls -> [breaker : BreakerType, timestamps : SUBSET Nat]],
         NEW c \in Calls, NEW instants,
         client' = [client EXCEPT ![c].timestamps = instants]
  PROVE  \A d \in Calls :
           /\ client'[d].breaker = client[d].breaker
           /\ d # c => client'[d] = client[d]
OBVIOUS

\* The critical sections of the breaker keep its type.
LEMMA BreakerTyped ==
  /\ NewBreaker \in BreakerType /\ NewBreaker.state = "Closed"
  /\ \A b \in BreakerType : /\ Admit(b) \in BreakerType
                            /\ OnSuccess(b) \in BreakerType
                            /\ \A t \in Nat : OnFailure(b, t) \in BreakerType
<1>1. NewBreaker \in BreakerType /\ NewBreaker.state = "Closed"
  BY DEF NewBreaker, BreakerType, Never
<1>2. ASSUME NEW b \in BreakerType
      PROVE  Admit(b) \in BreakerType /\ OnSuccess(b) \in BreakerType
  BY DEF Admit, OnSuccess, BreakerType
<1>3. ASSUME NEW b \in BreakerType, NEW t \in Nat
      PROVE  OnFailure(b, t) \in BreakerType
  <2> DEFINE counted == [b EXCEPT !.failure_count = b.failure_count + 1]
  <2>1. counted \in BreakerType
    BY DEF BreakerType
  <2>2. OnFailure(b, t)
          \in {counted, [counted EXCEPT !.state = "Open", !.opened_at = t]}
    BY DEF OnFailure
  <2> HIDE DEF counted
  <2> QED
    BY <2>1, <2>2 DEF BreakerType
<1> QED
  BY <1>1, <1>2, <1>3

LEMMA FailureReportTyped ==
  ASSUME TypeOK, NEW c \in Calls, Report(c, TRUE)
  PROVE  /\ client' \in [Calls -> [breaker : BreakerType, timestamps : SUBSET Nat]]
<1>1. client' = [client EXCEPT ![c].breaker = OnFailure(client[c].breaker, clock)]
  BY DEF Report
<1>2. OnFailure(client[c].breaker, clock) \in BreakerType
  BY BreakerTyped DEF TypeOK
<1>3. client' \in [Calls -> [breaker : BreakerType, timestamps : SUBSET Nat]]
  BY <1>1, <1>2, ClientTyped DEF TypeOK
<1> QED
  BY <1>3

LEMMA SuccessReportTyped ==
  ASSUME TypeOK, NEW c \in Calls, Report(c, FALSE)
  PROVE  /\ client' \in [Calls -> [breaker : BreakerType, timestamps : SUBSET Nat]]
<1>1. client' = [client EXCEPT ![c].breaker = OnSuccess(client[c].breaker)]
  BY DEF Report
<1>2. OnSuccess(client[c].breaker) \in BreakerType
  BY BreakerTyped DEF TypeOK
<1>3. client' \in [Calls -> [breaker : BreakerType, timestamps : SUBSET Nat]]
  BY <1>1, <1>2, ClientTyped DEF TypeOK
<1> QED
  BY <1>3

LEMMA InitIInv == Init => IInv
<1> SUFFICES ASSUME Init PROVE IInv
  OBVIOUS
<1> USE DEF Init
<1>1. TypeOK
  BY CallPipelineAssumption, BreakerTyped
  DEF TypeOK, Stages, MaybeCredential, NewClient, CallPipelineAssumption,
      Never, RequestType
<1>2. Ownership /\ Unanswered
  BY DEF Ownership, Unanswered, InService
<1>3. Fresh /\ GuardsForgetOtherCalls
  BY DEF Fresh, GuardsForgetOtherCalls
<1>4. Signed /\ Traffic
  BY DEF Signed, Traffic, Sent
<1>5. Counted
  BY DEF Counted, Dispatching, UpstreamAnswers
<1> QED
  BY <1>1, <1>2, <1>3, <1>4, <1>5 DEF IInv
LEMMA TypeStep ==
  ASSUME TypeOK, Ownership, Next
  PROVE  TypeOK'
<1> USE DEF TypeOK, Stages
<1>0. \A c \in Calls : pc[c] \in InService => auth_queue # <<>>
  BY DEF Ownership, Holds
<1>1. CASE Tick
  BY <1>1 DEF Tick, serviceVars, netVars
<1>2. CASE Quiet
  BY <1>2 DEF Quiet, vars, serviceVars, netVars
<1>3. ASSUME NEW c \in Calls, Arrive(c) PROVE TypeOK'
  BY <1>3 DEF Arrive, Move, serviceVars, netVars
<1>4. ASSUME NEW c \in Calls, Unauthorized(c) PROVE TypeOK'
  BY <1>4 DEF Unauthorized, Move, Refusals, serviceVars, netVars
<1>5. ASSUME NEW c \in Calls, Serve(c) PROVE TypeOK'
  <2> USE DEF Move, Answer, netVars
  <2>1. CASE LookUp(c)
    BY <2>1, QueueTyped DEF LookUp
  <2>2. CASE NotFound(c)
    BY <2>2 DEF NotFound, Refusals, serviceVars
  <2>3. CASE Invalid(c)
    BY <2>3, QueueTyped DEF Invalid, Holds, Refusals
  <2>4. CASE Validate(c)
    BY <2>4, BreakerTyped DEF Validate, NewClient
  <2>5. CASE RateLimitExceeded(c)
    BY <2>5, <1>0, QueueTyped DEF RateLimitExceeded, InService, Refusals
  <2>6. CASE BadUrl(c)
    BY <2>6, <1>0, QueueTyped DEF BadUrl, InService, Refusals, Retained
  <2>7. CASE PassLimiter(c)
    BY <2>7 DEF PassLimiter, Retained
  <2>8. CASE NoCredentials(c)
    BY <2>8, <1>0, QueueTyped DEF NoCredentials, InService, Refusals
  <2>9. CASE Sign(c)
    BY <2>9, CallPipelineAssumption
    DEF Sign, CredentialFor, OperatorCredential, MaybeCredential, ConfigType,
        CallPipelineAssumption
  <2>10. CASE EnterBreaker(c)
    <3>1. Admit(client[c].breaker) \in BreakerType
      BY BreakerTyped
    <3>2. CASE Refuses(client[c].breaker, clock)
      BY <2>10, <3>2, <1>0, QueueTyped DEF EnterBreaker, InService, Refusals
    <3>3. CASE ~Refuses(client[c].breaker, clock)
      <4>1. client' = [client EXCEPT ![c].breaker = Admit(client[c].breaker)]
        BY <2>10, <3>3 DEF EnterBreaker
      <4>2. client' \in [Calls -> [breaker : BreakerType, timestamps : SUBSET Nat]]
        BY <3>1, <4>1, ClientTyped
      <4>3. /\ pc' = [pc EXCEPT ![c] = "sending"]
            /\ attempt' = [attempt EXCEPT ![c] = 0]
            /\ UNCHANGED <<config, clock, presented, cached, header, outcome,
                           auth_queue, netVars, passed>>
        BY <2>10, <3>3 DEF EnterBreaker
      <4> QED
        BY <4>2, <4>3
    <3> QED
      BY <3>2, <3>3
  <2>11. CASE Send(c)
    BY <2>11, RequestTyped DEF Send, serviceVars
  <2>12. CASE Retry(c)
    BY <2>12 DEF Retry
  <2>13. CASE GiveUp(c)
    <3>1. /\ client' \in [Calls -> [breaker : BreakerType, timestamps : SUBSET Nat]]
      BY <2>13, FailureReportTyped DEF GiveUp
    <3>2. /\ pc' = [pc EXCEPT ![c] = "answered"]
          /\ attempt' = [attempt EXCEPT ![c] = @ + 1]
          /\ reply' = [reply EXCEPT ![c] = "none"]
          /\ outcome' = [outcome EXCEPT ![c] = "unreachable"]
          /\ UNCHANGED <<config, clock, presented, cached, header, wire,
                         executed, passed>>
      BY <2>13 DEF GiveUp
    <3>3. auth_queue' \in Seq(Calls)
      BY <2>13, <1>0, QueueTyped DEF GiveUp, InService
    <3> QED
      BY <3>1, <3>2, <3>3
  <2>14. CASE Receive(c)
    <3>1. /\ client' \in [Calls -> [breaker : BreakerType, timestamps : SUBSET Nat]]
      BY <2>14, FailureReportTyped, SuccessReportTyped DEF Receive
    <3>2. auth_queue' \in Seq(Calls)
      BY <2>14, <1>0, QueueTyped DEF Receive, InService
    <3>3. outcome' \in [Calls -> Refusals \cup UpstreamAnswers
                                  \cup {"none", "unreachable"}]
      BY <2>14 DEF Receive, UpstreamAnswers
    <3>4. /\ pc' = [pc EXCEPT ![c] = "answered"]
          /\ reply' = [reply EXCEPT ![c] = "none"]
          /\ UNCHANGED <<config, clock, presented, cached, header, attempt, wire,
                         executed, passed>>
      BY <2>14 DEF Receive
    <3> QED
      BY <3>1, <3>2, <3>3, <3>4
  <2>15. CASE StorageFails(c)
    <3>1. cached' \in MaybeCredential
      BY <2>15, CallPipelineAssumption
      DEF StorageFails, MaybeCredential, ConfigType, CallPipelineAssumption
    <3> QED
      BY <2>15, <3>1, <1>0, QueueTyped DEF StorageFails, InService, Refusals
  <2>16. CASE BadMethod(c)
    <3>1. OnFailure(Admit(client[c].breaker), clock) \in BreakerType
      BY BreakerTyped
    <3>2. client' = [client EXCEPT
                       ![c].breaker = OnFailure(Admit(client[c].breaker), clock)]
      BY <2>16 DEF BadMethod
    <3>3. client' \in [Calls -> [breaker : BreakerType, timestamps : SUBSET Nat]]
      BY <3>1, <3>2, ClientTyped
    <3>4. /\ pc' = [pc EXCEPT ![c] = "answered"]
          /\ outcome' = [outcome EXCEPT ![c] = "bad_method"]
          /\ UNCHANGED <<config, clock, presented, cached, header, attempt,
                         netVars, passed>>
      BY <2>16 DEF BadMethod
    <3>5. auth_queue' \in Seq(Calls)
      BY <2>16, <1>0, QueueTyped DEF BadMethod, InService
    <3> QED
      BY <3>3, <3>4, <3>5 DEF Refusals
  <2> QED
    BY <1>5, <2>1, <2>2, <2>3, <2>4, <2>5, <2>6, <2>7, <2>8, <2>9, <2>10,
       <2>11, <2>12, <2>13, <2>14, <2>15, <2>16 DEF Serve
<1>6. ASSUME NEW r \in wire, Execute(r) PROVE TypeOK'
  <2>1. r \in RequestType /\ r.call \in Calls
    BY DEF RequestType
  <2>2. reply' \in [Calls -> {"none", "success", "error"}]
    BY <1>6, <2>1 DEF Execute
  <2>3. wire' \subseteq RequestType /\ executed' \subseteq RequestType
    BY <1>6, <2>1 DEF Execute
  <2> QED
    BY <1>6, <2>2, <2>3 DEF Execute, serviceVars
<1>7. ASSUME NEW r \in wire, Lose(r) PROVE TypeOK'
  BY <1>7 DEF Lose, serviceVars
<1> QED
  BY <1>1, <1>2, <1>3, <1>4, <1>5, <1>6, <1>7 DEF Next

\* The mutex is handed over only by the call that holds it, when it is
\* answered; a call enters service only when it holds it.
LEMMA OwnershipStep ==
  ASSUME TypeOK, Ownership, Next
  PROVE  Ownership'
<1> USE DEF TypeOK, Ownership, Holds, InService, Move
<1>1. CASE Tick \/ Quiet
  BY <1>1 DEF Tick, Quiet, vars, serviceVars
<1>2. ASSUME NEW r \in wire, Execute(r) \/ Lose(r) PROVE Ownership'
  BY <1>2 DEF Execute, Lose, serviceVars
<1>3. ASSUME NEW c \in Calls, Arrive(c) \/ Unauthorized(c) \/ NotFound(c)
      PROVE Ownership'
  BY <1>3 DEF Arrive, Unauthorized, NotFound, serviceVars
<1>4. ASSUME NEW c \in Calls, LookUp(c) PROVE Ownership'
  <2>1. auth_queue # <<>> =>
          auth_queue' # <<>> /\ Head(auth_queue') = Head(auth_queue)
    <3>1. auth_queue \in Seq(Calls) /\ auth_queue' = Append(auth_queue, c)
      BY <1>4 DEF LookUp
    <3> QED
      BY <3>1, AppendKeepsHead
  <2>2. \A d \in Calls : pc'[d] \in InService => pc[d] \in InService
    BY <1>4 DEF LookUp
  <2> QED
    BY <2>1, <2>2
<1>5. ASSUME NEW c \in Calls, Invalid(c) \/ RateLimitExceeded(c) \/ BadUrl(c)
                                \/ NoCredentials(c) \/ StorageFails(c)
                                \/ BadMethod(c) \/ GiveUp(c) \/ Receive(c)
      PROVE Ownership'
  <2>1. /\ Holds(c)
        /\ pc' = [pc EXCEPT ![c] = "answered"]
    BY <1>5 DEF Invalid, RateLimitExceeded, BadUrl, NoCredentials, StorageFails,
                BadMethod, GiveUp, Receive
  <2> QED
    BY <2>1
<1>6. ASSUME NEW c \in Calls, Validate(c) \/ PassLimiter(c) \/ Sign(c)
                                \/ Send(c) \/ Retry(c)
      PROVE Ownership'
  BY <1>6 DEF Validate, PassLimiter, Sign, Send, Retry, serviceVars
<1>7. ASSUME NEW c \in Calls, EnterBreaker(c) PROVE Ownership'
  <2>1. \A d \in Calls : pc[d] \in InService => d = c
    BY <1>7 DEF EnterBreaker
  <2>2. pc' = [pc EXCEPT ![c] = "answered"]
          \/ (auth_queue' = auth_queue /\ pc' = [pc EXCEPT ![c] = "sending"])
    BY <1>7 DEF EnterBreaker
  <2> QED
    BY <1>7, <2>1, <2>2 DEF EnterBreaker
<1> QED
  BY <1>1, <1>2, <1>3, <1>4, <1>5, <1>6, <1>7 DEF Next, Serve

LEMMA UnansweredStep ==
  ASSUME TypeOK, Unanswered, Next
  PROVE  Unanswered'
<1> USE DEF TypeOK, Unanswered, Move, Answer
<1>1. CASE Tick \/ Quiet
  BY <1>1 DEF Tick, Quiet, vars
<1>2. ASSUME NEW r \in wire, Execute(r) \/ Lose(r) PROVE Unanswered'
  BY <1>2 DEF Execute, Lose
<1>3. ASSUME NEW c \in Calls,
             Arrive(c) \/ LookUp(c) \/ Validate(c) \/ PassLimiter(c) \/ Sign(c)
               \/ Send(c) \/ Retry(c)
      PROVE Unanswered'
  BY <1>3 DEF Arrive, LookUp, Validate, PassLimiter, Sign, Send, Retry
<1>4. ASSUME NEW c \in Calls,
             Unauthorized(c) \/ NotFound(c) \/ Invalid(c) \/ RateLimitExceeded(c)
               \/ BadUrl(c) \/ NoCredentials(c) \/ StorageFails(c)
               \/ BadMethod(c) \/ GiveUp(c) \/ Receive(c)
      PROVE Unanswered'
  <2>1. /\ pc' = [pc EXCEPT ![c] = "answered"]
        /\ \E result : outcome' = [outcome EXCEPT ![c] = result]
    BY <1>4 DEF Unauthorized, NotFound, Invalid, RateLimitExceeded, BadUrl,
                NoCredentials, StorageFails, BadMethod, GiveUp, Receive
  <2> QED
    BY <2>1
<1>5. ASSUME NEW c \in Calls, EnterBreaker(c) PROVE Unanswered'
  BY <1>5 DEF EnterBreaker
<1> QED
  BY <1>1, <1>2, <1>3, <1>4, <1>5 DEF Next, Serve

\* Validate gives the call a client of its own, and until it is refused or
\* dispatched nothing touches that client but its own rate limiter.
LEMMA FreshStep ==
  ASSUME TypeOK, Fresh, GuardsForgetOtherCalls, Next
  PROVE  Fresh' /\ GuardsForgetOtherCalls'
<1> USE DEF TypeOK, Fresh, GuardsForgetOtherCalls, Move, Answer
<1>1. CASE Tick \/ Quiet
  BY <1>1 DEF Tick, Quiet, vars, serviceVars
<1>2. ASSUME NEW r \in wire, Execute(r) \/ Lose(r)
      PROVE Fresh' /\ GuardsForgetOtherCalls'
  BY <1>2 DEF Execute, Lose, serviceVars
<1>3. ASSUME NEW c \in Calls,
             Arrive(c) \/ Unauthorized(c) \/ LookUp(c) \/ NotFound(c)
               \/ Invalid(c) \/ Send(c) \/ Retry(c)
      PROVE Fresh' /\ GuardsForgetOtherCalls'
  BY <1>3 DEF Arrive, Unauthorized, LookUp, NotFound, Invalid, Send, Retry,
              serviceVars
<1>4. ASSUME NEW c \in Calls, Validate(c)
      PROVE Fresh' /\ GuardsForgetOtherCalls'
  BY <1>4 DEF Validate, NewClient
<1>5. ASSUME NEW c \in Calls, RateLimitExceeded(c)
      PROVE Fresh' /\ GuardsForgetOtherCalls'
  <2>1. Retained(c) = {}
    BY <1>5 DEF RateLimitExceeded, Retained
  <2>2. Cardinality(Retained(c)) = 0
    BY <2>1, FS_EmptySet
  <2>3. config.rate_limit = 0
    BY <1>5, <2>2, CallPipelineAssumption
    DEF RateLimitExceeded, Limited, ConfigType, CallPipelineAssumption
  <2> QED
    BY <1>5, <2>3 DEF RateLimitExceeded
<1>6. ASSUME NEW c \in Calls, BadUrl(c) \/ PassLimiter(c)
      PROVE Fresh' /\ GuardsForgetOtherCalls'
  <2>1. client' = [client EXCEPT ![c].timestamps = Retained(c) \cup {clock}]
    BY <1>6 DEF BadUrl, PassLimiter
  <2>2. \A d \in Calls :
          /\ client'[d].breaker = client[d].breaker
          /\ d # c => client'[d] = client[d]
    BY <2>1, LimiterChanged
  <2>3. /\ pc[c] = "limiting"
        /\ config' = config
        /\ \/ /\ pc' = [pc EXCEPT ![c] = "answered"]
              /\ outcome' = [outcome EXCEPT ![c] = "bad_url"]
           \/ /\ pc' = [pc EXCEPT ![c] = "signing"]
              /\ outcome' = outcome
    BY <1>6 DEF BadUrl, PassLimiter
  <2> QED
    BY <2>2, <2>3
<1>7. ASSUME NEW c \in Calls, NoCredentials(c) \/ StorageFails(c) \/ Sign(c)
      PROVE Fresh' /\ GuardsForgetOtherCalls'
  BY <1>7 DEF NoCredentials, StorageFails, Sign
<1>8. ASSUME NEW c \in Calls, EnterBreaker(c)
      PROVE Fresh' /\ GuardsForgetOtherCalls'
  <2>1. ~Refuses(client[c].breaker, clock)
    BY <1>8, BreakerTyped DEF EnterBreaker, Refuses
  <2>2. \A d \in Calls \ {c} : client'[d] = client[d]
    BY <1>8, <2>1 DEF EnterBreaker
  <2>3. /\ pc' = [pc EXCEPT ![c] = "sending"]
        /\ UNCHANGED <<config, outcome>>
    BY <1>8, <2>1 DEF EnterBreaker
  <2> QED
    BY <2>2, <2>3
<1>9. ASSUME NEW c \in Calls, BadMethod(c) \/ GiveUp(c) \/ Receive(c)
      PROVE Fresh' /\ GuardsForgetOtherCalls'
  <2>1. \A d \in Calls \ {c} : client'[d] = client[d]
    BY <1>9 DEF BadMethod, GiveUp, Receive, Report
  <2>2. /\ pc' = [pc EXCEPT ![c] = "answered"]
        /\ \E result \in {"bad_method", "unreachable", "error_status", "value",
                         "null"} :
             outcome' = [outcome EXCEPT ![c] = result]
        /\ config' = config
    BY <1>9 DEF BadMethod, GiveUp, Receive
  <2> QED
    BY <2>1, <2>2
<1> QED
  BY <1>1, <1>2, <1>3, <1>4, <1>5, <1>6, <1>7, <1>8, <1>9 DEF Next, Serve

\* The transport alone decides where a header comes from.
LEMMA SignedStep ==
  ASSUME TypeOK, Signed, Next
  PROVE  Signed'
<1> USE DEF TypeOK, Signed, RightCredential, Move
<1>1. CASE Tick \/ Quiet
  BY <1>1 DEF Tick, Quiet, vars, serviceVars
<1>2. ASSUME NEW r \in wire, Execute(r) \/ Lose(r) PROVE Signed'
  BY <1>2 DEF Execute, Lose, serviceVars
<1>3. ASSUME NEW c \in Calls, Arrive(c) \/ Unauthorized(c) \/ NotFound(c)
      PROVE Signed'
  BY <1>3 DEF Arrive, Unauthorized, NotFound, serviceVars
<1>4. ASSUME NEW c \in Calls,
             LookUp(c) \/ Invalid(c) \/ Validate(c) \/ RateLimitExceeded(c)
               \/ BadUrl(c) \/ PassLimiter(c) \/ NoCredentials(c)
               \/ StorageFails(c)
      PROVE Signed'
  BY <1>4 DEF LookUp, Invalid, Validate, RateLimitExceeded, BadUrl, PassLimiter,
              NoCredentials, StorageFails
<1>5. ASSUME NEW c \in Calls, Sign(c) PROVE Signed'
  <2>1. config.transport \in {"Stdio", "Http"}
    BY CallPipelineAssumption DEF CallPipelineAssumption, ConfigType
  <2> QED
    BY <1>5, <2>1 DEF Sign, CredentialFor, OperatorCredential
<1>6. ASSUME NEW c \in Calls,
             EnterBreaker(c) \/ BadMethod(c) \/ Send(c) \/ Retry(c)
               \/ GiveUp(c) \/ Receive(c)
      PROVE Signed'
  <2>1. /\ pc[c] \in {"entering", "sending", "awaiting"}
        /\ \E stage \in {"sending", "awaiting", "answered"} :
             pc' = [pc EXCEPT ![c] = stage]
        /\ UNCHANGED <<config, presented, cached, header>>
    BY <1>6 DEF EnterBreaker, BadMethod, Send, Retry, GiveUp, Receive,
                serviceVars
  <2> QED
    BY <2>1
<1> QED
  BY <1>1, <1>2, <1>3, <1>4, <1>5, <1>6 DEF Next, Serve

\* Requests reach the network only from dispatch, with the header of the call
\* and its present attempt; what the call does later only adds attempts.
LEMMA TrafficStep ==
  ASSUME TypeOK, Unanswered, Signed, Traffic, Counted, Next
  PROVE  Traffic'
<1> USE DEF Traffic, RightCredential, Move
<1>0. \A r \in Sent : r \in RequestType /\ r.call \in Calls /\ r.attempt \in Nat
  BY DEF TypeOK, Sent, RequestType
<1>1. CASE Tick \/ Quiet
  BY <1>1 DEF Tick, Quiet, vars, serviceVars, netVars, Sent
<1>2. ASSUME NEW r \in wire, Execute(r) \/ Lose(r) PROVE Traffic'
  <2>1. Sent' \subseteq Sent
    BY <1>2 DEF Execute, Lose, Sent
  <2>2. UNCHANGED <<config, pc, outcome, presented, header, attempt>>
    BY <1>2 DEF Execute, Lose, serviceVars
  <2> QED
    BY <2>1, <2>2
<1>3. ASSUME NEW c \in Calls,
             Arrive(c) \/ Unauthorized(c) \/ LookUp(c) \/ NotFound(c)
               \/ Invalid(c) \/ Validate(c) \/ RateLimitExceeded(c) \/ BadUrl(c)
               \/ PassLimiter(c) \/ NoCredentials(c) \/ StorageFails(c)
               \/ Sign(c) \/ EnterBreaker(c) \/ BadMethod(c)
      PROVE Traffic'
  <2>1. pc[c] \notin Dispatching \cup {"answered"}
    BY <1>3 DEF Arrive, Unauthorized, LookUp, NotFound, Invalid, Validate,
                RateLimitExceeded, BadUrl, PassLimiter, NoCredentials,
                StorageFails, Sign, EnterBreaker, BadMethod, Dispatching
  <2>2. \A r \in Sent : r.call # c
    BY <2>1
  <2>3. Sent' = Sent /\ config' = config
    BY <1>3 DEF Arrive, Unauthorized, LookUp, NotFound, Invalid, Validate,
                RateLimitExceeded, BadUrl, PassLimiter, NoCredentials,
                StorageFails, Sign, EnterBreaker, BadMethod, netVars, Sent
  <2>4. \A d \in Calls \ {c} :
          /\ pc'[d] = pc[d] /\ outcome'[d] = outcome[d]
          /\ presented'[d] = presented[d] /\ header'[d] = header[d]
          /\ attempt'[d] = attempt[d]
    BY <1>3 DEF TypeOK, Arrive, Unauthorized, LookUp, NotFound, Invalid, Validate,
                RateLimitExceeded, BadUrl, PassLimiter, NoCredentials,
                StorageFails, Sign, EnterBreaker, BadMethod, Answer, serviceVars
  <2> QED
    BY <1>0, <2>2, <2>3, <2>4
<1>4. ASSUME NEW c \in Calls, Send(c) PROVE Traffic'
  <2>1. /\ pc[c] = "sending"
        /\ pc' = [pc EXCEPT ![c] = "awaiting"]
        /\ Sent' = Sent \cup {Request(c)}
        /\ UNCHANGED <<config, outcome, presented, header, attempt>>
    BY <1>4 DEF Send, Sent, serviceVars
  <2>2. \A r \in Sent : pc'[r.call] \in Dispatching \cup {"answered"}
    BY <1>0, <2>1 DEF TypeOK, Dispatching
  <2>3. /\ Request(c).call = c
        /\ Request(c).attempt = attempt[c]
        /\ Request(c).credential = header[c]
    BY DEF Request
  <2>4. /\ pc'[c] = "awaiting"
        /\ outcome[c] = "none"
        /\ attempt[c] \in Nat
        /\ attempt[c] <= config.retry_attempts
        /\ RightCredential(c)
    BY <2>1 DEF TypeOK, Unanswered, Counted, Signed, Dispatching
  <2> QED
    BY <2>1, <2>2, <2>3, <2>4 DEF Dispatching, Refusals
<1>5. ASSUME NEW c \in Calls, Retry(c) \/ GiveUp(c) \/ Receive(c) PROVE Traffic'
  <2>1. \E stage \in Dispatching \cup {"answered"} :
          pc' = [pc EXCEPT ![c] = stage]
    BY <1>5 DEF Retry, GiveUp, Receive, Dispatching
  <2>2. \E result \in {"unreachable", "error_status", "value", "null"} :
          outcome' = outcome \/ outcome' = [outcome EXCEPT ![c] = result]
    BY <1>5 DEF Retry, GiveUp, Receive, Answer
  <2>3. attempt' = attempt \/ attempt' = [attempt EXCEPT ![c] = @ + 1]
    BY <1>5 DEF Retry, GiveUp, Receive
  <2>4. Sent' = Sent /\ UNCHANGED <<config, presented, header>>
    BY <1>5 DEF Retry, GiveUp, Receive, Sent
  <2>5. ASSUME NEW r \in Sent
        PROVE  /\ pc'[r.call] \in Dispatching \cup {"answered"}
               /\ outcome'[r.call] \notin Refusals
               /\ r.attempt <= attempt'[r.call]
    BY <1>0, <2>1, <2>2, <2>3, <2>5 DEF TypeOK, Refusals
  <2> QED
    BY <2>4, <2>5
<1> QED
  BY <1>1, <1>2, <1>3, <1>4, <1>5 DEF Next, Serve

\* The counter never passes the limit while the loop turns, and an answer is
\* believed only by the attempt it belongs to.
LEMMA CountedStep ==
  ASSUME TypeOK, Unanswered, Fresh, Traffic, Counted, Next
  PROVE  Counted'
<1> USE DEF Counted, Dispatching, UpstreamAnswers, Move
<1>0. config.retry_attempts \in Nat
  BY CallPipelineAssumption DEF TypeOK, CallPipelineAssumption, ConfigType
<1>1. CASE Tick \/ Quiet
  BY <1>1 DEF Tick, Quiet, vars, serviceVars, netVars, Request
<1>2. ASSUME NEW r \in wire, Execute(r) PROVE Counted'
  <2>1. /\ executed' = executed \cup {r}
        /\ UNCHANGED <<config, pc, outcome, attempt, header>>
    BY <1>2 DEF Execute, serviceVars
  <2>2. \A c \in Calls : Request(c)' = Request(c)
    BY <2>1 DEF Request
  <2>3. r \in RequestType /\ r.credential = header[r.call]
    BY DEF TypeOK, Traffic, Sent
  <2>4. CASE pc[r.call] = "awaiting" /\ attempt[r.call] = r.attempt
    <3>1. r = Request(r.call)
      BY <2>3, <2>4 DEF RequestType, Request
    <3>2. \A c \in Calls \ {r.call} : reply'[c] = reply[c]
      BY <1>2, <2>4 DEF TypeOK, Execute
    <3> QED
      BY <2>1, <2>2, <2>4, <3>1, <3>2
  <2>5. CASE ~(pc[r.call] = "awaiting" /\ attempt[r.call] = r.attempt)
    <3>1. reply' = reply
      BY <1>2, <2>5 DEF Execute
    <3> QED
      BY <2>1, <2>2, <3>1
  <2> QED
    BY <2>4, <2>5
<1>3. ASSUME NEW r \in wire, Lose(r) PROVE Counted'
  BY <1>3 DEF Lose, serviceVars, Request
<1>4. ASSUME NEW c \in Calls,
             Arrive(c) \/ Unauthorized(c) \/ LookUp(c) \/ NotFound(c)
               \/ Invalid(c) \/ Validate(c) \/ RateLimitExceeded(c) \/ BadUrl(c)
               \/ PassLimiter(c) \/ NoCredentials(c) \/ StorageFails(c)
               \/ Sign(c) \/ EnterBreaker(c) \/ BadMethod(c)
      PROVE Counted'
  <2>1. /\ pc[c] \notin {"sending", "awaiting", "answered"}
        /\ reply[c] = "none"
    BY <1>4 DEF Arrive, Unauthorized, LookUp, NotFound, Invalid, Validate,
                RateLimitExceeded, BadUrl, PassLimiter, NoCredentials,
                StorageFails, Sign, EnterBreaker, BadMethod
  <2>2. UNCHANGED <<config, executed, reply>>
    BY <1>4 DEF Arrive, Unauthorized, LookUp, NotFound, Invalid, Validate,
                RateLimitExceeded, BadUrl, PassLimiter, NoCredentials,
                StorageFails, Sign, EnterBreaker, BadMethod, netVars
  <2>3. \A d \in Calls \ {c} :
          /\ pc'[d] = pc[d] /\ outcome'[d] = outcome[d]
          /\ header'[d] = header[d] /\ attempt'[d] = attempt[d]
    BY <1>4 DEF TypeOK, Arrive, Unauthorized, LookUp, NotFound, Invalid, Validate,
                RateLimitExceeded, BadUrl, PassLimiter, NoCredentials,
                StorageFails, Sign, EnterBreaker, BadMethod, Answer, serviceVars
  <2>4. /\ pc'[c] \in Dispatching => attempt'[c] = 0
        /\ outcome'[c] \in Refusals \cup {"none"}
    BY <1>4 DEF TypeOK, Unanswered, Arrive, Unauthorized, LookUp, NotFound,
                Invalid, Validate, RateLimitExceeded, BadUrl, PassLimiter,
                NoCredentials, StorageFails, Sign, EnterBreaker, BadMethod,
                Answer, Refusals, serviceVars
  <2>5. \A d \in Calls \ {c} : Request(d)' = Request(d)
    BY <2>3 DEF Request
  <2> QED
    BY <1>0, <2>1, <2>2, <2>3, <2>4, <2>5 DEF Refusals
<1>5. ASSUME NEW c \in Calls, Send(c) PROVE Counted'
  BY <1>5 DEF TypeOK, Send, serviceVars, Request
<1>6. ASSUME NEW c \in Calls, Retry(c) PROVE Counted'
  <2>1. /\ pc[c] \in {"sending", "awaiting"}
        /\ pc' = [pc EXCEPT ![c] = "sending"]
        /\ attempt' = [attempt EXCEPT ![c] = @ + 1]
        /\ reply' = [reply EXCEPT ![c] = "none"]
        /\ attempt[c] + 1 <= config.retry_attempts
        /\ UNCHANGED <<config, outcome, header, executed>>
    BY <1>6 DEF Retry, MoreAttempts
  <2>2. outcome[c] = "none"
    BY <2>1 DEF Unanswered
  <2>3. \A d \in Calls \ {c} : Request(d)' = Request(d)
    BY <2>1 DEF Request, TypeOK
  <2> QED
    BY <2>1, <2>2, <2>3 DEF TypeOK
<1>7. ASSUME NEW c \in Calls, GiveUp(c) PROVE Counted'
  <2>1. /\ pc[c] \in {"sending", "awaiting"}
        /\ pc' = [pc EXCEPT ![c] = "answered"]
        /\ attempt' = [attempt EXCEPT ![c] = @ + 1]
        /\ reply' = [reply EXCEPT ![c] = "none"]
        /\ outcome' = [outcome EXCEPT ![c] = "unreachable"]
        /\ ~(attempt[c] + 1 <= config.retry_attempts)
        /\ UNCHANGED <<config, header, executed>>
    BY <1>7 DEF GiveUp, MoreAttempts, Answer
  <2>2. attempt'[c] = config.retry_attempts + 1
    BY <1>0, <2>1 DEF TypeOK
  <2>3. \A d \in Calls \ {c} : Request(d)' = Request(d)
    BY <2>1 DEF Request, TypeOK
  <2> QED
    BY <2>1, <2>2, <2>3 DEF TypeOK
<1>8. ASSUME NEW c \in Calls, Receive(c) PROVE Counted'
  <2>1. /\ reply[c] # "none"
        /\ pc' = [pc EXCEPT ![c] = "answered"]
        /\ reply' = [reply EXCEPT ![c] = "none"]
        /\ \E result \in UpstreamAnswers :
             outcome' = [outcome EXCEPT ![c] = result]
        /\ UNCHANGED <<config, attempt, header, executed>>
    BY <1>8 DEF Receive, Answer
  <2>2. \A d \in Calls : Request(d)' = Request(d)
    BY <2>1 DEF Request
  <2> QED
    BY <2>1, <2>2 DEF TypeOK
<1> QED
  BY <1>1, <1>2, <1>3, <1>4, <1>5, <1>6, <1>7, <1>8 DEF Next, Serve
-----------------------------------------------------------------------------
LEMMA Inductive == Spec => []IInv
<1>1. IInv /\ [Next]_vars => IInv'
  <2> SUFFICES ASSUME IInv, [Next]_vars PROVE IInv'
    OBVIOUS
  <2>1. CASE Next
    BY <2>1, TypeStep, OwnershipStep, UnansweredStep, FreshStep, SignedStep,
       TrafficStep, CountedStep DEF IInv
  <2>2. CASE UNCHANGED vars
    <3> USE <2>2 DEF vars, serviceVars, netVars
    <3>1. TypeOK'
      BY DEF IInv, TypeOK
    <3>2. Ownership' /\ Unanswered'
      BY DEF IInv, Ownership, Unanswered, Holds
    <3>3. Fresh' /\ GuardsForgetOtherCalls'
      BY DEF IInv, Fresh, GuardsForgetOtherCalls
    <3>4. Signed'
      BY DEF IInv, Signed, RightCredential
    <3>5. Traffic'
      BY DEF IInv, Traffic, RightCredential, Sent
    <3>6. Counted'
      BY DEF IInv, Counted, Request
    <3> QED
      BY <3>1, <3>2, <3>3, <3>4, <3>5, <3>6 DEF IInv
  <2> QED
    BY <2>1, <2>2
<1> QED
  BY InitIInv, <1>1, PTL DEF Spec

\* Every reachable state is well typed (all of CallPipeline's state).
THEOREM TypeCorrect == Spec => []TypeOK
BY Inductive, PTL DEF IInv

\* However many sessions share the server, the mutex keeps all but one of
\* their calls out of call_operation.
THEOREM OneInService == Spec => []OneCallInService
<1>1. IInv => OneCallInService
  BY DEF IInv, Ownership, Holds, OneCallInService
<1> QED
  BY Inductive, <1>1, PTL

\* No interleaving of sessions gives a request another call's credential, or
\* over HTTP the operator's (apply_auth_headers).
THEOREM CredentialsKeptApart == Spec => []OwnCredential
<1>1. IInv => OwnCredential
  BY DEF IInv, Traffic, RightCredential, OwnCredential
<1> QED
  BY Inductive, <1>1, PTL

\* The answer of a call is true of what happened at the target API, for any
\* retry_attempts and any loss or delay in the network.
THEOREM OutcomeIsTrue == Spec => []OutcomeTellsEffects
<1>1. IInv => OutcomeTellsEffects
  BY DEF IInv, Traffic, Counted, OutcomeTellsEffects, SentBy
<1> QED
  BY Inductive, <1>1, PTL

\* A client per call makes the breaker and the limiter blind to other calls.
THEOREM GuardsArePerCall == Spec => []GuardsForgetOtherCalls
BY Inductive, PTL DEF IInv
=============================================================================
