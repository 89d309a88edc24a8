---------------------------- MODULE CallPipeline ----------------------------
(***************************************************************************)
(* The tool `call`, from the JSON-RPC message to the answer: the HTTP gate *)
(* (src/http/server.rs), McpifyServer::call (src/core/mcp_server.rs), the  *)
(* auth_manager mutex every session shares, call_operation                 *)
(* (src/tools/call_tool.rs), ApiClient::execute with its rate limiter,     *)
(* credentials, circuit breaker and retry loop                             *)
(* (src/services/api_client.rs), and the target API with the network in    *)
(* between, which may lose requests and answers and may run a request long *)
(* after the server gave up on it.                                         *)
(*                                                                         *)
(* The mutex is a tokio mutex: it is handed over in the order of the       *)
(* requests, so it is a queue whose head holds it.  call_operation builds  *)
(* an ApiClient per call; client[c] is the one of call c.                  *)
(***************************************************************************)
EXTENDS BreakerState, Sequences, FiniteSets

CONSTANTS
  Calls,           \* tools/call messages, each received once
  Credentials,     \* authorization values, of callers and of the operator
  NoCredential,    \* their absence
  Configs,         \* the deployments: see ConfigType
  RateWindow,      \* the window of ApiClient::new, one second, in ticks
  MaxClock         \* bound of the model: the last instant

MaybeCredential == Credentials \cup {NoCredential}

\* operator: what environment, keychain or file hold on the server's host.
\* url_ok: whether config.url parses, which nothing checks before a call.
ConfigType ==
  [transport : {"Stdio", "Http"},
   rate_limit : Nat,
   retry_attempts : Nat,
   url_ok : BOOLEAN,
   operator : MaybeCredential]

ASSUME CallPipelineAssumption ==
  /\ NoCredential \notin Credentials
  /\ Configs \subseteq ConfigType
  /\ RateWindow \in Nat \ {0}
  /\ MaxClock \in Nat

VARIABLES
  config,        \* the Config loaded at startup
  clock,         \* what Instant::now() reads
  pc,            \* the stage each call is in
  outcome,       \* how each call was answered
  presented,     \* the credential its HTTP request carried
  auth_queue,    \* the calls that hold or await the auth_manager mutex
  cached,        \* AuthManager::cached_credentials
  client,        \* the ApiClient of each call
  header,        \* the credential header of each call, once it has one
  attempt,       \* the attempt counter of dispatch
  wire,          \* requests under way to the target API
  executed,      \* history: requests the target API carried out
  reply,         \* the answer under way to each call's open request
  passed         \* history: when each call passed its rate limiter

netVars == <<wire, executed, reply>>
serviceVars == <<auth_queue, cached, client, header, attempt>>
vars == <<config, clock, pc, outcome, presented, serviceVars, netVars,
          passed>>

NewClient == [breaker |-> NewBreaker, timestamps |-> {}]

Request(c) == [call |-> c, attempt |-> attempt[c], credential |-> header[c]]

Init ==
  /\ config \in Configs
  /\ clock = 0
  /\ pc = [c \in Calls |-> "client"]
  /\ outcome = [c \in Calls |-> "none"]
  /\ presented = [c \in Calls |-> NoCredential]
  /\ auth_queue = <<>>
  /\ cached = NoCredential
  /\ client = [c \in Calls |-> NewClient]
  /\ header = [c \in Calls |-> NoCredential]
  /\ attempt = [c \in Calls |-> 0]
  /\ wire = {}
  /\ executed = {}
  /\ reply = [c \in Calls |-> "none"]
  /\ passed = [c \in Calls |-> Never]

Move(c, from, to) == pc[c] = from /\ pc' = [pc EXCEPT ![c] = to]

Tick ==
  /\ clock < MaxClock
  /\ clock' = clock + 1
  /\ UNCHANGED <<config, pc, outcome, presented, serviceVars, netVars,
                 passed>>
-----------------------------------------------------------------------------
(* Before the mutex.                                                       *)

\* A message with a credential, or from the loopback interface, or over
\* stdio, reaches the handler; extract_request_credentials reads it there.
Arrive(c) ==
  /\ Move(c, "client", "lookup")
  /\ \E credential \in MaybeCredential, loopback \in BOOLEAN :
       /\ config.transport = "Stdio" => credential = NoCredential
       /\ config.transport = "Http" => loopback \/ credential # NoCredential
       /\ presented' = [presented EXCEPT ![c] = credential]
  /\ UNCHANGED <<config, clock, outcome, serviceVars, netVars, passed>>

\* auth_gate answers 401 to any other message.
Unauthorized(c) ==
  /\ config.transport = "Http"
  /\ Move(c, "client", "answered")
  /\ outcome' = [outcome EXCEPT ![c] = "unauthorized"]
  /\ UNCHANGED <<config, clock, presented, serviceVars, netVars, passed>>

\* get_endpoint finds the operation; auth_manager.lock() is asked for.
LookUp(c) ==
  /\ Move(c, "lookup", "locking")
  /\ auth_queue' = Append(auth_queue, c)
  /\ UNCHANGED <<config, clock, outcome, presented, cached, client, header,
                 attempt, netVars, passed>>

\* get_endpoint does not find it, or the store cannot be opened.
NotFound(c) ==
  /\ Move(c, "lookup", "answered")
  /\ outcome' = [outcome EXCEPT ![c] = "not_found"]
  /\ UNCHANGED <<config, clock, presented, serviceVars, netVars, passed>>
-----------------------------------------------------------------------------
(* Under the mutex: call_operation.                                        *)

Holds(c) == auth_queue # <<>> /\ Head(auth_queue) = c

\* The handler answers and the guard of auth_manager is dropped.
Answer(c, result) ==
  /\ outcome' = [outcome EXCEPT ![c] = result]
  /\ auth_queue' = Tail(auth_queue)

\* validate_input rejects the arguments.
Invalid(c) ==
  /\ Holds(c)
  /\ Move(c, "locking", "answered")
  /\ Answer(c, "invalid")
  /\ UNCHANGED <<config, clock, presented, cached, client, header, attempt,
                 netVars, passed>>

\* validate_input accepts them: ApiClient::new(config.clone()).
Validate(c) ==
  /\ Holds(c)
  /\ Move(c, "locking", "limiting")
  /\ client' = [client EXCEPT ![c] = NewClient]
  /\ UNCHANGED <<config, clock, outcome, presented, auth_queue, cached, header,
                 attempt, netVars, passed>>

\* RateLimiter::acquire of this client.  Nobody else has this limiter, so the
\* clock cannot be read by one call and the lock taken by another before it.
Retained(c) == {t \in client[c].timestamps : clock - t < RateWindow}
Limited(c) == Cardinality(Retained(c)) >= config.rate_limit

RateLimitExceeded(c) ==
  /\ Limited(c)
  /\ Move(c, "limiting", "answered")
  /\ Answer(c, "rate_limited")
  /\ UNCHANGED <<config, clock, presented, cached, client, header, attempt,
                 netVars, passed>>

\* The permit is taken, then build_api_url fails on config.url.
BadUrl(c) ==
  /\ ~Limited(c)
  /\ ~config.url_ok
  /\ Move(c, "limiting", "answered")
  /\ Answer(c, "bad_url")
  /\ client' = [client EXCEPT ![c].timestamps = Retained(c) \cup {clock}]
  /\ passed' = [passed EXCEPT ![c] = clock]
  /\ UNCHANGED <<config, clock, presented, cached, header, attempt, netVars>>

PassLimiter(c) ==
  /\ ~Limited(c)
  /\ config.url_ok
  /\ Move(c, "limiting", "signing")
  /\ client' = [client EXCEPT ![c].timestamps = Retained(c) \cup {clock}]
  /\ passed' = [passed EXCEPT ![c] = clock]
  /\ UNCHANGED <<config, clock, outcome, presented, auth_queue, cached, header,
                 attempt, netVars>>

\* AuthManager::credentials: the cache, then what the host holds.
OperatorCredential ==
  IF cached # NoCredential THEN cached ELSE config.operator

\* Mutant: over HTTP the operator's credential stands in for a missing one.
CredentialForFallback(c) ==
  IF config.transport = "Http" /\ presented[c] # NoCredential
    THEN presented[c] ELSE OperatorCredential

\* The value apply_auth_headers puts in the header, by transport.
CredentialFor(c) ==
  IF config.transport = "Http" THEN presented[c] ELSE OperatorCredential

\* apply_auth_headers fails: no override over HTTP, NoActiveCredentials.
NoCredentials(c) ==
  /\ CredentialFor(c) = NoCredential
  /\ Move(c, "signing", "answered")
  /\ Answer(c, "no_credentials")
  /\ UNCHANGED <<config, clock, presented, cached, client, header, attempt,
                 netVars, passed>>

\* apply_auth_headers succeeds; over stdio the credential is cached.
Sign(c) ==
  /\ CredentialFor(c) # NoCredential
  /\ Move(c, "signing", "entering")
  /\ header' = [header EXCEPT ![c] = CredentialFor(c)]
  /\ cached' = IF config.transport = "Stdio" THEN OperatorCredential ELSE cached
  /\ UNCHANGED <<config, clock, outcome, presented, auth_queue, client, attempt,
                 netVars, passed>>

\* The keychain or the file holds the credential and cannot be read, or what
\* was read cannot be saved back: then it is cached already, and only this call
\* fails.
StorageFails(c) ==
  /\ config.transport = "Stdio"
  /\ cached = NoCredential /\ config.operator # NoCredential
  /\ Move(c, "signing", "answered")
  /\ Answer(c, "storage_failed")
  /\ cached' \in {NoCredential, config.operator}
  /\ UNCHANGED <<config, clock, presented, client, header, attempt, netVars,
                 passed>>

\* CircuitBreaker::execute of this client, its first critical section, and
\* the first line of dispatch.
EnterBreaker(c) ==
  /\ IF Refuses(client[c].breaker, clock)
       THEN /\ Move(c, "entering", "answered")
            /\ Answer(c, "breaker_open")
            /\ UNCHANGED <<client, attempt>>
       ELSE /\ Move(c, "entering", "sending")
            /\ client' = [client EXCEPT ![c].breaker = Admit(@)]
            /\ attempt' = [attempt EXCEPT ![c] = 0]
            /\ UNCHANGED <<outcome, auth_queue>>
  /\ UNCHANGED <<config, clock, presented, cached, header, netVars, passed>>

\* The breaker admits the call, and dispatch finds that the catalog's method is
\* none: a failure to the breaker, though nothing was sent.
BadMethod(c) ==
  /\ ~Refuses(client[c].breaker, clock)
  /\ Move(c, "entering", "answered")
  /\ Answer(c, "bad_method")
  /\ client' = [client EXCEPT ![c].breaker = OnFailure(Admit(@), clock)]
  /\ UNCHANGED <<config, clock, presented, cached, header, attempt, netVars,
                 passed>>

\* One turn of the loop of dispatch puts a request on the wire.
Send(c) ==
  /\ Move(c, "sending", "awaiting")
  /\ wire' = wire \cup {Request(c)}
  /\ UNCHANGED <<config, clock, outcome, presented, serviceVars, executed, reply,
                 passed>>

\* The breaker learns how the call ended; the client is dropped with it.
Report(c, failed) ==
  /\ client' = [client EXCEPT ![c].breaker =
                  IF failed THEN OnFailure(@, clock) ELSE OnSuccess(@)]

\* Mutant: off by one, the limit itself still counts as an attempt.
MoreAttemptsOff(c) == attempt[c] <= config.retry_attempts

\* send() fails: the connection could not be made, broke, or timed out.  The
\* request may still be on the wire or carried out, its answer is lost.
MoreAttempts(c) == attempt[c] + 1 <= config.retry_attempts

\* Mutant: the attempt is not counted.
RetryForever(c) ==
  /\ MoreAttempts(c)
  /\ pc[c] \in {"sending", "awaiting"}
  /\ pc' = [pc EXCEPT ![c] = "sending"]
  /\ reply' = [reply EXCEPT ![c] = "none"]
  /\ UNCHANGED <<config, clock, outcome, presented, serviceVars, wire, executed,
                 passed>>

Retry(c) ==
  /\ MoreAttempts(c)
  /\ pc[c] \in {"sending", "awaiting"}
  /\ pc' = [pc EXCEPT ![c] = "sending"]
  /\ attempt' = [attempt EXCEPT ![c] = @ + 1]
  /\ reply' = [reply EXCEPT ![c] = "none"]
  /\ UNCHANGED <<config, clock, outcome, presented, auth_queue, cached, client,
                 header, wire, executed, passed>>

GiveUp(c) ==
  /\ ~MoreAttempts(c)
  /\ pc[c] \in {"sending", "awaiting"}
  /\ pc' = [pc EXCEPT ![c] = "answered"]
  /\ attempt' = [attempt EXCEPT ![c] = @ + 1]
  /\ reply' = [reply EXCEPT ![c] = "none"]
  /\ Answer(c, "unreachable")
  /\ Report(c, TRUE)
  /\ UNCHANGED <<config, clock, presented, cached, header, wire, executed,
                 passed>>

\* The head of the answer arrives.  An error status ends the call at once.
\* Otherwise the body is read: when that fails or is not JSON, the value is
\* Null and the call succeeds all the same; validate_output only logs.
Receive(c) ==
  /\ reply[c] # "none"
  /\ Move(c, "awaiting", "answered")
  /\ reply' = [reply EXCEPT ![c] = "none"]
  /\ \/ /\ reply[c] = "error"
        /\ Answer(c, "error_status")
        /\ Report(c, TRUE)
     \/ /\ reply[c] = "success"
        /\ \E result \in {"value", "null"} : Answer(c, result)
        /\ Report(c, FALSE)
  /\ UNCHANGED <<config, clock, presented, cached, header, attempt, wire,
                 executed, passed>>
-----------------------------------------------------------------------------
(* The network and the target API.                                         *)

\* The target API carries out a request, now or long after the server gave
\* up on it; its answer is under way if the request is still open.
Execute(r) ==
  /\ r \in wire
  /\ wire' = wire \ {r}
  /\ executed' = executed \cup {r}
  /\ IF pc[r.call] = "awaiting" /\ attempt[r.call] = r.attempt
       THEN \E status \in {"success", "error"} :
              reply' = [reply EXCEPT ![r.call] = status]
       ELSE UNCHANGED reply
  /\ UNCHANGED <<config, clock, pc, outcome, presented, serviceVars, passed>>

Lose(r) ==
  /\ r \in wire
  /\ wire' = wire \ {r}
  /\ UNCHANGED <<config, clock, pc, outcome, presented, serviceVars, executed,
                 reply, passed>>
-----------------------------------------------------------------------------
Serve(c) ==
  \/ LookUp(c) \/ NotFound(c)
  \/ Invalid(c) \/ Validate(c)
  \/ RateLimitExceeded(c) \/ BadUrl(c) \/ PassLimiter(c)
  \/ NoCredentials(c) \/ StorageFails(c) \/ Sign(c)
  \/ EnterBreaker(c) \/ BadMethod(c)
  \/ Send(c) \/ Retry(c) \/ GiveUp(c) \/ Receive(c)

AllAnswered == \A c \in Calls : pc[c] = "answered"

\* Every message was answered and the network is empty: the model may stop.
Quiet == AllAnswered /\ wire = {} /\ clock = MaxClock /\ UNCHANGED vars

Next ==
  \/ Tick
  \/ Quiet
  \/ \E c \in Calls : Arrive(c) \/ Unauthorized(c) \/ Serve(c)
  \/ \E r \in wire : Execute(r) \/ Lose(r)

Spec == Init /\ [][Next]_vars

\* The runtime polls every handler that can go on; send() comes back with an
\* answer or, at the latest, with the timeout of the request.
Fairness == \A c \in Calls : WF_vars(Serve(c))

FairSpec == Spec /\ Fairness
-----------------------------------------------------------------------------
Stages == {"client", "lookup", "locking", "limiting", "signing", "entering",
           "sending", "awaiting", "answered"}

InService == {"limiting", "signing", "entering", "sending", "awaiting"}

\* Answers given before anything was sent, and answers of the target API.
Refusals == {"unauthorized", "not_found", "invalid", "rate_limited", "bad_url",
             "no_credentials", "storage_failed", "breaker_open", "bad_method"}
UpstreamAnswers == {"value", "null", "error_status"}

RequestType ==
  [call : Calls, attempt : Nat, credential : MaybeCredential]

TypeOK ==
  /\ config \in Configs
  /\ clock \in Nat
  /\ pc \in [Calls -> Stages]
  /\ outcome \in [Calls -> Refusals \cup UpstreamAnswers
                             \cup {"none", "unreachable"}]
  /\ presented \in [Calls -> MaybeCredential]
  /\ auth_queue \in Seq(Calls)
  /\ cached \in MaybeCredential
  /\ client \in [Calls -> [breaker : BreakerType, timestamps : SUBSET Nat]]
  /\ header \in [Calls -> MaybeCredential]
  /\ attempt \in [Calls -> Nat]
  /\ wire \subseteq RequestType
  /\ executed \subseteq RequestType
  /\ reply \in [Calls -> {"none", "success", "error"}]
  /\ passed \in [Calls -> Nat \cup {Never}]

Sent == wire \cup executed
SentBy(c) == {r \in Sent : r.call = c}

\* Sessions share one mutex and it is held across the HTTP request, its
\* retries included: no two calls of the process are in service at once
\* (McpifyServer::call).
OneCallInService ==
  \A c, d \in Calls : pc[c] \in InService /\ pc[d] \in InService => c = d

\* Over HTTP every request that ever reaches the network bears the credential
\* of the very message that caused it, over stdio the operator's; neither the
\* cache, nor the host's own credential, nor another session's can get in
\* (apply_auth_headers, called under the shared AuthManager).
OwnCredential ==
  \A r \in Sent :
    /\ r.credential # NoCredential
    /\ config.transport = "Http" => r.credential = presented[r.call]
    /\ config.transport = "Stdio" => r.credential = config.operator

\* What the answer tells the client about effects at the target API is true:
\* a refusal means nothing was sent, an answer of the API means that the
\* attempt it belongs to was carried out, "unreachable" means that each
\* attempt was made and lost; and no call is sent more often than
\* retry_attempts + 1 times (execute and dispatch, api_client.rs).
OutcomeTellsEffects ==
  \A c \in Calls :
    /\ outcome[c] \in Refusals => SentBy(c) = {}
    /\ outcome[c] \in UpstreamAnswers => Request(c) \in executed
    /\ outcome[c] = "unreachable" => attempt[c] = config.retry_attempts + 1
    /\ \A r \in SentBy(c) :
         r.attempt <= attempt[c] /\ r.attempt <= config.retry_attempts

\* With a client per call no guard can turn a call away for what other calls
\* did: the breaker never refuses, and the limiter only when rate_limit is
\* zero (call_operation builds the ApiClient, call_tool.rs:41).
GuardsForgetOtherCalls ==
  \A c \in Calls :
    /\ outcome[c] # "breaker_open"
    /\ outcome[c] = "rate_limited" => config.rate_limit = 0

\* Every message is answered, whatever the network does (dispatch's timeout
\* and counter, and the mutex that is handed over when a call ends).
EveryCallAnswered ==
  \A c \in Calls : pc[c] = "lookup" ~> pc[c] = "answered"
-----------------------------------------------------------------------------
(* What the README says of the calls of one server together.               *)

PassedWithin(x) ==
  {c \in Calls : x <= passed[c] /\ passed[c] < x + RateWindow}

\* README.md:190,196: "Every outbound call to the target API [...] passes
\* through a rate limiter", "100 calls; window is hardcoded to 1 second".
RateLimitHolds ==
  \A x \in 0..MaxClock : Cardinality(PassedWithin(x)) <= config.rate_limit
=============================================================================
