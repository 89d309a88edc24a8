---------------------------- MODULE ToolService ----------------------------
(***************************************************************************)
(* The three tools of a server (src/core/mcp_server.rs) and what the       *)
(* requests of all its sessions share: the in-memory catalog behind a      *)
(* std mutex, the embedding model, and the caches of compiled schemas.     *)
(* Each request is a task of the runtime; it holds a worker thread while   *)
(* it works and while it waits for the catalog, and a panic ends it        *)
(* without an answer and poisons the mutexes it holds.                     *)
(*                                                                         *)
(* A search keeps the catalog locked while the model is loaded and used,   *)
(* so that no two requests ever meet at the model.  What happens to a call *)
(* between its two validations is in CallPipeline.  The model may be out   *)
(* of reach or within reach (MaxChanges changes), and may panic MaxPanics  *)
(* times.                                                                  *)
(***************************************************************************)
EXTENDS Naturals, FiniteSets

CONSTANTS
  Requests,
  Asked,          \* what each of them may ask for, see RequestType
  Operations,     \* the operations of the catalog
  Data,           \* arguments and response bodies
  InputSchema,    \* what the input schema of each operation accepts: all
                  \* data, if there is no schema or it cannot be decoded
  OutputSchema,
  NoOperation,    \* an operationId that is in no catalog
  NoRequest, NotCompiled,
  Workers, MaxChanges, MaxPanics

ASSUME ToolAssumption ==
  /\ InputSchema \in [Operations -> SUBSET Data]
  /\ OutputSchema \in [Operations -> SUBSET Data]
  /\ NoOperation \notin Operations
  /\ NoRequest \notin Requests
  /\ \A s \in SUBSET Data : s # NotCompiled
  /\ Workers \in Nat \ {0}

Kinds == {"search", "get", "call"}
Ids == Operations \cup {NoOperation}
RequestType == [kind : Kinds, operation_id : Ids, arguments : Data]

ASSUME AskedAssumption == Asked \in [Requests -> SUBSET RequestType]

VARIABLES
  request,      \* what each request asks for
  pc,
  outcome,      \* what it was answered
  conn,         \* who holds the catalog
  poisoned,     \* the catalog's mutex is poisoned
  model,        \* MODEL: not initialised, loaded, or loaded and poisoned
  reachable,    \* the model can be downloaded or is on disk
  input_cache, output_cache,       \* the compiled validators
  changes, panics

cacheVars == <<input_cache, output_cache>>
envVars == <<reachable, changes, panics>>
vars == <<request, pc, outcome, conn, poisoned, model, cacheVars, envVars>>

Init ==
  /\ request \in [Requests -> RequestType]
  /\ \A r \in Requests : request[r] \in Asked[r]
  /\ pc = [r \in Requests |-> "sent"]
  /\ outcome = [r \in Requests |-> "none"]
  /\ conn = NoRequest
  /\ poisoned = FALSE
  /\ model = "none"
  /\ reachable \in BOOLEAN
  /\ input_cache = [o \in Operations |-> NotCompiled]
  /\ output_cache = [o \in Operations |-> NotCompiled]
  /\ changes = 0
  /\ panics = 0

OnWorker == {r \in Requests : pc[r] \in {"locking", "locked", "embedding"}}

\* run_tool: the answer, be it a result or an error, goes to the client.
Answer(r, text) ==
  /\ outcome' = [outcome EXCEPT ![r] = text]
  /\ pc' = [pc EXCEPT ![r] = "answered"]

\* The task unwinds; the client is left without an answer.
Panic(r) ==
  /\ outcome' = [outcome EXCEPT ![r] = "panicked"]
  /\ pc' = [pc EXCEPT ![r] = "died"]
  /\ poisoned' = (poisoned \/ conn = r)
  /\ conn' = IF conn = r THEN NoRequest ELSE conn
-----------------------------------------------------------------------------
\* The runtime spawns a task per request and polls it on a free worker;
\* cached_store_connection returns the catalog or an error.
Begin(r) ==
  /\ pc[r] = "sent"
  /\ Cardinality(OnWorker) < Workers
  /\ \/ /\ pc' = [pc EXCEPT ![r] = "locking"]
        /\ UNCHANGED outcome
     \/ Answer(r, "error")
  /\ UNCHANGED <<request, conn, poisoned, model, cacheVars, envVars>>

\* Mutant: a poisoned mutex is unwrapped.
LockOrPanic(r) ==
  /\ pc[r] = "locking"
  /\ conn = NoRequest
  /\ IF poisoned
       THEN Panic(r)
       ELSE /\ conn' = r
            /\ pc' = [pc EXCEPT ![r] = "locked"]
            /\ UNCHANGED <<outcome, poisoned>>
  /\ UNCHANGED <<request, model, cacheVars, envVars>>

\* The catalog is locked, poisoned or not.
LockCatalog(r) ==
  /\ pc[r] = "locking"
  /\ conn = NoRequest
  /\ conn' = r
  /\ pc' = [pc EXCEPT ![r] = "locked"]
  /\ UNCHANGED <<request, outcome, poisoned, model, cacheVars, envVars>>

\* Mutant: the early return for an unknown operation keeps the lock.
GetEndpointLeaking(r) ==
  /\ pc[r] = "locked"
  /\ request[r].kind \in {"get", "call"}
  /\ conn' = IF request[r].operation_id \in Operations THEN NoRequest ELSE conn
  /\ \/ Answer(r, "error")
     \/ IF request[r].operation_id \notin Operations THEN Answer(r, "unknown")
          ELSE IF request[r].kind = "get" THEN Answer(r, "endpoint")
          ELSE /\ pc' = [pc EXCEPT ![r] = "validating"]
               /\ UNCHANGED outcome
  /\ UNCHANGED <<request, poisoned, model, cacheVars, envVars>>

\* get_operation, and the first part of call: the row of the operation, or an
\* error of the query.
GetEndpoint(r) ==
  /\ pc[r] = "locked"
  /\ request[r].kind \in {"get", "call"}
  /\ conn' = NoRequest
  /\ \/ Answer(r, "error")
     \/ IF request[r].operation_id \notin Operations THEN Answer(r, "unknown")
          ELSE IF request[r].kind = "get" THEN Answer(r, "endpoint")
          ELSE /\ pc' = [pc EXCEPT ![r] = "validating"]
               /\ UNCHANGED outcome
  /\ UNCHANGED <<request, poisoned, model, cacheVars, envVars>>

\* model(): the first search loads it; get_or_init stays empty if that
\* panics, and the next search tries again.
LoadModel(r) ==
  /\ pc[r] = "locked"
  /\ request[r].kind = "search"
  /\ IF model = "none" /\ ~reachable
       THEN Panic(r) /\ UNCHANGED model
       ELSE /\ model' = IF model = "none" THEN "loaded" ELSE model
            /\ pc' = [pc EXCEPT ![r] = "embedding"]
            /\ UNCHANGED <<outcome, conn, poisoned>>
  /\ UNCHANGED <<request, cacheVars, envVars>>

\* The vector is computed and the nearest rows are read, or one of the two
\* returns an error.
Embed(r) ==
  /\ pc[r] = "embedding"
  /\ model = "loaded"
  /\ conn' = NoRequest
  /\ \E text \in {"results", "error"} : Answer(r, text)
  /\ UNCHANGED <<request, poisoned, model, cacheVars, envVars>>

\* The inference panics, with both mutexes held.
EmbedPanics(r) ==
  /\ pc[r] = "embedding"
  /\ model = "loaded"
  /\ panics < MaxPanics
  /\ panics' = panics + 1
  /\ model' = "poisoned"
  /\ Panic(r)
  /\ UNCHANGED <<request, cacheVars, reachable, changes>>

\* embed unwraps the lock of the model.
ModelPoisoned(r) ==
  /\ pc[r] = "embedding"
  /\ model = "poisoned"
  /\ Panic(r)
  /\ UNCHANGED <<request, model, cacheVars, envVars>>
-----------------------------------------------------------------------------
(* call_operation: the validations.                                        *)

\* Mutant: one entry for all operations.
CompiledForAny(cache, o, schema) ==
  IF \E p \in Operations : cache[p] # NotCompiled
    THEN CHOOSE s \in {cache[p] : p \in Operations} : s # NotCompiled
    ELSE schema

\* validate_against: what was compiled for the operation first stays.
Compiled(cache, o, schema) ==
  IF cache[o] # NotCompiled THEN cache[o] ELSE schema

ValidateInput(r) ==
  LET o == request[r].operation_id
      validator == Compiled(input_cache, o, InputSchema[o]) IN
  /\ pc[r] = "validating"
  /\ input_cache' = [input_cache EXCEPT ![o] = validator]
  /\ IF request[r].arguments \in validator
       THEN /\ pc' = [pc EXCEPT ![r] = "upstream"]
            /\ UNCHANGED outcome
       ELSE Answer(r, "invalid input")
  /\ UNCHANGED <<request, conn, poisoned, model, output_cache, envVars>>

\* The target API answers; a body the schema does not know is only logged.
ValidateOutput(r) ==
  LET o == request[r].operation_id IN
  /\ pc[r] = "upstream"
  /\ output_cache' = [output_cache EXCEPT
       ![o] = Compiled(output_cache, o, OutputSchema[o])]
  /\ Answer(r, "response")
  /\ UNCHANGED <<request, conn, poisoned, model, input_cache, envVars>>

\* execute returns an error.
UpstreamFails(r) ==
  /\ pc[r] = "upstream"
  /\ Answer(r, "error")
  /\ UNCHANGED <<request, conn, poisoned, model, cacheVars, envVars>>

ReachabilityChanges ==
  /\ changes < MaxChanges
  /\ changes' = changes + 1
  /\ reachable' = ~reachable
  /\ UNCHANGED <<request, pc, outcome, conn, poisoned, model, cacheVars,
                 panics>>

Step(r) ==
  \/ Begin(r) \/ LockCatalog(r) \/ GetEndpoint(r)
  \/ LoadModel(r) \/ Embed(r) \/ EmbedPanics(r) \/ ModelPoisoned(r)
  \/ ValidateInput(r) \/ ValidateOutput(r) \/ UpstreamFails(r)

Next == ReachabilityChanges \/ \E r \in Requests : Step(r)

Spec == Init /\ [][Next]_vars

\* The runtime polls every task that can run, and a std mutex that is free is
\* taken by one of those that wait; each is taken in its turn.
FairSpec ==
  Spec /\ \A r \in Requests : WF_vars(Step(r)) /\ SF_vars(LockCatalog(r))
-----------------------------------------------------------------------------
Stages == {"sent", "locking", "locked", "embedding", "validating", "upstream",
           "answered", "died"}
Outcomes == {"none", "panicked", "unknown", "endpoint", "results", "error",
             "invalid input", "response"}

TypeOK ==
  /\ request \in [Requests -> RequestType]
  /\ pc \in [Requests -> Stages]
  /\ outcome \in [Requests -> Outcomes]
  /\ conn \in Requests \cup {NoRequest}
  /\ \A r \in Requests : conn = r <=> pc[r] \in {"locked", "embedding"}
  /\ poisoned \in BOOLEAN
  /\ model \in {"none", "loaded", "poisoned"}
  /\ reachable \in BOOLEAN
  /\ input_cache \in [Operations -> (SUBSET Data) \cup {NotCompiled}]
  /\ output_cache \in [Operations -> (SUBSET Data) \cup {NotCompiled}]
  /\ \A o \in Operations :
       /\ input_cache[o] # NotCompiled => input_cache[o] = InputSchema[o]
       /\ output_cache[o] # NotCompiled => output_cache[o] = OutputSchema[o]
  /\ IsFiniteSet(OnWorker) /\ Cardinality(OnWorker) <= Workers
  /\ changes \in Nat
  /\ panics \in Nat

\* What a get or a call is answered depends on itself alone: whatever other
\* requests load, lock, compile or break, it never panics, an operation of the
\* catalog is found, and its arguments are judged by the schema of its own
\* operation; and a search panics only if the model was out of reach or has
\* panicked before (PoisonError::into_inner in search, get and call;
\* validate_against).
NoInterference ==
  \A r \in Requests :
    LET q == request[r] IN
    /\ outcome[r] = "panicked" =>
         q.kind = "search" /\ (panics > 0 \/ changes > 0 \/ ~reachable)
    /\ outcome[r] = "unknown" => q.operation_id = NoOperation
    /\ outcome[r] = "invalid input" =>
         q.arguments \notin InputSchema[q.operation_id]
    /\ pc[r] = "upstream" \/ outcome[r] = "response" =>
         q.arguments \in InputSchema[q.operation_id]

\* Every request ends, on however few workers and whatever panicked before:
\* nobody waits for the catalog, the model or a worker for ever
\* (search, get, call, model, embed).
EveryRequestEnds ==
  \A r \in Requests : pc[r] = "sent" ~> pc[r] \in {"answered", "died"}
=============================================================================
