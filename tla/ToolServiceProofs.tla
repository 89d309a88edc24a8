------------------------- MODULE ToolServiceProofs -------------------------
(***************************************************************************)
(* Theorems about ToolService for any requests, operations, schemas and    *)
(* number of workers.                                                      *)
(***************************************************************************)
EXTENDS ToolService, FiniteSetTheorems, TLAPS

\* Only a search gets to the model, and only a call of an operation of the
\* catalog to the validations.
Routed ==
  \A r \in Requests :
    /\ pc[r] = "embedding" => request[r].kind = "search"
    /\ pc[r] \in {"validating", "upstream"} =>
         request[r].operation_id \in Operations

\* The model is poisoned by a panic and by nothing else.
PoisonedByPanic == model = "poisoned" => panics > 0

IInv == TypeOK /\ Routed /\ PoisonedByPanic /\ NoInterference
-----------------------------------------------------------------------------
\* What the proofs need of the constants.
LEMMA Constants ==
  /\ Workers \in Nat
  /\ NoOperation \notin Operations
  /\ NoRequest \notin Requests
  /\ InputSchema \in [Operations -> SUBSET Data]
  /\ OutputSchema \in [Operations -> SUBSET Data]
  /\ Asked \in [Requests -> SUBSET RequestType]
BY ToolAssumption, AskedAssumption DEF ToolAssumption

\* A request that is let in takes a free worker.
LEMMA WorkerTaken ==
  ASSUME TypeOK, NEW r \in Requests, pc[r] = "sent",
         Cardinality(OnWorker) < Workers,
         pc' = [pc EXCEPT ![r] = "locking"]
  PROVE  IsFiniteSet(OnWorker') /\ Cardinality(OnWorker') <= Workers
<1>1. OnWorker' = OnWorker \cup {r} /\ r \notin OnWorker
  BY DEF TypeOK, OnWorker, Stages
<1>2. IsFiniteSet(OnWorker) /\ Cardinality(OnWorker) \in Nat
  BY FS_CardinalityType DEF TypeOK
<1>3. /\ IsFiniteSet(OnWorker \cup {r})
      /\ Cardinality(OnWorker \cup {r}) = Cardinality(OnWorker) + 1
  BY <1>1, <1>2, FS_AddElement
<1> QED
  BY <1>1, <1>2, <1>3, Constants

\* Whatever else a request does takes no worker that it had not.
LEMMA WorkersKept ==
  ASSUME TypeOK, OnWorker' \subseteq OnWorker
  PROVE  IsFiniteSet(OnWorker') /\ Cardinality(OnWorker') <= Workers
<1>1. /\ IsFiniteSet(OnWorker)
      /\ Cardinality(OnWorker) \in Nat
      /\ Cardinality(OnWorker) <= Workers
  BY FS_CardinalityType DEF TypeOK
<1>2. /\ IsFiniteSet(OnWorker')
      /\ Cardinality(OnWorker') <= Cardinality(OnWorker)
  BY <1>1, FS_Subset
<1>3. Cardinality(OnWorker') \in Nat
  BY <1>2, FS_CardinalityType
<1> QED
  BY <1>1, <1>2, <1>3, Constants

\* A cache never holds anything but the schema of the operation itself.
LEMMA CompiledIsOwn ==
  ASSUME TypeOK, NEW o \in Operations
  PROVE  /\ Compiled(input_cache, o, InputSchema[o]) = InputSchema[o]
         /\ Compiled(output_cache, o, OutputSchema[o]) = OutputSchema[o]
BY DEF TypeOK, Compiled
-----------------------------------------------------------------------------
\* What the server starts with.
LEMMA InitIInv == Init => IInv
<1> SUFFICES ASSUME Init PROVE IInv
  OBVIOUS
<1> USE DEF Init
<1>1. OnWorker = {}
  BY DEF OnWorker
<1>2. IsFiniteSet(OnWorker) /\ Cardinality(OnWorker) <= Workers
  BY <1>1, FS_EmptySet, Constants
<1>3. TypeOK
  BY <1>2, Constants DEF TypeOK, Stages, Outcomes
<1>4. Routed /\ PoisonedByPanic /\ NoInterference
  BY DEF Routed, PoisonedByPanic, NoInterference
<1> QED
  BY <1>3, <1>4 DEF IInv

\* A panic lets go of the catalog, and of nothing that somebody else holds.
LEMMA PanicTyped ==
  ASSUME TypeOK, NEW r \in Requests, Panic(r)
  PROVE  /\ poisoned' \in BOOLEAN
         /\ conn' \in Requests \cup {NoRequest}
         /\ \A q \in Requests : conn' = q <=> pc'[q] \in {"locked", "embedding"}
         /\ pc' \in [Requests -> Stages]
         /\ outcome' \in [Requests -> Outcomes]
<1>1. poisoned' \in BOOLEAN
  BY DEF Panic, TypeOK
<1>2. conn' \in Requests \cup {NoRequest}
  BY DEF Panic, TypeOK
<1>3. \A q \in Requests : conn' = q <=> pc'[q] \in {"locked", "embedding"}
  BY Constants DEF Panic, TypeOK, Stages
<1>4. pc' \in [Requests -> Stages] /\ outcome' \in [Requests -> Outcomes]
  BY DEF Panic, TypeOK, Stages, Outcomes
<1> QED
  BY <1>1, <1>2, <1>3, <1>4

\* Every step keeps the types: of the requests, of who holds the catalog, of
\* the caches, and the bound on the workers.
LEMMA TypeStep ==
  ASSUME IInv, [Next]_vars
  PROVE  TypeOK'
<1> USE DEF IInv
<1>1. ASSUME NEW r \in Requests, Begin(r) PROVE TypeOK'
  <2>1. IsFiniteSet(OnWorker') /\ Cardinality(OnWorker') <= Workers
    <3>1. CASE pc' = [pc EXCEPT ![r] = "locking"]
      BY <1>1, <3>1, WorkerTaken DEF Begin
    <3>2. CASE Answer(r, "error")
      <4>1. OnWorker' \subseteq OnWorker
        BY <1>1, <3>2 DEF Begin, Answer, OnWorker, TypeOK, Stages
      <4> QED
        BY <4>1, WorkersKept
    <3> QED
      BY <1>1, <3>1, <3>2 DEF Begin
  <2> QED
    BY <1>1, <2>1, Constants
       DEF Begin, Answer, cacheVars, envVars, TypeOK, Stages, Outcomes
<1>2. ASSUME NEW r \in Requests, LockCatalog(r) PROVE TypeOK'
  <2>1. IsFiniteSet(OnWorker') /\ Cardinality(OnWorker') <= Workers
    <3>1. OnWorker' \subseteq OnWorker
      BY <1>2 DEF LockCatalog, Answer, Panic, OnWorker, TypeOK, Stages
    <3> QED
      BY <3>1, WorkersKept
  <2> QED
    BY <1>2, <2>1, Constants
       DEF LockCatalog, cacheVars, envVars, TypeOK, Stages, Outcomes
<1>3. ASSUME NEW r \in Requests, GetEndpoint(r) PROVE TypeOK'
  <2>1. IsFiniteSet(OnWorker') /\ Cardinality(OnWorker') <= Workers
    <3>1. OnWorker' \subseteq OnWorker
      BY <1>3 DEF GetEndpoint, Answer, Panic, OnWorker, TypeOK, Stages
    <3> QED
      BY <3>1, WorkersKept
  <2> QED
    BY <1>3, <2>1, Constants
       DEF GetEndpoint, Answer, cacheVars, envVars, TypeOK, Stages, Outcomes
<1>4. ASSUME NEW r \in Requests, LoadModel(r) PROVE TypeOK'
  <2>1. IsFiniteSet(OnWorker') /\ Cardinality(OnWorker') <= Workers
    <3>1. OnWorker' \subseteq OnWorker
      BY <1>4 DEF LoadModel, Answer, Panic, OnWorker, TypeOK, Stages
    <3> QED
      BY <3>1, WorkersKept
  <2>2. CASE Panic(r) /\ UNCHANGED model
    BY <1>4, <2>1, <2>2, PanicTyped DEF LoadModel, cacheVars, envVars, TypeOK
  <2>3. CASE /\ pc' = [pc EXCEPT ![r] = "embedding"]
             /\ model' \in {"loaded", model}
             /\ UNCHANGED <<outcome, conn, poisoned>>
    BY <1>4, <2>1, <2>3 DEF LoadModel, cacheVars, envVars, TypeOK, Stages
  <2> QED
    BY <1>4, <2>2, <2>3 DEF LoadModel
<1>5. ASSUME NEW r \in Requests, Embed(r) PROVE TypeOK'
  <2>1. IsFiniteSet(OnWorker') /\ Cardinality(OnWorker') <= Workers
    <3>1. OnWorker' \subseteq OnWorker
      BY <1>5 DEF Embed, Answer, Panic, OnWorker, TypeOK, Stages
    <3> QED
      BY <3>1, WorkersKept
  <2>2. PICK text \in {"results", "error"} : Answer(r, text)
    BY <1>5 DEF Embed
  <2> QED
    BY <1>5, <2>1, <2>2, Constants
       DEF Embed, Answer, cacheVars, envVars, TypeOK, Stages, Outcomes
<1>6. ASSUME NEW r \in Requests, EmbedPanics(r) PROVE TypeOK'
  <2>1. IsFiniteSet(OnWorker') /\ Cardinality(OnWorker') <= Workers
    <3>1. OnWorker' \subseteq OnWorker
      BY <1>6 DEF EmbedPanics, Answer, Panic, OnWorker, TypeOK, Stages
    <3> QED
      BY <3>1, WorkersKept
  <2>2. Panic(r)
    BY <1>6 DEF EmbedPanics
  <2> QED
    BY <1>6, <2>1, <2>2, PanicTyped DEF EmbedPanics, cacheVars, envVars, TypeOK
<1>7. ASSUME NEW r \in Requests, ModelPoisoned(r) PROVE TypeOK'
  <2>1. IsFiniteSet(OnWorker') /\ Cardinality(OnWorker') <= Workers
    <3>1. OnWorker' \subseteq OnWorker
      BY <1>7 DEF ModelPoisoned, Answer, Panic, OnWorker, TypeOK, Stages
    <3> QED
      BY <3>1, WorkersKept
  <2>2. Panic(r)
    BY <1>7 DEF ModelPoisoned
  <2> QED
    BY <1>7, <2>1, <2>2, PanicTyped DEF ModelPoisoned, cacheVars, envVars, TypeOK
<1>8. ASSUME NEW r \in Requests, ValidateInput(r) PROVE TypeOK'
  <2>1. IsFiniteSet(OnWorker') /\ Cardinality(OnWorker') <= Workers
    <3>1. OnWorker' \subseteq OnWorker
      BY <1>8 DEF ValidateInput, Answer, Panic, OnWorker, TypeOK, Stages
    <3> QED
      BY <3>1, WorkersKept
  <2> DEFINE o == request[r].operation_id
  <2>2. o \in Operations
    BY <1>8 DEF ValidateInput, Routed
  <2> HIDE DEF o
  <2>3. input_cache' = [input_cache EXCEPT ![o] = InputSchema[o]]
    BY <1>8, <2>2, CompiledIsOwn DEF ValidateInput, o
  <2>4. input_cache' \in [Operations -> (SUBSET Data) \cup {NotCompiled}]
    BY <2>2, <2>3, Constants DEF TypeOK
  <2>5. \A p \in Operations : input_cache'[p] # NotCompiled => input_cache'[p] = InputSchema[p]
    BY <2>2, <2>3 DEF TypeOK
  <2>6. /\ pc' \in [Requests -> Stages]
        /\ outcome' \in [Requests -> Outcomes]
        /\ \A q \in Requests : conn = q <=> pc'[q] \in {"locked", "embedding"}
    BY <1>8 DEF ValidateInput, Answer, TypeOK, Stages, Outcomes
  <2> QED
    BY <1>8, <2>1, <2>4, <2>5, <2>6 DEF ValidateInput, envVars, TypeOK
<1>9. ASSUME NEW r \in Requests, ValidateOutput(r) PROVE TypeOK'
  <2>1. IsFiniteSet(OnWorker') /\ Cardinality(OnWorker') <= Workers
    <3>1. OnWorker' \subseteq OnWorker
      BY <1>9 DEF ValidateOutput, Answer, Panic, OnWorker, TypeOK, Stages
    <3> QED
      BY <3>1, WorkersKept
  <2> DEFINE o == request[r].operation_id
  <2>2. o \in Operations
    BY <1>9 DEF ValidateOutput, Routed
  <2> HIDE DEF o
  <2>3. output_cache' = [output_cache EXCEPT ![o] = OutputSchema[o]]
    BY <1>9, <2>2, CompiledIsOwn DEF ValidateOutput, o
  <2>4. output_cache' \in [Operations -> (SUBSET Data) \cup {NotCompiled}]
    BY <2>2, <2>3, Constants DEF TypeOK
  <2>5. \A p \in Operations : output_cache'[p] # NotCompiled => output_cache'[p] = OutputSchema[p]
    BY <2>2, <2>3 DEF TypeOK
  <2>6. /\ pc' \in [Requests -> Stages]
        /\ outcome' \in [Requests -> Outcomes]
        /\ \A q \in Requests : conn = q <=> pc'[q] \in {"locked", "embedding"}
    BY <1>9 DEF ValidateOutput, Answer, TypeOK, Stages, Outcomes
  <2> QED
    BY <1>9, <2>1, <2>4, <2>5, <2>6 DEF ValidateOutput, envVars, TypeOK
<1>10. ASSUME NEW r \in Requests, UpstreamFails(r) PROVE TypeOK'
  <2>1. IsFiniteSet(OnWorker') /\ Cardinality(OnWorker') <= Workers
    <3>1. OnWorker' \subseteq OnWorker
      BY <1>10 DEF UpstreamFails, Answer, Panic, OnWorker, TypeOK, Stages
    <3> QED
      BY <3>1, WorkersKept
  <2> QED
    BY <1>10, <2>1, Constants
       DEF UpstreamFails, Answer, cacheVars, envVars, TypeOK, Stages, Outcomes
<1>11. CASE ReachabilityChanges
  <2>1. OnWorker' = OnWorker
    BY <1>11 DEF ReachabilityChanges, OnWorker
  <2>2. reachable' \in BOOLEAN
    BY <1>11 DEF ReachabilityChanges
  <2> QED
    BY <1>11, <2>1, <2>2 DEF ReachabilityChanges, cacheVars, TypeOK
<1>12. CASE UNCHANGED vars
  <2>1. OnWorker' = OnWorker
    BY <1>12 DEF vars, OnWorker
  <2> QED
    BY <1>12, <2>1 DEF vars, cacheVars, envVars, TypeOK
<1> QED
  BY <1>1, <1>2, <1>3, <1>4, <1>5, <1>6, <1>7, <1>8, <1>9, <1>10, <1>11, <1>12
     DEF Next, Step

\* Every step keeps what the stages say of the request.
LEMMA RoutedStep ==
  ASSUME IInv, [Next]_vars
  PROVE  Routed' /\ PoisonedByPanic'
<1> USE DEF IInv, TypeOK, Routed, PoisonedByPanic
<1>1. ASSUME NEW r \in Requests, Begin(r) PROVE Routed' /\ PoisonedByPanic'
  BY <1>1 DEF Begin, Answer, envVars, Stages
<1>2. ASSUME NEW r \in Requests, LockCatalog(r) PROVE Routed' /\ PoisonedByPanic'
  BY <1>2 DEF LockCatalog, envVars, Stages
<1>3. ASSUME NEW r \in Requests, GetEndpoint(r) PROVE Routed' /\ PoisonedByPanic'
  BY <1>3 DEF GetEndpoint, Answer, Ids, RequestType, envVars, Stages
<1>4. ASSUME NEW r \in Requests, LoadModel(r) PROVE Routed' /\ PoisonedByPanic'
  BY <1>4 DEF LoadModel, Panic, envVars, Stages
<1>5. ASSUME NEW r \in Requests, Embed(r) PROVE Routed' /\ PoisonedByPanic'
  BY <1>5 DEF Embed, Answer, envVars, Stages
<1>6. ASSUME NEW r \in Requests, EmbedPanics(r) PROVE Routed' /\ PoisonedByPanic'
  BY <1>6 DEF EmbedPanics, Panic, envVars, Stages
<1>7. ASSUME NEW r \in Requests, ModelPoisoned(r) PROVE Routed' /\ PoisonedByPanic'
  BY <1>7 DEF ModelPoisoned, Panic, envVars, Stages
<1>8. ASSUME NEW r \in Requests, ValidateInput(r) PROVE Routed' /\ PoisonedByPanic'
  BY <1>8 DEF ValidateInput, Answer, envVars, Stages
<1>9. ASSUME NEW r \in Requests, ValidateOutput(r) PROVE Routed' /\ PoisonedByPanic'
  BY <1>9 DEF ValidateOutput, Answer, envVars, Stages
<1>10. ASSUME NEW r \in Requests, UpstreamFails(r) PROVE Routed' /\ PoisonedByPanic'
  BY <1>10 DEF UpstreamFails, Answer, envVars, Stages
<1>11. CASE ReachabilityChanges
  BY <1>11 DEF ReachabilityChanges
<1>12. CASE UNCHANGED vars
  BY <1>12 DEF vars, envVars
<1> QED
  BY <1>1, <1>2, <1>3, <1>4, <1>5, <1>6, <1>7, <1>8, <1>9, <1>10, <1>11, <1>12
     DEF Next, Step

\* What NoInterference says of one request.
Apart(q) ==
  /\ outcome[q] = "panicked" =>
       request[q].kind = "search" /\ (panics > 0 \/ changes > 0 \/ ~reachable)
  /\ outcome[q] = "unknown" => request[q].operation_id = NoOperation
  /\ outcome[q] = "invalid input" =>
       request[q].arguments \notin InputSchema[request[q].operation_id]
  /\ pc[q] = "upstream" \/ outcome[q] = "response" =>
       request[q].arguments \in InputSchema[request[q].operation_id]

\* A step of another request, or of the world outside, leaves a request apart.
LEMMA OthersApart ==
  ASSUME IInv, NEW q \in Requests,
         request' = request, pc'[q] = pc[q], outcome'[q] = outcome[q],
         \/ panics' = panics /\ changes' = changes /\ reachable' = reachable
         \/ panics' > 0
         \/ changes' > 0
  PROVE  Apart(q)'
<1>1. Apart(q)
  BY DEF IInv, NoInterference, Apart
<1>2. ASSUME outcome[q] = "panicked"
      PROVE  panics' > 0 \/ changes' > 0 \/ ~reachable'
  <2>1. panics > 0 \/ changes > 0 \/ ~reachable
    BY <1>1, <1>2 DEF Apart
  <2> QED
    BY <2>1
<1>3. pc'[q] = pc[q] /\ outcome'[q] = outcome[q] /\ request'[q] = request[q]
  OBVIOUS
<1> QED
  BY <1>1, <1>2, <1>3 DEF Apart

\* Every step keeps the requests apart.
LEMMA InterferenceStep ==
  ASSUME IInv, [Next]_vars
  PROVE  NoInterference'
<1> SUFFICES ASSUME NEW q \in Requests PROVE Apart(q)'
  BY DEF NoInterference, Apart
<1>0. Apart(q)
  BY DEF IInv, NoInterference, Apart
<1>1. ASSUME NEW r \in Requests, Begin(r) PROVE Apart(q)'
  <2>1. CASE q # r
    BY <1>1, <2>1, OthersApart DEF Begin, Answer, envVars, IInv, TypeOK
  <2>2. CASE q = r
    BY <1>0, <1>1, <2>2 DEF Begin, Answer, envVars, IInv, TypeOK, Apart
  <2> QED
    BY <1>1, <2>1, <2>2
<1>2. ASSUME NEW r \in Requests, LockCatalog(r) PROVE Apart(q)'
  <2>1. CASE q # r
    BY <1>2, <2>1, OthersApart DEF LockCatalog, envVars, IInv, TypeOK
  <2>2. CASE q = r
    BY <1>0, <1>2, <2>2 DEF LockCatalog, envVars, IInv, TypeOK, Apart
  <2> QED
    BY <1>2, <2>1, <2>2
<1>3. ASSUME NEW r \in Requests, GetEndpoint(r) PROVE Apart(q)'
  <2>1. CASE q # r
    BY <1>3, <2>1, OthersApart DEF GetEndpoint, Answer, envVars, IInv, TypeOK
  <2>2. CASE q = r
    BY <1>0, <1>3, <2>2
       DEF GetEndpoint, Answer, envVars, IInv, TypeOK, RequestType, Ids, Apart
  <2> QED
    BY <1>3, <2>1, <2>2
<1>4. ASSUME NEW r \in Requests, LoadModel(r) PROVE Apart(q)'
  <2>1. CASE q # r
    BY <1>4, <2>1, OthersApart DEF LoadModel, Panic, envVars, IInv, TypeOK
  <2>2. CASE q = r /\ Panic(r) /\ ~reachable
    BY <1>0, <1>4, <2>2 DEF LoadModel, Panic, envVars, IInv, TypeOK, Apart
  <2>3. CASE q = r /\ pc' = [pc EXCEPT ![r] = "embedding"] /\ UNCHANGED outcome
    BY <1>0, <1>4, <2>3 DEF LoadModel, envVars, IInv, TypeOK, Apart
  <2> QED
    BY <1>4, <2>1, <2>2, <2>3 DEF LoadModel
<1>5. ASSUME NEW r \in Requests, Embed(r) PROVE Apart(q)'
  <2>1. CASE q # r
    BY <1>5, <2>1, OthersApart DEF Embed, Answer, envVars, IInv, TypeOK
  <2>2. CASE q = r
    <3>1. PICK text \in {"results", "error"} : Answer(r, text)
      BY <1>5 DEF Embed
    <3> QED
      BY <1>0, <1>5, <2>2, <3>1 DEF Embed, Answer, envVars, IInv, TypeOK, Apart
  <2> QED
    BY <1>5, <2>1, <2>2
<1>6. ASSUME NEW r \in Requests, EmbedPanics(r) PROVE Apart(q)'
  <2>0. panics' > 0
    BY <1>6 DEF EmbedPanics, IInv, TypeOK
  <2>1. CASE q # r
    BY <1>6, <2>0, <2>1, OthersApart DEF EmbedPanics, Panic, IInv, TypeOK
  <2>2. CASE q = r
    BY <1>0, <1>6, <2>0, <2>2
       DEF EmbedPanics, Panic, IInv, TypeOK, Routed, Apart
  <2> QED
    BY <1>6, <2>1, <2>2
<1>7. ASSUME NEW r \in Requests, ModelPoisoned(r) PROVE Apart(q)'
  <2>1. CASE q # r
    BY <1>7, <2>1, OthersApart DEF ModelPoisoned, Panic, envVars, IInv, TypeOK
  <2>2. CASE q = r
    BY <1>0, <1>7, <2>2
       DEF ModelPoisoned, Panic, envVars, IInv, TypeOK, Routed, PoisonedByPanic,
           Apart
  <2> QED
    BY <1>7, <2>1, <2>2
<1>8. ASSUME NEW r \in Requests, ValidateInput(r) PROVE Apart(q)'
  <2>1. CASE q # r
    BY <1>8, <2>1, OthersApart DEF ValidateInput, Answer, envVars, IInv, TypeOK
  <2>2. CASE q = r
    <3>1. request[r].operation_id \in Operations
      BY <1>8 DEF ValidateInput, IInv, Routed
    <3>2. Compiled(input_cache, request[r].operation_id,
                   InputSchema[request[r].operation_id])
            = InputSchema[request[r].operation_id]
      BY <3>1, CompiledIsOwn DEF IInv
    <3> QED
      BY <1>0, <1>8, <2>2, <3>2
         DEF ValidateInput, Answer, envVars, IInv, TypeOK, Apart
  <2> QED
    BY <1>8, <2>1, <2>2
<1>9. ASSUME NEW r \in Requests, ValidateOutput(r) PROVE Apart(q)'
  <2>1. CASE q # r
    BY <1>9, <2>1, OthersApart DEF ValidateOutput, Answer, envVars, IInv, TypeOK
  <2>2. CASE q = r
    BY <1>0, <1>9, <2>2 DEF ValidateOutput, Answer, envVars, IInv, TypeOK, Apart
  <2> QED
    BY <1>9, <2>1, <2>2
<1>10. ASSUME NEW r \in Requests, UpstreamFails(r) PROVE Apart(q)'
  <2>1. CASE q # r
    BY <1>10, <2>1, OthersApart DEF UpstreamFails, Answer, envVars, IInv, TypeOK
  <2>2. CASE q = r
    BY <1>0, <1>10, <2>2 DEF UpstreamFails, Answer, envVars, IInv, TypeOK, Apart
  <2> QED
    BY <1>10, <2>1, <2>2
<1>11. CASE ReachabilityChanges
  <2>1. changes' > 0
    BY <1>11 DEF ReachabilityChanges, IInv, TypeOK
  <2> QED
    BY <1>11, <2>1, OthersApart DEF ReachabilityChanges
<1>12. CASE UNCHANGED vars
  BY <1>12, OthersApart DEF vars, envVars
<1> QED
  BY <1>1, <1>2, <1>3, <1>4, <1>5, <1>6, <1>7, <1>8, <1>9, <1>10, <1>11, <1>12
     DEF Next, Step

\* Every reachable state satisfies the strengthening.
LEMMA Inductive == Spec => []IInv
<1>1. Init => IInv
  BY InitIInv
<1>2. IInv /\ [Next]_vars => IInv'
  BY TypeStep, RoutedStep, InterferenceStep DEF IInv
<1> QED
  BY <1>1, <1>2, PTL DEF Spec
-----------------------------------------------------------------------------
\* The variables keep their types: the catalog is held by exactly the request
\* that is inside, no more requests work than there are workers, and a cache
\* holds the schema of the operation it is asked for.
THEOREM TypeCorrect == Spec => []TypeOK
BY Inductive, PTL DEF IInv

\* Requests do not disturb each other, see NoInterference.
THEOREM RequestsKeptApart == Spec => []NoInterference
BY Inductive, PTL DEF IInv
=============================================================================
