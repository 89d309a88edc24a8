----------------------------- MODULE CoreProofs -----------------------------
(***************************************************************************)
(* Theorems about the two objects of src/core that concurrent callers      *)
(* share: the query cache, of any size and time to live, and the circuit   *)
(* breaker, for every number of callers, threshold, reset timeout and      *)
(* length of the outage.                                                   *)
(***************************************************************************)
EXTENDS QueryCache, CircuitBreaker, FiniteSetTheorems, TLAPS
-----------------------------------------------------------------------------
(* The query cache.                                                        *)

\* No more entries than the size allows, after room was made for one.
LEMMA RoomIsEnough ==
  ASSUME CacheTypeOK, NEW k \in Keys, NEW evicted \in Stored \cup {k},
         Room(k, evicted), Stored' = (Stored \ {evicted}) \cup {k},
         max_size' = max_size
  PROVE  IsFiniteSet(Stored') /\ Bounded'
<1> USE CacheAssumption DEF CacheAssumption
<1>1. /\ IsFiniteSet(Stored) /\ Cardinality(Stored) \in Nat
      /\ max_size \in Nat
      /\ Cardinality(Stored) <= max_size \/ Cardinality(Stored) <= 1
  BY FS_CardinalityType DEF CacheTypeOK, Bounded
<1>2. CASE k \in Stored
  <2>1. Stored' = Stored
    BY <1>2 DEF Room
  <2> QED
    BY <1>1, <2>1 DEF Bounded
<1>3. CASE k \notin Stored /\ evicted \in Stored
  <2>1. /\ IsFiniteSet(Stored \ {evicted})
        /\ Cardinality(Stored \ {evicted}) = Cardinality(Stored) - 1
    BY <1>1, <1>3, FS_RemoveElement
  <2>2. /\ IsFiniteSet(Stored')
        /\ Cardinality(Stored') = Cardinality(Stored)
    BY <1>1, <1>3, <2>1, FS_AddElement
  <2> QED
    BY <1>1, <2>2 DEF Bounded
<1>4. CASE k \notin Stored /\ evicted = k
  <2>1. Stored' = Stored \cup {k}
    BY <1>4
  <2>2. /\ IsFiniteSet(Stored')
        /\ Cardinality(Stored') = Cardinality(Stored) + 1
    BY <1>1, <1>4, <2>1, FS_AddElement
  <2>3. Cardinality(Stored) < max_size \/ Stored = {}
    BY <1>1, <1>4 DEF Room
  <2>4. Stored = {} => Cardinality(Stored) = 0
    BY FS_EmptySet
  <2> QED
    BY <1>1, <2>2, <2>3, <2>4 DEF Bounded
<1> QED
  BY <1>2, <1>3, <1>4

\* Nor are there more after entries have left.
LEMMA FewerAreBounded ==
  ASSUME CacheTypeOK, Stored' \subseteq Stored, max_size' = max_size
  PROVE  IsFiniteSet(Stored') /\ Bounded'
<1>1. /\ IsFiniteSet(Stored) /\ Cardinality(Stored) \in Nat
      /\ max_size \in Nat
      /\ Cardinality(Stored) <= max_size \/ Cardinality(Stored) <= 1
  BY CacheAssumption, FS_CardinalityType
     DEF CacheAssumption, CacheTypeOK, Bounded
<1>2. IsFiniteSet(Stored') /\ Cardinality(Stored') <= Cardinality(Stored)
  BY <1>1, FS_Subset
<1>3. Cardinality(Stored') \in Nat
  BY <1>2, FS_CardinalityType
<1> QED
  BY <1>1, <1>2, <1>3 DEF Bounded

\* What set does to the map, whichever entry it evicts.
LEMMA SetStores ==
  ASSUME NEW k \in Keys, NEW v \in Values, NEW evicted \in Stored \cup {k},
         store' = [j \in (Stored \ {evicted}) \cup {k} |->
                     IF j = k THEN [value |-> v, expires_at |-> now + Ttl]
                              ELSE store[j]]
  PROVE  /\ Stored' = (Stored \ {evicted}) \cup {k}
         /\ store'[k] = [value |-> v, expires_at |-> now + Ttl]
         /\ \A j \in Stored' \ {k} : j \in Stored \ {evicted}
                                     /\ store'[j] = store[j]
BY DEF Stored

\* The variables keep their types, and set never lets the cache grow beyond
\* its size, or beyond one entry if that is zero, whatever it evicts: for any
\* keys, size and time to live.
THEOREM CacheTypeCorrect == CacheSpec => []CacheTypeOK
<1> USE CacheAssumption DEF CacheAssumption
<1>1. CacheInit => CacheTypeOK
  <2> SUFFICES ASSUME CacheInit PROVE CacheTypeOK
    OBVIOUS
  <2>1. Stored = {}
    BY DEF CacheInit, Stored
  <2>2. IsFiniteSet(Stored) /\ Cardinality(Stored) = 0
    BY <2>1, FS_EmptySet
  <2> QED
    BY <2>1, <2>2 DEF CacheInit, CacheTypeOK, Bounded
<1>2. CacheTypeOK /\ [CacheNext]_cacheVars => CacheTypeOK'
  <2> SUFFICES ASSUME CacheTypeOK, [CacheNext]_cacheVars PROVE CacheTypeOK'
    OBVIOUS
  <2>1. CASE CacheTick
    <3>1. Stored' = Stored
      BY <2>1 DEF CacheTick, Stored
    <3>2. IsFiniteSet(Stored') /\ Bounded'
      BY <2>1, <3>1, FewerAreBounded DEF CacheTick
    <3> QED
      BY <2>1, <3>1, <3>2 DEF CacheTick, CacheTypeOK, Entries
  <2>2. ASSUME NEW k \in Keys, get(k) PROVE CacheTypeOK'
    <3>1. Stored' \subseteq Stored /\ \A j \in Stored' : store'[j] = store[j]
      BY <2>2 DEF get, Without, Stored
    <3>2. IsFiniteSet(Stored') /\ Bounded'
      BY <2>2, <3>1, FewerAreBounded DEF get
    <3>3. answer' \in Values \cup {NoValue}
      BY <2>2 DEF get, CacheTypeOK, Entries
    <3> QED
      BY <2>2, <3>1, <3>2, <3>3 DEF get, CacheTypeOK, Entries
  <2>3. ASSUME NEW k \in Keys, NEW v \in Values, set(k, v) PROVE CacheTypeOK'
    <3>1. PICK evicted \in Stored \cup {k} :
            /\ Room(k, evicted)
            /\ store' = [j \in (Stored \ {evicted}) \cup {k} |->
                           IF j = k
                             THEN [value |-> v, expires_at |-> now + Ttl]
                             ELSE store[j]]
            /\ UNCHANGED <<max_size, now, answer>>
      BY <2>3 DEF set
    <3>2. /\ Stored' = (Stored \ {evicted}) \cup {k}
          /\ store'[k] = [value |-> v, expires_at |-> now + Ttl]
          /\ \A j \in Stored' \ {k} : j \in Stored /\ store'[j] = store[j]
      <4>1. store' = [j \in (Stored \ {evicted}) \cup {k} |->
                        IF j = k
                          THEN [value |-> v, expires_at |-> now + Ttl]
                          ELSE store[j]]
        BY <3>1
      <4> QED
        BY <4>1, SetStores
    <3>3. IsFiniteSet(Stored') /\ Bounded'
      BY <3>1, <3>2, RoomIsEnough
    <3> QED
      BY <3>1, <3>2, <3>3 DEF CacheTypeOK, Entries
  <2>4. CASE clear
    <3>1. Stored' = {}
      BY <2>4 DEF clear, Stored
    <3>2. IsFiniteSet(Stored') /\ Bounded'
      BY <2>4, <3>1, FewerAreBounded DEF clear
    <3> QED
      BY <2>4, <3>1, <3>2 DEF clear, CacheTypeOK
  <2>5. CASE UNCHANGED cacheVars
    <3>1. Stored' = Stored
      BY <2>5 DEF cacheVars, Stored
    <3> QED
      BY <2>5, <3>1 DEF cacheVars, CacheTypeOK, Bounded
  <2> QED
    BY <2>1, <2>2, <2>3, <2>4, <2>5 DEF CacheNext
<1> QED
  BY <1>1, <1>2, PTL DEF CacheSpec

\* The cache implements the map that may forget: whatever expires or is
\* evicted, it answers what was put last or nothing.
THEOREM CacheForgets == CacheSpec => ImplementsForgetfulMap
<1>1. CacheInit => Abstract!Init
  BY DEF CacheInit, Abstract!Init, Known, Stored
<1>2. CacheTypeOK /\ [CacheNext]_cacheVars
        => [Abstract!Next]_<<Known, answer>>
  <2> SUFFICES ASSUME CacheTypeOK, [CacheNext]_cacheVars
               PROVE  Abstract!Next \/ UNCHANGED <<Known, answer>>
    OBVIOUS
  <2> USE CacheAssumption DEF CacheAssumption
  <2>1. CASE CacheTick
    <3> DEFINE gone == {k \in Keys : Known'[k] # Known[k]}
    <3>1. \A k \in Keys : Known'[k] = Known[k] \/ Known'[k] = NoValue
      BY <2>1 DEF CacheTick, CacheTypeOK, Entries, Known, Expired, Stored
    <3>2. Known' = [k \in Keys |-> IF k \in gone THEN NoValue ELSE Known[k]]
      BY <3>1 DEF Known
    <3>3. Abstract!Forget(gone)
      BY <2>1, <3>2 DEF CacheTick, Abstract!Forget
    <3> QED
      BY <3>3 DEF Abstract!Next
  <2>2. ASSUME NEW k \in Keys, get(k) PROVE Abstract!Look(k)
    <3>1. answer' = Known[k]
      BY <2>2 DEF get, Known
    <3>2. \A j \in Keys : Known'[j] = Known[j]
      BY <2>2 DEF get, Without, Known, Expired, Stored
    <3>3. Known' = Known
      BY <3>2 DEF Known
    <3> QED
      BY <3>1, <3>3 DEF Abstract!Look
  <2>3. ASSUME NEW k \in Keys, NEW v \in Values, set(k, v)
        PROVE  Abstract!Put(k, v)
    <3>1. PICK evicted \in Stored \cup {k} :
            /\ store' = [j \in (Stored \ {evicted}) \cup {k} |->
                           IF j = k
                             THEN [value |-> v, expires_at |-> now + Ttl]
                             ELSE store[j]]
            /\ UNCHANGED <<max_size, now, answer>>
      BY <2>3 DEF set
    <3>2. /\ Stored' = (Stored \ {evicted}) \cup {k}
          /\ store'[k] = [value |-> v, expires_at |-> now + Ttl]
          /\ \A j \in Stored' \ {k} : j \in Stored /\ store'[j] = store[j]
      BY <3>1, SetStores
    <3>3. Known'[k] = v
      BY <3>1, <3>2 DEF CacheTypeOK, Known, Expired
    <3>4. \A j \in Keys \ {k} :
            Known'[j] = IF j = evicted THEN NoValue ELSE Known[j]
      BY <3>1, <3>2 DEF Known, Expired
    <3>5. Known' = [j \in Keys |-> IF j = k THEN v
                                    ELSE IF j \in {evicted} THEN NoValue
                                                            ELSE Known[j]]
      BY <3>3, <3>4 DEF Known
    <3>6. {evicted} \in SUBSET Keys
      BY DEF CacheTypeOK
    <3> QED
      BY <3>1, <3>5, <3>6 DEF Abstract!Put
  <2>4. CASE clear
    <3>1. Known' = [k \in Keys |-> IF k \in Keys THEN NoValue ELSE Known[k]]
      BY <2>4 DEF clear, Known, Stored
    <3>2. Abstract!Forget(Keys)
      BY <2>4, <3>1 DEF clear, Abstract!Forget
    <3> QED
      BY <3>2 DEF Abstract!Next
  <2>5. CASE UNCHANGED cacheVars
    BY <2>5 DEF cacheVars, Known, Expired, Stored
  <2> QED
    BY <2>1, <2>2, <2>3, <2>4, <2>5 DEF CacheNext, Abstract!Next
<1> QED
  BY <1>1, <1>2, CacheTypeCorrect, PTL
     DEF CacheSpec, ImplementsForgetfulMap, Abstract!Spec
-----------------------------------------------------------------------------
(* What the critical sections of the breaker do to its record.             *)

\* An admitted call finds the type of the breaker unchanged and its count too.
LEMMA AdmitKeeps ==
  ASSUME NEW b \in BreakerType
  PROVE  /\ Admit(b) \in BreakerType
         /\ Admit(b).failure_count = b.failure_count
         /\ Admit(b).opened_at = b.opened_at
         /\ Admit(b).state = IF b.state = "Open" THEN "HalfOpen" ELSE b.state
BY DEF Admit, BreakerType

\* A success leaves a closed breaker with an empty count.
LEMMA OnSuccessCloses ==
  ASSUME NEW b \in BreakerType
  PROVE  /\ OnSuccess(b) \in BreakerType
         /\ OnSuccess(b).failure_count = 0
         /\ OnSuccess(b).state = "Closed"
BY DEF OnSuccess, BreakerType

\* A failure is counted; it opens the breaker, now, at the threshold or when
\* the breaker was half open, and otherwise leaves the state alone.
LEMMA OnFailureCounts ==
  ASSUME NEW b \in BreakerType, NEW t \in Nat
  PROVE  /\ OnFailure(b, t) \in BreakerType
         /\ OnFailure(b, t).failure_count = b.failure_count + 1
         /\ (b.state = "HalfOpen" \/ b.failure_count + 1 >= FailureThreshold)
              => OnFailure(b, t).state = "Open" /\ OnFailure(b, t).opened_at = t
         /\ ~(b.state = "HalfOpen" \/ b.failure_count + 1 >= FailureThreshold)
              => /\ OnFailure(b, t).state = b.state
                 /\ OnFailure(b, t).opened_at = b.opened_at
<1> DEFINE counted == [b EXCEPT !.failure_count = b.failure_count + 1]
<1>1. /\ counted \in BreakerType
      /\ counted.failure_count = b.failure_count + 1
      /\ counted.state = b.state
      /\ counted.opened_at = b.opened_at
  BY DEF BreakerType
<1>2. CASE b.state = "HalfOpen" \/ b.failure_count + 1 >= FailureThreshold
  <2>1. OnFailure(b, t) = [counted EXCEPT !.state = "Open", !.opened_at = t]
    BY <1>1, <1>2 DEF OnFailure
  <2> HIDE DEF counted
  <2> QED
    BY <1>1, <1>2, <2>1 DEF BreakerType
<1>3. CASE ~(b.state = "HalfOpen" \/ b.failure_count + 1 >= FailureThreshold)
  <2>1. OnFailure(b, t) = counted
    BY <1>1, <1>3 DEF OnFailure
  <2> HIDE DEF counted
  <2> QED
    BY <1>1, <1>3, <2>1
<1> QED
  BY <1>2, <1>3
-----------------------------------------------------------------------------
(* The circuit breaker.                                                    *)

USE BreakerAssumption, CircuitBreakerAssumption

\* The strengthening: the type, the meaning of the count, a failure recorded
\* behind every streak, and one that is no longer recent behind HALF_OPEN.
IInv ==
  /\ TypeOK
  /\ CountsConsecutiveFailures
  /\ streak > 0 => last_failure # Never
  /\ breaker.state = "HalfOpen" => clock - last_failure >= ResetTimeout

\* Every reachable state satisfies the strengthening.
LEMMA Inductive == Spec => []IInv
<1>1. Init => IInv
  BY DEF Init, IInv, TypeOK, CountsConsecutiveFailures, NewBreaker,
         BreakerType, Never
<1>2. IInv /\ [Next]_vars => IInv'
  <2> SUFFICES ASSUME IInv, [Next]_vars PROVE IInv'
    OBVIOUS
  <2> USE DEF IInv, TypeOK
  <2>1. CASE Tick
    BY <2>1 DEF Tick, CountsConsecutiveFailures
  <2>2. ASSUME NEW c \in Callers, Enter(c) PROVE IInv'
    BY <2>2, AdmitKeeps DEF Enter, CountsConsecutiveFailures, Refuses, Elapsed,
                            BreakerType, Never
  <2>3. ASSUME NEW c \in Callers, Refuse(c) PROVE IInv'
    BY <2>3 DEF Refuse, CountsConsecutiveFailures
  <2>4. ASSUME NEW c \in Callers, Return(c) PROVE IInv'
    BY <2>4 DEF Return, CountsConsecutiveFailures
  <2>5. ASSUME NEW c \in Callers, Succeed(c) PROVE IInv'
    BY <2>5, OnSuccessCloses DEF Succeed, CountsConsecutiveFailures
  <2>6. ASSUME NEW c \in Callers, Fail(c) PROVE IInv'
    <3>1. breaker' = OnFailure(breaker, clock)
      BY <2>6 DEF Fail
    <3>2. TypeOK'
      BY <2>6, <3>1, OnFailureCounts DEF Fail
    <3>3. CASE breaker.state = "HalfOpen"
                 \/ breaker.failure_count + 1 >= FailureThreshold
      <4>1. /\ breaker'.state = "Open"
            /\ breaker'.opened_at = clock
            /\ breaker'.failure_count = breaker.failure_count + 1
        BY <3>1, <3>3, OnFailureCounts
      <4> QED
        BY <2>6, <3>2, <3>3, <4>1
           DEF Fail, CountsConsecutiveFailures, BreakerType, Never
    <3>4. CASE ~(breaker.state = "HalfOpen"
                   \/ breaker.failure_count + 1 >= FailureThreshold)
      <4>1. /\ breaker'.state = breaker.state
            /\ breaker'.failure_count = breaker.failure_count + 1
        BY <3>1, <3>4, OnFailureCounts
      <4>2. breaker.state = "Closed"
        BY <3>4 DEF CountsConsecutiveFailures, BreakerType
      <4> QED
        BY <2>6, <3>2, <3>4, <4>1, <4>2
           DEF Fail, CountsConsecutiveFailures, BreakerType, Never
    <3> QED
      BY <3>3, <3>4
  <2>7. CASE UNCHANGED vars
    BY <2>7 DEF vars, CountsConsecutiveFailures
  <2> QED
    BY <2>1, <2>2, <2>3, <2>4, <2>5, <2>6, <2>7 DEF Next
<1> QED
  BY <1>1, <1>2, PTL DEF Spec

\* The variables keep their types.
THEOREM TypeCorrect == Spec => []TypeOK
BY Inductive, PTL DEF IInv

\* The count is the number of failures in a row for any interleaving of any
\* number of callers.
THEOREM CountCorrect == Spec => []CountsConsecutiveFailures
BY Inductive, PTL DEF IInv

\* Where the breaker refuses is where the history rule turns a call away.
LEMMA RefusesIsCooling ==
  ASSUME IInv PROVE Refuses(breaker, clock) <=> Contract!Cooling
BY DEF IInv, TypeOK, CountsConsecutiveFailures, Refuses, Elapsed, BreakerType,
       Never, Contract!Cooling, Contract!Tripped

\* A tripped breaker keeps its quiet period, see QuietPeriod.
THEOREM QuietPeriodHolds == Spec => QuietPeriod
<1> DEFINE Quiet == \A c \in Callers :
                      (pc[c] = "idle" /\ pc'[c] = "running" /\ Tripped)
                        => clock - last_failure >= ResetTimeout
<1>1. IInv /\ [Next]_vars => [Quiet]_vars
  <2> SUFFICES ASSUME IInv, Next, NEW c \in Callers,
                      pc[c] = "idle", pc'[c] = "running", Tripped
               PROVE  clock - last_failure >= ResetTimeout
    BY DEF Quiet
  <2>1. Enter(c)
    BY DEF Next, Tick, Enter, Refuse, Return, Succeed, Fail, IInv, TypeOK
  <2>2. ~Contract!Cooling
    BY <2>1, RefusesIsCooling DEF Enter
  <2> QED
    BY <2>2 DEF Contract!Cooling, Contract!Tripped, Tripped, IInv, TypeOK, Never
<1> QED
  BY <1>1, Inductive, PTL DEF Spec, QuietPeriod

\* The three-state breaker implements the history rule of BreakerContract.
THEOREM Implementation == Spec => ImplementsContract
<1>1. Init => Contract!Init
  BY DEF Init, Contract!Init, Never
<1>2. IInv /\ [Next]_vars => [Contract!Next]_Contract!vars
  <2> SUFFICES ASSUME IInv, [Next]_vars PROVE [Contract!Next]_Contract!vars
    OBVIOUS
  <2> USE DEF Contract!Move, Contract!Next
  <2>1. CASE Tick
    BY <2>1 DEF Tick, Contract!Tick
  <2>2. ASSUME NEW c \in Callers, Enter(c) PROVE Contract!Enter(c)
    BY <2>2, RefusesIsCooling DEF Enter, Contract!Enter
  <2>3. ASSUME NEW c \in Callers, Refuse(c) PROVE Contract!TurnAway(c)
    BY <2>3, RefusesIsCooling DEF Refuse, Contract!TurnAway
  <2>4. ASSUME NEW c \in Callers, Return(c) PROVE Contract!Return(c)
    BY <2>4 DEF Return, Contract!Return
  <2>5. ASSUME NEW c \in Callers, Succeed(c) PROVE Contract!ReportSuccess(c)
    BY <2>5 DEF Succeed, Contract!ReportSuccess
  <2>6. ASSUME NEW c \in Callers, Fail(c) PROVE Contract!ReportFailure(c)
    BY <2>6 DEF Fail, Contract!ReportFailure
  <2>7. CASE UNCHANGED vars
    BY <2>7 DEF vars, Contract!vars
  <2> QED
    BY <2>1, <2>2, <2>3, <2>4, <2>5, <2>6, <2>7 DEF Next
<1> QED
  BY <1>1, <1>2, Inductive, PTL DEF Spec, ImplementsContract, Contract!Spec
=============================================================================
