----------------------------- MODULE QueryCache -----------------------------
(***************************************************************************)
(* QueryCache (src/core/cache_manager.rs): a map of bounded size whose     *)
(* entries expire.  Each method runs under the cache's mutex, the reading  *)
(* of the clock included, and is one step.  The map lists its keys in no   *)
(* particular order, so that the entry set() evicts is any of them; it may *)
(* evict a live entry while an expired one stays.                          *)
(*                                                                         *)
(* Instants are whole numbers up to MaxTime.                               *)
(***************************************************************************)
EXTENDS Integers, FiniteSets

CONSTANTS
  Keys, Values, NoValue,
  Sizes,      \* the values of max_size
  Ttl,
  MaxTime

ASSUME CacheAssumption ==
  /\ NoValue \notin Values
  /\ Sizes \subseteq Nat
  /\ Ttl \in Nat
  /\ MaxTime \in Nat

VARIABLES
  max_size,
  store,      \* the entries: a map from some keys to a value and its expiry
  now,
  answer      \* what the last get returned

cacheVars == <<max_size, store, now, answer>>

Entries == [value : Values, expires_at : Nat]
Stored == DOMAIN store

Without(k) == [j \in Stored \ {k} |-> store[j]]

CacheInit ==
  /\ max_size \in Sizes
  /\ store = [k \in {} |-> NoValue]
  /\ now = 0
  /\ answer = NoValue

CacheTick ==
  /\ now < MaxTime
  /\ now' = now + 1
  /\ UNCHANGED <<max_size, store, answer>>

\* The expiry itself still counts as live.
Expired(k) == now > store[k].expires_at

\* Mutant: get does not look at the clock.
GetAny(k) ==
  /\ answer' = IF k \in Stored THEN store[k].value ELSE NoValue
  /\ UNCHANGED <<max_size, store, now>>

get(k) ==
  /\ answer' = IF k \in Stored /\ ~Expired(k) THEN store[k].value ELSE NoValue
  /\ store' = IF k \in Stored /\ Expired(k) THEN Without(k) ELSE store
  /\ UNCHANGED <<max_size, now>>

\* Mutant: the limit is tested before the new entry is counted.
RoomLate(k, evicted) ==
  IF Cardinality(Stored) > max_size /\ k \notin Stored /\ Stored # {}
    THEN evicted \in Stored ELSE evicted = k

\* The entry that has to go for k; k itself if none has to.
Room(k, evicted) ==
  IF Cardinality(Stored) >= max_size /\ k \notin Stored /\ Stored # {}
    THEN evicted \in Stored ELSE evicted = k

set(k, v) ==
  \E evicted \in Stored \cup {k} :
    /\ Room(k, evicted)
    /\ store' = [j \in (Stored \ {evicted}) \cup {k} |->
                   IF j = k THEN [value |-> v, expires_at |-> now + Ttl]
                            ELSE store[j]]
    /\ UNCHANGED <<max_size, now, answer>>

clear ==
  /\ store' = [k \in {} |-> NoValue]
  /\ UNCHANGED <<max_size, now, answer>>

CacheNext ==
  \/ CacheTick
  \/ \E k \in Keys : get(k)
  \/ \E k \in Keys, v \in Values : set(k, v)
  \/ clear

CacheSpec == CacheInit /\ [][CacheNext]_cacheVars
-----------------------------------------------------------------------------
\* The cache never holds more than max_size entries, expired ones included;
\* with a maximum of zero it holds one all the same, since set() inserts after
\* it has made room (set).
Bounded == Cardinality(Stored) <= max_size \/ Cardinality(Stored) <= 1

CacheTypeOK ==
  /\ max_size \in Sizes
  /\ Stored \subseteq Keys
  /\ IsFiniteSet(Stored)
  /\ \A k \in Stored : /\ store[k] \in Entries
                       /\ store[k].expires_at <= now + Ttl
  /\ now \in Nat
  /\ answer \in Values \cup {NoValue}
  /\ Bounded

\* What the cache still knows: its live entries.
Known ==
  [k \in Keys |-> IF k \in Stored /\ ~Expired(k)
                    THEN store[k].value ELSE NoValue]

Abstract == INSTANCE ForgetfulMap WITH known <- Known

\* Whatever expires, is evicted or is put again, the cache answers with the
\* value last put under a key or with nothing; the value is never older than
\* its time to live (get, set, clear).
ImplementsForgetfulMap == Abstract!Spec
=============================================================================
