---------------------------- MODULE RateLimiter ----------------------------
(***************************************************************************)
(* One RateLimiter shared by callers (src/core/rate_limiter.rs).  acquire  *)
(* reads the clock first and takes the lock on the timestamps second; a    *)
(* caller that waits for the lock works with an instant of the past, so    *)
(* instants can enter the list out of order.                               *)
(*                                                                         *)
(* The Vec<Instant> is a set of grants: two grants of one instant differ   *)
(* in their serial number, a history tag the code does not keep, and the   *)
(* order of the list is never looked at.                                   *)
(***************************************************************************)
EXTENDS Integers, FiniteSets

CONSTANTS
  Callers,    \* tasks that call acquire
  Limit,      \* limit: config.rate_limit, 100 by default
  Window,     \* window, in clock ticks: one second in ApiClient::new
  MaxClock    \* bound of the model: the last instant

\* RateLimiter::new accepts any usize and any Duration.
ASSUME RateLimiterAssumption ==
  /\ IsFiniteSet(Callers)
  /\ Limit \in Nat
  /\ Window \in Nat
  /\ MaxClock \in Nat

VARIABLES
  clock,        \* what Instant::now() reads
  timestamps,   \* the grants whose instant the list still holds
  pc,           \* where each caller is in acquire
  now,          \* the local variable now of each caller
  granted       \* history: every grant ever made

vars == <<clock, timestamps, pc, now, granted>>

\* A grant: the instant pushed to the list and the instant acquire returned.
Grant == [serial : Nat, stamp : Nat, at : Nat]

\* now.duration_since(t), which saturates at zero
DurationSince(n, t) == IF n < t THEN 0 ELSE n - t

\* Mutant: off by one, an entry is dropped a tick before the window ends.
RetainShort(n) == {g \in timestamps : DurationSince(n, g.stamp) + 1 < Window}

\* Mutant: the comparison is turned round.
RetainExpired(n) == {g \in timestamps : DurationSince(n, g.stamp) >= Window}

\* timestamps.retain(|&t| now.duration_since(t) < self.window)
Retain(n) == {g \in timestamps : DurationSince(n, g.stamp) < Window}

Init ==
  /\ clock = 0
  /\ timestamps = {}
  /\ pc = [c \in Callers |-> "idle"]
  /\ now = [c \in Callers |-> 0]
  /\ granted = {}

Tick ==
  /\ clock < MaxClock
  /\ clock' = clock + 1
  /\ UNCHANGED <<timestamps, pc, now, granted>>

\* let now = Instant::now();
ReadClock(c) ==
  /\ pc[c] = "idle"
  /\ now' = [now EXCEPT ![c] = clock]
  /\ pc' = [pc EXCEPT ![c] = "locking"]
  /\ UNCHANGED <<clock, timestamps, granted>>

\* The critical section when the list is not full: push(now), Ok(()).
GrantCall(c) ==
  LET kept == Retain(now[c])
      new  == [serial |-> Cardinality(granted), stamp |-> now[c], at |-> clock]
  IN
  /\ pc[c] = "locking"
  /\ Cardinality(kept) < Limit
  /\ timestamps' = kept \cup {new}
  /\ granted' = granted \cup {new}
  /\ pc' = [pc EXCEPT ![c] = "idle"]
  /\ UNCHANGED <<clock, now>>

\* Mutant: the instant is pushed before the limit is looked at.
RefuseCallCounted(c) ==
  LET kept == Retain(now[c])
      new  == [serial |-> Cardinality(granted), stamp |-> now[c], at |-> clock]
  IN
  /\ pc[c] = "locking"
  /\ Cardinality(kept) >= Limit
  /\ timestamps' = kept \cup {new}
  /\ pc' = [pc EXCEPT ![c] = "idle"]
  /\ UNCHANGED <<clock, now, granted>>

\* The critical section when it is full: the expired instants are dropped all
\* the same, Err(RateLimitExceeded).
RefuseCall(c) ==
  LET kept == Retain(now[c])
  IN
  /\ pc[c] = "locking"
  /\ Cardinality(kept) >= Limit
  /\ timestamps' = kept
  /\ pc' = [pc EXCEPT ![c] = "idle"]
  /\ UNCHANGED <<clock, now, granted>>

Next ==
  \/ Tick
  \/ \E c \in Callers : ReadClock(c) \/ GrantCall(c) \/ RefuseCall(c)

Spec == Init /\ [][Next]_vars
-----------------------------------------------------------------------------
TypeOK ==
  /\ clock \in Nat
  /\ timestamps \subseteq granted
  /\ pc \in [Callers -> {"idle", "locking"}]
  /\ now \in [Callers -> Nat]
  /\ granted \subseteq Grant

\* The list never outgrows the limit (the early return of acquire).
AtMostLimitHeld ==
  IsFiniteSet(timestamps) /\ Cardinality(timestamps) <= Limit

\* Nothing is forgotten early: however stale the instant of the caller that
\* prunes the list, a grant whose instant is less than a window old is in it.
KeepsRecent ==
  \A g \in granted : clock - g.stamp < Window => g \in timestamps

\* The grants that both read the clock and were made in the window [x, x+W).
WithinWindow(x) == {g \in granted : x <= g.stamp /\ g.at < x + Window}

\* Of the calls that ran acquire from its first line to its last within one
\* window, at most limit pass, whatever the interleaving.
LimitPerWindow ==
  \A x \in 0..MaxClock :
    IsFiniteSet(WithinWindow(x)) /\ Cardinality(WithinWindow(x)) <= Limit

\* The grants made in the window [x, x+W), with whatever instant.
MadeWithin(x) == {g \in granted : x <= g.at /\ g.at < x + Window}

\* The overshoot has a bound: a window lets at most one more call through
\* than the limit for every caller that was waiting for the lock when the
\* window began (acquire reads the clock before it locks).
BoundedOvershoot ==
  \A x \in 0..MaxClock :
    Cardinality(MadeWithin(x)) <= Limit + Cardinality(Callers)
=============================================================================
