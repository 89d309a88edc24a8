--------------------------- MODULE CircuitBreaker ---------------------------
(***************************************************************************)
(* One CircuitBreaker shared by callers that run CircuitBreaker::execute   *)
(* concurrently (src/core/circuit_breaker.rs).  execute takes the lock     *)
(* twice: once to be admitted, once to report the outcome.  The wrapped    *)
(* call runs between the two without the lock, so any number of callers    *)
(* can be between them, and a report may reach a breaker whose state is no *)
(* longer the one that admitted the call.                                  *)
(*                                                                         *)
(* The upstream service is part of the environment: until OutageEnd a call *)
(* may succeed or fail, from OutageEnd on it succeeds.  The clock stops at *)
(* MaxClock, a bound of the model.                                         *)
(***************************************************************************)
EXTENDS BreakerState

CONSTANTS
  Callers,     \* tasks that share the breaker
  OutageEnd,   \* the first instant from which every wrapped call succeeds
  MaxClock     \* the last instant of the model

ASSUME CircuitBreakerAssumption ==
  /\ OutageEnd \in Nat
  /\ MaxClock \in Nat

VARIABLES
  clock,         \* what Instant::now() reads
  breaker,       \* the Inner behind the mutex
  pc,            \* where each caller is in execute
  streak,        \* history: failures reported since the last reported success
  last_failure   \* history: when the latest failure was reported

vars == <<clock, breaker, pc, streak, last_failure>>

Init ==
  /\ clock = 0
  /\ breaker = NewBreaker
  /\ pc = [c \in Callers |-> "idle"]
  /\ streak = 0
  /\ last_failure = Never

Tick ==
  /\ clock < MaxClock
  /\ clock' = clock + 1
  /\ UNCHANGED <<breaker, pc, streak, last_failure>>

\* First critical section: the caller passes and starts the wrapped call.
Enter(c) ==
  /\ pc[c] = "idle"
  /\ ~Refuses(breaker, clock)
  /\ breaker' = Admit(breaker)
  /\ pc' = [pc EXCEPT ![c] = "running"]
  /\ UNCHANGED <<clock, streak, last_failure>>

\* First critical section: Err(CircuitBreakerError::Open).
Refuse(c) ==
  /\ pc[c] = "idle"
  /\ Refuses(breaker, clock)
  /\ pc' = [pc EXCEPT ![c] = "refused"]
  /\ UNCHANGED <<clock, breaker, streak, last_failure>>

\* The refused caller has its error and may come back with another call.
Return(c) ==
  /\ pc[c] = "refused"
  /\ pc' = [pc EXCEPT ![c] = "idle"]
  /\ UNCHANGED <<clock, breaker, streak, last_failure>>

\* The wrapped call returned Ok: second critical section, on_success.
Succeed(c) ==
  /\ pc[c] = "running"
  /\ breaker' = OnSuccess(breaker)
  /\ pc' = [pc EXCEPT ![c] = "idle"]
  /\ streak' = 0
  /\ UNCHANGED <<clock, last_failure>>

\* The wrapped call returned Err: second critical section, on_failure.
Fail(c) ==
  /\ pc[c] = "running"
  /\ clock < OutageEnd
  /\ breaker' = OnFailure(breaker, clock)
  /\ pc' = [pc EXCEPT ![c] = "idle"]
  /\ streak' = streak + 1
  /\ last_failure' = clock
  /\ UNCHANGED clock

Next ==
  \/ Tick
  \/ \E c \in Callers :
       Enter(c) \/ Refuse(c) \/ Return(c) \/ Succeed(c) \/ Fail(c)

Spec == Init /\ [][Next]_vars

\* Time passes, callers keep coming back, and a wrapped call returns (every
\* attempt of ApiClient::dispatch has a timeout and the attempts are counted).
Fairness ==
  /\ WF_vars(Tick)
  /\ \A c \in Callers :
       /\ WF_vars(Enter(c) \/ Refuse(c) \/ Return(c))
       /\ WF_vars(Succeed(c) \/ Fail(c))

FairSpec == Spec /\ Fairness
-----------------------------------------------------------------------------
TypeOK ==
  /\ clock \in Nat
  /\ breaker \in BreakerType
  /\ pc \in [Callers -> {"idle", "running", "refused"}]
  /\ streak \in Nat
  /\ last_failure \in Nat \cup {Never}

\* The stored count is the number of failures in a row, whatever the order in
\* which overlapping calls report, and a breaker that left Closed remembers
\* the instant of the latest failure and has the threshold behind it
\* (on_success, on_failure and the HALF_OPEN transition of execute).
CountsConsecutiveFailures ==
  /\ breaker.failure_count = streak
  /\ breaker.state = "Closed" =>
       (streak < FailureThreshold \/ streak = 0)
  /\ breaker.state # "Closed" =>
       /\ streak > 0
       /\ streak >= FailureThreshold
       /\ breaker.opened_at = last_failure

Tripped == streak > 0 /\ streak >= FailureThreshold

\* No call is let through within reset_timeout of a failure that completed a
\* run of failure_threshold failures or prolonged one, even when trials and
\* stragglers report in between (the promise of execute's early return).
QuietPeriod ==
  [][\A c \in Callers :
       (pc[c] = "idle" /\ pc'[c] = "running" /\ Tripped)
         => clock - last_failure >= ResetTimeout]_vars

\* The refinement mapping: the contract has the history and not the breaker.
Contract == INSTANCE BreakerContract
              WITH clock <- clock, pc <- pc, streak <- streak,
                   last_failure <- last_failure

\* The three states implement the history rule of BreakerContract for any
\* number of overlapping callers: a refusal always has a full streak and a
\* recent failure behind it, and without them a call always runs (execute,
\* on_success, on_failure).
ImplementsContract == Contract!Spec

\* Once the outage is over the breaker closes and stays closed: neither a
\* straggler nor the order of the reports can keep it from recovering while
\* callers keep calling (execute, on_success).
RecoversAfterOutage == <>[](breaker.state = "Closed")
=============================================================================
