---------------------------- MODULE BreakerState ----------------------------
(***************************************************************************)
(* The data of one CircuitBreaker (src/core/circuit_breaker.rs) and the    *)
(* three critical sections that change it, as operators on a record.  The  *)
(* module has no variables: CircuitBreaker.tla puts one breaker between    *)
(* concurrent callers, CallPipeline.tla puts one in every tool call.       *)
(***************************************************************************)
EXTENDS Integers

CONSTANTS
  FailureThreshold,   \* failure_threshold: 5 in CircuitBreaker::default
  ResetTimeout        \* reset_timeout, in clock ticks: 30 s in the default

\* CircuitBreaker::new accepts any u32 and any Duration.
ASSUME BreakerAssumption ==
  /\ FailureThreshold \in Nat
  /\ ResetTimeout \in Nat

\* Option<Instant>::None for opened_at; every instant is a natural number.
Never == -1

BreakerType ==
  [state : {"Closed", "Open", "HalfOpen"},
   failure_count : Nat,
   opened_at : Nat \cup {Never}]

NewBreaker == [state |-> "Closed", failure_count |-> 0, opened_at |-> Never]

\* opened_at.map(|at| at.elapsed()).unwrap_or_default()
Elapsed(b, now) == IF b.opened_at = Never THEN 0 ELSE now - b.opened_at

\* The early return of execute: the wrapped call never runs.
Refuses(b, now) == b.state = "Open" /\ Elapsed(b, now) < ResetTimeout

\* The rest of execute's first critical section, for a call that does run.
Admit(b) == IF b.state = "Open" THEN [b EXCEPT !.state = "HalfOpen"] ELSE b

\* Mutant: a success pays off one failure instead of all of them.
OnSuccessPaysOne(b) ==
  [b EXCEPT !.failure_count = @ - 1, !.state = "Closed"]

\* Mutant: the reset of the count is missing.
OnSuccessKeepsCount(b) == [b EXCEPT !.state = "Closed"]

\* Mutant: a success clears the count and leaves the state as it is.
OnSuccessKeepsState(b) == [b EXCEPT !.failure_count = 0]

OnSuccess(b) == [b EXCEPT !.failure_count = 0, !.state = "Closed"]

\* Mutant: off by one, the breaker opens a failure early.
OnFailureEarly(b, now) ==
  LET counted == [b EXCEPT !.failure_count = @ + 1]
  IN  IF b.state = "HalfOpen" \/ counted.failure_count + 1 >= FailureThreshold
        THEN [counted EXCEPT !.state = "Open", !.opened_at = now]
        ELSE counted

\* The count is a u32: it is kept exact because no run of the system comes
\* near 2^32 failures without a success.
OnFailure(b, now) ==
  LET counted == [b EXCEPT !.failure_count = @ + 1]
  IN  IF b.state = "HalfOpen" \/ counted.failure_count >= FailureThreshold
        THEN [counted EXCEPT !.state = "Open", !.opened_at = now]
        ELSE counted
=============================================================================
