-------------------------- MODULE BreakerContract --------------------------
(***************************************************************************)
(* What a circuit breaker promises its callers, without a state machine:   *)
(* a call is turned away exactly when the last FailureThreshold reports    *)
(* were failures and the latest of them is less than ResetTimeout old.     *)
(* Only the history of the reports decides.  CircuitBreaker implements     *)
(* this with its three states (CircuitBreaker!ImplementsContract).         *)
(***************************************************************************)
EXTENDS Integers

CONSTANTS FailureThreshold, ResetTimeout, Callers, OutageEnd, MaxClock

VARIABLES
  clock,         \* the present instant
  pc,            \* whether each caller is idle, running or refused
  streak,        \* failures reported in a row, up to now
  last_failure   \* the instant of the latest failure, -1 when there is none

vars == <<clock, pc, streak, last_failure>>

Tripped == streak > 0 /\ streak >= FailureThreshold

Cooling == Tripped /\ clock - last_failure < ResetTimeout

Init ==
  /\ clock = 0
  /\ pc = [c \in Callers |-> "idle"]
  /\ streak = 0
  /\ last_failure = -1

Tick ==
  /\ clock < MaxClock
  /\ clock' = clock + 1
  /\ UNCHANGED <<pc, streak, last_failure>>

Move(c, from, to) == pc[c] = from /\ pc' = [pc EXCEPT ![c] = to]

Enter(c) ==
  /\ ~Cooling
  /\ Move(c, "idle", "running")
  /\ UNCHANGED <<clock, streak, last_failure>>

TurnAway(c) ==
  /\ Cooling
  /\ Move(c, "idle", "refused")
  /\ UNCHANGED <<clock, streak, last_failure>>

Return(c) ==
  /\ Move(c, "refused", "idle")
  /\ UNCHANGED <<clock, streak, last_failure>>

ReportSuccess(c) ==
  /\ Move(c, "running", "idle")
  /\ streak' = 0
  /\ UNCHANGED <<clock, last_failure>>

ReportFailure(c) ==
  /\ clock < OutageEnd
  /\ Move(c, "running", "idle")
  /\ streak' = streak + 1
  /\ last_failure' = clock
  /\ UNCHANGED clock

Next ==
  \/ Tick
  \/ \E c \in Callers :
       \/ Enter(c) \/ TurnAway(c) \/ Return(c)
       \/ ReportSuccess(c) \/ ReportFailure(c)

Spec == Init /\ [][Next]_vars
=============================================================================
