--------------------------- MODULE CircuitBreaker ---------------------------
(***************************************************************************)
(* The per-provider circuit breaker of agent/llm_client.py.  Each operator *)
(* below the line is the body of one method, executed under the breaker's  *)
(* lock and therefore atomic.  CanExecute has two outcomes, so it is two   *)
(* actions: Admit (it returns True) and Reject (it returns False).         *)
(*                                                                         *)
(* The code compares time.time() - _last_failure_time with the recovery    *)
(* timeout and nothing else, so the clock is kept as the age of the last   *)
(* failure, saturated at RecoveryTimeout.  In the same way _failure_count  *)
(* is only compared with the threshold and saturates there.                *)
(***************************************************************************)
EXTENDS Naturals

CONSTANTS
  FailureThreshold,   \* failure_threshold (5)
  RecoveryTimeout,    \* recovery_timeout (30 s)
  HalfOpenMaxCalls    \* half_open_max_calls (1)

ASSUME BreakerAssumption ==
  /\ FailureThreshold \in Nat \ {0}
  /\ RecoveryTimeout \in Nat \ {0}
  /\ HalfOpenMaxCalls \in Nat \ {0}

VARIABLES
  state,          \* _state
  failureCount,   \* _failure_count, saturated at FailureThreshold
  sinceFailure,   \* time.time() - _last_failure_time, saturated
  halfOpenCalls   \* _half_open_calls

breakerVars == <<state, failureCount, sinceFailure, halfOpenCalls>>

CircuitState == {"CLOSED", "OPEN", "HALF"}

BreakerTypeOK ==
  /\ state \in CircuitState
  /\ failureCount \in 0..FailureThreshold
  /\ sinceFailure \in 0..RecoveryTimeout
  /\ halfOpenCalls \in 0..HalfOpenMaxCalls

(* _last_failure_time starts at the epoch: the last failure is long ago. *)
BreakerInit ==
  /\ state = "CLOSED"
  /\ failureCount = 0
  /\ sinceFailure = RecoveryTimeout
  /\ halfOpenCalls = 0
-----------------------------------------------------------------------------
RecoveryElapsed == sinceFailure >= RecoveryTimeout

AdmitWhenClosed ==
  /\ state = "CLOSED"
  /\ UNCHANGED breakerVars

AdmitAfterRecovery ==
  /\ state = "OPEN"
  /\ RecoveryElapsed
  /\ state' = "HALF"
  /\ halfOpenCalls' = 0
  /\ UNCHANGED <<failureCount, sinceFailure>>

AdmitWhenHalfCounted ==   \* mutant: the probe is counted, and never given back
  /\ state = "HALF"
  /\ halfOpenCalls < HalfOpenMaxCalls
  /\ halfOpenCalls' = halfOpenCalls + 1
  /\ UNCHANGED <<state, failureCount, sinceFailure>>

(* The method reads _half_open_calls and never increments it. *)
AdmitWhenHalf ==
  /\ state = "HALF"
  /\ halfOpenCalls < HalfOpenMaxCalls
  /\ UNCHANGED breakerVars

Admit == AdmitWhenClosed \/ AdmitAfterRecovery \/ AdmitWhenHalf

Reject ==
  /\ \/ state = "OPEN" /\ ~RecoveryElapsed
     \/ state = "HALF" /\ halfOpenCalls >= HalfOpenMaxCalls
  /\ UNCHANGED breakerVars

(* A success seen in OPEN clears the count but leaves the breaker OPEN. *)
RecordSuccess ==
  /\ failureCount' = 0
  /\ state' = IF state = "HALF" THEN "CLOSED" ELSE state
  /\ halfOpenCalls' = IF state = "HALF" THEN 0 ELSE halfOpenCalls
  /\ UNCHANGED sinceFailure

CountFailure ==
  IF failureCount < FailureThreshold THEN failureCount + 1 ELSE failureCount

RecordFailureLate ==   \* mutant: > instead of >= at the threshold
  /\ failureCount' = CountFailure
  /\ sinceFailure' = 0
  /\ state' = IF state = "HALF" \/ CountFailure > FailureThreshold
              THEN "OPEN" ELSE state
  /\ UNCHANGED halfOpenCalls

RecordFailure ==
  /\ failureCount' = CountFailure
  /\ sinceFailure' = 0
  /\ state' = IF state = "HALF" \/ CountFailure >= FailureThreshold
              THEN "OPEN" ELSE state
  /\ UNCHANGED halfOpenCalls

(* One unit of wall-clock time, as the breaker sees it. *)
AgeFailure ==
  /\ sinceFailure' = IF RecoveryElapsed THEN sinceFailure ELSE sinceFailure + 1
  /\ UNCHANGED <<state, failureCount, halfOpenCalls>>
=============================================================================
