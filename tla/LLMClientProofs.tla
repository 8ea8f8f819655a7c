--------------------------- MODULE LLMClientProofs ---------------------------
(***************************************************************************)
(* What holds of the LLM client for every number of callers and streamers, *)
(* every threshold and every timeout: its types, the meaning of CLOSED,    *)
(* and the lockout.                                                        *)
(***************************************************************************)
EXTENDS LLMClient, TLAPS

(* The back-off of _retry never leaves its cap.                            *)
LEMMA BackoffBounded == \A n : Backoff(n) \in 0..MaxDelay
BY ClientAssumption DEF Backoff

(* Each method of the breaker keeps the types of the breaker's fields.     *)
LEMMA BreakerTypes ==
  ASSUME BreakerTypeOK,
         Admit \/ Reject \/ RecordSuccess \/ RecordFailure \/ AgeFailure
         \/ UNCHANGED breakerVars
  PROVE  BreakerTypeOK'
<1> USE BreakerAssumption DEF BreakerTypeOK, CircuitState
<1>1. CASE Admit
  BY <1>1 DEF Admit, AdmitWhenClosed, AdmitAfterRecovery, AdmitWhenHalf, breakerVars
<1>2. CASE RecordSuccess
  BY <1>2 DEF RecordSuccess
<1>3. CASE RecordFailure
  BY <1>3 DEF RecordFailure, CountFailure
<1>4. CASE AgeFailure
  BY <1>4 DEF AgeFailure, RecoveryElapsed
<1>5. CASE Reject \/ UNCHANGED breakerVars
  BY <1>5 DEF Reject, breakerVars
<1>6. QED
  BY <1>1, <1>2, <1>3, <1>4, <1>5

(* Types of the whole client: the breaker, and the retry loop that never   *)
(* goes beyond max_attempts nor sleeps longer than the cap.                *)
THEOREM ClientTypes == Spec => []TypeOK
<1> USE BreakerAssumption, ClientAssumption
<1>1. Init => TypeOK
  BY DEF Init, BreakerInit, TypeOK, BreakerTypeOK, CircuitState, CallerPC, StreamPC
<1>2. TypeOK /\ [Next]_vars => TypeOK'
  <2> SUFFICES ASSUME TypeOK, [Next]_vars
               PROVE  TypeOK'
    OBVIOUS
  <2> USE DEF TypeOK, CallerPC, StreamPC, Goto, retryVars
  <2>1. ASSUME NEW c \in Callers, StartChat(c)
        PROVE  TypeOK'
    BY <2>1, BreakerTypes DEF StartChat
  <2>2. ASSUME NEW c \in Callers, PassGate(c)
        PROVE  TypeOK'
    BY <2>2, BreakerTypes DEF PassGate
  <2>3. ASSUME NEW c \in Callers, BounceAtGate(c)
        PROVE  TypeOK'
    BY <2>3, BreakerTypes DEF BounceAtGate
  <2>4. ASSUME NEW c \in Callers, CallSucceeds(c)
        PROVE  TypeOK'
    BY <2>4, BreakerTypes DEF CallSucceeds
  <2>5. ASSUME NEW c \in Callers, CallFails(c)
        PROVE  TypeOK'
    BY <2>5, BreakerTypes, BackoffBounded DEF CallFails
  <2>6. ASSUME NEW c \in Callers, LastCallFails(c)
        PROVE  TypeOK'
    BY <2>6, BreakerTypes DEF LastCallFails
  <2>7. ASSUME NEW c \in Callers, Wake(c)
        PROVE  TypeOK'
    BY <2>7, BreakerTypes DEF Wake
  <2>8. ASSUME NEW c \in Callers, GiveUp(c)
        PROVE  TypeOK'
    BY <2>8, BreakerTypes DEF GiveUp
  <2>9. ASSUME NEW c \in Callers, ReportRejection(c)
        PROVE  TypeOK'
    BY <2>9, BreakerTypes DEF ReportRejection
  <2>10. ASSUME NEW s \in Streamers, StartStream(s)
        PROVE  TypeOK'
    BY <2>10, BreakerTypes DEF StartStream
  <2>11. ASSUME NEW s \in Streamers, StreamCompletes(s)
        PROVE  TypeOK'
    BY <2>11, BreakerTypes DEF StreamCompletes
  <2>12. ASSUME NEW s \in Streamers, StreamFails(s)
        PROVE  TypeOK'
    BY <2>12, BreakerTypes DEF StreamFails
  <2>13. ASSUME NEW s \in Streamers, StreamDropped(s)
        PROVE  TypeOK'
    BY <2>13, BreakerTypes DEF StreamDropped
  <2>14. CASE ProviderFlips
    BY <2>14, BreakerTypes DEF ProviderFlips
  <2>15. CASE Tick
    BY <2>15, BreakerTypes DEF Tick
  <2>16. CASE UNCHANGED vars
    BY <2>16, BreakerTypes DEF vars
  <2>17. QED
    BY <2>1, <2>2, <2>3, <2>4, <2>5, <2>6, <2>7, <2>8, <2>9, <2>10, <2>11, <2>12, <2>13, <2>14, <2>15, <2>16 DEF Next, Retry, Stream
<1>3. QED
  BY <1>1, <1>2, PTL DEF Spec

(* The breaker's own steps never leave it CLOSED with its threshold reached *)
(* (record_failure opens it in the step that reaches the threshold, and     *)
(* record_success, the only way back, clears the count).                    *)
LEMMA BreakerStaysBelow ==
  ASSUME BreakerTypeOK, ClosedBelowThreshold,
         Admit \/ Reject \/ RecordSuccess \/ RecordFailure \/ AgeFailure
         \/ UNCHANGED breakerVars
  PROVE  ClosedBelowThreshold'
BY BreakerAssumption
   DEF BreakerTypeOK, CircuitState, ClosedBelowThreshold, breakerVars,
       Admit, AdmitWhenClosed, AdmitAfterRecovery, AdmitWhenHalf, Reject,
       RecordSuccess, RecordFailure, CountFailure, AgeFailure

(* Every step of the client is one method of the breaker, or none.         *)
LEMMA StepsOfTheBreaker ==
  ASSUME [Next]_vars
  PROVE  Admit \/ Reject \/ RecordSuccess \/ RecordFailure \/ AgeFailure
         \/ UNCHANGED breakerVars
BY DEF Next, Retry, Stream, StartChat, PassGate, BounceAtGate, CallSucceeds,
       CallFails, LastCallFails, Wake, GiveUp, ReportRejection, StartStream,
       StreamCompletes, StreamFails, StreamDropped, ProviderFlips, Tick, vars

(* CLOSED means that failure_threshold has not been reached.               *)
THEOREM ClosedIsBelowThreshold == Spec => []ClosedBelowThreshold
<1>1. Init => ClosedBelowThreshold
  BY BreakerAssumption DEF Init, BreakerInit, ClosedBelowThreshold
<1>2. TypeOK /\ ClosedBelowThreshold /\ [Next]_vars => ClosedBelowThreshold'
  BY BreakerStaysBelow, StepsOfTheBreaker DEF TypeOK
<1>3. QED
  BY <1>1, <1>2, ClientTypes, PTL DEF Spec

(* While the lockout lasts the requests in flight only drain: a caller can *)
(* reach "calling" through the gate only, and Admit is disabled.           *)
THEOREM Lockout == Spec => LockoutOnlyDrains
<1>1. ASSUME TypeOK, [Next]_vars, state = "OPEN", sinceFailure < RecoveryTimeout
      PROVE  Calling' \subseteq Calling
  <2> SUFFICES ASSUME NEW d \in Callers, pc'[d] = "calling"
               PROVE  pc[d] = "calling"
    BY DEF Calling
  <2>1. ~Admit
    BY <1>1, BreakerAssumption
       DEF TypeOK, BreakerTypeOK, Admit, AdmitWhenClosed, AdmitAfterRecovery,
           AdmitWhenHalf, RecoveryElapsed
  <2>2. ASSUME NEW c \in Callers, StartChat(c) \/ Retry(c)
        PROVE  pc[d] = "calling"
    BY <1>1, <2>1, <2>2
       DEF TypeOK, Goto, Retry, StartChat, PassGate, BounceAtGate, CallSucceeds,
           CallFails, LastCallFails, Wake, GiveUp, ReportRejection
  <2>3. ASSUME NEW s \in Streamers, Stream(s)
        PROVE  pc[d] = "calling"
    BY <1>1, <2>3
       DEF TypeOK, Goto, Stream, StartStream, StreamCompletes, StreamFails,
           StreamDropped
  <2>4. CASE ProviderFlips \/ Tick \/ UNCHANGED vars
    BY <2>4 DEF ProviderFlips, Tick, vars
  <2>5. QED
    BY <1>1, <2>2, <2>3, <2>4 DEF Next
<1>2. TypeOK /\ [Next]_vars
        => [state = "OPEN" /\ sinceFailure < RecoveryTimeout
              => Calling' \subseteq Calling]_vars
  BY <1>1
<1>3. QED
  BY <1>2, ClientTypes, PTL DEF Spec, LockoutOnlyDrains
=============================================================================
