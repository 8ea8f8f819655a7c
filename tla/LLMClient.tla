------------------------------ MODULE LLMClient ------------------------------
(***************************************************************************)
(* The resilient call path of agent/llm_client.py for one provider: chat() *)
(* through _retry, and the streaming generator, both sharing the           *)
(* provider's circuit breaker.  A caller is a thread (or, with one caller, *)
(* the agent's event loop) inside chat(); a streamer holds a generator     *)
(* that it may consume, let fail, or drop half way.                        *)
(***************************************************************************)
EXTENDS CircuitBreaker

CONSTANTS
  Callers,      \* threads that call chat()
  Streamers,    \* consumers of chat_stream(); {} in the deployed agent
  MaxAttempts,  \* max_attempts (3)
  BaseDelay,    \* base_delay (1 s)
  MaxDelay      \* the cap on the back-off (8 s)

ASSUME ClientAssumption ==
  /\ Callers \cap Streamers = {}
  /\ MaxAttempts \in Nat \ {0}
  /\ BaseDelay \in Nat
  /\ MaxDelay \in Nat

VARIABLES
  pc,        \* where each caller and streamer is
  attempt,   \* the loop variable of _retry, per caller
  delay,     \* what is left of the current time.sleep, per caller
  healthy    \* does the provider answer at the moment?

retryVars == <<attempt, delay>>
vars == <<breakerVars, pc, attempt, delay, healthy>>

CallerPC == {"idle", "gate", "calling", "sleeping", "exhausted", "rejected"}
StreamPC == {"idle", "streaming"}

(* Types, and the loop bound a sleeping caller still has to use.           *)
TypeOK ==
  /\ BreakerTypeOK
  /\ pc \in [Callers \cup Streamers -> CallerPC \cup StreamPC]
  /\ \A c \in Callers : pc[c] \in CallerPC
  /\ \A s \in Streamers : pc[s] \in StreamPC
  /\ attempt \in [Callers -> 1..MaxAttempts]
  /\ \A c \in Callers : pc[c] = "sleeping" => attempt[c] < MaxAttempts
  /\ delay \in [Callers -> 0..MaxDelay]
  /\ healthy \in BOOLEAN

Init ==
  /\ BreakerInit
  /\ pc = [p \in Callers \cup Streamers |-> "idle"]
  /\ attempt = [c \in Callers |-> 1]
  /\ delay = [c \in Callers |-> 0]
  /\ healthy \in BOOLEAN
-----------------------------------------------------------------------------
Goto(p, from, to) ==
  /\ pc[p] = from
  /\ pc' = [pc EXCEPT ![p] = to]

(* min(base_delay * 2 ** (attempt - 1), 8.0) *)
Backoff(n) ==
  LET d == BaseDelay * 2^(n - 1) IN IF d \in 0..MaxDelay THEN d ELSE MaxDelay

StartChat(c) ==
  /\ Goto(c, "idle", "gate")
  /\ attempt' = [attempt EXCEPT ![c] = 1]
  /\ UNCHANGED <<breakerVars, delay, healthy>>

(* Every attempt asks the breaker first, not only the first one. *)
PassGate(c) ==
  /\ Goto(c, "gate", "calling")
  /\ Admit
  /\ UNCHANGED <<retryVars, healthy>>

BounceAtGate(c) ==
  /\ Goto(c, "gate", "rejected")
  /\ Reject
  /\ UNCHANGED <<retryVars, healthy>>

(* return fn(): the result goes straight back, the breaker is not told. *)
CallSucceeds(c) ==
  /\ healthy
  /\ Goto(c, "calling", "idle")
  /\ UNCHANGED <<breakerVars, retryVars, healthy>>

CallFailsUnbounded(c) ==   \* mutant: the attempt bound is dropped
  /\ ~healthy
  /\ Goto(c, "calling", "sleeping")
  /\ delay' = [delay EXCEPT ![c] = Backoff(attempt[c])]
  /\ UNCHANGED <<breakerVars, attempt, healthy>>

CallFails(c) ==
  /\ ~healthy
  /\ attempt[c] < MaxAttempts
  /\ Goto(c, "calling", "sleeping")
  /\ delay' = [delay EXCEPT ![c] = Backoff(attempt[c])]
  /\ UNCHANGED <<breakerVars, attempt, healthy>>

LastCallFails(c) ==
  /\ ~healthy
  /\ attempt[c] = MaxAttempts
  /\ Goto(c, "calling", "exhausted")
  /\ UNCHANGED <<breakerVars, retryVars, healthy>>

WakeUnchecked(c) ==   \* mutant: only the first attempt asks the breaker
  /\ delay[c] = 0
  /\ Goto(c, "sleeping", "calling")
  /\ attempt' = [attempt EXCEPT ![c] = @ + 1]
  /\ UNCHANGED <<breakerVars, delay, healthy>>

WakeUncounted(c) ==   \* mutant: the loop variable is not advanced
  /\ delay[c] = 0
  /\ Goto(c, "sleeping", "gate")
  /\ UNCHANGED <<breakerVars, attempt, delay, healthy>>

Wake(c) ==
  /\ delay[c] = 0
  /\ Goto(c, "sleeping", "gate")
  /\ attempt' = [attempt EXCEPT ![c] = @ + 1]
  /\ UNCHANGED <<breakerVars, delay, healthy>>

(* All attempts used: one failure is recorded for the whole call. *)
GiveUp(c) ==
  /\ Goto(c, "exhausted", "idle")
  /\ RecordFailure
  /\ UNCHANGED <<retryVars, healthy>>

(* The RuntimeError of an open breaker reaches the caller. *)
ReportRejection(c) ==
  /\ Goto(c, "rejected", "idle")
  /\ UNCHANGED <<breakerVars, retryVars, healthy>>
-----------------------------------------------------------------------------
(* The stream opens without asking the breaker. *)
StartStream(s) ==
  /\ Goto(s, "idle", "streaming")
  /\ UNCHANGED <<breakerVars, retryVars, healthy>>

StreamCompletes(s) ==
  /\ healthy
  /\ Goto(s, "streaming", "idle")
  /\ RecordSuccess
  /\ UNCHANGED <<retryVars, healthy>>

StreamFails(s) ==
  /\ ~healthy
  /\ Goto(s, "streaming", "idle")
  /\ RecordFailure
  /\ UNCHANGED <<retryVars, healthy>>

(* GeneratorExit is not an Exception: a dropped stream records nothing. *)
StreamDropped(s) ==
  /\ Goto(s, "streaming", "idle")
  /\ UNCHANGED <<breakerVars, retryVars, healthy>>
-----------------------------------------------------------------------------
(* The provider goes down or comes back. *)
ProviderFlips ==
  /\ healthy' = ~healthy
  /\ UNCHANGED <<breakerVars, pc, retryVars>>

Tick ==
  /\ AgeFailure
  /\ delay' = [c \in Callers |-> IF delay[c] > 0 THEN delay[c] - 1 ELSE 0]
  /\ UNCHANGED <<pc, attempt, healthy>>

Retry(c) ==
  \/ PassGate(c) \/ BounceAtGate(c)
  \/ CallSucceeds(c) \/ CallFails(c) \/ LastCallFails(c)
  \/ Wake(c) \/ GiveUp(c) \/ ReportRejection(c)

Stream(s) ==
  StartStream(s) \/ StreamCompletes(s) \/ StreamFails(s) \/ StreamDropped(s)

Next ==
  \/ \E c \in Callers : StartChat(c) \/ Retry(c)
  \/ \E s \in Streamers : Stream(s)
  \/ ProviderFlips
  \/ Tick

(* A call that has begun runs on: every request ends (it has a timeout)    *)
(* and time passes.  Nobody has to start a call, and the provider may stay *)
(* as it is for ever.                                                      *)
Fairness ==
  /\ \A c \in Callers : WF_vars(Retry(c))
  /\ WF_vars(Tick)

Spec == Init /\ [][Next]_vars
FairSpec == Spec /\ Fairness
-----------------------------------------------------------------------------
Calling == {c \in Callers : pc[c] = "calling"}

(* Reaching the threshold always trips the breaker: it is never CLOSED     *)
(* with failure_threshold failures on its count, whatever mixture of chat  *)
(* and stream outcomes led there (record_failure and record_success).      *)
ClosedBelowThreshold == state = "CLOSED" => failureCount < FailureThreshold

(* During the lockout (OPEN and the recovery timeout not yet over) the     *)
(* requests in flight only drain: no caller, not even one that is in the   *)
(* middle of its retries, sends another (can_execute in _retry's loop).    *)
LockoutOnlyDrains ==
  [][state = "OPEN" /\ sinceFailure < RecoveryTimeout
       => Calling' \subseteq Calling]_vars

(* Every chat() call ends, in a result or an exception (_retry's loop).    *)
CallsEnd == \A c \in Callers : pc[c] # "idle" ~> pc[c] = "idle"

(* Once the provider stays up, the breaker eventually stops turning calls  *)
(* away for good: no outage leaves the client locked out.                  *)
RejectionsCease ==
  <>[]healthy => <>[](\A c \in Callers : pc[c] # "rejected")
=============================================================================
