----------------------------- MODULE RateLimiter -----------------------------
(***************************************************************************)
(* The per-client rate limiter of agent/main.py, consulted by the HTTP     *)
(* middleware.  is_allowed runs under the limiter's lock, so its three     *)
(* outcomes are three atomic actions.                                      *)
(*                                                                         *)
(* now - last_refill is only compared with `per`, so a bucket keeps that   *)
(* age, saturated at Per.  A client without a bucket is treated as one     *)
(* whose window has run out, by the same test in the code; hence age = Per *)
(* also stands for "no bucket yet".                                        *)
(***************************************************************************)
EXTENDS Naturals

CONSTANTS
  Clients,   \* client addresses, the keys of _buckets
  Rate,      \* rate (60 requests)
  Per        \* per (60 seconds)

ASSUME LimiterAssumption == Rate \in Nat \ {0} /\ Per \in Nat \ {0}

VARIABLES
  tokens,    \* RateLimitEntry.tokens
  age,       \* time.time() - RateLimitEntry.last_refill, saturated at Per
  granted,   \* history: requests admitted since the last refill
  recent     \* history: requests admitted in the last 1, 2, .. Per time units

vars == <<tokens, age, granted, recent>>

Ages == 0..(Per - 1)

TypeOK ==
  /\ tokens \in [Clients -> 0..Rate]
  /\ age \in [Clients -> 0..Per]
  /\ granted \in [Clients -> 0..(Rate + 1)]
  /\ recent \in [Clients -> [Ages -> Nat]]

Init ==
  /\ tokens = [k \in Clients |-> 0]
  /\ age = [k \in Clients |-> Per]
  /\ granted = [k \in Clients |-> 0]
  /\ recent = [k \in Clients |-> [a \in Ages |-> 0]]
-----------------------------------------------------------------------------
WindowOver(k) == age[k] >= Per

RecordGrant(k, n) ==
  /\ granted' = [granted EXCEPT ![k] = n]
  /\ recent' = [recent EXCEPT ![k] = [a \in Ages |-> @[a] + 1]]

(* A new window: the bucket is filled, and the request that finds it so    *)
(* takes no token from it.                                                 *)
Refill(k) ==
  /\ WindowOver(k)
  /\ tokens' = [tokens EXCEPT ![k] = Rate]
  /\ age' = [age EXCEPT ![k] = 0]
  /\ RecordGrant(k, 1)

SpendUnchecked(k) ==   \* mutant: > 0 becomes >= 0
  /\ ~WindowOver(k)
  /\ tokens' = [tokens EXCEPT ![k] = IF @ > 0 THEN @ - 1 ELSE 0]
  /\ RecordGrant(k, granted[k] + 1)
  /\ UNCHANGED age

Spend(k) ==
  /\ ~WindowOver(k)
  /\ tokens[k] > 0
  /\ tokens' = [tokens EXCEPT ![k] = @ - 1]
  /\ RecordGrant(k, granted[k] + 1)
  /\ UNCHANGED age

DenyExtending(k) ==   \* mutant: a denied request restarts the window
  /\ ~WindowOver(k)
  /\ tokens[k] = 0
  /\ age' = [age EXCEPT ![k] = 0]
  /\ UNCHANGED <<tokens, granted, recent>>

Deny(k) ==
  /\ ~WindowOver(k)
  /\ tokens[k] = 0
  /\ UNCHANGED vars

IsAllowed(k) == Refill(k) \/ Spend(k) \/ Deny(k)

Tick ==
  /\ age' = [k \in Clients |-> IF WindowOver(k) THEN age[k] ELSE age[k] + 1]
  /\ recent' = [k \in Clients |->
                  [a \in Ages |-> IF a = 0 THEN 0 ELSE recent[k][a - 1]]]
  /\ UNCHANGED <<tokens, granted>>

Next ==
  \/ \E k \in Clients : IsAllowed(k)
  \/ Tick

Spec == Init /\ [][Next]_vars

(* Time passes, however fast the requests come.                            *)
FairSpec == Spec /\ WF_vars(Tick)
-----------------------------------------------------------------------------
(* Requests of k admitted within the last Per units, wherever the limiter's *)
(* own windows begin.                                                       *)
Admitted(k) == recent[k][Per - 1]

(* A client is refused only after it has had, within the last Per units,   *)
(* the requests it is promised: neither other clients nor the requests it  *)
(* was refused are counted against it (is_allowed returning False).        *)
RefusedOnlyAtTheRate ==
  \A k \in Clients : tokens[k] = 0 /\ ~WindowOver(k) => Admitted(k) >= Rate

(* A client that has used up its window is served again: neither time nor  *)
(* the requests it keeps sending can shut it out for ever.                 *)
NoLockout ==
  \A k \in Clients :
    tokens[k] = 0 /\ ~WindowOver(k) ~> WindowOver(k) \/ tokens[k] > 0

(* SETUP.md: "Default: 60 requests per minute per IP"; main.py:            *)
(* "in-memory, per-IP sliding window", "60 requests/minute per IP".        *)
RatePerMinute == \A k \in Clients : Admitted(k) <= Rate
=============================================================================
