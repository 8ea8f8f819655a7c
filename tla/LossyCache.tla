----------------------------- MODULE LossyCache -----------------------------
(***************************************************************************)
(* What the users of agent/cache.py may rely on: a lookup returns either   *)
(* nothing or the value last put under that key.  The cache may forget any *)
(* entry at any moment, and what it has forgotten never comes back.        *)
(***************************************************************************)
CONSTANTS Keys, Values, Miss   \* Miss is not a value

VARIABLES
  live,     \* what a lookup of each key would find
  answer    \* the result of the latest lookup

vars == <<live, answer>>

Init ==
  /\ live = [k \in Keys |-> Miss]
  /\ answer = Miss

Forget(lost) == [k \in Keys |-> IF k \in lost THEN Miss ELSE live[k]]

Put(k, v, lost) ==
  /\ live' = [Forget(lost) EXCEPT ![k] = v]
  /\ UNCHANGED answer

Lose(lost) ==
  /\ live' = Forget(lost)
  /\ UNCHANGED answer

Lookup(k) ==
  /\ answer' = live[k]
  /\ UNCHANGED live

Next ==
  \/ \E k \in Keys, v \in Values, lost \in SUBSET Keys : Put(k, v, lost)
  \/ \E lost \in SUBSET Keys : Lose(lost)
  \/ \E k \in Keys : Lookup(k)

Spec == Init /\ [][Next]_vars
=============================================================================
