------------------------------ MODULE TTLCache ------------------------------
(***************************************************************************)
(* TTLCache of agent/cache.py.  Every method runs under the cache's lock,  *)
(* so a method is one action.  time.time() and expires_at are only ever    *)
(* compared with each other, so an entry keeps its remaining life,         *)
(* expires_at - now, which stops at -1 once it has expired.  A Python dict *)
(* iterates in insertion order, and assigning to a key that is present     *)
(* leaves it in its place: `older` is that order.                          *)
(***************************************************************************)
EXTENDS Integers, FiniteSets

CONSTANTS
  Keys,        \* cache keys
  Values,      \* cached answers
  Miss,        \* None: what get returns for no entry, an absent entry's value
  TTLs,        \* the values _default_ttl and the ttl argument may take
  Sizes,       \* the values _max_size may take
  EvictBatch   \* expired entries one eviction removes at most (5)

ASSUME CacheAssumption ==
  /\ Miss \notin Values
  /\ IsFiniteSet(Keys)
  /\ TTLs \subseteq Nat \ {0} /\ TTLs # {}
  /\ Sizes \subseteq Nat \ {0} /\ Sizes # {}
  /\ EvictBatch \in Nat \ {0}

VARIABLES
  value,     \* _store[k].value, Miss when k is not in _store
  left,      \* _store[k].expires_at - now, -1 once expired or absent
  older,     \* <<j, k>> when j comes before k in _store
  ttl,       \* _default_ttl
  maxSize,   \* _max_size
  answer     \* result of the latest get

entries == <<value, left, older>>
settings == <<ttl, maxSize>>
vars == <<entries, settings, answer>>

stored == {k \in Keys : value[k] # Miss}
Size == Cardinality(stored)

(* `older` is a strict total order of what is stored.                      *)
Ordered ==
  /\ older \subseteq stored \X stored
  /\ \A j, k \in stored :
       /\ j # k => <<j, k>> \in older \/ <<k, j>> \in older
       /\ <<j, k>> \in older => <<k, j>> \notin older
       /\ \A i \in stored : <<i, j>> \in older /\ <<j, k>> \in older => <<i, k>> \in older

TypeOK ==
  /\ value \in [Keys -> Values \cup {Miss}]
  /\ left \in [Keys -> Nat \cup {-1}]
  /\ \A k \in Keys \ stored : left[k] = -1
  /\ Ordered
  /\ ttl \in TTLs
  /\ maxSize \in Sizes
  /\ answer \in Values \cup {Miss}

Init ==
  /\ value = [k \in Keys |-> Miss]
  /\ left = [k \in Keys |-> -1]
  /\ older = {}
  /\ ttl \in TTLs
  /\ maxSize \in Sizes
  /\ answer = Miss
-----------------------------------------------------------------------------
IsExpired(k) == left[k] < 0

Expired == {k \in stored : IsExpired(k)}

RemoveAll(gone) ==
  /\ value' = [k \in Keys |-> IF k \in gone THEN Miss ELSE value[k]]
  /\ left' = [k \in Keys |-> IF k \in gone THEN -1 ELSE left[k]]
  /\ older' = {p \in older : p[1] \notin gone /\ p[2] \notin gone}

(* get of a key that is there: an entry found expired is dropped.          *)
GetHitStale(k) ==   \* mutant: the expiry test is forgotten
  /\ k \in stored
  /\ answer' = value[k]
  /\ UNCHANGED <<entries, settings>>

GetHit(k) ==
  /\ k \in stored
  /\ ~IsExpired(k)
  /\ answer' = value[k]
  /\ UNCHANGED <<entries, settings>>

GetExpired(k) ==
  /\ k \in Expired
  /\ RemoveAll({k})
  /\ answer' = Miss
  /\ UNCHANGED settings

GetMiss(k) ==
  /\ k \in Keys \ stored
  /\ answer' = Miss
  /\ UNCHANGED <<entries, settings>>

(* The keys of S that have fewer than n members of S before them.          *)
FirstOf(S, n) ==
  {k \in S : Cardinality({j \in S : <<j, k>> \in older}) < n}

VictimsByAge == FirstOf(stored, 1)   \* mutant: no look for expired entries

(* _evict_oldest: up to EvictBatch expired entries in dict order, and only *)
(* when nothing has expired the first entry of the dict.                   *)
Victims ==
  IF Expired # {} THEN FirstOf(Expired, EvictBatch) ELSE FirstOf(stored, 1)

NoRoomForLate(k) ==   \* mutant: > instead of >=
  Size > maxSize /\ k \notin stored

NoRoomFor(k) == Size >= maxSize /\ k \notin stored

MakeRoom(k) == IF NoRoomFor(k) THEN Victims ELSE {}

SetReappending(k, v, life) ==   \* mutant: an overwritten key is put last again
  LET gone == MakeRoom(k) IN
  /\ value' = [j \in Keys |->
                 IF j = k THEN v ELSE IF j \in gone THEN Miss ELSE value[j]]
  /\ left' = [j \in Keys |->
                IF j = k THEN life ELSE IF j \in gone THEN -1 ELSE left[j]]
  /\ older' = {p \in older : p[1] \notin gone /\ p[2] \notin gone}
              \cup (stored \ gone) \X {k}
  /\ UNCHANGED <<settings, answer>>

(* set; life is `ttl or self._default_ttl`.                                *)
Set(k, v, life) ==
  LET gone == MakeRoom(k) IN
  /\ value' = [j \in Keys |->
                 IF j = k THEN v ELSE IF j \in gone THEN Miss ELSE value[j]]
  /\ left' = [j \in Keys |->
                IF j = k THEN life ELSE IF j \in gone THEN -1 ELSE left[j]]
  /\ older' = {p \in older : p[1] \notin gone /\ p[2] \notin gone}
              \cup IF k \in stored THEN {} ELSE (stored \ gone) \X {k}
  /\ UNCHANGED <<settings, answer>>

Delete(k) ==
  /\ RemoveAll({k})
  /\ UNCHANGED <<settings, answer>>

Clear ==
  /\ RemoveAll(Keys)
  /\ UNCHANGED <<settings, answer>>

CleanupExpired ==
  /\ RemoveAll(Expired)
  /\ UNCHANGED <<settings, answer>>

(* configure_cache: None leaves a setting alone; no entry is touched, not  *)
(* even when the cache is now larger than its limit.                       *)
Configure(t, m) ==
  /\ ttl' = t
  /\ maxSize' = m
  /\ UNCHANGED <<entries, answer>>

Tick ==
  /\ left' = [k \in Keys |-> IF IsExpired(k) THEN left[k] ELSE left[k] - 1]
  /\ UNCHANGED <<value, older, settings, answer>>

Get(k) == GetHit(k) \/ GetExpired(k) \/ GetMiss(k)

Next ==
  \/ \E k \in Keys : Get(k) \/ Delete(k)
  \/ \E k \in Keys, v \in Values :
       Set(k, v, ttl) \/ \E t \in TTLs : Set(k, v, t)
  \/ Clear
  \/ CleanupExpired
  \/ \E t \in TTLs, m \in Sizes : Configure(t, m)
  \/ Tick

Spec == Init /\ [][Next]_vars
-----------------------------------------------------------------------------
(* The cache is a lossy map: no interleaving of sets, expiry, eviction,    *)
(* deletion and reconfiguration makes get return anything but nothing or   *)
(* the latest unexpired value of that key.                                 *)
Lossy ==
  INSTANCE LossyCache WITH
    live <- [k \in Keys |-> IF IsExpired(k) THEN Miss ELSE value[k]]

ImplementsLossyCache == Lossy!Spec

(* The cache only grows up to its limit: one that is over its limit, after *)
(* configure_cache lowered it, never gets larger still.                    *)
GrowsOnlyToLimit ==
  [][Cardinality(stored') > Size => Cardinality(stored') <= maxSize]_vars

Lost == stored \ stored'

(* An insertion costs a live entry only when nothing has expired, and then *)
(* just one, the first inserted (_evict_oldest).                           *)
InsertionSparesTheLiving ==
  [][stored' \ stored # {} /\ Lost \ Expired # {}
       => /\ Expired = {}
          /\ \E k \in stored : /\ Lost = {k}
                               /\ \A j \in stored : <<k, j>> \notin older => j = k
    ]_vars
=============================================================================
