-------------------------- MODULE RateLimiterProofs --------------------------
(***************************************************************************)
(* For every set of clients, rate and window length: a client is refused   *)
(* only after it has had what it is promised, and how far the limiter goes *)
(* beyond the documented rate: by one request in a window of its own, by   *)
(* two such windows in an interval that straddles both.                    *)
(***************************************************************************)
EXTENDS RateLimiter, TLAPS

(* A client that was never granted anything has no window open.            *)
UnseenHasNoWindow == \A k \in Clients : granted[k] = 0 => WindowOver(k)

(* What a window has granted and what it can still grant add up to         *)
(* Rate + 1.                                                               *)
TokensConserved ==
  \A k \in Clients : granted[k] > 0 => granted[k] + tokens[k] = Rate + 1

LimiterInv == TypeOK /\ UnseenHasNoWindow /\ TokensConserved

LEMMA LimiterInvInit == Init => LimiterInv
BY LimiterAssumption
   DEF Init, LimiterInv, TypeOK, UnseenHasNoWindow, TokensConserved,
       WindowOver, Ages

LEMMA LimiterInvNext == LimiterInv /\ [Next]_vars => LimiterInv'
<1> SUFFICES ASSUME LimiterInv, [Next]_vars
             PROVE  LimiterInv'
  OBVIOUS
<1> USE LimiterAssumption
    DEF LimiterInv, TypeOK, UnseenHasNoWindow, TokensConserved, WindowOver
<1>0. 0 \in Ages
  BY DEF Ages
<1>1. ASSUME NEW k \in Clients, Refill(k)
      PROVE  LimiterInv'
  BY <1>0, <1>1 DEF Refill, RecordGrant
<1>2. ASSUME NEW k \in Clients, Spend(k)
      PROVE  LimiterInv'
  <2>1. granted[k] > 0 /\ granted[k] + tokens[k] = Rate + 1
    BY <1>2 DEF Spend
  <2>2. QED
    BY <1>0, <1>2, <2>1 DEF Spend, RecordGrant
<1>3. ASSUME NEW k \in Clients, Deny(k)
      PROVE  LimiterInv'
  BY <1>3 DEF Deny, vars
<1>4. CASE Tick
  <2>1. recent' \in [Clients -> [Ages -> Nat]]
    <3>1. ASSUME NEW k \in Clients, NEW a \in Ages
          PROVE  (IF a = 0 THEN 0 ELSE recent[k][a - 1]) \in Nat
      BY DEF Ages
    <3>2. QED
      BY <1>4, <3>1 DEF Tick
  <2>2. QED
    BY <1>4, <2>1 DEF Tick
<1>5. CASE UNCHANGED vars
  BY <1>5 DEF vars
<1>6. QED
  BY <1>1, <1>2, <1>3, <1>4, <1>5 DEF Next, IsAllowed

(* Buckets, windows and grants stay within their bounds, for every rate.   *)
THEOREM LimiterTypes == Spec => []TypeOK
<1>1. LimiterInv => TypeOK
  BY DEF LimiterInv
<1>2. QED
  BY <1>1, LimiterInvInit, LimiterInvNext, PTL DEF Spec

(* A window grants at most one request more than the configured rate: the  *)
(* excess over the documented rate that a window can show is just that.    *)
THEOREM WindowBound == Spec => [](\A k \in Clients : granted[k] <= Rate + 1)
<1>1. LimiterInv => \A k \in Clients : granted[k] <= Rate + 1
  BY DEF LimiterInv, TypeOK
<1>2. QED
  BY <1>1, LimiterInvInit, LimiterInvNext, PTL DEF Spec
-----------------------------------------------------------------------------
(* More requests in more time.                                             *)
RecentRises ==
  \A k \in Clients : \A a, b \in Ages : a <= b => recent[k][a] <= recent[k][b]

(* The window that is open has granted what was granted since it opened,   *)
(* and what else is recent is of the window before: only one can end within*)
(* a window's length.  When none is open, the last one has granted all that*)
(* is recent, and nothing in this unit of time.                            *)
TwoWindows ==
  \A k \in Clients :
    IF WindowOver(k)
      THEN recent[k][0] = 0 /\ recent[k][Per - 1] <= Rate + 1
      ELSE /\ recent[k][age[k]] = granted[k]
           /\ recent[k][Per - 1] <= recent[k][age[k]] + Rate + 1

SlidingInv == LimiterInv /\ RecentRises /\ TwoWindows

LEMMA SlidingInvInit == Init => SlidingInv
<1> SUFFICES ASSUME Init
             PROVE  SlidingInv
  OBVIOUS
<1>1. 0 \in Ages /\ Per - 1 \in Ages
  BY LimiterAssumption DEF Ages
<1>2. QED
  BY <1>1, LimiterAssumption, LimiterInvInit
     DEF Init, SlidingInv, RecentRises, TwoWindows, WindowOver

LEMMA SlidingInvNext == SlidingInv /\ [Next]_vars => SlidingInv'
<1> SUFFICES ASSUME SlidingInv, [Next]_vars
             PROVE  SlidingInv'
  OBVIOUS
<1>1. /\ LimiterInv' /\ TypeOK /\ TypeOK' /\ TokensConserved'
      /\ RecentRises /\ TwoWindows
  BY LimiterInvNext DEF SlidingInv, LimiterInv
<1>2. /\ Rate \in Nat /\ Per \in Nat \ {0} /\ 0 \in Ages /\ Per - 1 \in Ages
      /\ \A a \in Ages : a \in Nat /\ 0 <= a /\ a <= Per - 1
  BY LimiterAssumption DEF Ages
(* A request that is granted is one more, however far one looks back.      *)
<1>3. ASSUME NEW k \in Clients, NEW n, RecordGrant(k, n)
      PROVE  /\ RecentRises'
             /\ \A a \in Ages : recent'[k][a] = recent[k][a] + 1
             /\ \A j \in Clients \ {k} : recent'[j] = recent[j] /\ granted'[j] = granted[j]
             /\ granted'[k] = n
  <2>1. recent' = [recent EXCEPT ![k] = [a \in Ages |-> recent[k][a] + 1]]
    BY <1>1, <1>3 DEF RecordGrant, TypeOK
  <2>2. \A a \in Ages : recent'[k][a] = recent[k][a] + 1 /\ recent[k][a] \in Nat
    BY <1>1, <2>1 DEF TypeOK
  <2>3. \A j \in Clients \ {k} : recent'[j] = recent[j] /\ granted'[j] = granted[j]
    BY <1>1, <1>3, <2>1 DEF TypeOK, RecordGrant
  <2>4. ASSUME NEW j \in Clients, NEW a \in Ages, NEW b \in Ages, a <= b
        PROVE  recent'[j][a] <= recent'[j][b]
    BY <1>1, <2>2, <2>3, <2>4 DEF RecentRises
  <2>5. QED
    BY <1>1, <1>3, <2>2, <2>3, <2>4 DEF RecordGrant, RecentRises, TypeOK
<1>4. ASSUME NEW k \in Clients, Refill(k)
      PROVE  RecentRises' /\ TwoWindows'
  <2>1. RecordGrant(k, 1) /\ WindowOver(k) /\ age' = [age EXCEPT ![k] = 0]
    BY <1>4 DEF Refill
  <2>2. ASSUME NEW j \in Clients, j # k
        PROVE  /\ recent'[j] = recent[j] /\ granted'[j] = granted[j]
               /\ age'[j] = age[j]
    BY <1>1, <1>3, <2>1, <2>2 DEF TypeOK
  <2>3. /\ age'[k] = 0 /\ ~WindowOver(k)' /\ granted'[k] = 1
        /\ recent'[k][0] = 1 /\ recent'[k][Per - 1] <= 1 + (Rate + 1)
    <3>1. recent[k][0] = 0 /\ recent[k][Per - 1] <= Rate + 1
      BY <1>1, <2>1 DEF TwoWindows
    <3>2. recent[k][Per - 1] \in Nat
      BY <1>1, <1>2 DEF TypeOK
    <3>3. QED
      BY <1>1, <1>2, <1>3, <2>1, <3>1, <3>2 DEF TypeOK, WindowOver
  <2>4. QED
    BY <1>1, <1>2, <1>3, <2>1, <2>2, <2>3 DEF TwoWindows, WindowOver
<1>5. ASSUME NEW k \in Clients, Spend(k)
      PROVE  RecentRises' /\ TwoWindows'
  <2>1. RecordGrant(k, granted[k] + 1) /\ ~WindowOver(k) /\ age' = age
    BY <1>5 DEF Spend
  <2>2. /\ age[k] \in Ages /\ granted[k] \in Nat
        /\ recent[k][age[k]] \in Nat /\ recent[k][Per - 1] \in Nat
    BY <1>1, <1>2, <2>1 DEF TypeOK, WindowOver, Ages
  <2>3. /\ recent'[k][age[k]] = granted'[k]
        /\ recent'[k][Per - 1] <= recent'[k][age[k]] + Rate + 1
    BY <1>1, <1>2, <1>3, <2>1, <2>2 DEF TwoWindows
  <2>4. QED
    BY <1>1, <1>3, <2>1, <2>3 DEF TwoWindows, WindowOver
<1>6. CASE Tick
  <2>1. /\ granted' = granted
        /\ \A k \in Clients : age'[k] = IF WindowOver(k) THEN age[k] ELSE age[k] + 1
        /\ \A k \in Clients, a \in Ages :
             recent'[k][a] = IF a = 0 THEN 0 ELSE recent[k][a - 1]
    BY <1>6 DEF Tick
  <2>2. \A a \in Ages : a # 0 => a - 1 \in Ages
    BY <1>2 DEF Ages
  <2>3. \A k \in Clients, a \in Ages : recent[k][a] \in Nat
    BY <1>1 DEF TypeOK
  <2>4. ASSUME NEW k \in Clients, NEW a \in Ages, NEW b \in Ages, a <= b
        PROVE  recent'[k][a] <= recent'[k][b]
    <3>1. CASE a = 0
      <4>1. recent'[k][a] = 0
        BY <2>1, <3>1
      <4>2. recent'[k][b] \in Nat
        BY <1>1 DEF TypeOK
      <4>3. QED
        BY <4>1, <4>2
    <3>2. CASE a # 0
      <4>1. b # 0 /\ a - 1 <= b - 1
        BY <1>2, <2>4, <3>2
      <4>2. QED
        BY <1>1, <2>1, <2>2, <3>2, <4>1 DEF RecentRises
    <3>3. QED
      BY <3>1, <3>2
  (* Looking back as far as before sees less.                              *)
  <2>5. ASSUME NEW k \in Clients
        PROVE  recent'[k][0] = 0 /\ recent'[k][Per - 1] <= recent[k][Per - 1]
    <3>1. CASE Per - 1 = 0
      BY <1>2, <2>1, <2>3, <3>1
    <3>2. CASE Per - 1 # 0
      <4>1. Per - 2 \in Ages /\ recent'[k][Per - 1] = recent[k][Per - 2]
        BY <1>2, <2>1, <2>2, <3>2
      <4>2. QED
        BY <1>1, <1>2, <2>1, <4>1 DEF RecentRises
    <3>3. QED
      BY <3>1, <3>2
  <2>6. ASSUME NEW k \in Clients
        PROVE  IF WindowOver(k)'
                 THEN recent'[k][0] = 0 /\ recent'[k][Per - 1] <= Rate + 1
                 ELSE /\ recent'[k][age'[k]] = granted'[k]
                      /\ recent'[k][Per - 1] <= recent'[k][age'[k]] + Rate + 1
    <3>1. CASE WindowOver(k)
      <4>1. WindowOver(k)' /\ recent[k][Per - 1] <= Rate + 1
        BY <1>1, <2>1, <3>1 DEF WindowOver, TwoWindows
      <4>2. QED
        BY <1>1, <1>2, <2>3, <2>5, <4>1 DEF TypeOK
    <3>2. CASE ~WindowOver(k) /\ age[k] = Per - 1
      <4>1. WindowOver(k)' /\ recent[k][Per - 1] = granted[k]
        BY <1>1, <1>2, <2>1, <3>2 DEF WindowOver, TwoWindows
      <4>2. granted[k] <= Rate + 1 /\ granted[k] \in Nat
        BY <1>1, <1>2 DEF TypeOK
      <4>3. recent'[k][Per - 1] \in Nat /\ recent[k][Per - 1] \in Nat
        BY <1>1, <1>2 DEF TypeOK
      <4>4. QED
        BY <1>2, <2>5, <4>1, <4>2, <4>3
    <3>3. CASE ~WindowOver(k) /\ age[k] # Per - 1
      <4>1. /\ age[k] \in Ages /\ age[k] + 1 \in Ages /\ age'[k] = age[k] + 1
            /\ ~WindowOver(k)'
        <5>1. age[k] \in 0..Per /\ ~(age[k] >= Per) /\ age[k] # Per - 1
          BY <1>1, <3>3 DEF TypeOK, WindowOver
        <5>2. age[k] \in Ages /\ age[k] + 1 \in Ages /\ ~(age[k] + 1 >= Per)
          BY <1>2, <5>1 DEF Ages
        <5>3. QED
          BY <2>1, <3>3, <5>2 DEF WindowOver
      <4>2. recent'[k][age'[k]] = recent[k][age[k]]
        BY <2>1, <4>1 DEF Ages
      <4>3. /\ recent[k][age[k]] \in Nat /\ recent[k][Per - 1] \in Nat
            /\ recent'[k][Per - 1] \in Nat
        BY <1>1, <1>2, <4>1 DEF TypeOK
      <4>4. QED
        BY <1>1, <1>2, <2>1, <2>5, <3>3, <4>1, <4>2, <4>3 DEF TwoWindows
    <3>4. QED
      BY <3>1, <3>2, <3>3
  <2>7. QED
    BY <1>1, <2>4, <2>6 DEF RecentRises, TwoWindows, SlidingInv
<1>7. CASE UNCHANGED vars
  BY <1>1, <1>7 DEF vars, RecentRises, TwoWindows, WindowOver, SlidingInv
<1>8. ASSUME NEW k \in Clients, Deny(k)
      PROVE  RecentRises' /\ TwoWindows'
  BY <1>1, <1>8 DEF Deny, vars, RecentRises, TwoWindows, WindowOver
<1>9. QED
  BY <1>1, <1>4, <1>5, <1>6, <1>7, <1>8 DEF Next, IsAllowed, SlidingInv

(* A refusal is deserved: the open window has granted all it could, and no *)
(* grant of it is older than Per.                                          *)
THEOREM RefusalsAreDeserved == Spec => []RefusedOnlyAtTheRate
<1>1. SlidingInv => RefusedOnlyAtTheRate
  <2> SUFFICES ASSUME SlidingInv, NEW k \in Clients, tokens[k] = 0, ~WindowOver(k)
               PROVE  recent[k][Per - 1] >= Rate
    BY DEF RefusedOnlyAtTheRate, Admitted
  <2>1. TypeOK /\ UnseenHasNoWindow /\ TokensConserved /\ RecentRises /\ TwoWindows
    BY DEF SlidingInv, LimiterInv
  <2>2. /\ Rate \in Nat /\ Per - 1 \in Ages /\ recent[k][Per - 1] \in Nat
        /\ age[k] \in Ages /\ age[k] <= Per - 1 /\ granted[k] \in Nat
    BY <2>1, LimiterAssumption DEF TypeOK, WindowOver, Ages
  <2>3. granted[k] = Rate + 1
    BY <2>1, <2>2 DEF UnseenHasNoWindow, TokensConserved
  <2>4. recent[k][age[k]] = granted[k] /\ recent[k][age[k]] <= recent[k][Per - 1]
    BY <2>1, <2>2 DEF TwoWindows, RecentRises
  <2>5. QED
    BY <2>2, <2>3, <2>4
<1>2. QED
  BY <1>1, SlidingInvInit, SlidingInvNext, PTL DEF Spec

(* In no interval of a window's length does a client get more than two     *)
(* windows' worth of requests, wherever the limiter's own windows begin.   *)
THEOREM SlidingIntervalBound ==
  Spec => [](\A k \in Clients : Admitted(k) <= 2 * (Rate + 1))
<1>1. SlidingInv => \A k \in Clients : Admitted(k) <= 2 * (Rate + 1)
  <2> SUFFICES ASSUME SlidingInv, NEW k \in Clients
               PROVE  recent[k][Per - 1] <= 2 * (Rate + 1)
    BY DEF Admitted
  <2>1. TypeOK /\ TwoWindows
    BY DEF SlidingInv, LimiterInv
  <2>2. Rate \in Nat /\ Per - 1 \in Ages /\ recent[k][Per - 1] \in Nat
    BY <2>1, LimiterAssumption DEF TypeOK, Ages
  <2>3. CASE WindowOver(k)
    BY <2>1, <2>2, <2>3 DEF TwoWindows
  <2>4. CASE ~WindowOver(k)
    <3>1. age[k] \in Ages /\ recent[k][age[k]] \in Nat /\ granted[k] \in 0..(Rate + 1)
      BY <2>1, <2>4, LimiterAssumption DEF TypeOK, WindowOver, Ages
    <3>2. QED
      BY <2>1, <2>2, <2>4, <3>1 DEF TwoWindows
  <2>5. QED
    BY <2>3, <2>4
<1>2. QED
  BY <1>1, SlidingInvInit, SlidingInvNext, PTL DEF Spec
=============================================================================
