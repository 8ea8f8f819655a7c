---------------------------- MODULE TTLCacheProofs ----------------------------
(***************************************************************************)
(* For every set of keys and values, every TTL and every size limit: the   *)
(* TTL cache implements the lossy map of LossyCache, does not grow beyond  *)
(* its limit, and evicts what it should.                                   *)
(***************************************************************************)
EXTENDS TTLCache, TLAPS, FiniteSetTheorems

(* Absent entries look expired.                                            *)
Shape ==
  /\ value \in [Keys -> Values \cup {Miss}]
  /\ left \in [Keys -> Nat \cup {-1}]
  /\ \A k \in Keys : value[k] = Miss => left[k] = -1
  /\ ttl \in TTLs

LEMMA TypeParts ==
  TypeOK <=> Shape /\ Ordered /\ maxSize \in Sizes /\ answer \in Values \cup {Miss}
BY DEF TypeOK, Shape, Ordered, stored

LEMMA TypeInit == Init => TypeOK
BY DEF Init, TypeOK, Ordered, stored

(* What goes takes its place in the order with it.                         *)
LEMMA RemovalKeepsTypes ==
  ASSUME TypeOK, NEW gone, RemoveAll(gone), UNCHANGED settings,
         answer' \in Values \cup {Miss}
  PROVE  TypeOK' /\ stored' = stored \ gone
<1>1. stored' = stored \ gone
  BY DEF TypeOK, RemoveAll, stored
<1>2. Shape'
  BY TypeParts DEF Shape, RemoveAll, settings
<1>3. Ordered'
  BY <1>1, TypeParts DEF Ordered, RemoveAll
<1>4. QED
  BY <1>1, <1>2, <1>3 DEF TypeOK, Shape, Ordered, stored, settings

(* A set that is ordered has a first member, before which there is none.   *)
LEMMA OneIsFirst ==
  ASSUME Ordered, IsFiniteSet(Keys), NEW S \in SUBSET stored, S # {}
  PROVE  \E k \in S : {j \in S : <<j, k>> \in older} = {}
<1> DEFINE Before(k) == {j \in S : <<j, k>> \in older}
           All == {Before(k) : k \in S}
<1>1. IsFiniteSet(S)
  BY FS_Subset DEF stored
<1>2. All \subseteq FiniteSubsetsOf(S) /\ All # {}
  <2>1. FiniteSubsetsOf(S) = SUBSET S
    BY <1>1, FS_FiniteSubsetsOfFinite
  <2>2. \A k \in S : Before(k) \in SUBSET S
    OBVIOUS
  <2>3. All \subseteq SUBSET S /\ All # {}
    BY <2>2
  <2> HIDE DEF All
  <2>4. QED
    BY <2>1, <2>3
<1>3. IsWellFoundedOn(StrictSubsetOrdering(S), FiniteSubsetsOf(S))
  BY FS_StrictSubsetOrderingWellFounded
<1>4. PICK b \in All : \A c \in All : ~(<<c, b>> \in StrictSubsetOrdering(S))
  <2> HIDE DEF All
  <2>1. QED
    BY <1>2, <1>3, WFMin, Zenon
<1>5. PICK k \in S : b = Before(k)
  BY <1>4
<1>6. ASSUME NEW j \in Before(k)
      PROVE  FALSE
  <2>1. Before(j) \subseteq Before(k) /\ j \in Before(k) /\ j \notin Before(j)
    BY <1>6 DEF Ordered
  <2>2. Before(j) \in SUBSET S /\ Before(k) \in SUBSET S /\ Before(j) # Before(k)
    BY <2>1
  <2>3. <<Before(j), Before(k)>> \in StrictSubsetOrdering(S)
    <3> HIDE DEF Before
    <3>1. QED
      BY <2>1, <2>2 DEF StrictSubsetOrdering
  <2>4. QED
    BY <1>4, <1>5, <1>6, <2>3
<1>7. QED
  BY <1>6

(* _evict_oldest finds something to evict, and it is in the cache.         *)
LEMMA FirstOfSome ==
  ASSUME Ordered, NEW S \in SUBSET stored, S # {}, NEW n \in Nat \ {0}
  PROVE  FirstOf(S, n) \subseteq S /\ FirstOf(S, n) # {}
<1>1. PICK k \in S : {j \in S : <<j, k>> \in older} = {}
  BY OneIsFirst, CacheAssumption
<1>2. Cardinality({j \in S : <<j, k>> \in older}) < n
  <2>1. Cardinality({}) = 0 /\ 0 < n
    BY FS_EmptySet
  <2>2. QED
    BY <1>1, <2>1, Zenon
<1>3. QED
  BY <1>2 DEF FirstOf

LEMMA SomethingIsEvicted ==
  ASSUME Ordered, stored # {}
  PROVE  Victims \subseteq stored /\ Victims # {}
<1>1. Expired \in SUBSET stored
  BY DEF Expired
<1>2. QED
  BY <1>1, FirstOfSome, CacheAssumption DEF Victims

(* What an insertion makes of the set of keys.                             *)
LEMMA SetStores ==
  ASSUME TypeOK, NEW k \in Keys, NEW v \in Values, NEW life, Set(k, v, life)
  PROVE  /\ MakeRoom(k) \subseteq stored /\ k \notin MakeRoom(k)
         /\ stored' = (stored \ MakeRoom(k)) \cup {k}
<1>1. MakeRoom(k) \subseteq stored /\ k \notin MakeRoom(k)
  <2>1. CASE NoRoomFor(k)
    <3>1. Victims \subseteq stored
      BY DEF Victims, FirstOf, Expired
    <3>2. QED
      BY <2>1, <3>1 DEF MakeRoom, NoRoomFor
  <2>2. CASE ~NoRoomFor(k)
    BY <2>2 DEF MakeRoom
  <2>3. QED
    BY <2>1, <2>2
<1>2. value' = [j \in Keys |->
                  IF j = k THEN v ELSE IF j \in MakeRoom(k) THEN Miss ELSE value[j]]
  BY DEF Set
<1>3. Miss \notin Values
  BY CacheAssumption
<1>4. QED
  BY <1>1, <1>2, <1>3 DEF stored

LEMMA SetKeepsTypes ==
  ASSUME TypeOK, NEW k \in Keys, NEW v \in Values, NEW life \in TTLs,
         Set(k, v, life)
  PROVE  TypeOK'
<1> DEFINE room == MakeRoom(k)
<1>1. /\ room \subseteq stored /\ k \notin room
      /\ stored' = (stored \ room) \cup {k}
  BY SetStores
<1>2. /\ value' = [j \in Keys |->
                     IF j = k THEN v ELSE IF j \in room THEN Miss ELSE value[j]]
      /\ left' = [j \in Keys |->
                    IF j = k THEN life ELSE IF j \in room THEN -1 ELSE left[j]]
      /\ older' = {p \in older : p[1] \notin room /\ p[2] \notin room}
                  \cup (IF k \in stored THEN {} ELSE (stored \ room) \X {k})
      /\ ttl' = ttl /\ maxSize' = maxSize /\ answer' = answer
  BY DEF Set, settings
<1> HIDE DEF room
<1>3. Shape'
  BY <1>2, TypeParts, CacheAssumption DEF Shape
<1>4. Ordered'
  <2>1. Ordered
    BY TypeParts
  <2>2. CASE k \in stored
    <3>1. stored' = stored \ room
      BY <1>1, <2>2
    <3>2. older' = {p \in older : p[1] \notin room /\ p[2] \notin room}
      BY <1>2, <2>2
    <3>3. QED
      BY <2>1, <3>1, <3>2 DEF Ordered
  <2>3. CASE k \notin stored
    <3>1. \A i, j : <<i, j>> \in older' <=>
            \/ <<i, j>> \in older /\ i \notin room /\ j \notin room
            \/ i \in stored \ room /\ j = k
      BY <1>2, <2>3
    <3>2. older' \subseteq stored' \X stored'
      BY <1>1, <1>2, <2>1, <2>3 DEF Ordered
    <3>0. \A i, j : <<i, j>> \in older => i \in stored /\ j \in stored
      BY <2>1 DEF Ordered
    <3>3. ASSUME NEW i \in stored', NEW j \in stored'
          PROVE  /\ i # j => <<i, j>> \in older' \/ <<j, i>> \in older'
                 /\ <<i, j>> \in older' => <<j, i>> \notin older'
      <4>1. CASE i \in stored /\ j \in stored
        BY <1>1, <2>1, <2>3, <3>1, <4>1 DEF Ordered
      <4>2. CASE i = k \/ j = k
        BY <1>1, <2>3, <3>0, <3>1, <4>2
      <4>3. QED
        BY <1>1, <4>1, <4>2
    <3>4. ASSUME NEW i \in stored', NEW j \in stored', NEW l \in stored',
                 <<i, j>> \in older', <<j, l>> \in older'
          PROVE  <<i, l>> \in older'
      <4>1. j # k /\ <<i, j>> \in older /\ i \notin room /\ j \notin room
        BY <1>1, <2>3, <3>0, <3>1, <3>4
      <4>2. i \in stored \ room /\ j \in stored \ room
        BY <2>1, <4>1 DEF Ordered
      <4>3. QED
        BY <1>1, <2>1, <3>1, <3>4, <4>1, <4>2 DEF Ordered
    <3>5. QED
      BY <3>2, <3>3, <3>4 DEF Ordered
  <2>4. QED
    BY <2>2, <2>3
<1>5. maxSize' \in Sizes /\ answer' \in Values \cup {Miss}
  BY <1>2, TypeParts
<1>6. \A j \in Keys \ stored' : left'[j] = -1
  BY <1>3 DEF Shape, stored
<1>7. QED
  BY <1>3, <1>4, <1>5, <1>6 DEF TypeOK, Shape, Ordered

LEMMA TypeNext == TypeOK /\ [Next]_vars => TypeOK'
<1> SUFFICES ASSUME TypeOK, [Next]_vars
             PROVE  TypeOK'
  OBVIOUS
<1> USE DEF settings
<1>1. ASSUME NEW k \in Keys, GetHit(k) \/ GetMiss(k)
      PROVE  TypeOK'
  <2>1. answer' \in Values \cup {Miss} /\ UNCHANGED <<value, left, older, ttl, maxSize>>
    BY <1>1 DEF GetHit, GetMiss, entries, TypeOK
  <2>2. QED
    BY <2>1 DEF TypeOK, Ordered, stored
<1>2. ASSUME NEW k \in Keys, GetExpired(k) \/ Delete(k)
      PROVE  TypeOK'
  BY <1>2, RemovalKeepsTypes DEF GetExpired, Delete, TypeOK
<1>3. ASSUME NEW k \in Keys, NEW v \in Values,
             Set(k, v, ttl) \/ \E t \in TTLs : Set(k, v, t)
      PROVE  TypeOK'
  BY <1>3, SetKeepsTypes DEF TypeOK
<1>4. CASE Clear \/ CleanupExpired
  BY <1>4, RemovalKeepsTypes DEF Clear, CleanupExpired, TypeOK
<1>5. ASSUME NEW t \in TTLs, NEW m \in Sizes, Configure(t, m)
      PROVE  TypeOK'
  BY <1>5 DEF Configure, entries, TypeOK, Ordered, stored
<1>6. CASE Tick
  <2>1. left' \in [Keys -> Nat \cup {-1}] /\ \A k \in Keys \ stored : left'[k] = -1
    BY <1>6 DEF Tick, TypeOK, IsExpired
  <2>2. UNCHANGED <<value, older, ttl, maxSize, answer>>
    BY <1>6 DEF Tick
  <2>3. QED
    BY <2>1, <2>2 DEF TypeOK, Ordered, stored
<1>7. CASE UNCHANGED vars
  BY <1>7 DEF vars, entries, TypeOK, Ordered, stored
<1>8. QED
  BY <1>1, <1>2, <1>3, <1>4, <1>5, <1>6, <1>7 DEF Next, Get

(* Whatever is set, overwritten, evicted and deleted, the cache keeps one  *)
(* order of its entries, and what is absent looks expired.                 *)
THEOREM CacheTypes == Spec => []TypeOK
BY TypeInit, TypeNext, PTL DEF Spec

LEMMA ShapeInvariant == Spec => []Shape
<1>1. TypeOK => Shape
  BY TypeParts
<1>2. QED
  BY <1>1, CacheTypes, PTL
-----------------------------------------------------------------------------
(* The map the refinement shows to LossyCache.                             *)
View == [k \in Keys |-> IF IsExpired(k) THEN Miss ELSE value[k]]

(* Removing entries is losing them.                                        *)
LEMMA RemovalLoses ==
  ASSUME Shape, NEW gone, RemoveAll(gone)
  PROVE  View' = [k \in Keys |-> IF k \in gone THEN Miss ELSE View[k]]
BY DEF Shape, RemoveAll, View, IsExpired

(* An insertion, with the evictions it causes, is one Put.                 *)
LEMMA SetIsPut ==
  ASSUME Shape, NEW k \in Keys, NEW v \in Values, NEW life \in TTLs,
         Set(k, v, life)
  PROVE  Lossy!Next
<1> DEFINE room == MakeRoom(k)
<1>1. /\ value' = [j \in Keys |->
                     IF j = k THEN v ELSE IF j \in room THEN Miss ELSE value[j]]
      /\ left' = [j \in Keys |->
                    IF j = k THEN life ELSE IF j \in room THEN -1 ELSE left[j]]
      /\ answer' = answer
  BY DEF Set
<1> HIDE DEF room
<1>2. life \in Nat \ {0}
  BY CacheAssumption
<1> PICK lost \in SUBSET Keys : lost = room \cap Keys
  OBVIOUS
<1>3. View' = [j \in Keys |-> IF j = k THEN v
                              ELSE IF j \in lost THEN Miss ELSE View[j]]
  BY <1>1, <1>2 DEF Shape, View, IsExpired
<1>4. Lossy!Put(k, v, lost)
  BY <1>1, <1>3 DEF Lossy!Put, Lossy!Forget, View
<1>5. QED
  BY <1>4 DEF Lossy!Next

(* Every step of the cache is a step of the lossy map, or changes nothing  *)
(* that map shows.                                                         *)
LEMMA StepRefines == Shape /\ [Next]_vars => [Lossy!Next]_(Lossy!vars)
<1> SUFFICES ASSUME Shape, [Next]_vars
             PROVE  Lossy!Next \/ UNCHANGED Lossy!vars
  OBVIOUS
<1>1. ASSUME NEW k \in Keys, GetHit(k) \/ GetMiss(k)
      PROVE  Lossy!Next
  <2>1. View' = View /\ answer' = View[k]
    BY <1>1 DEF GetHit, GetMiss, stored, entries, Shape, View, IsExpired
  <2>2. Lossy!Lookup(k)
    BY <2>1 DEF Lossy!Lookup, View
  <2>3. QED
    BY <2>2 DEF Lossy!Next
<1>2. ASSUME NEW k \in Keys, GetExpired(k)
      PROVE  Lossy!Next
  <2>1. View' = View /\ answer' = View[k]
    BY <1>2, RemovalLoses DEF GetExpired, Expired, View, IsExpired
  <2>2. Lossy!Lookup(k)
    BY <2>1 DEF Lossy!Lookup, View
  <2>3. QED
    BY <2>2 DEF Lossy!Next
<1>3. ASSUME NEW k \in Keys, NEW v \in Values,
             Set(k, v, ttl) \/ \E t \in TTLs : Set(k, v, t)
      PROVE  Lossy!Next
  BY <1>3, SetIsPut DEF Shape
<1>4. ASSUME NEW gone \in SUBSET Keys, RemoveAll(gone), UNCHANGED answer
      PROVE  Lossy!Next
  <2>1. Lossy!Lose(gone)
    BY <1>4, RemovalLoses DEF Lossy!Lose, Lossy!Forget, View
  <2>2. QED
    BY <2>1 DEF Lossy!Next
<1>5. CASE Clear \/ CleanupExpired \/ \E k \in Keys : Delete(k)
  <2>1. Expired \in SUBSET Keys
    BY DEF Expired, stored
  <2>2. QED
    BY <1>4, <1>5, <2>1 DEF Clear, CleanupExpired, Delete
<1>6. CASE Tick
  <2> PICK dying \in SUBSET Keys : dying = {k \in Keys : left[k] = 0}
    OBVIOUS
  <2>1. View' = [k \in Keys |-> IF k \in dying THEN Miss ELSE View[k]]
    BY <1>6 DEF Tick, Shape, View, IsExpired
  <2>2. Lossy!Lose(dying)
    BY <1>6, <2>1 DEF Lossy!Lose, Lossy!Forget, View, Tick
  <2>3. QED
    BY <2>2 DEF Lossy!Next
<1>7. ASSUME NEW t \in TTLs, NEW m \in Sizes, Configure(t, m)
      PROVE  UNCHANGED Lossy!vars
  BY <1>7 DEF Configure, entries, Lossy!vars, IsExpired
<1>8. CASE UNCHANGED vars
  BY <1>8 DEF vars, entries, Lossy!vars, IsExpired
<1>9. QED
  BY <1>1, <1>2, <1>3, <1>5, <1>6, <1>7, <1>8 DEF Next, Get

(* get never returns a value that was overwritten, deleted, cleared,       *)
(* evicted or expired before: the cache implements the lossy map.          *)
THEOREM CacheImplementsLossyCache == Spec => ImplementsLossyCache
<1>1. Init => Lossy!Init
  BY DEF Init, Lossy!Init, IsExpired
<1>2. QED
  BY <1>1, StepRefines, ShapeInvariant, PTL DEF Spec, ImplementsLossyCache, Lossy!Spec
-----------------------------------------------------------------------------
(* Only an insertion makes the cache larger.                               *)
LEMMA OnlySetInserts ==
  ASSUME TypeOK, [Next]_vars, stored' \ stored # {}
  PROVE  \E k \in Keys, v \in Values, life \in TTLs : Set(k, v, life)
<1>1. ASSUME NEW gone, RemoveAll(gone)
      PROVE  FALSE
  BY <1>1 DEF TypeOK, RemoveAll, stored
<1>2. ASSUME UNCHANGED value
      PROVE  FALSE
  BY <1>2 DEF stored
<1>3. ttl \in TTLs
  BY DEF TypeOK
<1>4. QED
  BY <1>1, <1>2, <1>3
     DEF Next, Get, GetHit, GetExpired, GetMiss, Delete, Clear, CleanupExpired,
         Configure, Tick, entries, vars

(* The cache is never filled beyond its limit, and while it is above one   *)
(* that was lowered it does not grow, however entries expire and are       *)
(* evicted in between: there is always somebody to evict.                  *)
THEOREM SizeStaysLimited == Spec => GrowsOnlyToLimit
<1>1. ASSUME TypeOK, [Next]_vars, Cardinality(stored') > Size
      PROVE  Cardinality(stored') <= maxSize
  <2>1. IsFiniteSet(stored) /\ Size \in Nat
    BY FS_Subset, FS_CardinalityType, CacheAssumption DEF stored, Size
  <2>2. stored' \ stored # {}
    <3>1. SUFFICES ASSUME stored' \subseteq stored
                   PROVE  FALSE
      OBVIOUS
    <3>2. Cardinality(stored') <= Size /\ Cardinality(stored') \in Nat
      BY <2>1, <3>1, FS_Subset, FS_CardinalityType DEF Size
    <3>3. QED
      BY <1>1, <2>1, <3>2
  <2>3. PICK k \in Keys, v \in Values, life \in TTLs : Set(k, v, life)
    BY <1>1, <2>2, OnlySetInserts
  <2>4. /\ MakeRoom(k) \subseteq stored /\ k \notin MakeRoom(k)
        /\ stored' = (stored \ MakeRoom(k)) \cup {k}
    BY <1>1, <2>3, SetStores
  <2>5. k \notin stored
    BY <2>2, <2>4
  <2>6. maxSize \in Nat \ {0}
    BY <1>1, CacheAssumption DEF TypeOK
  <2>7. CASE Size < maxSize
    <3>1. Cardinality(stored') = Size + 1
      <4>1. stored' = stored \cup {k}
        BY <2>1, <2>4, <2>6, <2>7 DEF MakeRoom, NoRoomFor
      <4>2. QED
        BY <2>1, <2>5, <4>1, FS_AddElement DEF Size
    <3>2. QED
      BY <2>1, <2>6, <2>7, <3>1
  <2>8. CASE ~(Size < maxSize)
    <3>1. MakeRoom(k) = Victims
      BY <2>1, <2>5, <2>6, <2>8 DEF MakeRoom, NoRoomFor
    <3>2. stored # {}
      BY <2>1, <2>6, <2>8, FS_EmptySet DEF Size
    <3>3. PICK gone \in stored : gone \in Victims
      BY <1>1, <3>2, SomethingIsEvicted, TypeParts
    <3>4. stored' \subseteq (stored \ {gone}) \cup {k}
      BY <2>4, <3>1, <3>3
    <3>5. /\ IsFiniteSet((stored \ {gone}) \cup {k})
          /\ Cardinality((stored \ {gone}) \cup {k}) = Size
      <4>1. IsFiniteSet(stored \ {gone}) /\ Cardinality(stored \ {gone}) = Size - 1
        BY <2>1, <3>3, FS_RemoveElement DEF Size
      <4>2. k \notin stored \ {gone}
        BY <2>5
      <4>3. /\ IsFiniteSet((stored \ {gone}) \cup {k})
            /\ Cardinality((stored \ {gone}) \cup {k}) = Cardinality(stored \ {gone}) + 1
        BY <4>1, <4>2, FS_AddElement, Zenon
      <4>4. QED
        BY <2>1, <4>1, <4>3
    <3>6. Cardinality(stored') <= Size /\ Cardinality(stored') \in Nat
      BY <3>4, <3>5, FS_Subset, FS_CardinalityType
    <3>7. QED
      BY <1>1, <2>1, <3>6
  <2>9. QED
    BY <2>7, <2>8
<1>2. TypeOK /\ [Next]_vars =>
        [Cardinality(stored') > Size => Cardinality(stored') <= maxSize]_vars
  BY <1>1
<1>3. QED
  BY <1>2, CacheTypes, PTL DEF Spec, GrowsOnlyToLimit

(* The first member of an ordered set is the only one of rank zero.        *)
LEMMA FirstIsOne ==
  ASSUME Ordered, IsFiniteSet(Keys), stored # {}
  PROVE  \E k \in stored : /\ FirstOf(stored, 1) = {k}
                           /\ \A j \in stored : <<k, j>> \notin older => j = k
<1>1. PICK k \in stored : {j \in stored : <<j, k>> \in older} = {}
  BY OneIsFirst
<1>2. \A j \in stored : <<k, j>> \notin older => j = k
  BY <1>1 DEF Ordered
<1>3. ASSUME NEW j \in stored
      PROVE  Cardinality({i \in stored : <<i, j>> \in older}) < 1 <=> j = k
  <2> DEFINE Before == {i \in stored : <<i, j>> \in older}
  <2>1. IsFiniteSet(stored) /\ IsFiniteSet(Before)
    BY FS_Subset DEF stored
  <2>2. Cardinality(Before) \in Nat /\ (Cardinality(Before) = 0 <=> Before = {})
    BY <2>1, FS_CardinalityType, FS_EmptySet
  <2>3. Before = {} <=> j = k
    BY <1>1, <1>2
  <2> HIDE DEF Before
  <2>4. Cardinality(Before) < 1 <=> j = k
    BY <2>2, <2>3
  <2>5. QED
    BY <2>4 DEF Before
<1>4. FirstOf(stored, 1) = {k}
  BY <1>3 DEF FirstOf
<1>5. QED
  BY <1>2, <1>4

(* An insertion drops a living entry only when none has expired, and then  *)
(* only the one that was inserted first.                                   *)
THEOREM LivingAreSpared == Spec => InsertionSparesTheLiving
<1> DEFINE Spared ==
      /\ Expired = {}
      /\ \E k \in stored : /\ Lost = {k}
                           /\ \A j \in stored : <<k, j>> \notin older => j = k
<1>1. ASSUME TypeOK, [Next]_vars, stored' \ stored # {}, Lost \ Expired # {}
      PROVE  Spared
  <2>1. PICK k \in Keys, v \in Values, life \in TTLs : Set(k, v, life)
    BY <1>1, OnlySetInserts
  <2>2. /\ MakeRoom(k) \subseteq stored
        /\ stored' = (stored \ MakeRoom(k)) \cup {k}
    BY <1>1, <2>1, SetStores
  <2>3. k \notin stored
    BY <1>1, <2>2
  <2>4. Lost = MakeRoom(k)
    BY <2>2, <2>3 DEF Lost
  <2>5. Lost = Victims
    BY <1>1, <2>4 DEF MakeRoom
  <2>6. Expired = {}
    <3>1. SUFFICES ASSUME Expired # {}
                   PROVE  FALSE
      OBVIOUS
    <3>2. QED
      BY <1>1, <2>5, <3>1 DEF Victims, FirstOf
  <2>7. Lost = FirstOf(stored, 1)
    BY <2>5, <2>6 DEF Victims
  <2>8. stored # {} /\ Ordered /\ IsFiniteSet(Keys)
    BY <1>1, TypeParts, CacheAssumption DEF Lost
  <2>9. QED
    BY <2>6, <2>7, <2>8, FirstIsOne
<1>2. TypeOK /\ [Next]_vars =>
        [stored' \ stored # {} /\ Lost \ Expired # {} => Spared]_vars
  BY <1>1
<1>3. QED
  BY <1>2, CacheTypes, PTL DEF Spec, InsertionSparesTheLiving
=============================================================================
