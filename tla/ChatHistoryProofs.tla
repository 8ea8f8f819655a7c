------------------------- MODULE ChatHistoryProofs --------------------------
(***************************************************************************)
(* For any number of tabs, sessions, questions and faults: a history file  *)
(* that cannot be read is left alone by every save that did not read it    *)
(* while it still could be; no exchange is ever torn; a save that ends well*)
(* has written all its tab shows; and it drops what others have written    *)
(* only when they wrote while it was under way, or at the limit.           *)
(***************************************************************************)
EXTENDS ChatHistory, TLAPS, FiniteSetTheorems

PcTypes == pc \in [Tabs -> {"idle", "asking"} \cup Saving]

(* Once a save has read the file, only another's writing can break it, and *)
(* whoever writes makes stale all saves that are between read and write.   *)
BrokenByOthers == \A t \in Tabs : pc[t] = "read" /\ ~Readable => t \in stale

SparedInv == PcTypes /\ BrokenByOthers

LEMMA SparedInvInit == Init => SparedInv
BY DEF Init, SparedInv, PcTypes, BrokenByOthers

(* A script that moves on without touching the file.                       *)
LEMMA MovingOn ==
  ASSUME SparedInv, NEW t \in Tabs, NEW to \in {"idle", "asking", "reading"},
         pc' = [pc EXCEPT ![t] = to], file' = file, stale' = stale
  PROVE  SparedInv'
BY DEF SparedInv, PcTypes, BrokenByOthers, Saving, Readable

(* A tab that has written, wholly or in part, or emptied the file.         *)
LEMMA Writing ==
  ASSUME SparedInv, NEW t \in Tabs, NEW to \in {"idle", "truncated"},
         pc' = [pc EXCEPT ![t] = to], stale' = stale \cup Others(t)
  PROVE  SparedInv'
<1>1. PcTypes'
  BY DEF SparedInv, PcTypes, Saving
<1>2. ASSUME NEW u \in Tabs, pc'[u] = "read"
      PROVE  u \in stale'
  <2>1. u # t /\ pc[u] = "read"
    BY <1>2 DEF SparedInv, PcTypes
  <2>2. QED
    BY <2>1 DEF Others
<1>3. QED
  BY <1>1, <1>2 DEF SparedInv, BrokenByOthers

LEMMA SparedInvNext == SparedInv /\ [Next]_vars => SparedInv'
<1> SUFFICES ASSUME SparedInv, [Next]_vars
             PROVE  SparedInv'
  OBVIOUS
<1>1. ASSUME NEW t \in Tabs, Use(t)
      PROVE  SparedInv'
  BY <1>1, MovingOn DEF Use, Interact, Unsaved
<1>2. ASSUME NEW t \in Tabs, Ask(t) \/ Reply(t)
      PROVE  SparedInv'
  BY <1>2, MovingOn DEF Ask, Reply, Unsaved
<1>3. ASSUME NEW t \in Tabs, ReadFile(t)
      PROVE  SparedInv'
  <2>1. CASE Readable
    BY <1>3, <2>1 DEF ReadFile, Move, SparedInv, PcTypes, BrokenByOthers, Saving, Readable
  <2>2. CASE ~Readable
    BY <1>3, <2>2, MovingOn DEF ReadFile, Move
  <2>3. QED
    BY <2>1, <2>2
<1>4. ASSUME NEW t \in Tabs, Truncate(t) \/ Write(t) \/ WriteFails(t)
      PROVE  SparedInv'
  BY <1>4, Writing DEF Truncate, Write, WriteFails, Done, Move
<1>5. CASE Restart
  BY <1>5 DEF Restart, SparedInv, PcTypes, BrokenByOthers
<1>6. CASE UNCHANGED vars
  BY <1>6 DEF vars, SparedInv, PcTypes, BrokenByOthers, Readable
<1>7. QED
  BY <1>1, <1>2, <1>3, <1>4, <1>5, <1>6
     DEF Next, Open, ChangeSession, LoadSession, ClearChat

(* A save does not write over a file that does not parse, unless another   *)
(* save has broken it after this one read it (_save_chat_history).         *)
THEOREM UnreadableFilesAreSpared == Spec => UnreadableIsSpared
<1>1. SparedInv /\ [Next]_vars =>
        [\A t \in Tabs :
           pc[t] = "read" /\ pc'[t] = "truncated" /\ ~Readable => t \in stale]_vars
  BY DEF SparedInv, BrokenByOthers
<1>2. QED
  BY <1>1, SparedInvInit, SparedInvNext, PTL DEF Spec, UnreadableIsSpared
-----------------------------------------------------------------------------
(* Induction over the natural numbers.  The strict inclusion of finite sets*)
(* is well-founded, so one of the sets 0 .. n-1 is minimal.                *)
LEMMA LeastNat ==
  ASSUME NEW S \in SUBSET Nat, S # {}
  PROVE  \E n \in S : \A m \in S : n <= m
<1> DEFINE Below == {0..(n - 1) : n \in S}
<1>1. Below \subseteq FiniteSubsetsOf(Nat) /\ Below # {}
  <2>1. ASSUME NEW n \in S
        PROVE  IsFiniteSet(0..(n - 1)) /\ 0..(n - 1) \in SUBSET Nat
    BY FS_Interval
  <2>2. QED
    BY <2>1 DEF FiniteSubsetsOf
<1>2. IsWellFoundedOn(StrictSubsetOrdering(Nat), FiniteSubsetsOf(Nat))
  BY FS_StrictSubsetOrderingWellFounded
<1>3. PICK b \in Below : \A c \in Below : ~(<<c, b>> \in StrictSubsetOrdering(Nat))
  <2> HIDE DEF Below
  <2>1. QED
    BY <1>1, <1>2, WFMin, Zenon
<1>4. PICK n \in S : b = 0..(n - 1)
  BY <1>3
<1>5. ASSUME NEW m \in S, m < n
      PROVE  FALSE
  <2>1. 0..(m - 1) \in SUBSET Nat /\ 0..(n - 1) \in SUBSET Nat
    OBVIOUS
  <2>2. 0..(m - 1) \subseteq 0..(n - 1)
    BY <1>5
  <2>3. m \in 0..(n - 1) /\ m \notin 0..(m - 1)
    BY <1>5
  <2>4. <<0..(m - 1), b>> \in StrictSubsetOrdering(Nat)
    <3>1. 0..(m - 1) # b
      BY <1>4, <2>3
    <3>2. QED
      BY <1>4, <2>1, <2>2, <3>1 DEF StrictSubsetOrdering
  <2>5. QED
    BY <1>3, <2>4
<1>6. QED
  BY <1>5

(* A set that has 0, and with every number the next one, has all of them.  *)
LEMMA Climb ==
  ASSUME NEW S, 0 \in S, \A n \in Nat : n \in S => n + 1 \in S
  PROVE  Nat \subseteq S
<1> SUFFICES ASSUME Nat \ S # {}
             PROVE  FALSE
  OBVIOUS
<1>1. PICK n \in Nat \ S : \A m \in Nat \ S : n <= m
  BY LeastNat
<1>2. n - 1 \in Nat /\ n - 1 \in S
  BY <1>1
<1>3. QED
  BY <1>1, <1>2
-----------------------------------------------------------------------------
(* What Kept has of each beginning of s.                                   *)
IsKept(kept, s, ids, top) ==
  kept = [n \in 0..top |->
            IF n = 0 THEN <<>>
            ELSE IF s[n].session_id \in ids THEN Append(kept[n - 1], s[n]) ELSE kept[n - 1]]

LEMMA SomethingIsKept ==
  ASSUME NEW s, NEW ids, NEW top \in Nat
  PROVE  \E kept : IsKept(kept, s, ids, top)
<1> DEFINE S == {n \in Nat : \E kept : IsKept(kept, s, ids, n)}
<1>1. 0 \in S
  <2>1. IsKept([n \in 0..0 |-> <<>>], s, ids, 0)
    BY DEF IsKept
  <2>2. QED
    BY <2>1
<1>2. ASSUME NEW n \in Nat, n \in S
      PROVE  n + 1 \in S
  <2>1. PICK kept : IsKept(kept, s, ids, n)
    BY <1>2
  <2> DEFINE more == [i \in 0..(n + 1) |->
                        IF i = n + 1
                        THEN IF s[i].session_id \in ids THEN Append(kept[n], s[i]) ELSE kept[n]
                        ELSE kept[i]]
  <2>2. \A i \in 0..n : more[i] = kept[i]
    OBVIOUS
  <2>3. ASSUME NEW i \in 0..(n + 1)
        PROVE  more[i] = IF i = 0 THEN <<>>
                         ELSE IF s[i].session_id \in ids THEN Append(more[i - 1], s[i])
                         ELSE more[i - 1]
    <3>1. CASE i = n + 1
      <4>1. i - 1 = n /\ i # 0 /\ more[n] = kept[n]
        BY <2>2, <3>1
      <4>2. QED
        BY <3>1, <4>1
    <3>2. CASE i \in 0..n
      <4>1. /\ more[i] = kept[i]
            /\ kept[i] = IF i = 0 THEN <<>>
                         ELSE IF s[i].session_id \in ids THEN Append(kept[i - 1], s[i])
                         ELSE kept[i - 1]
        <5> HIDE DEF more
        <5>1. QED
          BY <2>1, <2>2, <3>2 DEF IsKept
      <4>2. i # 0 => more[i - 1] = kept[i - 1]
        <5>1. i # 0 => i - 1 \in 0..n
          BY <3>2
        <5> HIDE DEF more
        <5>2. QED
          BY <2>2, <5>1
      <4>3. QED
        BY <4>1, <4>2
    <3>3. QED
      BY <3>1, <3>2
  <2>4. more = [i \in 0..(n + 1) |-> more[i]]
    OBVIOUS
  <2>5. IsKept(more, s, ids, n + 1)
    <3> HIDE DEF more
    <3>1. QED
      BY <2>3, <2>4 DEF IsKept
  <2>6. QED
    BY <2>5
<1>3. QED
  <2> HIDE DEF S
  <2>1. top \in S
    BY <1>1, <1>2, Climb
  <2>2. QED
    BY <2>1 DEF S

LEMMA KeptIs ==
  ASSUME NEW S, NEW s \in Seq(S), NEW ids
  PROVE  \E kept : IsKept(kept, s, ids, Len(s)) /\ Kept(s, ids) = kept[Len(s)]
<1>1. Len(s) \in Nat
  OBVIOUS
<1>2. \E kept : IsKept(kept, s, ids, Len(s))
  BY <1>1, SomethingIsKept
<1>3. QED
  BY <1>2 DEF Kept, IsKept
-----------------------------------------------------------------------------
(* ExchangesStayWhole, for any messages and any questions that are excused.*)
Whole(s, excused) ==
  \A i \in 1..Len(s) :
    s[i].role = "user" /\ s[i].of \notin excused => i < Len(s) /\ s[i + 1] = Answer(s[i])

(* What is kept of the first n messages: all that should be, and whole but *)
(* for a last question whose answer comes next.                            *)
KeptUpTo(n, u, s, ids, excused) ==
  /\ u \in Seq(Message)
  /\ \A j \in 1..n : s[j].session_id \in ids => \E k \in 1..Len(u) : u[k] = s[j]
  /\ \A i \in 1..Len(u) :
       u[i].role = "user" /\ u[i].of \notin excused =>
         \/ i < Len(u) /\ u[i + 1] = Answer(u[i])
         \/ /\ i = Len(u) /\ n < Len(s)
            /\ s[n + 1] = Answer(u[i]) /\ u[i].session_id \in ids

LEMMA KeptOneMore ==
  ASSUME NEW s \in Seq(Message), NEW ids, NEW excused, Whole(s, excused),
         NEW n \in Nat, n < Len(s), NEW u, KeptUpTo(n, u, s, ids, excused)
  PROVE  KeptUpTo(n + 1,
                  IF s[n + 1].session_id \in ids THEN Append(u, s[n + 1]) ELSE u,
                  s, ids, excused)
<1> DEFINE m == s[n + 1]
<1>1. n + 1 \in 1..Len(s) /\ m \in Message /\ u \in Seq(Message)
  BY DEF KeptUpTo
<1>2. CASE m.session_id \in ids
  <2> DEFINE v == Append(u, m)
  <2>1. /\ v \in Seq(Message) /\ Len(v) = Len(u) + 1 /\ Len(u) \in Nat
        /\ \A i \in 1..Len(u) : v[i] = u[i]
        /\ v[Len(u) + 1] = m
    <3> HIDE DEF m
    <3>1. QED
      BY <1>1
  <2> HIDE DEF v
  <2>2. ASSUME NEW j \in 1..(n + 1), s[j].session_id \in ids
        PROVE  \E k \in 1..Len(v) : v[k] = s[j]
    <3>1. CASE j = n + 1
      <4>1. Len(u) + 1 \in 1..Len(v) /\ v[Len(u) + 1] = s[j]
        BY <2>1, <3>1
      <4>2. QED
        BY <4>1
    <3>2. CASE j \in 1..n
      <4>1. PICK k \in 1..Len(u) : u[k] = s[j]
        BY <2>2, <3>2 DEF KeptUpTo
      <4>2. k \in 1..Len(v) /\ v[k] = s[j]
        BY <2>1, <4>1
      <4>3. QED
        BY <4>2
    <3>3. QED
      BY <3>1, <3>2
  <2>3. ASSUME NEW i \in 1..Len(v), v[i].role = "user", v[i].of \notin excused
        PROVE  \/ i < Len(v) /\ v[i + 1] = Answer(v[i])
               \/ /\ i = Len(v) /\ n + 1 < Len(s)
                  /\ s[(n + 1) + 1] = Answer(v[i]) /\ v[i].session_id \in ids
    <3>1. CASE i = Len(u) + 1
      <4>1. v[i] = m /\ i = Len(v)
        BY <2>1, <3>1
      <4>2. n + 1 < Len(s) /\ s[(n + 1) + 1] = Answer(m)
        BY <1>1, <2>3, <4>1 DEF Whole
      <4>3. QED
        BY <1>2, <4>1, <4>2
    <3>2. CASE i \in 1..Len(u)
      <4>1. v[i] = u[i] /\ i < Len(v)
        BY <2>1, <3>2
      <4>2. v[i + 1] = IF i < Len(u) THEN u[i + 1] ELSE m
        BY <2>1, <3>2
      <4>3. \/ i < Len(u) /\ u[i + 1] = Answer(u[i])
            \/ i = Len(u) /\ m = Answer(u[i])
        BY <2>3, <3>2, <4>1 DEF KeptUpTo
      <4>4. QED
        BY <4>1, <4>2, <4>3
    <3>3. QED
      BY <2>1, <3>1, <3>2
  <2>4. KeptUpTo(n + 1, v, s, ids, excused)
    BY <2>1, <2>2, <2>3 DEF KeptUpTo
  <2>5. QED
    BY <1>2, <2>4 DEF v
<1>3. CASE m.session_id \notin ids
  <2>1. ASSUME NEW j \in 1..(n + 1), s[j].session_id \in ids
        PROVE  \E k \in 1..Len(u) : u[k] = s[j]
    <3>1. j \in 1..n
      BY <1>3, <2>1
    <3>2. QED
      BY <2>1, <3>1 DEF KeptUpTo
  <2>2. ASSUME NEW i \in 1..Len(u), u[i].role = "user", u[i].of \notin excused
        PROVE  i < Len(u) /\ u[i + 1] = Answer(u[i])
    <3>1. u[i] \in Message
      BY <1>1
    <3>2. Answer(u[i]).session_id = u[i].session_id
      BY <3>1 DEF Answer, Message
    <3>3. QED
      BY <1>3, <2>2, <3>2 DEF KeptUpTo
  <2>3. KeptUpTo(n + 1, u, s, ids, excused)
    BY <1>1, <2>1, <2>2 DEF KeptUpTo
  <2>4. QED
    BY <1>3, <2>3
<1>4. QED
  BY <1>2, <1>3

(* Choosing sessions loses none of their messages and tears no exchange.   *)
LEMMA KeptStaysWhole ==
  ASSUME NEW s \in Seq(Message), NEW ids, NEW excused, Whole(s, excused)
  PROVE  /\ Kept(s, ids) \in Seq(Message) /\ Whole(Kept(s, ids), excused)
         /\ \A j \in 1..Len(s) :
              s[j].session_id \in ids => s[j] \in ToSet(Kept(s, ids))
<1>1. PICK kept : IsKept(kept, s, ids, Len(s)) /\ Kept(s, ids) = kept[Len(s)]
  BY KeptIs
<1> DEFINE S == {n \in Nat : n <= Len(s) => KeptUpTo(n, kept[n], s, ids, excused)}
<1>2. 0 \in S
  <2>1. kept[0] = <<>>
    BY <1>1 DEF IsKept
  <2>2. KeptUpTo(0, <<>>, s, ids, excused)
    BY DEF KeptUpTo
  <2>3. QED
    BY <2>1, <2>2
<1>3. ASSUME NEW n \in Nat, n \in S
      PROVE  n + 1 \in S
  <2>1. SUFFICES ASSUME n + 1 <= Len(s)
                 PROVE  KeptUpTo(n + 1, kept[n + 1], s, ids, excused)
    OBVIOUS
  <2>2. n < Len(s) /\ KeptUpTo(n, kept[n], s, ids, excused)
    BY <1>3, <2>1
  <2>3. kept[n + 1] = IF s[n + 1].session_id \in ids
                      THEN Append(kept[n], s[n + 1]) ELSE kept[n]
    <3>1. n + 1 \in 0..Len(s) /\ n + 1 # 0 /\ (n + 1) - 1 = n
      BY <2>1
    <3>2. QED
      BY <1>1, <3>1 DEF IsKept
  <2>4. QED
    BY <2>2, <2>3, KeptOneMore
<1>4. KeptUpTo(Len(s), kept[Len(s)], s, ids, excused)
  <2>1. Len(s) \in Nat
    OBVIOUS
  <2> HIDE DEF S
  <2>2. Len(s) \in S
    BY <1>2, <1>3, <2>1, Climb
  <2>3. QED
    BY <2>1, <2>2 DEF S
<1> DEFINE u == Kept(s, ids)
<1>5. KeptUpTo(Len(s), u, s, ids, excused)
  BY <1>1, <1>4
<1> HIDE DEF u
<1>6. u \in Seq(Message) /\ Whole(u, excused)
  BY <1>5 DEF KeptUpTo, Whole
<1>7. \A j \in 1..Len(s) : s[j].session_id \in ids => s[j] \in ToSet(u)
  BY <1>5, <1>6 DEF KeptUpTo, ToSet
<1>8. QED
  BY <1>6, <1>7 DEF u
-----------------------------------------------------------------------------
LEMMA KeptTypes ==
  ASSUME NEW s \in Seq(Message), NEW ids
  PROVE  Kept(s, ids) \in Seq(Message)
<1>1. Whole(s, 1..MaxAsked)
  <2>1. \A i \in 1..Len(s) : s[i] \in Message
    OBVIOUS
  <2>2. \A m \in Message : m.of \in 1..MaxAsked
    BY DEF Message
  <2>3. QED
    BY <2>1, <2>2 DEF Whole
<1>2. QED
  BY <1>1, KeptStaysWhole

LEMMA LatestIs ==
  ASSUME NEW S, NEW s \in Seq(S)
  PROVE  LET u == Latest(s)
         IN  /\ u \in Seq(S) /\ Len(u) <= MAX_HISTORY_ENTRIES /\ Len(u) <= Len(s)
             /\ u = s \/ Len(u) = MAX_HISTORY_ENTRIES
             /\ \A i \in 1..Len(u) : u[i] = s[Len(s) - Len(u) + i]
<1>1. MAX_HISTORY_ENTRIES \in Nat \ {0}
  BY HistoryAssumption
<1>2. CASE Len(s) > MAX_HISTORY_ENTRIES
  <2> DEFINE a == Len(s) - MAX_HISTORY_ENTRIES + 1
  <2>1. Latest(s) = SubSeq(s, a, Len(s)) /\ a \in 1..Len(s)
    BY <1>1, <1>2 DEF Latest
  <2>2. Latest(s) \in Seq(S) /\ Len(Latest(s)) = MAX_HISTORY_ENTRIES
    BY <1>1, <1>2, <2>1
  <2>3. ASSUME NEW i \in 1..MAX_HISTORY_ENTRIES
        PROVE  Latest(s)[i] = s[Len(s) - MAX_HISTORY_ENTRIES + i]
    BY <1>1, <1>2, <2>1
  <2>4. QED
    BY <1>1, <1>2, <2>2, <2>3
<1>3. CASE ~(Len(s) > MAX_HISTORY_ENTRIES)
  <2>1. Latest(s) = SubSeq(s, 1, Len(s))
    BY <1>3 DEF Latest
  <2>2. SubSeq(s, 1, Len(s)) = s
    OBVIOUS
  <2>3. Latest(s) = s /\ Len(s) \in Nat /\ Len(s) <= MAX_HISTORY_ENTRIES
    BY <1>1, <1>3, <2>1, <2>2
  <2>4. \A i \in 1..Len(s) : Len(s) - Len(s) + i = i
    BY <2>3
  <2>5. QED
    BY <2>3, <2>4
<1>4. QED
  BY <1>2, <1>3

(* While a tab waits for an answer, the last it shows is its question.     *)
Questions ==
  \A t \in Tabs :
    pc[t] = "asking" =>
      /\ shown[t] # <<>>
      /\ LET q == shown[t][Len(shown[t])]
         IN  q.role = "user" /\ q.session_id = session[t] /\ q.of <= asked

DraftsFit == \A t \in Tabs : Len(draft[t]) <= MAX_HISTORY_ENTRIES

TypeInv == TypeOK /\ Questions /\ DraftsFit

LEMMA LoadedTypes ==
  ASSUME TypeOK, NEW id
  PROVE  /\ _load_chat_history \in Seq(Message)
         /\ OfSession(_load_chat_history, id) \in Seq(Message)
<1>1. _load_chat_history \in Seq(Message)
  BY LatestIs DEF TypeOK, _load_chat_history, Readable
<1>2. QED
  BY <1>1, KeptTypes DEF OfSession

LEMMA QuestionTypes ==
  ASSUME TypeInv, NEW t \in Tabs, pc[t] = "asking"
  PROVE  /\ LatestQuestion(t) \in 1..asked /\ asked \in Nat
         /\ shown[t][Len(shown[t])] \in Message
<1>1. shown[t] \in Seq(Message) /\ shown[t] # <<>> /\ asked \in Nat
  BY HistoryAssumption DEF TypeInv, TypeOK, Questions
<1>2. shown[t][Len(shown[t])] \in Message
  BY <1>1
<1>3. shown[t][Len(shown[t])].of \in 1..MaxAsked /\ MaxAsked \in Nat
  BY <1>2, HistoryAssumption DEF Message
<1>4. QED
  BY <1>1, <1>2, <1>3 DEF TypeInv, Questions, LatestQuestion

(* A used widget, with what it makes the tab show.                         *)
LEMMA UseKeepsTypes ==
  ASSUME TypeInv, NEW t \in Tabs, Use(t),
         NEW x \in Seq(Message), shown' = [shown EXCEPT ![t] = x],
         NEW id \in Sessions, session' = [session EXCEPT ![t] = id]
  PROVE  TypeInv'
<1>1. /\ pc' = [pc EXCEPT ![t] = "idle"] /\ UNCHANGED <<file, draft, stale, asked, faults>>
      /\ dropped' = IF pc[t] = "asking" THEN dropped \cup {LatestQuestion(t)} ELSE dropped
  BY DEF Use, Interact, Unsaved
<1>2. dropped' \subseteq 1..asked
  BY <1>1, QuestionTypes DEF TypeInv, TypeOK
<1>3. TypeOK'
  BY <1>1, <1>2 DEF TypeInv, TypeOK, Readable
<1>4. ASSUME NEW u \in Tabs, pc'[u] = "asking"
      PROVE  u # t /\ pc[u] = "asking" /\ shown'[u] = shown[u] /\ session'[u] = session[u]
  BY <1>1, <1>4 DEF TypeInv, TypeOK
<1>5. Questions'
  BY <1>1, <1>4 DEF TypeInv, Questions
<1>6. QED
  BY <1>1, <1>3, <1>5 DEF TypeInv, DraftsFit

LEMMA AskKeepsTypes ==
  ASSUME TypeInv, NEW t \in Tabs, Ask(t)
  PROVE  TypeInv'
<1> DEFINE q == [role |-> "user", of |-> asked + 1, session_id |-> session[t]]
           x == Append(shown[t], q)
<1>1. /\ asked \in Nat /\ asked < MaxAsked /\ MaxAsked \in Nat /\ asked' = asked + 1
      /\ asked' \in 0..MaxAsked
      /\ shown' = [shown EXCEPT ![t] = x] /\ pc' = [pc EXCEPT ![t] = "asking"]
      /\ UNCHANGED <<file, draft, stale, session, dropped, faults>>
  BY HistoryAssumption DEF Ask, Unsaved, TypeInv, TypeOK
<1>2. q \in Message /\ shown[t] \in Seq(Message)
  <2>1. asked + 1 \in 1..MaxAsked /\ session[t] \in Sessions
    BY <1>1 DEF TypeInv, TypeOK
  <2>2. QED
    BY <2>1 DEF Message, TypeInv, TypeOK
<1>3. /\ x \in Seq(Message) /\ x # <<>> /\ x[Len(x)] = q
      /\ q.role = "user" /\ q.of = asked' /\ q.session_id = session[t]
  <2>1. q.role = "user" /\ q.of = asked' /\ q.session_id = session[t]
    BY <1>1
  <2> HIDE DEF q
  <2>2. QED
    BY <1>2, <2>1
<1> HIDE DEF x, q
<1>4. TypeOK'
  <2>1. dropped' \subseteq 1..asked'
    BY <1>1 DEF TypeInv, TypeOK
  <2>2. QED
    BY <1>1, <1>3, <2>1 DEF TypeInv, TypeOK, Readable
<1>5. ASSUME NEW u \in Tabs, pc'[u] = "asking"
      PROVE  /\ shown'[u] # <<>>
             /\ LET p == shown'[u][Len(shown'[u])]
                IN  p.role = "user" /\ p.session_id = session'[u] /\ p.of <= asked'
  <2>1. CASE u = t
    BY <1>1, <1>3, <2>1 DEF TypeInv, TypeOK
  <2>2. CASE u # t
    <3>1. pc[u] = "asking" /\ shown'[u] = shown[u] /\ session'[u] = session[u]
      BY <1>1, <1>5, <2>2 DEF TypeInv, TypeOK
    <3>2. LatestQuestion(u) \in 1..asked /\ LatestQuestion(u) = shown[u][Len(shown[u])].of
      BY <3>1, QuestionTypes DEF LatestQuestion
    <3>3. shown[u][Len(shown[u])].of <= asked'
      BY <1>1, <3>2
    <3>4. QED
      BY <3>1, <3>3 DEF TypeInv, Questions
  <2>3. QED
    BY <2>1, <2>2
<1>6. QED
  BY <1>1, <1>4, <1>5 DEF TypeInv, Questions, DraftsFit

(* What Reply appends is the answer to the question.                       *)
LEMMA ReplyAnswers ==
  ASSUME TypeInv, NEW t \in Tabs, Reply(t)
  PROVE  LET q == shown[t][Len(shown[t])]
         IN  /\ q \in Message /\ q.role = "user" /\ Answer(q) \in Message
             /\ shown' = [shown EXCEPT ![t] = Append(@, Answer(q))]
<1> DEFINE q == shown[t][Len(shown[t])]
<1>1. pc[t] = "asking" /\ q \in Message /\ q.role = "user" /\ q.session_id = session[t]
  BY QuestionTypes DEF Reply, TypeInv, Questions
<1>2. shown' = [shown EXCEPT ![t] = Append(shown[t],
                  [q EXCEPT !.role = "assistant", !.session_id = session[t]])]
  BY DEF Reply, TypeInv, TypeOK
<1> HIDE DEF q
<1>3. [q EXCEPT !.role = "assistant", !.session_id = session[t]] = Answer(q)
  BY <1>1 DEF Answer, Message
<1>4. Answer(q) \in Message
  BY <1>1 DEF Answer, Message
<1>5. QED
  BY <1>1, <1>2, <1>3, <1>4 DEF q, TypeInv, TypeOK

LEMMA ReplyKeepsTypes ==
  ASSUME TypeInv, NEW t \in Tabs, Reply(t)
  PROVE  TypeInv'
<1> DEFINE a == Answer(shown[t][Len(shown[t])])
<1>1. /\ pc' = [pc EXCEPT ![t] = "reading"]
      /\ UNCHANGED <<file, draft, stale, asked, dropped, faults, session>>
  BY DEF Reply, Unsaved, Counted
<1>2. a \in Message /\ shown' = [shown EXCEPT ![t] = Append(shown[t], a)]
  BY ReplyAnswers DEF TypeInv, TypeOK
<1> HIDE DEF a
<1>3. Append(shown[t], a) \in Seq(Message)
  BY <1>2 DEF TypeInv, TypeOK
<1>4. TypeOK'
  BY <1>1, <1>2, <1>3 DEF TypeInv, TypeOK, Readable, Saving
<1>5. ASSUME NEW u \in Tabs, pc'[u] = "asking"
      PROVE  pc[u] = "asking" /\ shown'[u] = shown[u] /\ session'[u] = session[u]
  BY <1>1, <1>2, <1>5 DEF TypeInv, TypeOK
<1>6. QED
  BY <1>1, <1>4, <1>5 DEF TypeInv, Questions, DraftsFit

(* The history that a save is going to write.                              *)
LEMMA NewHistoryIs ==
  ASSUME TypeInv, NEW t \in Tabs, Readable
  PROVE  LET old == OfOthers(Existing, session[t])
         IN  /\ Existing \in Seq(Message) /\ shown[t] \in Seq(Message)
             /\ old \in Seq(Message) /\ old \o shown[t] \in Seq(Message)
             /\ NewHistory(Existing, t) = Latest(old \o shown[t])
             /\ NewHistory(Existing, t) \in Seq(Message)
             /\ Len(NewHistory(Existing, t)) <= MAX_HISTORY_ENTRIES
<1>1. Existing \in Seq(Message)
  BY DEF Existing, TypeInv, TypeOK, Readable
<1>2. OfOthers(Existing, session[t]) \in Seq(Message)
  BY <1>1, KeptTypes DEF OfOthers
<1>3. shown[t] \in Seq(Message)
  BY DEF TypeInv, TypeOK
<1>4. OfOthers(Existing, session[t]) \o shown[t] \in Seq(Message)
  BY <1>2, <1>3
<1>5. NewHistory(Existing, t) = Latest(OfOthers(Existing, session[t]) \o shown[t])
  BY DEF NewHistory
<1>6. QED
  BY <1>1, <1>2, <1>3, <1>4, <1>5, LatestIs

(* A step of a save: the file, the draft and the tab's place in the script.*)
LEMMA SaveKeepsTypes ==
  ASSUME TypeInv, NEW t \in Tabs, Keep,
         NEW to \in {"idle", "read", "truncated"}, pc' = [pc EXCEPT ![t] = to],
         NEW x \in Seq(Message), Len(x) <= MAX_HISTORY_ENTRIES,
         draft' = [draft EXCEPT ![t] = x],
         file' \in {file, Empty, Torn, draft[t]},
         stale' \subseteq Tabs, faults' \in 0..MaxFaults
  PROVE  TypeInv'
<1>1. UNCHANGED <<shown, session, asked, dropped>>
  BY DEF Keep
<1>2. /\ file' \in {Absent, Empty, Torn} \/ file' \in Seq(Message)
      /\ Readable' /\ file' # Absent => Len(file') <= MAX_HISTORY_ENTRIES
  BY DEF TypeInv, TypeOK, Readable, DraftsFit
<1>3. TypeOK'
  BY <1>1, <1>2 DEF TypeInv, TypeOK, Saving
<1>4. ASSUME NEW u \in Tabs, pc'[u] = "asking"
      PROVE  pc[u] = "asking"
  BY <1>4 DEF TypeInv, TypeOK
<1>5. Questions'
  BY <1>1, <1>4 DEF TypeInv, Questions
<1>6. DraftsFit'
  BY DEF TypeInv, TypeOK, DraftsFit
<1>7. QED
  BY <1>3, <1>5, <1>6 DEF TypeInv

LEMMA SavingKeepsTypes ==
  ASSUME TypeInv, NEW t \in Tabs,
         ReadFile(t) \/ Truncate(t) \/ Write(t) \/ WriteFails(t)
  PROVE  TypeInv'
<1>1. /\ draft[t] \in Seq(Message) /\ Len(draft[t]) <= MAX_HISTORY_ENTRIES
      /\ draft = [draft EXCEPT ![t] = draft[t]]
      /\ stale \subseteq Tabs /\ faults \in 0..MaxFaults /\ MaxFaults \in Nat
      /\ Others(t) \subseteq Tabs
  BY HistoryAssumption DEF TypeInv, TypeOK, DraftsFit, Others
<1>2. <<>> \in Seq(Message) /\ Len(<<>>) <= MAX_HISTORY_ENTRIES
  BY HistoryAssumption
<1>3. CASE ReadFile(t)
  <2>1. CASE ~Readable
    BY <1>1, <1>3, <2>1, SaveKeepsTypes DEF ReadFile, Move
  <2>2. CASE Readable
    BY <1>1, <1>3, <2>2, NewHistoryIs, SaveKeepsTypes DEF ReadFile, Move
  <2>3. QED
    BY <2>1, <2>2
<1>4. CASE Truncate(t)
  BY <1>1, <1>4, SaveKeepsTypes DEF Truncate, Move
<1>5. CASE Write(t)
  <2>1. file' \in {draft[t], Torn} /\ stale' \subseteq Tabs /\ faults' = faults
    BY <1>1, <1>5 DEF Write
  <2>2. QED
    BY <1>1, <1>2, <1>5, <2>1, SaveKeepsTypes DEF Write, Done, Move
<1>6. CASE WriteFails(t)
  <2>1. /\ file' \in {file, Empty, Torn} /\ stale' \subseteq Tabs
        /\ faults' \in 0..MaxFaults
    BY <1>1, <1>6 DEF WriteFails
  <2>2. QED
    BY <1>1, <1>2, <1>6, <2>1, SaveKeepsTypes DEF WriteFails, Done, Move
<1>7. QED
  BY <1>3, <1>4, <1>5, <1>6

LEMMA RestartKeepsTypes ==
  ASSUME TypeInv, Restart
  PROVE  TypeInv'
<1>1. /\ pc' = [t \in Tabs |-> "idle"] /\ draft' = [t \in Tabs |-> <<>>] /\ stale' = {}
      /\ shown' = [t \in Tabs |-> OfSession(_load_chat_history, session[t])]
      /\ UNCHANGED <<file, session, asked>> /\ faults' = faults + 1 /\ faults < MaxFaults
      /\ dropped' = dropped \cup
                      {LatestQuestion(t) : t \in {u \in Tabs : pc[u] = "asking"}}
  BY DEF Restart
<1>2. dropped' \subseteq 1..asked
  BY <1>1, QuestionTypes DEF TypeInv, TypeOK
<1>3. shown' \in [Tabs -> Seq(Message)]
  BY <1>1, LoadedTypes DEF TypeInv
<1>4. faults' \in 0..MaxFaults
  BY <1>1, HistoryAssumption DEF TypeInv, TypeOK
<1>5. <<>> \in Seq(Message) /\ Len(<<>>) <= MAX_HISTORY_ENTRIES
  BY HistoryAssumption
<1>6. draft' \in [Tabs -> Seq(Message)] /\ DraftsFit'
  BY <1>1, <1>5 DEF DraftsFit
<1>7. QED
  BY <1>1, <1>2, <1>3, <1>4, <1>6 DEF TypeInv, TypeOK, Questions, Readable

LEMMA TypeInvInit == Init => TypeInv
<1> SUFFICES ASSUME Init
             PROVE  TypeInv
  OBVIOUS
<1>1. <<>> \in Seq(Message) /\ Len(<<>>) <= MAX_HISTORY_ENTRIES
  BY HistoryAssumption
<1>2. 0 \in 0..MaxAsked /\ 0 \in 0..MaxFaults
  BY HistoryAssumption
<1>3. QED
  BY <1>1, <1>2 DEF Init, TypeInv, TypeOK, Questions, DraftsFit, Readable

LEMMA TypeInvNext == TypeInv /\ [Next]_vars => TypeInv'
<1> SUFFICES ASSUME TypeInv, [Next]_vars
             PROVE  TypeInv'
  OBVIOUS
<1>1. ASSUME NEW t \in Tabs, NEW s \in Sessions,
             Open(t, s) \/ ChangeSession(t, s) \/ LoadSession(t, s)
      PROVE  TypeInv'
  <2>1. shown[t] \in Seq(Message) /\ shown = [shown EXCEPT ![t] = shown[t]]
    BY DEF TypeInv, TypeOK
  <2>2. CASE Open(t, s)
    BY <2>2, LoadedTypes, UseKeepsTypes DEF Open, TypeInv
  <2>3. CASE ChangeSession(t, s)
    BY <2>1, <2>3, UseKeepsTypes DEF ChangeSession
  <2>4. QED
    BY <1>1, <2>2, <2>3 DEF LoadSession, Open
<1>2. ASSUME NEW t \in Tabs, ClearChat(t)
      PROVE  TypeInv'
  <2>1. session[t] \in Sessions /\ session = [session EXCEPT ![t] = session[t]]
    BY DEF TypeInv, TypeOK
  <2>2. <<>> \in Seq(Message)
    OBVIOUS
  <2>3. QED
    BY <1>2, <2>1, <2>2, UseKeepsTypes DEF ClearChat
<1>3. CASE UNCHANGED vars
  BY <1>3 DEF vars, TypeInv, TypeOK, Questions, DraftsFit, Readable
<1>4. QED
  BY <1>1, <1>2, <1>3, AskKeepsTypes, ReplyKeepsTypes, SavingKeepsTypes,
     RestartKeepsTypes DEF Next

(* The file that is written never exceeds its limit, and all that the tabs *)
(* show, draft and ask stays of its type.                                  *)
THEOREM HistoryTypes == Spec => []TypeOK
<1>1. TypeInv => TypeOK
  BY DEF TypeInv
<1>2. QED
  BY <1>1, TypeInvInit, TypeInvNext, PTL DEF Spec
-----------------------------------------------------------------------------
(* Exchanges: of everything that is kept, shown or drafted, only a question*)
(* that still waits for its answer is not followed by it.                  *)
WholeButLast(s, excused) ==
  \A i \in 1..Len(s) :
    s[i].role = "user" /\ s[i].of \notin excused => i = Len(s) \/ s[i + 1] = Answer(s[i])

WholeHistory ==
  /\ Readable /\ file # Absent => Whole(file, dropped)
  /\ \A t \in Tabs :
       /\ Whole(draft[t], dropped)
       /\ WholeButLast(shown[t], dropped)
       /\ pc[t] # "asking" => Whole(shown[t], dropped)

ExchangeInv == TypeInv /\ WholeHistory

LEMMA WholeWithMore ==
  ASSUME NEW s, NEW excused, NEW more, excused \subseteq more
  PROVE  /\ Whole(s, excused) => Whole(s, more)
         /\ WholeButLast(s, excused) => WholeButLast(s, more)
BY DEF Whole, WholeButLast

LEMMA WholeIsWholeButLast ==
  ASSUME NEW s, NEW excused, Whole(s, excused)
  PROVE  WholeButLast(s, excused)
BY DEF Whole, WholeButLast

LEMMA LatestStaysWhole ==
  ASSUME NEW s \in Seq(Message), NEW excused, Whole(s, excused)
  PROVE  Whole(Latest(s), excused)
<1> DEFINE u == Latest(s)
           d == Len(s) - Len(u)
<1>1. /\ u \in Seq(Message) /\ d \in Nat /\ Len(u) \in Nat /\ Len(s) = d + Len(u)
      /\ \A i \in 1..Len(u) : u[i] = s[d + i]
  BY LatestIs
<1> HIDE DEF u, d
<1>2. ASSUME NEW i \in 1..Len(u), u[i].role = "user", u[i].of \notin excused
      PROVE  i < Len(u) /\ u[i + 1] = Answer(u[i])
  <2>1. d + i \in 1..Len(s) /\ u[i] = s[d + i]
    BY <1>1
  <2>2. d + i < Len(s) /\ s[(d + i) + 1] = Answer(u[i])
    BY <1>2, <2>1 DEF Whole
  <2>3. i < Len(u) /\ i + 1 \in 1..Len(u) /\ (d + i) + 1 = d + (i + 1)
    BY <1>1, <2>2
  <2>4. QED
    BY <1>1, <2>2, <2>3
<1>3. QED
  BY <1>2 DEF Whole, u

LEMMA BothWhole ==
  ASSUME NEW s \in Seq(Message), NEW u \in Seq(Message), NEW excused,
         Whole(s, excused), Whole(u, excused)
  PROVE  Whole(s \o u, excused)
<1> DEFINE v == s \o u
<1>1. /\ Len(v) = Len(s) + Len(u) /\ Len(s) \in Nat /\ Len(u) \in Nat
      /\ \A i \in 1..Len(v) : v[i] = IF i <= Len(s) THEN s[i] ELSE u[i - Len(s)]
  OBVIOUS
<1> HIDE DEF v
<1>2. ASSUME NEW i \in 1..Len(v), v[i].role = "user", v[i].of \notin excused
      PROVE  i < Len(v) /\ v[i + 1] = Answer(v[i])
  <2>1. CASE i <= Len(s)
    <3>1. v[i] = s[i] /\ i \in 1..Len(s)
      BY <1>1, <2>1
    <3>2. i < Len(s) /\ s[i + 1] = Answer(s[i])
      BY <1>2, <3>1 DEF Whole
    <3>3. i < Len(v) /\ i + 1 \in 1..Len(v) /\ i + 1 <= Len(s)
      BY <1>1, <3>2
    <3>4. QED
      BY <1>1, <3>1, <3>2, <3>3
  <2>2. CASE ~(i <= Len(s))
    <3>1. v[i] = u[i - Len(s)] /\ i - Len(s) \in 1..Len(u)
      BY <1>1, <2>2
    <3>2. i - Len(s) < Len(u) /\ u[(i - Len(s)) + 1] = Answer(v[i])
      BY <1>2, <3>1 DEF Whole
    <3>3. /\ i < Len(v) /\ i + 1 \in 1..Len(v) /\ ~(i + 1 <= Len(s))
          /\ (i + 1) - Len(s) = (i - Len(s)) + 1
      BY <1>1, <2>2, <3>2
    <3>4. QED
      BY <1>1, <3>2, <3>3
  <2>3. QED
    BY <2>1, <2>2
<1>3. QED
  BY <1>2 DEF Whole, v

LEMMA NothingIsWhole ==
  ASSUME NEW excused
  PROVE  <<>> \in Seq(Message) /\ Whole(<<>>, excused)
BY DEF Whole

(* An answer after the last question, or after none.                       *)
LEMMA AnsweredIsWhole ==
  ASSUME NEW s \in Seq(Message), NEW excused, s # <<>>,
         WholeButLast(s, excused), Answer(s[Len(s)]) \in Message
  PROVE  Whole(Append(s, Answer(s[Len(s)])), excused)
<1> DEFINE a == Answer(s[Len(s)])
           v == Append(s, a)
<1>1. Len(s) \in Nat \ {0} /\ s[Len(s)] \in Message
  OBVIOUS
<1>2. a \in Message /\ a.role = "assistant"
  BY <1>1 DEF Answer, Message
<1>3. a = Answer(s[Len(s)])
  OBVIOUS
<1> HIDE DEF a
<1>4. /\ Len(v) = Len(s) + 1 /\ v[Len(s) + 1] = a
      /\ \A i \in 1..Len(s) : v[i] = s[i]
  BY <1>2
<1> HIDE DEF v
<1>5. ASSUME NEW i \in 1..Len(v), v[i].role = "user", v[i].of \notin excused
      PROVE  i < Len(v) /\ v[i + 1] = Answer(v[i])
  <2>1. i # Len(s) + 1
    BY <1>2, <1>4, <1>5
  <2>2. i \in 1..Len(s) /\ v[i] = s[i]
    BY <1>1, <1>4, <2>1
  <2>3. CASE i = Len(s)
    BY <1>1, <1>3, <1>4, <2>2, <2>3
  <2>4. CASE i # Len(s)
    <3>1. s[i + 1] = Answer(s[i])
      BY <1>5, <2>2, <2>4 DEF WholeButLast
    <3>2. i + 1 \in 1..Len(s)
      BY <1>1, <2>2, <2>4
    <3>3. QED
      BY <1>4, <2>2, <3>1, <3>2
  <2>5. QED
    BY <2>3, <2>4
<1>6. QED
  BY <1>5 DEF Whole, v, a

LEMMA AskedIsWholeButLast ==
  ASSUME NEW s \in Seq(Message), NEW excused, NEW m, Whole(s, excused)
  PROVE  WholeButLast(Append(s, m), excused)
<1> DEFINE v == Append(s, m)
<1>1. /\ Len(v) = Len(s) + 1 /\ v[Len(s) + 1] = m /\ Len(s) \in Nat
      /\ \A i \in 1..Len(s) : v[i] = s[i]
  OBVIOUS
<1> HIDE DEF v
<1>2. ASSUME NEW i \in 1..Len(v), v[i].role = "user", v[i].of \notin excused, i # Len(v)
      PROVE  v[i + 1] = Answer(v[i])
  <2>1. i \in 1..Len(s) /\ v[i] = s[i]
    BY <1>1, <1>2
  <2>2. i < Len(s) /\ s[i + 1] = Answer(s[i])
    BY <1>2, <2>1 DEF Whole
  <2>3. i + 1 \in 1..Len(s)
    BY <1>1, <2>2
  <2>4. QED
    BY <1>1, <2>1, <2>2, <2>3
<1>3. QED
  BY <1>2 DEF WholeButLast, v

(* A question that is given up is excused.                                 *)
LEMMA GivenUpIsWhole ==
  ASSUME NEW s \in Seq(Message), NEW excused, s # <<>>, WholeButLast(s, excused)
  PROVE  Whole(s, excused \cup {s[Len(s)].of})
<1>1. Len(s) \in Nat
  OBVIOUS
<1>2. QED
  BY <1>1 DEF Whole, WholeButLast

LEMMA LoadedIsWhole ==
  ASSUME ExchangeInv, NEW id
  PROVE  Whole(OfSession(_load_chat_history, id), dropped)
<1>1. _load_chat_history \in Seq(Message)
  BY LoadedTypes DEF ExchangeInv, TypeInv
<1>2. Whole(_load_chat_history, dropped)
  <2>1. CASE Readable /\ file # Absent
    <3>1. file \in Seq(Message) /\ Whole(file, dropped)
      BY <2>1 DEF ExchangeInv, TypeInv, TypeOK, WholeHistory, Readable
    <3>2. QED
      BY <2>1, <3>1, LatestStaysWhole DEF _load_chat_history
  <2>2. CASE ~(Readable /\ file # Absent)
    BY <2>2, NothingIsWhole DEF _load_chat_history
  <2>3. QED
    BY <2>1, <2>2
<1>3. QED
  BY <1>1, <1>2, KeptStaysWhole DEF OfSession

(* The other parts, when only one tab has changed what it shows.           *)
LEMMA ShowingKeepsWhole ==
  ASSUME ExchangeInv, TypeInv', NEW t \in Tabs,
         file' = file, draft' = draft, dropped \subseteq dropped',
         \A u \in Tabs \ {t} :
           shown'[u] = shown[u] /\ (pc'[u] # "asking" => pc[u] # "asking"),
         WholeButLast(shown'[t], dropped'),
         pc'[t] # "asking" => Whole(shown'[t], dropped')
  PROVE  WholeHistory'
<1>1. Readable' /\ file' # Absent => Whole(file', dropped')
  BY WholeWithMore DEF ExchangeInv, WholeHistory, Readable
<1>2. ASSUME NEW u \in Tabs
      PROVE  /\ Whole(draft'[u], dropped')
             /\ WholeButLast(shown'[u], dropped')
             /\ pc'[u] # "asking" => Whole(shown'[u], dropped')
  <2>1. Whole(draft'[u], dropped')
    BY WholeWithMore DEF ExchangeInv, WholeHistory
  <2>2. CASE u = t
    BY <2>1, <2>2
  <2>3. CASE u # t
    BY <2>1, <2>3, WholeWithMore DEF ExchangeInv, WholeHistory
  <2>4. QED
    BY <2>2, <2>3
<1>3. QED
  BY <1>1, <1>2 DEF WholeHistory

LEMMA UseKeepsWhole ==
  ASSUME ExchangeInv, TypeInv', NEW t \in Tabs, Use(t),
         NEW x, shown' = [shown EXCEPT ![t] = x],
         x = shown[t] \/ Whole(x, dropped)
  PROVE  WholeHistory'
<1>1. /\ pc' = [pc EXCEPT ![t] = "idle"] /\ file' = file /\ draft' = draft
      /\ dropped' = IF pc[t] = "asking" THEN dropped \cup {LatestQuestion(t)} ELSE dropped
  BY DEF Use, Interact, Unsaved
<1>2. /\ shown'[t] = x /\ pc'[t] = "idle" /\ shown[t] \in Seq(Message)
      /\ \A u \in Tabs \ {t} : shown'[u] = shown[u] /\ pc'[u] = pc[u]
  BY <1>1 DEF ExchangeInv, TypeInv, TypeOK
<1>3. Whole(x, dropped')
  <2>1. CASE Whole(x, dropped)
    BY <1>1, <2>1, WholeWithMore
  <2>2. CASE x = shown[t] /\ pc[t] = "asking"
    <3>1. shown[t] # <<>> /\ WholeButLast(shown[t], dropped)
      BY <2>2 DEF ExchangeInv, TypeInv, Questions, WholeHistory
    <3>2. QED
      BY <1>1, <1>2, <2>2, <3>1, GivenUpIsWhole DEF LatestQuestion
  <2>3. CASE x = shown[t] /\ pc[t] # "asking"
    BY <1>1, <2>3 DEF ExchangeInv, WholeHistory
  <2>4. QED
    BY <2>1, <2>2, <2>3
<1>4. QED
  BY <1>1, <1>2, <1>3, WholeIsWholeButLast, ShowingKeepsWhole

LEMMA AskKeepsWhole ==
  ASSUME ExchangeInv, TypeInv', NEW t \in Tabs, Ask(t)
  PROVE  WholeHistory'
<1> DEFINE q == [role |-> "user", of |-> asked + 1, session_id |-> session[t]]
<1>1. /\ shown' = [shown EXCEPT ![t] = Append(shown[t], q)]
      /\ pc' = [pc EXCEPT ![t] = "asking"] /\ pc[t] = "idle"
      /\ file' = file /\ draft' = draft /\ dropped' = dropped
  BY DEF Ask, Unsaved, ExchangeInv, TypeInv, TypeOK
<1> HIDE DEF q
<1>2. /\ shown'[t] = Append(shown[t], q) /\ pc'[t] = "asking" /\ shown[t] \in Seq(Message)
      /\ \A u \in Tabs \ {t} : shown'[u] = shown[u] /\ pc'[u] = pc[u]
  BY <1>1 DEF ExchangeInv, TypeInv, TypeOK
<1>3. Whole(shown[t], dropped)
  BY <1>1 DEF ExchangeInv, WholeHistory
<1>4. WholeButLast(shown'[t], dropped')
  BY <1>1, <1>2, <1>3, AskedIsWholeButLast
<1>5. QED
  BY <1>1, <1>2, <1>4, ShowingKeepsWhole

LEMMA ReplyKeepsWhole ==
  ASSUME ExchangeInv, TypeInv', NEW t \in Tabs, Reply(t)
  PROVE  WholeHistory'
<1> DEFINE q == shown[t][Len(shown[t])]
<1>1. /\ pc' = [pc EXCEPT ![t] = "reading"] /\ pc[t] = "asking"
      /\ file' = file /\ draft' = draft /\ dropped' = dropped
  BY DEF Reply, Unsaved, Counted
<1>2. /\ Answer(q) \in Message
      /\ shown' = [shown EXCEPT ![t] = Append(shown[t], Answer(q))]
  BY ReplyAnswers DEF ExchangeInv, TypeInv, TypeOK
<1>3. /\ shown'[t] = Append(shown[t], Answer(q)) /\ shown[t] \in Seq(Message)
      /\ \A u \in Tabs \ {t} : shown'[u] = shown[u] /\ pc'[u] = pc[u]
  BY <1>1, <1>2 DEF ExchangeInv, TypeInv, TypeOK
<1>4. shown[t] # <<>> /\ WholeButLast(shown[t], dropped)
  BY <1>1 DEF ExchangeInv, TypeInv, Questions, WholeHistory
<1>5. Whole(shown'[t], dropped')
  BY <1>1, <1>2, <1>3, <1>4, AnsweredIsWhole
<1>6. QED
  BY <1>1, <1>3, <1>5, WholeIsWholeButLast, ShowingKeepsWhole

(* A step of a save: the file and the drafts.                              *)
LEMMA SavingKeepsWhole ==
  ASSUME ExchangeInv, TypeInv', NEW t \in Tabs,
         ReadFile(t) \/ Truncate(t) \/ Write(t) \/ WriteFails(t)
  PROVE  WholeHistory'
<1>1. /\ UNCHANGED <<shown, dropped>>
      /\ \A u \in Tabs : pc'[u] # "asking" => pc[u] # "asking"
  BY DEF ReadFile, Truncate, Write, WriteFails, Done, Move, Keep, ExchangeInv, TypeInv, TypeOK
<1>2. file' \in {file, Empty, Torn, draft[t]}
  BY DEF ReadFile, Truncate, Write, WriteFails
<1>3. Readable' /\ file' # Absent => Whole(file', dropped')
  BY <1>1, <1>2 DEF Readable, ExchangeInv, WholeHistory
<1>4. \/ draft' = draft
      \/ draft' = [draft EXCEPT ![t] = <<>>]
      \/ Readable /\ draft' = [draft EXCEPT ![t] = NewHistory(Existing, t)] /\ pc[t] = "reading"
  BY DEF ReadFile, Truncate, Write, WriteFails, Done, Move
<1>5. ASSUME Readable, pc[t] = "reading"
      PROVE  Whole(NewHistory(Existing, t), dropped)
  <2> DEFINE old == OfOthers(Existing, session[t])
  <2>1. /\ Existing \in Seq(Message) /\ shown[t] \in Seq(Message)
        /\ old \in Seq(Message) /\ old \o shown[t] \in Seq(Message)
        /\ NewHistory(Existing, t) = Latest(old \o shown[t])
    BY <1>5, NewHistoryIs DEF ExchangeInv
  <2>2. Whole(Existing, dropped)
    BY <1>5, NothingIsWhole DEF Existing, ExchangeInv, WholeHistory
  <2>3. Whole(old, dropped)
    BY <2>1, <2>2, KeptStaysWhole DEF OfOthers
  <2>4. Whole(shown[t], dropped)
    BY <1>5 DEF ExchangeInv, WholeHistory
  <2> HIDE DEF old
  <2>5. QED
    BY <2>1, <2>3, <2>4, BothWhole, LatestStaysWhole
<1>6. \A u \in Tabs : Whole(draft'[u], dropped')
  BY <1>1, <1>4, <1>5, NothingIsWhole DEF ExchangeInv, WholeHistory, TypeInv, TypeOK
<1>7. QED
  BY <1>1, <1>3, <1>6 DEF ExchangeInv, WholeHistory

LEMMA RestartKeepsWhole ==
  ASSUME ExchangeInv, TypeInv', Restart
  PROVE  WholeHistory'
<1>1. /\ pc' = [t \in Tabs |-> "idle"] /\ draft' = [t \in Tabs |-> <<>>]
      /\ shown' = [t \in Tabs |-> OfSession(_load_chat_history, session[t])]
      /\ file' = file /\ dropped \subseteq dropped'
  BY DEF Restart
<1>2. Readable' /\ file' # Absent => Whole(file', dropped')
  BY <1>1, WholeWithMore DEF ExchangeInv, WholeHistory, Readable
<1>3. ASSUME NEW t \in Tabs
      PROVE  Whole(draft'[t], dropped') /\ Whole(shown'[t], dropped')
  BY <1>1, LoadedIsWhole, WholeWithMore, NothingIsWhole
<1>4. QED
  BY <1>2, <1>3, WholeIsWholeButLast DEF WholeHistory

LEMMA ExchangeInvNext == ExchangeInv /\ [Next]_vars => ExchangeInv'
<1> SUFFICES ASSUME ExchangeInv, [Next]_vars
             PROVE  WholeHistory'
  BY TypeInvNext DEF ExchangeInv
<1>1. TypeInv'
  BY TypeInvNext DEF ExchangeInv
<1>2. ASSUME NEW t \in Tabs, NEW s \in Sessions,
             Open(t, s) \/ ChangeSession(t, s) \/ LoadSession(t, s)
      PROVE  WholeHistory'
  <2>1. shown = [shown EXCEPT ![t] = shown[t]]
    BY DEF ExchangeInv, TypeInv, TypeOK
  <2>2. CASE Open(t, s)
    BY <1>1, <2>2, LoadedIsWhole, UseKeepsWhole DEF Open
  <2>3. CASE ChangeSession(t, s)
    BY <1>1, <2>1, <2>3, UseKeepsWhole DEF ChangeSession
  <2>4. QED
    BY <1>2, <2>2, <2>3 DEF LoadSession
<1>3. ASSUME NEW t \in Tabs, ClearChat(t)
      PROVE  WholeHistory'
  BY <1>1, <1>3, NothingIsWhole, UseKeepsWhole DEF ClearChat
<1>4. CASE UNCHANGED vars
  BY <1>4 DEF vars, ExchangeInv, WholeHistory, Readable
<1>5. QED
  BY <1>1, <1>2, <1>3, <1>4, AskKeepsWhole, ReplyKeepsWhole, SavingKeepsWhole,
     RestartKeepsWhole DEF Next

(* Whatever the tabs, saves, failures and restarts do to each other, every *)
(* question in the file is followed by its answer unless it got none.      *)
THEOREM ExchangesAreNeverTorn == Spec => []ExchangesStayWhole
<1>1. Init => ExchangeInv
  BY TypeInvInit, NothingIsWhole, WholeIsWholeButLast
     DEF Init, ExchangeInv, WholeHistory, Readable
<1>2. ExchangeInv => ExchangesStayWhole
  <2> SUFFICES ASSUME ExchangeInv, Readable, file # Absent
               PROVE  Whole(file, dropped) => ExchangesStayWhole
    BY DEF ExchangeInv, WholeHistory, ExchangesStayWhole
  <2>1. DOMAIN file = 1..Len(file)
    BY DEF ExchangeInv, TypeInv, TypeOK, Readable
  <2>2. QED
    BY <2>1 DEF Whole, ExchangesStayWhole
<1>3. QED
  BY <1>1, <1>2, ExchangeInvNext, PTL DEF Spec
-----------------------------------------------------------------------------
(* A history has all that the tab shows and, if nobody has written the file*)
(* since it was read, all that the others have in it -- or it is full.     *)
Full(t) == Len(draft[t]) = MAX_HISTORY_ENTRIES
Drafted(t) == ToSet(draft[t])

DraftsCatchUp ==
  \A t \in Tabs :
    pc[t] \in {"read", "truncated"} =>
      Full(t) \/ \A i \in 1..Len(shown[t]) : shown[t][i] \in Drafted(t)

OthersAreDrafted ==
  \A t \in Tabs :
    pc[t] = "read" /\ t \notin stale =>
      \A m \in History : m.session_id = session[t] \/ m \in Drafted(t) \/ Full(t)

DraftInv == TypeInv /\ DraftsCatchUp /\ OthersAreDrafted

LEMMA NewHistoryHas ==
  ASSUME TypeInv, NEW t \in Tabs, Readable
  PROVE  LET u == NewHistory(Existing, t)
         IN  \/ Len(u) = MAX_HISTORY_ENTRIES
             \/ /\ \A i \in 1..Len(shown[t]) : shown[t][i] \in ToSet(u)
                /\ \A m \in History : m.session_id = session[t] \/ m \in ToSet(u)
<1> DEFINE old == OfOthers(Existing, session[t])
           both == old \o shown[t]
           u == NewHistory(Existing, t)
<1>1. /\ Existing \in Seq(Message) /\ shown[t] \in Seq(Message)
      /\ old \in Seq(Message) /\ both \in Seq(Message) /\ u = Latest(both)
  BY NewHistoryIs
<1>2. u = both \/ Len(u) = MAX_HISTORY_ENTRIES
  BY <1>1, LatestIs
<1>3. \A j \in 1..Len(Existing) :
        Existing[j].session_id \in Sessions \ {session[t]} => Existing[j] \in ToSet(old)
  <2>1. Whole(Existing, 1..MaxAsked)
    <3>1. \A i \in 1..Len(Existing) : Existing[i] \in Message
      BY <1>1
    <3>2. \A m \in Message : m.of \in 1..MaxAsked
      BY DEF Message
    <3>3. QED
      BY <3>1, <3>2 DEF Whole
  <2>2. QED
    BY <1>1, <2>1, KeptStaysWhole DEF OfOthers
<1>4. \A m \in History : \E j \in 1..Len(Existing) : m = Existing[j]
  BY <1>1 DEF History, Existing, ToSet
<1>5. \A j \in 1..Len(Existing) : Existing[j].session_id \in Sessions
  <2>1. \A j \in 1..Len(Existing) : Existing[j] \in Message
    BY <1>1
  <2>2. \A m \in Message : m.session_id \in Sessions
    BY DEF Message
  <2>3. QED
    BY <2>1, <2>2
<1> HIDE DEF old, u
<1>6. /\ \A i \in 1..Len(old) : old[i] \in ToSet(both)
      /\ \A i \in 1..Len(shown[t]) : shown[t][i] \in ToSet(both)
  <2>1. /\ Len(both) = Len(old) + Len(shown[t])
        /\ Len(old) \in Nat /\ Len(shown[t]) \in Nat /\ DOMAIN both = 1..Len(both)
        /\ \A i \in 1..Len(old) : both[i] = old[i]
        /\ \A i \in 1..Len(shown[t]) : both[Len(old) + i] = shown[t][i]
    BY <1>1
  <2> HIDE DEF both
  <2>2. \A i \in 1..Len(old) : i \in DOMAIN both
    BY <2>1
  <2>3. \A i \in 1..Len(shown[t]) : Len(old) + i \in DOMAIN both
    BY <2>1
  <2>4. \A k \in DOMAIN both : both[k] \in ToSet(both)
    BY DEF ToSet
  <2>5. \A i \in 1..Len(old) : old[i] \in ToSet(both)
    BY <2>1, <2>2, <2>4
  <2>6. \A i \in 1..Len(shown[t]) : shown[t][i] \in ToSet(both)
    BY <2>1, <2>3, <2>4
  <2>7. QED
    BY <2>5, <2>6
<1>7. ToSet(old) \subseteq ToSet(both)
  BY <1>1, <1>6 DEF ToSet
<1>8. \A m \in History : m.session_id = session[t] \/ m \in ToSet(both)
  BY <1>3, <1>4, <1>5, <1>7
<1>9. QED
  BY <1>2, <1>6, <1>8 DEF u

(* A tab whose save is not under way any more, or not yet.                 *)
LEMMA OutsideSaves ==
  ASSUME DraftInv, NEW t \in Tabs, NEW to \in {"idle", "asking", "reading"},
         pc' = [pc EXCEPT ![t] = to], UNCHANGED <<file, stale>>,
         \A u \in Tabs \ {t} :
           shown'[u] = shown[u] /\ session'[u] = session[u] /\ draft'[u] = draft[u]
  PROVE  DraftsCatchUp' /\ OthersAreDrafted'
<1>1. /\ pc'[t] \notin {"read", "truncated"}
      /\ \A u \in Tabs \ {t} : pc'[u] = pc[u]
  BY DEF DraftInv, TypeInv, TypeOK
<1>2. History' = History
  BY DEF History, Readable
<1>3. QED
  BY <1>1, <1>2 DEF DraftInv, DraftsCatchUp, OthersAreDrafted, Full, Drafted

(* Whoever touches the file makes the histories of the others stale.       *)
LEMMA TouchingTheFile ==
  ASSUME DraftInv, NEW t \in Tabs, NEW to \in {"idle", "truncated"},
         pc' = [pc EXCEPT ![t] = to], to = "truncated" => pc[t] = "read" /\ draft' = draft,
         \A u \in Tabs \ {t} : draft'[u] = draft[u],
         stale' = stale \cup Others(t), Keep
  PROVE  DraftsCatchUp' /\ OthersAreDrafted'
<1>1. /\ pc'[t] = to /\ \A u \in Tabs \ {t} : pc'[u] = pc[u]
      /\ UNCHANGED <<shown, session>>
  BY DEF DraftInv, TypeInv, TypeOK, Keep
<1>2. DraftsCatchUp'
  BY <1>1 DEF DraftInv, DraftsCatchUp, Full, Drafted
<1>3. OthersAreDrafted'
  BY <1>1 DEF OthersAreDrafted, Others
<1>4. QED
  BY <1>2, <1>3

LEMMA ReadKeepsDrafts ==
  ASSUME DraftInv, NEW t \in Tabs, ReadFile(t)
  PROVE  DraftsCatchUp' /\ OthersAreDrafted'
<1>1. UNCHANGED <<file, shown, session>> /\ pc[t] = "reading"
  BY DEF ReadFile, Keep, Move
<1>2. CASE ~Readable
  <2>1. pc' = [pc EXCEPT ![t] = "idle"] /\ UNCHANGED <<draft, stale>>
    BY <1>2 DEF ReadFile, Move
  <2>2. QED
    BY <1>1, <2>1, OutsideSaves
<1>3. CASE Readable
  <2>1. /\ pc' = [pc EXCEPT ![t] = "read"] /\ stale' = stale \ {t}
        /\ draft' = [draft EXCEPT ![t] = NewHistory(Existing, t)]
    BY <1>3 DEF ReadFile, Move
  <2>2. /\ draft'[t] = NewHistory(Existing, t)
        /\ \A u \in Tabs \ {t} : pc'[u] = pc[u] /\ draft'[u] = draft[u]
                                  /\ (u \in stale <=> u \in stale')
    BY <2>1 DEF DraftInv, TypeInv, TypeOK
  <2>3. History' = History
    BY <1>1 DEF History, Readable
  <2>4. \/ Full(t)'
        \/ /\ \A i \in 1..Len(shown[t]) : shown[t][i] \in Drafted(t)'
           /\ \A m \in History : m.session_id = session[t] \/ m \in Drafted(t)'
    BY <1>3, <2>2, NewHistoryHas DEF DraftInv, Full, Drafted
  <2>5. DraftsCatchUp'
    BY <1>1, <2>2, <2>4 DEF DraftInv, DraftsCatchUp, Full, Drafted
  <2>6. OthersAreDrafted'
    BY <1>1, <2>2, <2>3, <2>4 DEF DraftInv, OthersAreDrafted, Full, Drafted
  <2>7. QED
    BY <2>5, <2>6
<1>4. QED
  BY <1>2, <1>3

LEMMA DraftInvNext == DraftInv /\ [Next]_vars => DraftInv'
<1> SUFFICES ASSUME DraftInv, [Next]_vars
             PROVE  DraftsCatchUp' /\ OthersAreDrafted'
  BY TypeInvNext DEF DraftInv
<1>1. ASSUME NEW t \in Tabs, Use(t),
             \A u \in Tabs \ {t} : shown'[u] = shown[u] /\ session'[u] = session[u]
      PROVE  DraftsCatchUp' /\ OthersAreDrafted'
  BY <1>1, OutsideSaves DEF Use, Interact, Unsaved
<1>2. ASSUME NEW t \in Tabs, NEW s \in Sessions,
             \/ Open(t, s) \/ ChangeSession(t, s) \/ LoadSession(t, s)
             \/ ClearChat(t)
      PROVE  /\ Use(t)
             /\ \A u \in Tabs \ {t} : shown'[u] = shown[u] /\ session'[u] = session[u]
  BY <1>2 DEF Open, ChangeSession, LoadSession, ClearChat, DraftInv, TypeInv, TypeOK
<1>3. ASSUME NEW t \in Tabs, ClearChat(t)
      PROVE  DraftsCatchUp' /\ OthersAreDrafted'
  <2>1. session[t] \in Sessions
    BY DEF DraftInv, TypeInv, TypeOK
  <2>2. QED
    BY <1>1, <1>2, <1>3, <2>1
<1>4. ASSUME NEW t \in Tabs, Ask(t) \/ Reply(t)
      PROVE  DraftsCatchUp' /\ OthersAreDrafted'
  <2>1. UNCHANGED <<file, stale, draft, session>>
    BY <1>4 DEF Ask, Reply, Unsaved
  <2>2. \A u \in Tabs \ {t} : shown'[u] = shown[u]
    BY <1>4 DEF Ask, Reply, DraftInv, TypeInv, TypeOK
  <2>3. pc' = [pc EXCEPT ![t] = "asking"] \/ pc' = [pc EXCEPT ![t] = "reading"]
    BY <1>4 DEF Ask, Reply
  <2>4. QED
    BY <2>1, <2>2, <2>3, OutsideSaves
<1>5. ASSUME NEW t \in Tabs, Truncate(t) \/ Write(t) \/ WriteFails(t)
      PROVE  DraftsCatchUp' /\ OthersAreDrafted'
  <2>1. \A u \in Tabs \ {t} : draft'[u] = draft[u]
    BY <1>5 DEF Truncate, Write, WriteFails, Done, DraftInv, TypeInv, TypeOK
  <2>2. QED
    BY <1>5, <2>1, TouchingTheFile DEF Truncate, Write, WriteFails, Done, Move
<1>6. CASE Restart
  BY <1>6 DEF Restart, DraftsCatchUp, OthersAreDrafted
<1>7. CASE UNCHANGED vars
  BY <1>7 DEF vars, DraftInv, DraftsCatchUp, OthersAreDrafted, Full, Drafted,
              History, Readable
<1>8. QED
  BY <1>1, <1>2, <1>3, <1>4, <1>5, <1>6, <1>7, ReadKeepsDrafts DEF Next

LEMMA DraftInvInit == Init => DraftInv
BY TypeInvInit DEF Init, DraftInv, DraftsCatchUp, OthersAreDrafted

(* A save that ends without a failure and leaves a file that can be read   *)
(* has written all that its tab shows, up to the limit, whatever was given *)
(* up before.                                                              *)
THEOREM FinishedSavesCatchUp == Spec => SavesCatchUp
<1>1. DraftInv /\ [Next]_vars =>
        [\A t \in Tabs :
           pc[t] = "truncated" /\ pc'[t] = "idle" /\ file' \notin {Absent, Empty, Torn}
             => \/ \A i \in DOMAIN shown[t] : shown[t][i] \in History'
                \/ Len(file') = MAX_HISTORY_ENTRIES
                \/ faults' # faults]_vars
  <2> SUFFICES ASSUME DraftInv, [Next]_vars, NEW t \in Tabs,
                      pc[t] = "truncated", pc'[t] = "idle",
                      file' \notin {Absent, Empty, Torn}, faults' = faults
               PROVE  \/ \A i \in DOMAIN shown[t] : shown[t][i] \in History'
                      \/ Len(file') = MAX_HISTORY_ENTRIES
    OBVIOUS
  <2>1. Write(t)
    <3>1. ~WriteFails(t) /\ ~Restart /\ ~UNCHANGED vars
      <4>1. faults \in Nat
        BY HistoryAssumption DEF DraftInv, TypeInv, TypeOK
      <4>2. faults' # faults + 1
        BY <4>1
      <4>3. pc' # pc
        OBVIOUS
      <4>4. QED
        BY <4>2, <4>3 DEF WriteFails, Restart, vars
    <3>2. ASSUME NEW u \in Tabs, u # t, NEW to, pc' = [pc EXCEPT ![u] = to]
          PROVE  FALSE
      BY <3>2 DEF DraftInv, TypeInv, TypeOK
    <3>3. ASSUME NEW u \in Tabs, NEW s \in Sessions,
                 \/ Ask(u) \/ Reply(u) \/ ClearChat(u) \/ Open(u, s)
                 \/ ChangeSession(u, s) \/ LoadSession(u, s) \/ ReadFile(u) \/ Truncate(u)
          PROVE  FALSE
      <4>1. pc[u] # "truncated"
        BY <3>3 DEF Ask, Reply, ClearChat, Open, ChangeSession, LoadSession,
                    ReadFile, Truncate, Use, Interact, Move
      <4>2. \E to : pc' = [pc EXCEPT ![u] = to]
        BY <3>3 DEF Ask, Reply, ClearChat, Open, ChangeSession, LoadSession,
                    ReadFile, Truncate, Use, Interact, Move
      <4>3. QED
        BY <3>2, <4>1, <4>2
    <3>4. ASSUME NEW u \in Tabs, u # t, Write(u) \/ WriteFails(u)
          PROVE  FALSE
      BY <3>2, <3>4 DEF Write, WriteFails, Done, Move
    <3>5. session[t] \in Sessions
      BY DEF DraftInv, TypeInv, TypeOK
    <3>6. QED
      BY <3>1, <3>3, <3>4, <3>5 DEF Next
  <2>2. file' = draft[t]
    BY <2>1 DEF Write
  <2>3. History' = Drafted(t)
    BY <2>2 DEF History, Readable, Drafted
  <2>4. DOMAIN shown[t] = 1..Len(shown[t])
    BY DEF DraftInv, TypeInv, TypeOK
  <2>5. QED
    BY <2>2, <2>3, <2>4 DEF DraftInv, DraftsCatchUp, Full
<1>2. QED
  BY <1>1, DraftInvInit, DraftInvNext, PTL DEF Spec, SavesCatchUp

(* A save drops messages of other sessions only if somebody has written    *)
(* the file between its read and its write, or if the limit is reached.    *)
THEOREM OthersSurviveSaves == Spec => OthersSurvive
<1>1. DraftInv /\ [Next]_vars =>
        [\A t \in Tabs :
           pc[t] = "read" /\ pc'[t] = "truncated" /\ t \notin stale
             => \A m \in History :
                  \/ m.session_id = session[t]
                  \/ m \in ToSet(draft[t])
                  \/ Len(draft[t]) = MAX_HISTORY_ENTRIES]_vars
  BY DEF DraftInv, OthersAreDrafted, Full, Drafted
<1>2. QED
  BY <1>1, DraftInvInit, DraftInvNext, PTL DEF Spec, OthersSurvive
=============================================================================
