-------------------------- MODULE AuditTrailProofs --------------------------
(***************************************************************************)
(* For every size of the buffer and every run of full disks, closed paths  *)
(* and restarts: a trail that is open and has not overflowed is complete,  *)
(* and no trail repeats an event or puts it out of its order; the log of   *)
(* tool calls loses at most two lines for each failed write, and until one *)
(* fails the endpoint answers with the latest calls.                       *)
(***************************************************************************)
EXTENDS AuditTrail, TLAPS, FiniteSetTheorems

Lines == Nat \cup {Garbled}

(* What the argument needs of the types; a buffer belongs to an open trail.*)
TrailTypes ==
  /\ trail \in [lines : Seq(Lines), cut : BOOLEAN]
  /\ pending \in Seq(Nat)
  /\ events \in Nat /\ since \in Nat /\ since <= events
  /\ handle \in {"none", "file", "devnull"}
  /\ handle # "file" => pending = <<>>

(* As long as the trail ends in what a former process left unfinished, this*)
(* one has written nothing: all of its events are in the buffer, in order. *)
AllPending ==
  handle = "file" /\ ~full /\ trail.cut =>
    /\ Len(pending) = events - since
    /\ \A i \in 1..Len(pending) : pending[i] = since + i

TrailInv == TrailTypes /\ AllPending /\ TrailComplete

LEMMA ElementOf ==
  ASSUME NEW S, NEW s \in Seq(S), NEW i \in 1..Len(s)
  PROVE  s[i] \in ToSet(s)
BY DEF ToSet

LEMMA ElementsOfBoth ==
  ASSUME NEW S, NEW s \in Seq(S), NEW t \in Seq(S)
  PROVE  /\ \A e \in ToSet(s) : e \in ToSet(s \o t)
         /\ \A i \in 1..Len(t) : t[i] \in ToSet(s \o t)
<1>1. s \o t \in Seq(S) /\ Len(s \o t) = Len(s) + Len(t)
  OBVIOUS
<1>2. ASSUME NEW i \in 1..Len(s)
      PROVE  s[i] \in ToSet(s \o t)
  <2>1. i \in 1..Len(s \o t) /\ (s \o t)[i] = s[i]
    BY <1>1
  <2>2. QED
    BY <1>1, <2>1, ElementOf
<1>3. ASSUME NEW i \in 1..Len(t)
      PROVE  t[i] \in ToSet(s \o t)
  <2>1. Len(s) + i \in 1..Len(s \o t) /\ (s \o t)[Len(s) + i] = t[i]
    BY <1>1
  <2>2. QED
    BY <1>1, <2>1, ElementOf
<1>4. \A e \in ToSet(s) : \E i \in 1..Len(s) : e = s[i]
  BY DEF ToSet
<1>5. QED
  BY <1>2, <1>3, <1>4

(* Appending keeps what is in the file and adds what is new, but for the   *)
(* line that completes a piece.                                            *)
LEMMA ExtendAdds ==
  ASSUME NEW f \in [lines : Seq(Lines), cut : BOOLEAN], NEW new \in Seq(Nat)
  PROVE  /\ Extend(f, new) \in [lines : Seq(Lines), cut : BOOLEAN]
         /\ \A e \in ToSet(f.lines) : e \in ToSet(Extend(f, new).lines)
         /\ \A i \in 1..Len(new) :
              \/ new[i] \in ToSet(Extend(f, new).lines)
              \/ i = 1 /\ f.cut /\ Garbled \in ToSet(Extend(f, new).lines)
         /\ Extend(f, new).cut => f.cut /\ new = <<>>
<1>1. CASE new = <<>>
  BY <1>1 DEF Extend
<1>2. CASE new # <<>> /\ ~f.cut
  <2>1. /\ Extend(f, new).lines = f.lines \o new /\ Extend(f, new).cut = FALSE
        /\ Extend(f, new) \in [lines : Seq(Lines), cut : BOOLEAN]
    <3>1. f.lines \o new \in Seq(Lines)
      BY DEF Lines
    <3>2. QED
      BY <1>2, <3>1 DEF Extend
  <2>2. f.lines \in Seq(Lines) /\ new \in Seq(Lines)
    BY DEF Lines
  <2>3. QED
    BY <1>2, <2>1, <2>2, ElementsOfBoth
<1>3. CASE new # <<>> /\ f.cut
  <2> DEFINE joined == <<Garbled>> \o Tail(new)
  <2>1. joined \in Seq(Lines) /\ Len(joined) = Len(new) /\ joined[1] = Garbled
        /\ \A i \in 2..Len(new) : joined[i] = new[i]
    BY <1>3 DEF Lines
  <2>2. /\ Extend(f, new).lines = f.lines \o joined /\ Extend(f, new).cut = FALSE
        /\ Extend(f, new) \in [lines : Seq(Lines), cut : BOOLEAN]
    BY <1>3, <2>1 DEF Extend
  <2> HIDE DEF joined
  <2>3. /\ \A e \in ToSet(f.lines) : e \in ToSet(f.lines \o joined)
        /\ \A i \in 1..Len(joined) : joined[i] \in ToSet(f.lines \o joined)
    BY <2>1, ElementsOfBoth
  <2>4. Len(new) \in Nat \ {0}
    BY <1>3
  <2>5. ASSUME NEW i \in 1..Len(new)
        PROVE  \/ new[i] \in ToSet(f.lines \o joined)
               \/ i = 1 /\ Garbled \in ToSet(f.lines \o joined)
    <3>1. CASE i = 1
      BY <2>1, <2>3, <2>4, <3>1
    <3>2. CASE i # 1
      BY <2>1, <2>3, <3>2
    <3>3. QED
      BY <3>1, <3>2
  <2>6. QED
    BY <1>3, <2>2, <2>3, <2>5
<1>4. QED
  BY <1>1, <1>2, <1>3

(* A flush that fails in the middle leaves the rest in the buffer.         *)
LEMMA FlushFailsSplits ==
  ASSUME TrailTypes, NEW lines \in Seq(Nat), lines # <<>>, FlushFails(lines)
  PROVE  /\ trail' \in [lines : Seq(Lines), cut : BOOLEAN] /\ pending' \in Seq(Nat)
         /\ \A e \in ToSet(trail.lines) : e \in ToSet(trail'.lines)
         /\ \A i \in 1..Len(lines) :
              \/ lines[i] \in ToSet(trail'.lines) \cup ToSet(pending')
              \/ i = 1 /\ trail.cut /\ Garbled \in ToSet(trail'.lines)
         /\ trail'.cut => trail.cut /\ pending' = lines
<1>1. PICK n \in 0..(Len(lines) - 1) :
        /\ trail' = Extend(trail, SubSeq(lines, 1, n))
        /\ pending' = SubSeq(lines, n + 1, Len(lines))
  BY DEF FlushFails
<1> DEFINE new == SubSeq(lines, 1, n)
<1>2. new \in Seq(Nat) /\ Len(new) = n /\ \A i \in 1..n : new[i] = lines[i]
  OBVIOUS
<1>3. /\ pending' \in Seq(Nat) /\ Len(pending') = Len(lines) - n
      /\ \A i \in 1..(Len(lines) - n) : pending'[i] = lines[n + i]
  BY <1>1
<1>4. trail' = Extend(trail, new)
  BY <1>1
<1> HIDE DEF new
<1>5. /\ trail' \in [lines : Seq(Lines), cut : BOOLEAN]
      /\ \A e \in ToSet(trail.lines) : e \in ToSet(trail'.lines)
      /\ \A i \in 1..n :
           \/ new[i] \in ToSet(trail'.lines)
           \/ i = 1 /\ trail.cut /\ Garbled \in ToSet(trail'.lines)
      /\ trail'.cut => trail.cut /\ new = <<>>
  BY <1>2, <1>4, ExtendAdds DEF TrailTypes
<1>6. ASSUME NEW i \in 1..Len(lines), i > n
      PROVE  lines[i] \in ToSet(pending')
  <2>1. i - n \in 1..(Len(lines) - n) /\ n + (i - n) = i
    BY <1>6
  <2>2. pending'[i - n] = lines[i]
    BY <1>3, <2>1
  <2>3. QED
    BY <1>3, <2>1, <2>2 DEF ToSet
<1>7. ASSUME new = <<>>
      PROVE  pending' = lines
  <2>1. n = 0
    BY <1>2, <1>7
  <2>2. QED
    BY <1>1, <2>1
<1>8. \A i \in 1..Len(lines) : i <= n => i \in 1..n /\ lines[i] = new[i]
  BY <1>2
<1>9. ASSUME NEW i \in 1..Len(lines)
      PROVE  \/ lines[i] \in ToSet(trail'.lines) \cup ToSet(pending')
             \/ i = 1 /\ trail.cut /\ Garbled \in ToSet(trail'.lines)
  <2>1. CASE i <= n
    BY <1>5, <1>8, <2>1
  <2>2. CASE i > n
    BY <1>6, <2>2
  <2>3. QED
    BY <2>1, <2>2
<1>10. QED
  BY <1>3, <1>5, <1>7, <1>9

LEMMA TrailInvInit == Init => TrailInv
BY DEF Init, TrailInv, TrailTypes, AllPending, TrailComplete, NewFile, Lines

LEMMA LogKeepsInv ==
  ASSUME TrailInv, log
  PROVE  TrailInv'
<1> DEFINE lines == Append(pending, events')
<1>1. /\ events' = events + 1 /\ events \in Nat
      /\ handle' = IF handle # "none" THEN handle
                   ELSE IF openable THEN "file" ELSE "devnull"
      /\ since' = IF handle = "none" THEN events ELSE since
      /\ since' \in Nat /\ since' <= events'
      /\ handle' \in {"none", "file", "devnull"}
  BY DEF log, _ensure_file, TrailInv, TrailTypes
<1>2. CASE handle' = "devnull"
  <2>1. trail' = trail /\ pending' = pending
    BY <1>2 DEF log
  <2>2. QED
    BY <1>1, <1>2, <2>1 DEF TrailInv, TrailTypes, AllPending, TrailComplete
<1>3. CASE handle' = "file"
  <2>1. /\ Write(lines)
        /\ full' = ((handle # "none" /\ full) \/ Overflows(lines))
    BY <1>3 DEF log
  <2>2. /\ lines \in Seq(Nat) /\ Len(lines) = Len(pending) + 1 /\ lines # <<>>
        /\ \A i \in 1..Len(pending) : lines[i] = pending[i]
        /\ lines[Len(lines)] = events' /\ Len(pending) \in Nat
        /\ Len(lines) \in 1..Len(lines)
    <3>1. pending \in Seq(Nat) /\ events' \in Nat
      BY <1>1 DEF TrailInv, TrailTypes
    <3>2. QED
      BY <3>1
  <2> HIDE DEF lines
  <2>3. CASE ~Overflows(lines)
    <3>1. /\ trail' \in [lines : Seq(Lines), cut : BOOLEAN] /\ pending' \in Seq(Nat)
          /\ \A e \in ToSet(trail.lines) : e \in ToSet(trail'.lines)
          /\ \A i \in 1..Len(lines) :
               \/ lines[i] \in ToSet(trail'.lines) \cup ToSet(pending')
               \/ i = 1 /\ trail.cut /\ Garbled \in ToSet(trail'.lines)
          /\ trail'.cut => trail.cut /\ pending' = lines
      <4>1. CASE room /\ Flush(lines)
        <5>1. trail \in [lines : Seq(Lines), cut : BOOLEAN]
          BY DEF TrailInv, TrailTypes
        <5>2. trail' = Extend(trail, lines) /\ pending' = <<>> /\ pending' \in Seq(Nat)
          BY <4>1 DEF Flush
        <5>3. QED
          BY <2>2, <5>1, <5>2, ExtendAdds
      <4>2. CASE ~room /\ FlushFails(lines)
        BY <2>2, <4>2, FlushFailsSplits DEF TrailInv
      <4>3. QED
        BY <2>1, <2>3, <4>1, <4>2 DEF Write
    <3>2. full' => handle # "none" /\ full
      BY <2>1, <2>3
    <3>3. handle = "none" => pending = <<>>
      BY DEF TrailInv, TrailTypes
    <3>4. handle = "none" \/ handle = "file"
      BY <1>1, <1>3 DEF TrailInv, TrailTypes
    <3>5. TrailTypes'
      <4>1. events' \in Nat
        BY <1>1
      <4>2. QED
        BY <1>1, <1>3, <3>1, <4>1 DEF TrailTypes
    <3>6. ASSUME ~full', trail.cut
          PROVE  /\ Len(lines) = events' - since'
                 /\ \A i \in 1..Len(lines) : lines[i] = since' + i
      <4>1. CASE handle = "none"
        BY <1>1, <2>2, <3>3, <4>1
      <4>2. CASE handle = "file"
        <5>1. since' = since /\ ~full
          BY <1>1, <2>1, <3>6, <4>2
        <5>2. /\ Len(pending) = events - since /\ since \in Nat
              /\ \A i \in 1..Len(pending) : pending[i] = since + i
          BY <3>6, <4>2, <5>1 DEF TrailInv, AllPending, TrailTypes
        <5>3. QED
          BY <1>1, <2>2, <5>1, <5>2
      <4>3. QED
        BY <3>4, <4>1, <4>2
    <3>7. AllPending'
      BY <3>1, <3>6 DEF AllPending
    <3>8. ASSUME ~full', NEW e \in since' + 1 .. events'
          PROVE  \/ e \in ToSet(trail'.lines) \/ e \in ToSet(pending')
                 \/ e = since' + 1 /\ Garbled \in ToSet(trail'.lines)
      <4>1. CASE \E i \in 1..Len(lines) : e = lines[i]
        <5>1. PICK i \in 1..Len(lines) : e = lines[i]
          BY <4>1
        <5>2. CASE i = 1 /\ trail.cut /\ Garbled \in ToSet(trail'.lines)
          BY <3>6, <3>8, <5>1, <5>2
        <5>3. QED
          BY <3>1, <5>1, <5>2
      <4>2. CASE ~\E i \in 1..Len(lines) : e = lines[i]
        <5>1. e # events' /\ e \in since' + 1 .. events
          <6>1. e # events'
            BY <2>2, <4>2
          <6>2. QED
            BY <1>1, <6>1
        <5>2. handle = "file" /\ since' = since /\ ~full
          <6>1. handle # "none"
            BY <1>1, <5>1
          <6>2. ~full
            BY <2>1, <3>8, <6>1, Zenon
          <6>3. QED
            BY <1>1, <3>4, <6>1, <6>2
        <5>3. e \notin ToSet(pending)
          <6>1. \A i \in 1..Len(pending) : i \in 1..Len(lines) /\ e # pending[i]
            BY <2>2, <4>2
          <6>2. pending \in Seq(Nat)
            BY DEF TrailInv, TrailTypes
          <6>3. QED
            BY <6>1, <6>2 DEF ToSet
        <5>4. \/ e \in ToSet(trail.lines)
              \/ e = since + 1 /\ Garbled \in ToSet(trail.lines)
          BY <5>1, <5>2, <5>3 DEF TrailInv, TrailComplete, OnDisk
        <5>5. QED
          BY <3>1, <5>2, <5>4
      <4>3. QED
        BY <4>1, <4>2
    <3>9. TrailComplete'
      BY <3>8 DEF TrailComplete, OnDisk
    <3>10. QED
      BY <3>5, <3>7, <3>9 DEF TrailInv
  <2>4. CASE Overflows(lines)
    <3>1. FlushFails(pending)
      BY <2>1, <2>4 DEF Write, Overflows
    <3>2. pending # <<>>
      BY <2>2, <2>4, AuditAssumption DEF Overflows
    <3>3. /\ trail' \in [lines : Seq(Lines), cut : BOOLEAN] /\ pending' \in Seq(Nat)
      BY <3>1, <3>2, FlushFailsSplits DEF TrailInv, TrailTypes
    <3>4. full'
      BY <2>1, <2>4
    <3>5. QED
      BY <1>1, <1>3, <3>3, <3>4 DEF TrailInv, TrailTypes, AllPending, TrailComplete
  <2>5. QED
    BY <2>3, <2>4
<1>4. QED
  BY <1>2, <1>3 DEF log

LEMMA RestartKeepsInv ==
  ASSUME TrailInv, Restart
  PROVE  TrailInv'
<1>1. /\ handle' = "none" /\ pending' = <<>>
      /\ events' = events /\ since' = since
  BY DEF Restart
<1>2. trail' \in [lines : Seq(Lines), cut : BOOLEAN]
  <2>1. CASE trail' = Extend(trail, pending)
    BY <2>1, ExtendAdds DEF TrailInv, TrailTypes
  <2>2. CASE trail' = [trail EXCEPT !.cut = @ \/ begun]
    BY <2>2 DEF TrailInv, TrailTypes
  <2>3. QED
    BY <2>1, <2>2 DEF Restart
<1>3. QED
  BY <1>1, <1>2 DEF TrailInv, TrailTypes, AllPending, TrailComplete

LEMMA TrailInvNext == TrailInv /\ [Next]_vars => TrailInv'
<1> SUFFICES ASSUME TrailInv, [Next]_vars
             PROVE  TrailInv'
  OBVIOUS
<1>1. CASE log_auth \/ log_query
  BY <1>1, LogKeepsInv DEF log_auth, log_query
<1>2. CASE Restart
  BY <1>2, RestartKeepsInv
<1>3. CASE audit_log \/ get_audit_log \/ WorldChanges \/ UNCHANGED vars
  <2>1. UNCHANGED trailVars
    BY <1>3 DEF audit_log, get_audit_log, WorldChanges, vars
  <2>2. QED
    BY <2>1 DEF trailVars, TrailInv, TrailTypes, AllPending, TrailComplete, OnDisk
<1>4. QED
  BY <1>1, <1>2, <1>3 DEF Next

(* A trail that is open and has not overflowed has every event since it was*)
(* opened, on the disk or in its buffer, whatever the disk did meanwhile.  *)
THEOREM OpenTrailIsComplete == Spec => []TrailComplete
<1>1. TrailInv => TrailComplete
  BY DEF TrailInv
<1>2. QED
  BY <1>1, TrailInvInit, TrailInvNext, PTL DEF Spec
-----------------------------------------------------------------------------
(* The order of the trail, with what is still in the buffer after it.      *)
Rising(s, top) ==
  /\ \A i \in 1..Len(s) : s[i] # Garbled => s[i] <= top
  /\ \A i, j \in 1..Len(s) :
       i < j /\ s[i] # Garbled /\ s[j] # Garbled => s[i] < s[j]

Whole == trail.lines \o pending

OrderInv == TrailInv /\ Rising(Whole, events)

(* Lines may become unreadable or be lost at the end.                      *)
Spoils(u, s) ==
  /\ u \in Seq(Lines) /\ s \in Seq(Lines) /\ Len(u) <= Len(s)
  /\ \A i \in 1..Len(u) : u[i] = s[i] \/ u[i] = Garbled

LEMMA SpoiltRises ==
  ASSUME NEW u, NEW s, NEW top \in Nat, Spoils(u, s), Rising(s, top)
  PROVE  Rising(u, top)
<1>1. 1..Len(u) \subseteq 1..Len(s)
  BY DEF Spoils
<1>2. QED
  BY <1>1 DEF Spoils, Rising

(* The concatenation of two sequences, index by index.                     *)
Concatenates(u, s, t) ==
  /\ u \in Seq(Lines) /\ Len(u) = Len(s) + Len(t)
  /\ Len(s) \in Nat /\ Len(t) \in Nat
  /\ \A i \in 1..Len(u) : u[i] = IF i <= Len(s) THEN s[i] ELSE t[i - Len(s)]

LEMMA Concatenated ==
  ASSUME NEW s \in Seq(Lines), NEW t \in Seq(Lines)
  PROVE  Concatenates(s \o t, s, t)
BY DEF Concatenates

LEMMA ExtendSpoils ==
  ASSUME NEW f \in [lines : Seq(Lines), cut : BOOLEAN], NEW new \in Seq(Nat)
  PROVE  /\ Spoils(Extend(f, new).lines, f.lines \o new)
         /\ Len(Extend(f, new).lines) = Len(f.lines) + Len(new)
<1>1. new \in Seq(Lines) /\ f.lines \in Seq(Lines)
  BY DEF Lines
<1>2. CASE new = <<>>
  <2>1. Extend(f, new).lines = f.lines /\ f.lines \o new = f.lines /\ Len(new) = 0
    BY <1>1, <1>2 DEF Extend
  <2>2. QED
    BY <1>1, <2>1 DEF Spoils
<1>3. CASE new # <<>> /\ ~f.cut
  <2>1. Extend(f, new).lines = f.lines \o new
    BY <1>3 DEF Extend
  <2>2. QED
    BY <1>1, <2>1, Concatenated DEF Spoils
<1>4. CASE new # <<>> /\ f.cut
  <2> DEFINE joined == <<Garbled>> \o Tail(new)
  <2>1. /\ joined \in Seq(Lines) /\ Len(joined) = Len(new)
        /\ \A i \in 1..Len(new) : joined[i] = new[i] \/ joined[i] = Garbled
    BY <1>4 DEF Lines
  <2>2. Extend(f, new).lines = f.lines \o joined
    BY <1>4 DEF Extend
  <2>3. Concatenates(f.lines \o joined, f.lines, joined)
    BY <1>1, <2>1, Concatenated
  <2>4. Concatenates(f.lines \o new, f.lines, new)
    BY <1>1, Concatenated
  <2> HIDE DEF joined
  <2>5. ASSUME NEW i \in 1..Len(f.lines \o joined)
        PROVE  \/ (f.lines \o joined)[i] = (f.lines \o new)[i]
               \/ (f.lines \o joined)[i] = Garbled
    <3>1. CASE i <= Len(f.lines)
      BY <2>1, <2>3, <2>4, <3>1 DEF Concatenates
    <3>2. CASE ~(i <= Len(f.lines))
      <4>1. i - Len(f.lines) \in 1..Len(new)
        BY <2>1, <2>3, <3>2 DEF Concatenates
      <4>2. QED
        BY <2>1, <2>3, <2>4, <3>2, <4>1 DEF Concatenates
    <3>3. QED
      BY <3>1, <3>2
  <2>6. QED
    BY <2>1, <2>2, <2>3, <2>4, <2>5 DEF Spoils, Concatenates
<1>5. QED
  BY <1>2, <1>3, <1>4

(* A failed flush writes a beginning and keeps the rest.                   *)
LEMMA FlushFailsSpoils ==
  ASSUME TrailTypes, NEW lines \in Seq(Nat), lines # <<>>, FlushFails(lines)
  PROVE  Spoils(Whole', trail.lines \o lines)
<1>1. PICK n \in 0..(Len(lines) - 1) :
        /\ trail' = Extend(trail, SubSeq(lines, 1, n))
        /\ pending' = SubSeq(lines, n + 1, Len(lines))
  BY DEF FlushFails
<1> DEFINE new == SubSeq(lines, 1, n)
           f == trail.lines
           g == trail'.lines
<1>2. /\ new \in Seq(Nat) /\ new \in Seq(Lines) /\ lines \in Seq(Lines)
      /\ Len(new) = n /\ \A i \in 1..n : new[i] = lines[i]
  BY DEF Lines
<1>3. /\ pending' \in Seq(Nat) /\ pending' \in Seq(Lines) /\ Len(pending') = Len(lines) - n
      /\ \A i \in 1..(Len(lines) - n) : pending'[i] = lines[n + i]
  BY <1>1 DEF Lines
<1>4. trail' = Extend(trail, new) /\ f \in Seq(Lines)
  BY <1>1 DEF TrailTypes
<1> HIDE DEF new
<1>5. Spoils(g, f \o new) /\ Len(g) = Len(f) + n /\ g \in Seq(Lines)
  BY <1>2, <1>4, ExtendSpoils DEF TrailTypes, Spoils
<1> HIDE DEF f, g
<1>6. /\ Concatenates(g \o pending', g, pending')
      /\ Concatenates(f \o lines, f, lines)
      /\ Concatenates(f \o new, f, new)
  BY <1>2, <1>3, <1>4, <1>5, Concatenated
<1>7. ASSUME NEW i \in 1..Len(g \o pending')
      PROVE  (g \o pending')[i] = (f \o lines)[i] \/ (g \o pending')[i] = Garbled
  <2>1. CASE i <= Len(g)
    <3>1. (g \o pending')[i] = g[i] /\ i \in 1..Len(g)
      BY <1>6, <2>1 DEF Concatenates
    <3>2. g[i] = (f \o new)[i] \/ g[i] = Garbled
      BY <1>5, <3>1 DEF Spoils
    <3>3. (f \o new)[i] = (f \o lines)[i]
      <4>1. i \in 1..Len(f \o new) /\ i \in 1..Len(f \o lines)
        BY <1>2, <1>5, <1>6, <3>1 DEF Concatenates
      <4>2. ~(i <= Len(f)) => i - Len(f) \in 1..n
        BY <1>5, <1>6, <2>1 DEF Concatenates
      <4>3. QED
        BY <1>2, <1>6, <4>1, <4>2 DEF Concatenates
    <3>4. QED
      BY <3>1, <3>2, <3>3
  <2>2. CASE ~(i <= Len(g))
    <3>1. /\ (g \o pending')[i] = pending'[i - Len(g)]
          /\ i - Len(g) \in 1..(Len(lines) - n) /\ n + (i - Len(g)) = i - Len(f)
      <4>1. (g \o pending')[i] = pending'[i - Len(g)]
        BY <1>6, <2>2 DEF Concatenates
      <4>2. /\ Len(g \o pending') = Len(g) + Len(pending')
            /\ Len(g) \in Nat /\ Len(f) \in Nat
        BY <1>6 DEF Concatenates
      <4>3. i \in Nat /\ i <= Len(g) + Len(pending') /\ i > Len(g)
        BY <2>2, <4>2
      <4>4. Len(pending') = Len(lines) - n /\ Len(g) = Len(f) + n /\ n \in Nat
        BY <1>3, <1>5
      <4>5. QED
        BY <4>1, <4>2, <4>3, <4>4
    <3>2. pending'[i - Len(g)] = lines[i - Len(f)]
      BY <1>3, <3>1
    <3>3. (f \o lines)[i] = lines[i - Len(f)]
      BY <1>3, <1>5, <1>6, <2>2 DEF Concatenates
    <3>4. QED
      BY <3>1, <3>2, <3>3
  <2>3. QED
    BY <2>1, <2>2
<1>8. Len(g \o pending') = Len(f \o lines)
  BY <1>3, <1>5, <1>6 DEF Concatenates
<1>9. Spoils(g \o pending', f \o lines)
  BY <1>6, <1>7, <1>8 DEF Spoils, Concatenates
<1>10. QED
  BY <1>9 DEF Whole, f, g

LEMMA RisingLater ==
  ASSUME NEW s \in Seq(Lines), NEW n \in Nat, Rising(s, n)
  PROVE  Rising(s, n + 1)
BY DEF Rising, Lines

(* The file alone, once the buffer is empty.                               *)
LEMMA NothingBehind ==
  ASSUME NEW s \in Seq(Lines)
  PROVE  s \o <<>> = s
OBVIOUS

LEMMA WholeIsTyped ==
  ASSUME TrailTypes
  PROVE  /\ trail.lines \in Seq(Lines) /\ pending \in Seq(Lines)
         /\ Concatenates(Whole, trail.lines, pending) /\ Spoils(trail.lines, Whole)
<1>1. trail.lines \in Seq(Lines) /\ pending \in Seq(Lines)
  BY DEF TrailTypes, Lines
<1>2. Concatenates(Whole, trail.lines, pending)
  BY <1>1, Concatenated DEF Whole
<1>3. QED
  BY <1>1, <1>2 DEF Concatenates, Spoils

(* For lengths of sequences, whose sums the SMT backend leaves as they are.*)
LEMMA OneMore ==
  ASSUME NEW a \in Nat, NEW b \in Nat
  PROVE  a + (b + 1) = (a + b) + 1
OBVIOUS

(* A new line is the latest, and it goes to the end or nowhere.            *)
LEMMA LogKeepsOrder ==
  ASSUME OrderInv, log, TrailTypes'
  PROVE  Rising(Whole, events)'
<1> DEFINE lines == Append(pending, events')
           grown == trail.lines \o lines
<1>1. /\ events' = events + 1 /\ events \in Nat /\ TrailTypes /\ Rising(Whole, events)
      /\ events' \in Nat
  BY DEF log, OrderInv, TrailInv, TrailTypes
<1>2. /\ trail.lines \in Seq(Lines) /\ pending \in Seq(Lines) /\ pending \in Seq(Nat)
      /\ Concatenates(Whole, trail.lines, pending) /\ Whole \in Seq(Lines)
  BY <1>1, WholeIsTyped DEF TrailTypes, Concatenates
<1>3. Rising(Whole, events')
  BY <1>1, <1>2, RisingLater
<1>4. CASE handle' = "devnull"
  <2>1. Whole' = Whole
    BY <1>4 DEF log, Whole
  <2>2. QED
    BY <1>3, <2>1 DEF Rising
<1>5. CASE handle' = "file"
  <2>1. Write(lines)
    BY <1>5 DEF log
  <2>2. /\ lines \in Seq(Nat) /\ lines \in Seq(Lines) /\ lines # <<>>
        /\ Len(lines) = Len(pending) + 1 /\ lines[Len(lines)] = events'
        /\ \A i \in 1..Len(pending) : lines[i] = pending[i]
    BY <1>1, <1>2 DEF Lines
  <2> HIDE DEF lines
  <2>3. Concatenates(grown, trail.lines, lines)
    BY <1>2, <2>2, Concatenated
  <2> HIDE DEF grown
  <2>4. /\ Len(grown) = Len(Whole) + 1 /\ Len(Whole) \in Nat
        /\ grown[Len(grown)] = events'
        /\ \A i \in 1..Len(Whole) : grown[i] = Whole[i]
    <3>1. Len(grown) = Len(Whole) + 1 /\ Len(Whole) \in Nat
      <4>1. Len(grown) = Len(trail.lines) + Len(lines)
        BY <2>3 DEF Concatenates
      <4>2. Len(Whole) = Len(trail.lines) + Len(pending)
        BY <1>2 DEF Concatenates
      <4>3. Len(trail.lines) \in Nat /\ Len(pending) \in Nat
        BY <1>2 DEF Concatenates
      <4>4. Len(lines) = Len(pending) + 1
        BY <2>2
      <4>5. Len(Whole) \in Nat
        BY <4>2, <4>3
      <4>6. Len(grown) = Len(trail.lines) + (Len(pending) + 1)
        BY <4>1, <4>4
      <4>7. Len(trail.lines) + (Len(pending) + 1) = (Len(trail.lines) + Len(pending)) + 1
        BY <4>3, OneMore, Zenon
      <4>8. Len(grown) = Len(Whole) + 1
        BY <4>2, <4>6, <4>7
      <4>9. QED
        BY <4>5, <4>8
    <3>2. grown[Len(grown)] = lines[Len(lines)]
      <4>1. /\ Len(grown) = Len(trail.lines) + Len(lines) /\ Len(trail.lines) \in Nat
            /\ Len(lines) \in Nat \ {0}
        BY <1>2, <2>2, <2>3 DEF Concatenates
      <4>2. /\ Len(grown) \in 1..Len(grown) /\ ~(Len(grown) <= Len(trail.lines))
            /\ Len(grown) - Len(trail.lines) = Len(lines)
        BY <4>1
      <4>3. QED
        BY <2>3, <4>2 DEF Concatenates
    <3>3. ASSUME NEW i \in 1..Len(Whole)
          PROVE  grown[i] = Whole[i]
      <4>1. i \in 1..Len(grown)
        BY <3>1
      <4>2. ~(i <= Len(trail.lines)) => i - Len(trail.lines) \in 1..Len(pending)
        BY <1>2 DEF Concatenates
      <4>3. QED
        BY <1>2, <2>2, <2>3, <4>1, <4>2 DEF Concatenates
    <3>4. QED
      BY <2>2, <3>1, <3>2, <3>3
  <2>5. Rising(grown, events')
    <3>1. \A i \in 1..Len(grown) : i \in 1..Len(Whole) \/ i = Len(grown)
      BY <2>4
    <3>2. \A i \in 1..Len(Whole) : Whole[i] = Garbled \/ Whole[i] \in Nat
      BY <1>2 DEF Lines
    <3>3. \A i \in 1..Len(Whole) : Whole[i] # Garbled => Whole[i] < events'
      BY <1>1, <3>2 DEF Rising
    <3>4. ASSUME NEW i \in 1..Len(grown), grown[i] # Garbled
          PROVE  grown[i] <= events'
      BY <1>1, <2>4, <3>1, <3>2, <3>3, <3>4
    <3>5. ASSUME NEW i \in 1..Len(grown), NEW j \in 1..Len(grown), i < j,
                 grown[i] # Garbled, grown[j] # Garbled
          PROVE  grown[i] < grown[j]
      <4>1. i \in 1..Len(Whole) /\ grown[i] = Whole[i]
        BY <2>4, <3>5
      <4>2. CASE j \in 1..Len(Whole)
        BY <1>1, <2>4, <3>5, <4>1, <4>2 DEF Rising
      <4>3. CASE j = Len(grown)
        BY <2>4, <3>3, <3>5, <4>1, <4>3
      <4>4. QED
        BY <3>1, <4>2, <4>3
    <3>6. QED
      BY <3>4, <3>5 DEF Rising
  <2>6. CASE Flush(lines)
    <3>1. trail' = Extend(trail, lines) /\ pending' = <<>> /\ trail'.lines \in Seq(Lines)
      BY <2>6 DEF Flush, TrailTypes
    <3>2. Whole' = Extend(trail, lines).lines
      BY <3>1, NothingBehind DEF Whole
    <3>3. Spoils(Extend(trail, lines).lines, grown)
      BY <1>1, <2>2, ExtendSpoils DEF TrailTypes, grown
    <3>4. QED
      BY <1>1, <2>5, <3>2, <3>3, SpoiltRises
  <2>7. CASE FlushFails(lines)
    BY <1>1, <2>2, <2>5, <2>7, FlushFailsSpoils, SpoiltRises DEF grown
  <2>8. CASE Overflows(lines) /\ FlushFails(pending)
    <3>1. pending # <<>>
      BY <1>2, <2>2, <2>8, AuditAssumption DEF Overflows
    <3>2. Spoils(Whole', Whole)
      BY <1>1, <1>2, <2>8, <3>1, FlushFailsSpoils DEF Whole
    <3>3. QED
      BY <1>1, <1>3, <3>2, SpoiltRises
  <2>9. QED
    BY <2>1, <2>6, <2>7, <2>8 DEF Write
<1>6. QED
  BY <1>4, <1>5 DEF log

LEMMA RestartKeepsOrder ==
  ASSUME OrderInv, Restart, TrailTypes'
  PROVE  Rising(Whole, events)'
<1>1. /\ events' = events /\ events \in Nat /\ TrailTypes /\ Rising(Whole, events)
  BY DEF Restart, OrderInv, TrailInv, TrailTypes
<1>2. Whole' = trail'.lines
  BY NothingBehind DEF Restart, Whole, TrailTypes
<1>3. CASE trail' = Extend(trail, pending)
  BY <1>1, <1>2, <1>3, ExtendSpoils, SpoiltRises DEF TrailTypes, Whole
<1>4. CASE trail' = [trail EXCEPT !.cut = @ \/ begun]
  <2>1. trail'.lines = trail.lines
    BY <1>1, <1>4 DEF TrailTypes
  <2>2. QED
    BY <1>1, <1>2, <2>1, WholeIsTyped, SpoiltRises
<1>5. QED
  BY <1>3, <1>4 DEF Restart

LEMMA OrderInvInit == Init => OrderInv
<1> SUFFICES ASSUME Init
             PROVE  OrderInv
  OBVIOUS
<1>1. Whole = <<>>
  BY DEF Init, NewFile, Whole
<1>2. QED
  BY <1>1, TrailInvInit DEF OrderInv, Rising

LEMMA OrderInvNext == OrderInv /\ [Next]_vars => OrderInv'
<1> SUFFICES ASSUME OrderInv, [Next]_vars
             PROVE  OrderInv'
  OBVIOUS
<1>1. TrailInv' /\ TrailTypes'
  BY TrailInvNext DEF OrderInv, TrailInv
<1>2. CASE log_auth \/ log_query
  BY <1>1, <1>2, LogKeepsOrder DEF log_auth, log_query, OrderInv
<1>3. CASE Restart
  BY <1>1, <1>3, RestartKeepsOrder DEF OrderInv
<1>4. CASE audit_log \/ get_audit_log \/ WorldChanges \/ UNCHANGED vars
  <2>1. UNCHANGED trailVars
    BY <1>4 DEF audit_log, get_audit_log, WorldChanges, vars
  <2>2. QED
    BY <1>1, <2>1 DEF trailVars, OrderInv, Rising, Whole
<1>5. QED
  BY <1>2, <1>3, <1>4 DEF Next

(* Failed writes, later flushes and restarts neither repeat an event in the*)
(* trail nor put it before an earlier one.                                 *)
THEOREM TrailKeepsOrder == Spec => []TrailInOrder
<1>1. OrderInv => TrailInOrder
  <2> SUFFICES ASSUME OrderInv
               PROVE  TrailInOrder
    OBVIOUS
  <2>1. Rising(trail.lines, events) /\ DOMAIN trail.lines = 1..Len(trail.lines)
    BY WholeIsTyped, SpoiltRises DEF OrderInv, TrailInv, TrailTypes
  <2>2. QED
    BY <2>1 DEF Rising, TrailInOrder
<1>2. QED
  BY <1>1, OrderInvInit, OrderInvNext, PTL DEF Spec
-----------------------------------------------------------------------------
(* The log of the tool calls.  Each failed write pays for its own line and *)
(* for the piece it may leave behind, which the next line is joined to.    *)
ToolTypes ==
  /\ toolLog \in [lines : Seq(Lines), cut : BOOLEAN]
  /\ calls \in Nat /\ torn \in Nat

Missing == 1..calls \ ToSet(toolLog.lines)
Piece == IF toolLog.cut THEN 1 ELSE 0

LossInv == ToolTypes /\ Cardinality(Missing) + Piece <= 2 * torn

LEMMA MissingCounts ==
  ASSUME ToolTypes
  PROVE  IsFiniteSet(Missing) /\ Cardinality(Missing) \in Nat
<1>1. IsFiniteSet(1..calls)
  BY FS_Interval DEF ToolTypes
<1>2. IsFiniteSet(Missing)
  BY <1>1, FS_Subset DEF Missing
<1>3. QED
  BY <1>2, FS_CardinalityType

(* One more call misses at most its own line.                              *)
LEMMA OneMoreMissing ==
  ASSUME ToolTypes, calls' = calls + 1,
         \A e \in ToSet(toolLog.lines) : e \in ToSet(toolLog'.lines)
  PROVE  /\ Cardinality(Missing') \in Nat
         /\ Cardinality(Missing') <= Cardinality(Missing) + 1
         /\ calls' \in ToSet(toolLog'.lines) => Cardinality(Missing') <= Cardinality(Missing)
<1>1. IsFiniteSet(Missing) /\ Cardinality(Missing) \in Nat
  BY MissingCounts
<1>2. /\ IsFiniteSet(Missing \cup {calls'})
      /\ Cardinality(Missing \cup {calls'}) \in Nat
      /\ Cardinality(Missing \cup {calls'}) <= Cardinality(Missing) + 1
  <2>1. /\ IsFiniteSet(Missing \cup {calls'})
        /\ \/ Cardinality(Missing \cup {calls'}) = Cardinality(Missing)
           \/ Cardinality(Missing \cup {calls'}) = Cardinality(Missing) + 1
    BY <1>1, FS_AddElement
  <2>2. QED
    BY <1>1, <2>1
<1>3. Missing' \subseteq Missing \cup {calls'}
  BY DEF Missing, ToolTypes
<1>4. calls' \in ToSet(toolLog'.lines) => Missing' \subseteq Missing
  BY <1>3 DEF Missing
<1>5. /\ IsFiniteSet(Missing')
      /\ Cardinality(Missing') <= Cardinality(Missing \cup {calls'})
  BY <1>2, <1>3, FS_Subset
<1>6. Cardinality(Missing') \in Nat
  BY <1>5, FS_CardinalityType
<1>7. calls' \in ToSet(toolLog'.lines) => Cardinality(Missing') <= Cardinality(Missing)
  BY <1>1, <1>4, FS_Subset
<1>8. QED
  BY <1>1, <1>2, <1>5, <1>6, <1>7

LEMMA CallKeepsLossInv ==
  ASSUME LossInv, audit_log
  PROVE  LossInv'
<1>1. /\ ToolTypes /\ calls' = calls + 1 /\ calls' \in Nat
      /\ Cardinality(Missing) \in Nat /\ Cardinality(Missing) + Piece <= 2 * torn
      /\ toolLog \in [lines : Seq(Lines), cut : BOOLEAN] /\ torn \in Nat
  BY MissingCounts DEF LossInv, ToolTypes, audit_log
<1>2. CASE toolLog' = Extend(toolLog, <<calls'>>) /\ torn' = torn
  <2> DEFINE new == <<calls'>>
  <2>1. new \in Seq(Nat) /\ Len(new) = 1 /\ new[1] = calls' /\ new # <<>>
    BY <1>1
  <2>2. toolLog' = Extend(toolLog, new)
    BY <1>2
  <2> HIDE DEF new
  <2>3. /\ toolLog' \in [lines : Seq(Lines), cut : BOOLEAN]
        /\ \A e \in ToSet(toolLog.lines) : e \in ToSet(toolLog'.lines)
        /\ calls' \in ToSet(toolLog'.lines) \/ toolLog.cut
        /\ ~toolLog'.cut
    <3>1. /\ Extend(toolLog, new) \in [lines : Seq(Lines), cut : BOOLEAN]
          /\ \A e \in ToSet(toolLog.lines) : e \in ToSet(Extend(toolLog, new).lines)
          /\ \A i \in 1..Len(new) :
               \/ new[i] \in ToSet(Extend(toolLog, new).lines)
               \/ i = 1 /\ toolLog.cut /\ Garbled \in ToSet(Extend(toolLog, new).lines)
          /\ Extend(toolLog, new).cut => toolLog.cut /\ new = <<>>
      BY <1>1, <2>1, ExtendAdds
    <3>2. 1 \in 1..Len(new)
      BY <2>1
    <3>3. new[1] \in ToSet(toolLog'.lines) \/ toolLog.cut
      BY <2>2, <3>1, <3>2
    <3>4. QED
      BY <2>1, <2>2, <3>1, <3>3
  <2>4. /\ Cardinality(Missing') \in Nat
        /\ Cardinality(Missing') <= Cardinality(Missing) + 1
        /\ ~toolLog.cut => Cardinality(Missing') <= Cardinality(Missing)
    BY <1>1, <2>3, OneMoreMissing
  <2>5. Cardinality(Missing') <= Cardinality(Missing) + Piece
    BY <1>1, <2>4 DEF Piece
  <2>6. Piece' = 0 /\ Piece \in Nat
    BY <2>3 DEF Piece
  <2>7. Cardinality(Missing') + Piece' <= 2 * torn'
    BY <1>1, <1>2, <2>4, <2>5, <2>6
  <2>8. QED
    BY <1>1, <1>2, <2>3, <2>7 DEF LossInv, ToolTypes
<1>3. CASE torn' = torn + 1 /\ toolLog' \in {toolLog, [toolLog EXCEPT !.cut = TRUE]}
  <2>1. toolLog' \in [lines : Seq(Lines), cut : BOOLEAN] /\ toolLog'.lines = toolLog.lines
    BY <1>1, <1>3
  <2>2. /\ Cardinality(Missing') \in Nat
        /\ Cardinality(Missing') <= Cardinality(Missing) + 1
    BY <1>1, <2>1, OneMoreMissing
  <2>3. Piece' \in {0, 1} /\ Piece \in {0, 1}
    BY DEF Piece
  <2>4. Cardinality(Missing') + Piece' <= 2 * torn'
    BY <1>1, <1>3, <2>2, <2>3
  <2>5. QED
    BY <1>1, <1>3, <2>1, <2>4 DEF LossInv, ToolTypes
<1>4. QED
  BY <1>2, <1>3 DEF audit_log

LEMMA LossInvNext == LossInv /\ [Next]_vars => LossInv'
<1>1. ASSUME LossInv, audit_log
      PROVE  LossInv'
  BY <1>1, CallKeepsLossInv
<1>2. ASSUME LossInv, UNCHANGED toolVars
      PROVE  LossInv'
  BY <1>2 DEF toolVars, LossInv, ToolTypes, Missing, Piece
<1>3. [Next]_vars => audit_log \/ UNCHANGED toolVars
  BY DEF Next, log_auth, log_query, log, get_audit_log, WorldChanges, Restart, vars
<1>4. QED
  BY <1>1, <1>2, <1>3

(* However often the disk is full or the log cannot be opened, a failed    *)
(* write costs its own line and at most the next one that is written.      *)
THEOREM ToolLogLossesAreBounded == Spec => []LossesAreBounded
<1>1. Init => LossInv
  <2> SUFFICES ASSUME Init
               PROVE  LossInv
    OBVIOUS
  <2>1. ToolTypes /\ Missing = {} /\ Piece = 0 /\ torn = 0
    BY DEF Init, NewFile, ToolTypes, Missing, Piece, Lines
  <2>2. Cardinality(Missing) = 0
    BY <2>1, FS_EmptySet
  <2>3. QED
    BY <2>1, <2>2 DEF LossInv
<1>2. LossInv => LossesAreBounded
  <2> SUFFICES ASSUME LossInv
               PROVE  LossesAreBounded
    OBVIOUS
  <2>1. Cardinality(Missing) \in Nat /\ Piece \in Nat /\ torn \in Nat
    BY MissingCounts DEF LossInv, ToolTypes, Piece
  <2>2. Cardinality(Missing) <= 2 * torn
    BY <2>1 DEF LossInv
  <2>3. QED
    BY <2>2 DEF LossesAreBounded, Missing
<1>3. QED
  BY <1>1, <1>2, LossInvNext, PTL DEF Spec
-----------------------------------------------------------------------------
(* What the endpoint reads back.  Until a write fails, the log is the calls*)
(* one after another.                                                      *)
Unbroken == toolLog = [lines |-> [i \in 1..calls |-> i], cut |-> FALSE]

AnswerInv ==
  /\ calls \in Nat /\ torn \in Nat /\ reply.at \in Nat
  /\ torn = 0 => Unbroken
  /\ AnswersAreTheLatest

LEMMA LastLinesAre ==
  ASSUME NEW S, NEW s \in Seq(S)
  PROVE  LET n == Least(Recent, Len(s))
         IN  /\ n \in Nat /\ n <= Recent /\ n <= Len(s)
             /\ LastLines(s) \in Seq(S) /\ Len(LastLines(s)) = n
             /\ \A i \in 1..n : LastLines(s)[i] = s[Len(s) - n + i]
<1> DEFINE n == Least(Recent, Len(s))
<1>1. n \in Nat /\ n <= Recent /\ n <= Len(s)
  BY AuditAssumption DEF Least
<1>2. LastLines(s) = SubSeq(s, Len(s) - n + 1, Len(s))
  BY DEF LastLines
<1> HIDE DEF n
<1>3. Len(s) - n + 1 \in 1..(Len(s) + 1)
  BY <1>1
<1>4. LastLines(s) \in Seq(S)
  BY <1>1, <1>2, <1>3
<1>5. Len(LastLines(s)) = n
  BY <1>1, <1>2, <1>3
<1>6. ASSUME NEW i \in 1..n
      PROVE  LastLines(s)[i] = s[Len(s) - n + i]
  <2>1. /\ Len(s) - n + i \in 1..Len(s)
        /\ (Len(s) - n + 1) + i - 1 = Len(s) - n + i
    BY <1>1
  <2>2. QED
    BY <1>1, <1>2, <1>3, <2>1
<1>7. QED
  BY <1>1, <1>4, <1>5, <1>6 DEF n

LEMMA CallKeepsAnswerInv ==
  ASSUME AnswerInv, audit_log
  PROVE  AnswerInv'
<1>1. calls' = calls + 1 /\ calls \in Nat /\ torn \in Nat /\ reply' = reply
  BY DEF AnswerInv, audit_log
<1>2. torn' \in Nat
  BY <1>1 DEF audit_log
<1>3. ASSUME torn' = 0
      PROVE  Unbroken'
  <2>1. toolLog' = Extend(toolLog, <<calls'>>) /\ torn = 0
    BY <1>1, <1>3 DEF audit_log
  <2> DEFINE s == [i \in 1..calls |-> i]
  <2>2. toolLog.lines = s /\ toolLog.cut = FALSE
    BY <2>1 DEF AnswerInv, Unbroken
  <2>3. toolLog' = [lines |-> s \o <<calls'>>, cut |-> FALSE]
    <3>1. <<calls'>> # <<>>
      OBVIOUS
    <3>2. QED
      BY <2>1, <2>2, <3>1 DEF Extend
  <2>4. s \o <<calls'>> = [i \in 1..calls' |-> i]
    <3>1. s \in Seq(Nat) /\ Len(s) = calls
      BY <1>1
    <3>2. QED
      BY <1>1, <3>1
  <2>5. QED
    BY <2>3, <2>4 DEF Unbroken
<1>4. torn' = 0 => torn = 0
  BY <1>1 DEF audit_log
<1>5. AnswersAreTheLatest'
  BY <1>1, <1>4 DEF AnswerInv, AnswersAreTheLatest
<1>6. QED
  BY <1>1, <1>2, <1>3, <1>5 DEF AnswerInv

LEMMA ReadKeepsAnswerInv ==
  ASSUME AnswerInv, get_audit_log
  PROVE  AnswerInv'
<1>1. /\ UNCHANGED toolVars /\ calls \in Nat /\ torn \in Nat
  BY DEF AnswerInv, get_audit_log
<1>2. reply'.at = calls
  BY DEF get_audit_log, Reply, Entries
<1>3. ASSUME reply'.kind = "entries", torn = 0
      PROVE  LET n == Least(Recent, calls)
             IN  reply'.entries = [i \in 1..n |-> calls - n + i]
  <2> DEFINE s == [i \in 1..calls |-> i]
             n == Least(Recent, calls)
  <2>1. toolLog.lines = s /\ toolLog.cut = FALSE
    BY <1>3 DEF AnswerInv, Unbroken
  <2>2. reply' = IF ~openable THEN Reply("error", <<>>) ELSE Entries(LastLines(s))
    BY <2>1 DEF get_audit_log
  <2>3. reply'.entries = LastLines(s)
    BY <1>3, <2>2 DEF Reply, Entries
  <2>4. s \in Seq(Nat) /\ Len(s) = calls
    BY <1>1
  <2>5. /\ n \in Nat /\ n <= calls /\ LastLines(s) \in Seq(Nat)
        /\ Len(LastLines(s)) = n
        /\ \A i \in 1..n : LastLines(s)[i] = s[calls - n + i]
    <3> HIDE DEF s
    <3>1. QED
      BY <2>4, LastLinesAre
  <2>6. ASSUME NEW i \in 1..n
        PROVE  LastLines(s)[i] = calls - n + i
    <3>1. calls - n + i \in 1..calls
      BY <1>1, <2>5
    <3>2. QED
      BY <2>5, <3>1
  <2>7. LastLines(s) = [i \in 1..n |-> calls - n + i]
    BY <2>5, <2>6
  <2>8. QED
    BY <2>3, <2>7
<1>4. AnswersAreTheLatest'
  BY <1>1, <1>2, <1>3 DEF AnswersAreTheLatest, toolVars
<1>5. QED
  BY <1>1, <1>2, <1>4 DEF AnswerInv, Unbroken, toolVars

LEMMA AnswerInvNext == AnswerInv /\ [Next]_vars => AnswerInv'
<1> SUFFICES ASSUME AnswerInv, [Next]_vars
             PROVE  AnswerInv'
  OBVIOUS
<1>1. CASE audit_log
  BY <1>1, CallKeepsAnswerInv
<1>2. CASE get_audit_log
  BY <1>2, ReadKeepsAnswerInv
<1>3. CASE log_auth \/ log_query \/ WorldChanges \/ Restart \/ UNCHANGED vars
  <2>1. UNCHANGED <<toolVars, reply>>
    BY <1>3 DEF log_auth, log_query, log, WorldChanges, Restart, vars
  <2>2. QED
    BY <2>1 DEF toolVars, AnswerInv, Unbroken, AnswersAreTheLatest
<1>4. QED
  BY <1>1, <1>2, <1>3 DEF Next

(* Until a write fails, the endpoint leaves out none of the latest calls,  *)
(* for every number of lines that it reads back.                           *)
THEOREM LatestCallsAreAnswered == Spec => []AnswersAreTheLatest
<1>1. Init => AnswerInv
  <2> SUFFICES ASSUME Init
               PROVE  AnswerInv
    OBVIOUS
  <2>1. <<>> = [i \in 1..0 |-> i]
    OBVIOUS
  <2>2. QED
    BY <2>1 DEF Init, NewFile, AnswerInv, Unbroken, AnswersAreTheLatest
<1>2. AnswerInv => AnswersAreTheLatest
  BY DEF AnswerInv
<1>3. QED
  BY <1>1, <1>2, AnswerInvNext, PTL DEF Spec
-----------------------------------------------------------------------------
(* The types of all that the two logs keep, the bounds of the buffer and of*)
(* an answer among them.                                                   *)
LEMMA Pieces ==
  ASSUME NEW S, NEW s \in Seq(S), NEW n \in 0..Len(s)
  PROVE  /\ SubSeq(s, 1, n) \in Seq(S)
         /\ SubSeq(s, n + 1, Len(s)) \in Seq(S) /\ Len(SubSeq(s, n + 1, Len(s))) = Len(s) - n
OBVIOUS

LEMMA Narrower ==
  ASSUME NEW S, NEW T, NEW s \in Seq(S), \A i \in 1..Len(s) : s[i] \in T
  PROVE  s \in Seq(T)
OBVIOUS

LEMMA Shorter ==
  ASSUME NEW S
  PROVE  <<>> \in Seq(S) /\ Len(<<>>) = 0 /\ \A x \in S : <<x>> \in Seq(S)
OBVIOUS

LEMMA ExtendTypes ==
  ASSUME NEW n \in Nat, NEW f \in File(n), NEW new \in Seq(1..n)
  PROVE  Extend(f, new) \in File(n)
<1> DEFINE S == 1..n \cup {Garbled}
<1>1. f.lines \in Seq(S) /\ f.cut \in BOOLEAN /\ new \in Seq(S)
  BY DEF File
<1>2. CASE new = <<>>
  BY <1>2 DEF Extend
<1>3. CASE new # <<>>
  <2> DEFINE more == IF f.cut THEN <<Garbled>> \o Tail(new) ELSE new
  <2>1. Garbled \in S
    OBVIOUS
  <2>2. more \in Seq(S)
    <3> HIDE DEF S
    <3>1. Tail(new) \in Seq(S) /\ <<Garbled>> \in Seq(S)
      BY <1>1, <1>3, <2>1
    <3>2. <<Garbled>> \o Tail(new) \in Seq(S)
      BY <3>1
    <3>3. QED
      BY <1>1, <3>2
  <2>3. Extend(f, new) = [lines |-> f.lines \o more, cut |-> FALSE]
    BY <1>3 DEF Extend
  <2> HIDE DEF more
  <2>4. f.lines \o more \in Seq(S)
    BY <1>1, <2>2
  <2>5. QED
    BY <2>3, <2>4 DEF File
<1>4. QED
  BY <1>2, <1>3

LEMMA FlushFailsTypes ==
  ASSUME trail \in File(MaxEvents), begun \in BOOLEAN,
         NEW lines \in Seq(1..MaxEvents), FlushFails(lines)
  PROVE  /\ trail' \in File(MaxEvents) /\ pending' \in Seq(1..MaxEvents)
         /\ Len(pending') <= Len(lines) /\ pending' # <<>> /\ begun' \in BOOLEAN
<1>1. PICK n \in 0..(Len(lines) - 1) :
        /\ trail' = Extend(trail, SubSeq(lines, 1, n))
        /\ pending' = SubSeq(lines, n + 1, Len(lines))
        /\ begun' \in IF n = 0 THEN {begun, TRUE} ELSE BOOLEAN
  BY DEF FlushFails
<1>2. /\ SubSeq(lines, 1, n) \in Seq(1..MaxEvents)
      /\ SubSeq(lines, n + 1, Len(lines)) \in Seq(1..MaxEvents)
      /\ Len(SubSeq(lines, n + 1, Len(lines))) = Len(lines) - n
  <2>1. n \in 0..Len(lines)
    OBVIOUS
  <2>2. QED
    BY <2>1, Pieces
<1>3. trail' \in File(MaxEvents)
  BY <1>1, <1>2, ExtendTypes, AuditAssumption
<1>4. pending' \in Seq(1..MaxEvents) /\ Len(pending') = Len(lines) - n
  BY <1>1, <1>2
<1>5. Len(lines) - n > 0 /\ Len(lines) - n <= Len(lines)
  OBVIOUS
<1>6. pending' # <<>>
  BY <1>4, <1>5
<1>7. QED
  BY <1>1, <1>3, <1>4, <1>5, <1>6

LEMMA LogKeepsTypes ==
  ASSUME TypeOK, log
  PROVE  TypeOK'
<1> DEFINE lines == Append(pending, events')
<1>1. /\ events' = events + 1 /\ events' \in 0..MaxEvents /\ events' \in 1..MaxEvents
      /\ since' \in 0..events' /\ full \in BOOLEAN
      /\ handle' \in {"none", "file", "devnull"}
      /\ UNCHANGED <<world, toolVars, reply>>
      /\ trail \in File(MaxEvents) /\ begun \in BOOLEAN
      /\ pending \in Seq(1..MaxEvents) /\ Len(pending) <= BufferLines
  BY AuditAssumption DEF log, _ensure_file, TypeOK
<1>2. lines \in Seq(1..MaxEvents)
  BY <1>1
<1>3. CASE handle' = "devnull"
  BY <1>1, <1>3 DEF log, TypeOK, world, toolVars
<1>4. CASE handle' = "file"
  <2>1. /\ Write(lines)
        /\ full' = ((handle # "none" /\ full) \/ Overflows(lines))
    BY <1>4 DEF log
  <2> HIDE DEF lines
  <2>2. full' \in BOOLEAN
    BY <1>1, <2>1 DEF Overflows
  <2>3. /\ trail' \in File(MaxEvents) /\ pending' \in Seq(1..MaxEvents)
        /\ Len(pending') <= BufferLines /\ begun' \in BOOLEAN
        /\ begun' => pending' # <<>>
    <3>1. CASE Flush(lines)
      <4>1. trail' \in File(MaxEvents)
        BY <1>1, <1>2, <3>1, ExtendTypes, AuditAssumption DEF Flush
      <4>2. pending' = <<>> /\ begun' = FALSE
        BY <3>1 DEF Flush
      <4>3. Len(pending') = 0 /\ pending' \in Seq(1..MaxEvents)
        BY <4>2, Shorter
      <4>4. Len(pending') <= BufferLines
        <5>1. BufferLines \in Nat
          BY AuditAssumption
        <5>2. QED
          BY <4>3, <5>1
      <4>5. QED
        BY <4>1, <4>2, <4>3, <4>4, Zenon
    <3>2. CASE ~room /\ ~Overflows(lines) /\ FlushFails(lines)
      <4>1. Len(lines) <= BufferLines /\ Len(lines) \in Nat
        BY <1>2, <3>2, AuditAssumption DEF Overflows
      <4>2. /\ trail' \in File(MaxEvents) /\ pending' \in Seq(1..MaxEvents)
            /\ Len(pending') <= Len(lines) /\ pending' # <<>> /\ begun' \in BOOLEAN
        BY <1>1, <1>2, <3>2, FlushFailsTypes
      <4>3. QED
        BY <4>1, <4>2, AuditAssumption
    <3>3. CASE FlushFails(pending)
      <4>1. /\ trail' \in File(MaxEvents) /\ pending' \in Seq(1..MaxEvents)
            /\ Len(pending') <= Len(pending) /\ pending' # <<>> /\ begun' \in BOOLEAN
        BY <1>1, <3>3, FlushFailsTypes
      <4>2. QED
        BY <1>1, <4>1, AuditAssumption
    <3>4. QED
      BY <2>1, <3>1, <3>2, <3>3 DEF Write
  <2>4. QED
    BY <1>1, <2>2, <2>3 DEF TypeOK, world, toolVars
<1>5. QED
  BY <1>3, <1>4 DEF log

LEMMA CallKeepsTypes ==
  ASSUME TypeOK, audit_log
  PROVE  TypeOK'
<1>1. /\ calls \in 0..MaxCalls /\ torn \in 0..calls /\ calls' = calls + 1
      /\ calls' \in 1..MaxCalls /\ toolLog \in File(MaxCalls) /\ reply.at \in 0..calls
      /\ reply' = reply /\ UNCHANGED <<world, trailVars>>
  BY AuditAssumption DEF audit_log, TypeOK
<1>2. torn' \in 0..calls' /\ reply'.at \in 0..calls'
  BY <1>1 DEF audit_log
<1>3. toolLog' \in File(MaxCalls)
  <2>1. CASE toolLog' = Extend(toolLog, <<calls'>>)
    BY <1>1, <2>1, ExtendTypes, Shorter, AuditAssumption
  <2>2. CASE toolLog' \in {toolLog, [toolLog EXCEPT !.cut = TRUE]}
    BY <1>1, <2>2 DEF File
  <2>3. QED
    BY <2>1, <2>2 DEF audit_log
<1>4. QED
  BY <1>1, <1>2, <1>3 DEF TypeOK, world, trailVars

LEMMA ReadKeepsTypes ==
  ASSUME TypeOK, get_audit_log
  PROVE  TypeOK'
<1> DEFINE read == IF toolLog.cut THEN Append(toolLog.lines, Garbled) ELSE toolLog.lines
           last == LastLines(read)
           S == 1..MaxCalls \cup {Garbled}
<1>1. /\ calls \in 0..MaxCalls /\ UNCHANGED <<world, trailVars, toolVars>>
      /\ reply' = IF ~openable THEN Reply("error", <<>>) ELSE Entries(last)
  BY DEF get_audit_log, TypeOK
<1>2. read \in Seq(S)
  <2>1. toolLog.lines \in Seq(S)
    BY DEF TypeOK, File
  <2>2. QED
    BY <2>1
<1> HIDE DEF read
<1>3. last \in Seq(S) /\ Len(last) <= Recent /\ Len(last) \in Nat
  BY <1>2, LastLinesAre
<1> HIDE DEF last
<1>4. ASSUME Garbled \notin ToSet(last)
      PROVE  last \in Seq(1..MaxCalls)
  <2>1. \A i \in 1..Len(last) : last[i] \in S /\ last[i] # Garbled
    BY <1>3, <1>4, ElementOf
  <2>2. QED
    <3> HIDE DEF S
    <3>1. \A i \in 1..Len(last) : last[i] \in 1..MaxCalls
      BY <2>1 DEF S
    <3>2. QED
      BY <1>3, <3>1, Narrower
<1>5. /\ reply'.kind \in {"none", "entries", "error", "raised"}
      /\ reply'.entries \in Seq(1..MaxCalls) /\ Len(reply'.entries) <= Recent
      /\ reply'.at = calls
  <2>1. CASE reply' = Reply("error", <<>>) \/ reply' = Reply("raised", <<>>)
    <3>1. <<>> \in Seq(1..MaxCalls) /\ Len(<<>>) = 0 /\ 0 <= Recent
      <4>1. Recent \in Nat
        BY AuditAssumption
      <4>2. QED
        BY <4>1, Shorter
    <3>2. /\ reply'.kind \in {"error", "raised"} /\ reply'.entries = <<>>
          /\ reply'.at = calls
      BY <2>1 DEF Reply
    <3>3. QED
      BY <3>1, <3>2
  <2>2. CASE reply' = Reply("entries", last) /\ Garbled \notin ToSet(last)
    BY <1>3, <1>4, <2>2 DEF Reply
  <2>3. QED
    BY <1>1, <2>1, <2>2 DEF Entries
<1>6. QED
  BY <1>1, <1>5 DEF TypeOK, world, trailVars, toolVars

LEMMA RestartKeepsTypes ==
  ASSUME TypeOK, Restart
  PROVE  TypeOK'
<1>1. trail' \in File(MaxEvents)
  <2>1. CASE trail' = Extend(trail, pending)
    BY <2>1, ExtendTypes, AuditAssumption DEF TypeOK
  <2>2. CASE trail' = [trail EXCEPT !.cut = @ \/ begun]
    BY <2>2 DEF TypeOK, File
  <2>3. QED
    BY <2>1, <2>2 DEF Restart
<1>2. QED
  <2>1. /\ handle' = "none" /\ pending' = <<>> /\ begun' = FALSE
        /\ UNCHANGED <<world, toolVars, events, since, full, reply>>
    BY DEF Restart
  <2>2. pending' \in Seq(1..MaxEvents) /\ Len(pending') <= BufferLines
    <3>1. BufferLines \in Nat
      BY AuditAssumption
    <3>2. QED
      BY <2>1, <3>1, Shorter
  <2>3. QED
    BY <1>1, <2>1, <2>2 DEF TypeOK, world, toolVars

LEMMA TypesNext == TypeOK /\ [Next]_vars => TypeOK'
<1> SUFFICES ASSUME TypeOK, [Next]_vars
             PROVE  TypeOK'
  OBVIOUS
<1>1. CASE log_auth \/ log_query
  BY <1>1, LogKeepsTypes DEF log_auth, log_query
<1>2. CASE audit_log
  BY <1>2, CallKeepsTypes
<1>3. CASE get_audit_log
  BY <1>3, ReadKeepsTypes
<1>4. CASE WorldChanges
  BY <1>4 DEF WorldChanges, TypeOK, trailVars, toolVars
<1>5. CASE Restart
  BY <1>5, RestartKeepsTypes
<1>6. CASE UNCHANGED vars
  BY <1>6 DEF vars, world, trailVars, toolVars, TypeOK
<1>7. QED
  BY <1>1, <1>2, <1>3, <1>4, <1>5, <1>6 DEF Next

(* The buffer never holds more than it has room for, an answer is never    *)
(* longer than the endpoint allows, and all else stays of its type.        *)
THEOREM AuditTypes == Spec => []TypeOK
<1>1. Init => TypeOK
  <2> SUFFICES ASSUME Init
               PROVE  TypeOK
    OBVIOUS
  <2>1. {Recent, BufferLines, MaxEvents, MaxCalls} \subseteq Nat
    BY AuditAssumption
  <2>2. trail \in File(MaxEvents) /\ toolLog \in File(MaxCalls)
    BY Shorter DEF Init, NewFile, File
  <2>3. pending \in Seq(1..MaxEvents) /\ Len(pending) <= BufferLines
    BY <2>1, Shorter DEF Init
  <2>4. reply.entries \in Seq(1..MaxCalls) /\ Len(reply.entries) <= Recent
    BY <2>1, Shorter DEF Init
  <2>5. /\ events \in 0..MaxEvents /\ since \in 0..events
        /\ calls \in 0..MaxCalls /\ torn \in 0..calls /\ reply.at \in 0..calls
    BY <2>1 DEF Init
  <2>6. /\ openable \in BOOLEAN /\ room \in BOOLEAN /\ full \in BOOLEAN
        /\ handle = "none" /\ begun = FALSE /\ reply.kind = "none"
    BY DEF Init
  <2>7. QED
    BY <2>2, <2>3, <2>4, <2>5, <2>6 DEF TypeOK
<1>2. QED
  BY <1>1, TypesNext, PTL DEF Spec
=============================================================================
