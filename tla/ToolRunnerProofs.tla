-------------------------- MODULE ToolRunnerProofs --------------------------
(***************************************************************************)
(* What holds of the tools whatever their scripts are, as long as these    *)
(* qualify: no report of a change that was not made, no change that was not*)
(* asked for, no classified change in read_only mode, and no note ahead of *)
(* the change it announces.                                                *)
(***************************************************************************)
EXTENDS ToolRunner, TLAPS

(* The step a call is at is one of its tool's script.                      *)
LEMMA CurrentStep ==
  ASSUME TypeOK, Pending
  PROVE  /\ running \in Tools /\ Current \in Step
         /\ Change \subseteq Changes
         /\ Change \subseteq Makes(running)
<1>1. running \in Tools /\ Steps(running) \in Seq(Step)
  BY RunnerAssumption DEF TypeOK, Pending, Idle
<1>2. Current \in Step
  BY <1>1 DEF Pending, Current
<1>3. Change \subseteq Makes(running)
  BY DEF Change, Makes, Current, Pending
<1>4. QED
  BY <1>1, <1>2, <1>3 DEF Change

(* Counting keeps a counter's type.                                        *)
LEMMA CountType ==
  ASSUME NEW counter \in [Changes -> Nat], NEW cs
  PROVE  /\ Count(counter, cs) \in [Changes -> Nat]
         /\ \A c \in Changes : Count(counter, cs)[c] =
                               IF c \in cs THEN counter[c] + 1 ELSE counter[c]
BY DEF Count

(* A fault leaves counters behind.                                         *)
LEMMA EffectType ==
  ASSUME TypeOK, NEW fault, Effect(fault)
  PROVE  done' \in [Changes -> Nat] /\ late' \in [Changes -> Nat]
BY CountType DEF Effect, Unserved, Served, ServedLate, TypeOK

(* Whether a call is stuck stays a flag.                                   *)
LEMMA StuckStaysFlag ==
  ASSUME stuck \in BOOLEAN, [Next]_vars
  PROVE  stuck' \in BOOLEAN
<1>1. ASSUME NEW ending, NEW claims, Answer(ending, claims)
      PROVE  stuck' \in BOOLEAN
  BY <1>1, Zenon DEF Answer, EndCall
<1>2. ASSUME NEW claims, GoOn(claims)
      PROVE  stuck' \in BOOLEAN
  BY <1>2, Zenon DEF GoOn
<1>3. ASSUME NEW t \in Tools, CallTool(t) PROVE stuck' \in BOOLEAN
  BY <1>3, Zenon DEF CallTool
<1>4. CASE Refuse \/ Return
  BY <1>4, <1>1, Zenon DEF Refuse, Return
<1>5. CASE SkipStep
  BY <1>5, Zenon DEF SkipStep
<1>6. CASE Succeed
  BY <1>6, <1>1, <1>2, Zenon DEF Succeed
<1>7. ASSUME NEW f \in Faults, NEW r, Fault(f, r) PROVE stuck' \in BOOLEAN
  BY <1>7, <1>1, <1>2, Zenon DEF Fault
<1>8. CASE Hang
  BY <1>8, Zenon DEF Hang
<1>9. CASE ProbeKill
  BY <1>9, Zenon DEF ProbeKill, EndCall
<1>10. CASE (\E c \in Changes : Land(c)) \/ ChangeMode \/ UNCHANGED vars
  BY <1>10, Zenon DEF Land, ChangeMode, vars, call
<1>11. QED
  BY <1>3, <1>4, <1>5, <1>6, <1>7, <1>8, <1>9, <1>10 DEF Next, Advance

(* Types of the runner, for scripts of any length.                         *)
THEOREM RunnerTypes == Spec => []TypeOK
<1>1. Init => TypeOK
  <2>1. Init => stuck \in BOOLEAN
    BY Zenon DEF Init
  <2>2. QED
    BY <2>1 DEF Init, TypeOK, InitPermissions, FreshPermissions, PermissionTypes, Modes
<1>2. TypeOK /\ [Next]_vars => TypeOK'
  <2> SUFFICES ASSUME TypeOK, [Next]_vars PROVE TypeOK'
    OBVIOUS
  <2> USE DEF TypeOK, PermissionTypes
  <2>0. stuck' \in BOOLEAN
    BY StuckStaysFlag
  <2>1. ASSUME NEW ending, NEW claims, Answer(ending, claims),
               claims \subseteq Changes
        PROVE  /\ running' \in Tools \cup {NoCall} /\ at' \in Nat \ {0}
               /\ claimed' \subseteq Changes /\ acked' \in [Changes -> Nat]
    <3>1. acked' \in [Changes -> Nat]
      BY <2>1, CountType DEF Answer
    <3>2. QED
      BY <2>1, <3>1 DEF Answer, EndCall
  <2>2. ASSUME NEW claims, GoOn(claims),
               claims \subseteq Changes
        PROVE  /\ running' \in Tools \cup {NoCall} /\ at' \in Nat \ {0}
               /\ claimed' \subseteq Changes /\ acked' \in [Changes -> Nat]
    BY <2>2 DEF GoOn
  <2>3. ASSUME NEW t \in Tools, CallTool(t) PROVE TypeOK'
    BY <2>0, <2>3, CountType DEF CallTool, permissions
  <2>4. CASE Refuse
    <3>1. PICK e : Answer(e, {})
      BY <2>4 DEF Refuse
    <3>2. /\ running' \in Tools \cup {NoCall} /\ at' \in Nat \ {0}
          /\ claimed' \subseteq Changes /\ acked' \in [Changes -> Nat]
      BY <3>1, CountType DEF Answer, EndCall
    <3>3. QED
      BY <2>0, <2>4, <3>2 DEF Refuse, permissions
  <2>5. CASE SkipStep
    BY <2>0, <2>5 DEF SkipStep, permissions, world
  <2>6. CASE Succeed
    <3>1. Claims \subseteq Changes
      BY DEF Claims, Change
    <3>2. done' \in [Changes -> Nat]
      BY <2>6, CountType DEF Succeed
    <3>3. \/ GoOn(Claims)
          \/ Answer("report", Claims)
          \/ Answer("raised", {})
      BY <2>6 DEF Succeed
    <3>4. ASSUME GoOn(Claims) \/ Answer("report", Claims)
          PROVE  /\ running' \in Tools \cup {NoCall} /\ at' \in Nat \ {0}
                 /\ claimed' \subseteq Changes /\ acked' \in [Changes -> Nat]
      BY <2>1, <2>2, <3>1, <3>4
    <3>5. CASE Answer("raised", {})
      BY <2>0, <2>6, <3>2, <3>5 DEF Succeed, Answer, EndCall, permissions
    <3>6. QED
      BY <2>0, <2>6, <3>2, <3>3, <3>4, <3>5 DEF Succeed, permissions
  <2>7. ASSUME NEW f \in Faults, NEW r, Fault(f, r) PROVE TypeOK'
    <3>1. Claims \subseteq Changes
      BY DEF Claims, Change
    <3>2. done' \in [Changes -> Nat] /\ late' \in [Changes -> Nat]
      BY <2>7, EffectType DEF Fault
    <3>3. QED
      BY <2>0, <2>7, <2>1, <2>2, <3>1, <3>2 DEF Fault, permissions
  <2>8. CASE Return
    BY <2>0, <2>8, <2>1 DEF Return, permissions
  <2>9. CASE Hang
    <3>1. done' \in [Changes -> Nat] /\ late' \in [Changes -> Nat]
      BY <2>9, EffectType DEF Hang
    <3>2. QED
      BY <2>0, <2>9, <3>1 DEF Hang, permissions
  <2>10. CASE ProbeKill
    <3>1. done' \in [Changes -> Nat] /\ late' \in [Changes -> Nat]
      BY <2>10, EffectType DEF ProbeKill, Unserved
    <3>2. mode' \in Modes /\ {denied', safeAllowed', readAllowed'} \subseteq SUBSET Tools
      BY <2>10 DEF ProbeKill, ResetPermissions, FreshPermissions, Modes
    <3>3. QED
      BY <2>0, <2>10, <3>1, <3>2 DEF ProbeKill, EndCall
  <2>11. ASSUME NEW c \in Changes, Land(c) PROVE TypeOK'
    BY <2>0, <2>11 DEF Land, permissions, call
  <2>12. CASE ChangeMode
    BY <2>0, <2>12 DEF ChangeMode, SetMode, call, world
  <2>13. CASE UNCHANGED vars
    BY <2>0, <2>13 DEF vars, permissions, call, world
  <2>14. QED
    BY <2>3, <2>4, <2>5, <2>6, <2>7, <2>8, <2>9, <2>10, <2>11, <2>12, <2>13
       DEF Next, Advance
<1>3. QED
  BY <1>1, <1>2, PTL DEF Spec

-----------------------------------------------------------------------------
(* A fault serves no more than the one request that it met.                *)
LEMMA EffectCounts ==
  ASSUME TypeOK, NEW fault, Effect(fault), NEW c \in Changes
  PROVE  /\ done'[c] >= done[c]
         /\ c \in Change => done'[c] + late'[c] <= done[c] + late[c] + 1
         /\ c \notin Change => done'[c] + late'[c] = done[c] + late[c]
BY CountType DEF Effect, Unserved, Served, ServedLate, TypeOK

(* A step that changes something passes over no fault.                     *)
LEMMA FaultEndsOrIsTold ==
  ASSUME TypeOK, NoFailureHidden, NEW f \in Faults, NEW r, Fault(f, r),
         Change # {}
  PROVE  r \notin {"ignored", "report"}
<1>1. running \in Tools /\ at \in DOMAIN Steps(running) /\ r \in Current.on[f]
  BY CurrentStep DEF Fault, Pending
<1>2. Steps(running)[at].change \in Changes
  BY DEF Change, Current
<1>3. QED
  BY <1>1, <1>2 DEF NoFailureHidden, Current

(* Every change that is reported has been made, and so has every change    *)
(* that a running tool is going to report.                                 *)
Accounted == \A c \in Changes :
  acked[c] <= done[c] /\ (c \in claimed => acked[c] < done[c])

LEMMA AccountedStays ==
  ASSUME TypeOK, TypeOK', NoFailureHidden, Accounted, [Next]_vars
  PROVE  Accounted'
<1> USE DEF Accounted, TypeOK
<1>1. ASSUME NEW ending, NEW claims, Answer(ending, claims),
             \A c \in Changes : done'[c] >= done[c],
             ending = "report" => \A c \in claims \cap Changes : acked[c] < done'[c]
      PROVE  Accounted'
  <2>1. claimed' = {}
    BY <1>1 DEF Answer, EndCall
  <2>2. CASE ending = "report"
    <3>1. acked' = Count(acked, claims)
      BY <1>1, <2>2 DEF Answer
    <3>2. QED
      BY <1>1, <2>1, <2>2, <3>1, CountType
  <2>3. CASE ending # "report"
    BY <1>1, <2>1, <2>3 DEF Answer
  <2>4. QED
    BY <2>2, <2>3
<1>2. ASSUME NEW claims, GoOn(claims),
             \A c \in Changes : done'[c] >= done[c],
             \A c \in claims \cap Changes : acked[c] < done'[c]
      PROVE  Accounted'
  BY <1>2 DEF GoOn
<1>3. ASSUME NEW t \in Tools, CallTool(t) PROVE Accounted'
  BY <1>3 DEF CallTool
<1>4. CASE Refuse
  <2>1. PICK e : Answer(e, {})
    BY <1>4 DEF Refuse
  <2>2. UNCHANGED done
    BY <1>4 DEF Refuse
  <2>3. acked' \in {acked, Count(acked, {})} /\ claimed' = {}
    BY <2>1 DEF Answer, EndCall
  <2>4. QED
    BY <2>2, <2>3, CountType
<1>5. CASE SkipStep
  BY <1>5 DEF SkipStep, world
<1>6. CASE Succeed
  <2>1. \A c \in Changes : done'[c] = IF c \in Change THEN done[c] + 1 ELSE done[c]
    BY <1>6, CountType DEF Succeed
  <2>2. \A c \in Changes : done'[c] >= done[c]
    BY <2>1
  <2>3. \A c \in Claims \cap Changes : acked[c] < done'[c]
    BY <2>1 DEF Claims
  <2>4. CASE Answer("raised", {})
    <3>1. acked' = acked /\ claimed' = {}
      BY <2>4 DEF Answer, EndCall
    <3>2. QED
      BY <2>2, <3>1
  <2>5. CASE GoOn(Claims)
    BY <1>2, <2>2, <2>3, <2>5
  <2>6. CASE Answer("report", Claims)
    BY <1>1, <2>2, <2>3, <2>6
  <2>7. QED
    BY <1>6, <2>4, <2>5, <2>6 DEF Succeed
<1>7. ASSUME NEW f \in Faults, NEW r, Fault(f, r) PROVE Accounted'
  <2>1. \A c \in Changes : done'[c] >= done[c]
    BY <1>7, EffectCounts DEF Fault
  <2>2. r \in {"ignored", "report"} => Claims = claimed
    BY <1>7, FaultEndsOrIsTold DEF Claims
  <2>3. \A c \in claimed \cap Changes : acked[c] < done'[c]
    BY <2>1
  <2>4. CASE r \in Endings /\ Answer(r, Claims)
    <3>1. r = "report" => \A c \in Claims \cap Changes : acked[c] < done'[c]
      BY <2>2, <2>3
    <3>2. claimed' = {} /\ acked' = IF r = "report" THEN Count(acked, Claims) ELSE acked
      BY <2>4 DEF Answer, EndCall
    <3>3. QED
      BY <2>1, <3>1, <3>2, CountType
  <2>5. CASE r = "handled" /\ GoOn(claimed)
    BY <1>2, <2>1, <2>3, <2>5
  <2>6. CASE r = "ignored" /\ GoOn(Claims)
    BY <2>1, <2>2, <2>3, <2>6 DEF GoOn
  <2>7. QED
    BY <1>7, <2>4, <2>5, <2>6 DEF Fault
<1>8. CASE Return
  <2>1. UNCHANGED done
    BY <1>8 DEF Return
  <2>2. QED
    BY <1>8, <1>1, <2>1 DEF Return
<1>9. CASE Hang
  BY <1>9, EffectCounts DEF Hang
<1>10. CASE ProbeKill
  <2>1. \A c \in Changes : done'[c] >= done[c]
    BY <1>10, EffectCounts DEF ProbeKill, Unserved
  <2>2. QED
    BY <1>10, <2>1 DEF ProbeKill, EndCall
<1>11. ASSUME NEW c \in Changes, Land(c) PROVE Accounted'
  BY <1>11 DEF Land, call
<1>12. CASE ChangeMode \/ UNCHANGED vars
  BY <1>12 DEF ChangeMode, vars, call, world
<1>13. QED
  BY <1>3, <1>4, <1>5, <1>6, <1>7, <1>8, <1>9, <1>10, <1>11, <1>12
     DEF Next, Advance

(* What the LLM is told has been changed has been changed, for every       *)
(* catalogue of tools that passes over no failure of a change.             *)
THEOREM ReportsAreReal ==
  ASSUME NoFailureHidden
  PROVE  Spec => []AcksAreReal
<1>1. Init => Accounted
  BY DEF Init, Accounted
<1>2. TypeOK /\ TypeOK' /\ Accounted /\ [Next]_vars => Accounted'
  BY AccountedStays
<1>3. Accounted => AcksAreReal
  BY DEF Accounted, AcksAreReal
<1>4. QED
  BY <1>1, <1>2, <1>3, RunnerTypes, PTL DEF Spec

-----------------------------------------------------------------------------
(* The running tool has yet to send the request that changes c.            *)
Due(c) ==
  /\ ~Idle /\ ~stuck
  /\ \E i \in DOMAIN Steps(running) : i >= at /\ Steps(running)[i].change = c

(* Of the requests for a change that have been asked for, one is held back *)
(* while it is due.                                                        *)
Rationed == \A c \in Changes :
  /\ done[c] + late[c] <= asked[c]
  /\ Due(c) => done[c] + late[c] < asked[c]

(* Where a tool goes on, nothing becomes due that was not, and what it has *)
(* just sent is due no more.                                               *)
LEMMA GoingOn ==
  ASSUME TypeOK, TypeOK', OneRequestPerChange, Pending, NEW c \in Changes,
         running' = running, stuck' = stuck, Due(c)',
         at' = at + 1 \/ (at' = at /\ Current.repeated)
  PROVE  Due(c) /\ c \notin Change
<1>1. PICK i \in DOMAIN Steps(running) : i >= at' /\ Steps(running)[i].change = c
  BY DEF Due
<1>2. at \in Nat /\ at \in DOMAIN Steps(running) /\ running \in Tools
  BY CurrentStep DEF TypeOK, Pending
<1>3. Steps(running) \in Seq(Step)
  BY <1>2, RunnerAssumption
<1>4. i \in Nat /\ i >= at
  BY <1>1, <1>2, <1>3
<1>5. Due(c)
  BY <1>1, <1>4 DEF Due, Pending
<1>6. c \notin Change
  <2> SUFFICES ASSUME c \in Change PROVE FALSE
    OBVIOUS
  <2>1. Steps(running)[at].change = c
    BY DEF Change, Current
  <2>2. i = at /\ ~Current.repeated
    BY <1>1, <1>2, <2>1 DEF OneRequestPerChange, Current
  <2>3. QED
    BY <1>1, <1>2, <2>2
<1>7. QED
  BY <1>5, <1>6

(* What the current step changes is due.                                   *)
LEMMA CurrentIsDue ==
  ASSUME TypeOK, Pending, NEW c \in Change
  PROVE  Due(c)
BY DEF TypeOK, Pending, Due, Change, Current

LEMMA RationedStays ==
  ASSUME TypeOK, TypeOK', OneRequestPerChange, Rationed, [Next]_vars
  PROVE  Rationed'
<1> USE DEF TypeOK
<1>1. ASSUME Pending, asked' = asked,
             \A c \in Changes :
               /\ c \in Change => done'[c] + late'[c] <= done[c] + late[c] + 1
               /\ c \notin Change => done'[c] + late'[c] = done[c] + late[c],
             \/ running' = NoCall
             \/ stuck'
             \/ /\ running' = running /\ stuck' = stuck
                /\ at' = at + 1 \/ (at' = at /\ Current.repeated)
      PROVE  Rationed'
  <2> SUFFICES ASSUME NEW c \in Changes
               PROVE  /\ done'[c] + late'[c] <= asked[c]
                      /\ Due(c)' => done'[c] + late'[c] < asked[c]
    BY <1>1 DEF Rationed
  <2>1. done'[c] + late'[c] <= asked[c]
    BY <1>1, CurrentIsDue DEF Rationed
  <2>2. ASSUME Due(c)' PROVE Due(c) /\ c \notin Change
    <3>1. running' # NoCall /\ ~stuck'
      BY <2>2 DEF Due, Idle
    <3>2. QED
      BY <1>1, <2>2, <3>1, GoingOn
  <2>3. QED
    BY <1>1, <2>1, <2>2 DEF Rationed
<1>2. ASSUME NEW t \in Tools, CallTool(t) PROVE Rationed'
  <2> SUFFICES ASSUME NEW c \in Changes
               PROVE  /\ done[c] + late[c] <= asked'[c]
                      /\ Due(c)' => done[c] + late[c] < asked'[c]
    BY <1>2 DEF CallTool, Rationed
  <2>1. asked'[c] = IF c \in Makes(t) THEN asked[c] + 1 ELSE asked[c]
    BY <1>2, CountType DEF CallTool
  <2>2. Due(c)' => c \in Makes(t)
    BY <1>2 DEF CallTool, Due, Makes
  <2>3. QED
    BY <2>1, <2>2 DEF Rationed
<1>3. CASE Refuse
  <2>1. UNCHANGED <<asked, done, late>>
    BY <1>3 DEF Refuse
  <2>2. running' = NoCall
    BY <1>3 DEF Refuse, Answer, EndCall
  <2>3. QED
    BY <2>1, <2>2 DEF Rationed, Due, Idle
<1>4. CASE SkipStep
  <2>1. UNCHANGED <<asked, done, late, running, stuck>> /\ at' = at + 1 /\ Pending
    BY <1>4 DEF SkipStep, world
  <2>2. \A c \in Changes : Due(c)' => Due(c)
    BY <2>1, GoingOn
  <2>3. QED
    BY <2>1, <2>2 DEF Rationed
<1>5. CASE Succeed
  <2>1. Pending /\ UNCHANGED <<asked, late>>
    BY <1>5 DEF Succeed
  <2>2. \A c \in Changes : done'[c] = IF c \in Change THEN done[c] + 1 ELSE done[c]
    BY <1>5, CountType DEF Succeed
  <2>3. \/ running' = NoCall
        \/ /\ running' = running /\ stuck' = stuck
           /\ at' = at + 1 \/ (at' = at /\ Current.repeated)
    BY <1>5 DEF Succeed, GoOn, Answer, EndCall
  <2>4. QED
    BY <1>1, <2>1, <2>2, <2>3
<1>6. ASSUME NEW f \in Faults, NEW r, Fault(f, r) PROVE Rationed'
  <2>1. Pending /\ UNCHANGED asked /\ Effect(f)
    BY <1>6 DEF Fault
  <2>2. \/ running' = NoCall
        \/ /\ running' = running /\ stuck' = stuck
           /\ at' = at + 1 \/ (at' = at /\ Current.repeated)
    BY <1>6 DEF Fault, GoOn, Answer, EndCall
  <2>3. QED
    BY <1>1, <2>1, <2>2, EffectCounts
<1>7. CASE Return
  <2>1. UNCHANGED <<asked, done, late>> /\ running' = NoCall
    BY <1>7 DEF Return, Answer, EndCall
  <2>2. QED
    BY <2>1 DEF Rationed, Due, Idle
<1>8. CASE Hang
  <2>1. Pending /\ UNCHANGED asked /\ Effect("lost") /\ stuck'
    BY <1>8 DEF Hang
  <2>2. QED
    BY <1>1, <2>1, EffectCounts
<1>9. CASE ProbeKill
  <2>1. UNCHANGED asked /\ running' = NoCall
    BY <1>9 DEF ProbeKill, EndCall
  <2>2. CASE Pending
    <3>1. Effect("lost")
      BY <1>9, <2>2 DEF ProbeKill
    <3>2. QED
      BY <1>1, <2>1, <2>2, <3>1, EffectCounts
  <2>3. CASE ~Pending
    BY <1>9, <2>1, <2>3 DEF ProbeKill, Unserved, Rationed, Due, Idle
  <2>4. QED
    BY <2>2, <2>3
<1>10. ASSUME NEW c \in Changes, Land(c) PROVE Rationed'
  <2>1. \A d \in Changes : done'[d] + late'[d] = done[d] + late[d]
    BY <1>10 DEF Land
  <2>2. \A d \in Changes : Due(d)' => Due(d)
    BY <1>10 DEF Land, call, Due, Idle
  <2>3. QED
    BY <1>10, <2>1, <2>2 DEF Land, Rationed
<1>11. CASE ChangeMode \/ UNCHANGED vars
  BY <1>11 DEF ChangeMode, vars, call, world, Rationed, Due, Idle
<1>12. QED
  BY <1>2, <1>3, <1>4, <1>5, <1>6, <1>7, <1>8, <1>9, <1>10, <1>11
     DEF Next, Advance

(* No system is changed more often than the LLM asked for, for every       *)
(* catalogue in which no tool sends a changing request twice.              *)
THEOREM NothingUnasked ==
  ASSUME OneRequestPerChange
  PROVE  Spec => []NoUnaskedRepeats
<1>1. Init => Rationed
  BY DEF Init, Rationed, Due, Idle
<1>2. TypeOK /\ TypeOK' /\ Rationed /\ [Next]_vars => Rationed'
  BY RationedStays
<1>3. Rationed => NoUnaskedRepeats
  BY DEF Rationed, NoUnaskedRepeats
<1>4. QED
  BY <1>1, <1>2, <1>3, RunnerTypes, PTL DEF Spec

-----------------------------------------------------------------------------
(* In read_only mode a running tool is a reader.                           *)
ReadersOnly ==
  running # NoCall /\ mode = "read_only" => OperationType(running) = "READ"

LEMMA ReadersOnlyStays ==
  ASSUME TypeOK, ReadersOnly, [Next]_vars
  PROVE  ReadersOnly'
<1> USE DEF ReadersOnly, OperationType
<1>1. ASSUME NEW t \in Tools, CallTool(t) PROVE ReadersOnly'
  BY <1>1 DEF CallTool, IsAllowed, permissions
<1>2. CASE Advance
  <2>1. mode' = mode /\ running' \in {running, NoCall}
    BY <1>2 DEF Advance, Refuse, SkipStep, Succeed, Fault, Return, GoOn, Answer,
                EndCall, permissions
  <2>2. QED
    BY <2>1
<1>3. CASE Hang \/ (\E c \in Changes : Land(c)) \/ UNCHANGED vars
  BY <1>3 DEF Hang, Land, vars, call, permissions
<1>4. CASE ProbeKill \/ ChangeMode
  BY <1>4 DEF ProbeKill, EndCall, ChangeMode, Idle, call
<1>5. QED
  BY <1>1, <1>2, <1>3, <1>4 DEF Next

(* In read_only mode nothing is changed by a tool that is classified, save *)
(* for requests of an earlier mode that are served late.                   *)
THEOREM ReadOnlyModeHolds ==
  ASSUME ReadersChangeNothing
  PROVE  Spec => ReadOnlyHolds
<1>1. Init => ReadersOnly
  BY DEF Init, ReadersOnly
<1>2. TypeOK /\ ReadersOnly /\ [Next]_vars => ReadersOnly'
  BY ReadersOnlyStays
<1>3. ASSUME TypeOK, ReadersOnly, [Next]_vars, mode = "read_only", done' # done,
             late' = late
      PROVE  running \notin DOMAIN Class
  <2>1. Pending /\ done' = Count(done, Change)
    <3>1. CASE \E t \in Tools : CallTool(t)
      BY <1>3, <3>1 DEF CallTool
    <3>2. CASE Advance \/ Hang \/ ProbeKill
      BY <1>3, <3>2 DEF Advance, Refuse, SkipStep, Succeed, Fault, Return, Hang,
                        ProbeKill, Effect, Unserved, Served, ServedLate, world
    <3>3. CASE \E c \in Changes : Land(c)
      BY <1>3, <3>3 DEF Land, TypeOK
    <3>4. CASE ChangeMode \/ UNCHANGED vars
      BY <1>3, <3>4 DEF ChangeMode, vars, world
    <3>5. QED
      BY <1>3, <3>1, <3>2, <3>3, <3>4 DEF Next
  <2>2. Change # {}
    <3> SUFFICES ASSUME Change = {} PROVE FALSE
      OBVIOUS
    <3>1. done \in [Changes -> Nat]
      BY <1>3 DEF TypeOK
    <3>2. Count(done, {}) = done
      BY <3>1 DEF Count
    <3>3. QED
      BY <1>3, <2>1, <3>2
  <2>3. Makes(running) # {}
    BY <1>3, <2>1, <2>2, CurrentStep
  <2>4. OperationType(running) = "READ"
    BY <1>3, <2>1 DEF ReadersOnly, Pending, Idle
  <2>5. QED
    BY <2>3, <2>4 DEF OperationType, ReadersChangeNothing
<1>4. TypeOK /\ ReadersOnly /\ [Next]_vars
        => [mode = "read_only" /\ done' # done
              => late' # late \/ running \notin DOMAIN Class]_vars
  BY <1>3
<1>5. QED
  BY <1>1, <1>2, <1>4, RunnerTypes, PTL DEF Spec, ReadOnlyHolds
-----------------------------------------------------------------------------
(* The note that a tool has still to post is paid for, once the request for*)
(* the status is behind it.                                                *)
Paid == Due("note") /\ ~Due("incident")
Notes == done["note"] + late["note"]

NotesArePaid ==
  /\ Notes <= done["incident"]
  /\ Paid => Notes < done["incident"]
  /\ Idle => at = 1

(* The one status request before a note: it is due until it is answered.   *)
LEMMA StatusRequest ==
  ASSUME TypeOK, OneRequestPerChange, StatusBeforeNote, ~Idle,
         NEW i \in DOMAIN Steps(running), Steps(running)[i].change = "note"
  PROVE  \E j \in DOMAIN Steps(running) :
           /\ j \in Nat /\ i \in Nat /\ j < i
           /\ Steps(running)[j].change = "incident" /\ ~Steps(running)[j].optional
           /\ \A f \in Faults : Steps(running)[j].on[f] \subseteq Endings
           /\ \A k \in DOMAIN Steps(running) :
                Steps(running)[k].change = "incident" => k = j
<1>1. running \in Tools /\ Steps(running) \in Seq(Step)
  BY RunnerAssumption DEF TypeOK, Idle
<1>2. PICK j \in DOMAIN Steps(running) :
        /\ j < i /\ Steps(running)[j].change = "incident"
        /\ ~Steps(running)[j].optional
        /\ \A f \in Faults : Steps(running)[j].on[f] \subseteq Endings
  BY <1>1 DEF StatusBeforeNote
<1>3. j \in Nat /\ i \in Nat
  BY <1>1
<1>4. \A k \in DOMAIN Steps(running) : Steps(running)[k].change = "incident" => k = j
  BY <1>1, <1>2 DEF OneRequestPerChange, Changes
<1>5. QED
  BY <1>2, <1>3, <1>4

(* When the note is about to be posted, the status has been accepted.      *)
LEMMA PostedIsPaid ==
  ASSUME TypeOK, OneRequestPerChange, StatusBeforeNote, Pending, "note" \in Change
  PROVE  Paid
<1>1. Due("note")
  BY CurrentIsDue
<1>2. /\ at \in DOMAIN Steps(running) /\ Steps(running)[at].change = "note" /\ ~Idle
      /\ at \in Nat
  BY DEF Pending, Change, Current, TypeOK
<1>3. PICK j \in DOMAIN Steps(running) :
        /\ j \in Nat /\ j < at
        /\ \A k \in DOMAIN Steps(running) :
             Steps(running)[k].change = "incident" => k = j
  BY <1>2, StatusRequest
<1>4. ~Due("incident")
  BY <1>2, <1>3 DEF Due
<1>5. QED
  BY <1>1, <1>4 DEF Paid

(* A tool that goes on to its note has had the status accepted, now or     *)
(* before: the request cannot be left out, and no fault of it lets it go   *)
(* on.                                                                     *)
LEMMA GoingOnToTheNote ==
  ASSUME TypeOK, TypeOK', OneRequestPerChange, StatusBeforeNote, Pending,
         running' = running, stuck' = stuck,
         at' = at + 1 \/ (at' = at /\ Current.repeated), Paid'
  PROVE  /\ "note" \notin Change
         /\ \/ Paid
            \/ /\ "incident" \in Change /\ ~Current.optional
               /\ \A f \in Faults : Current.on[f] \subseteq Endings
<1>0. "note" \in Changes /\ "incident" \in Changes
  BY DEF Changes
<1>1. Due("note") /\ "note" \notin Change
  BY <1>0, GoingOn DEF Paid
<1>2. CASE ~Due("incident")
  BY <1>1, <1>2 DEF Paid
<1>3. CASE Due("incident")
  <2>1. PICK i \in DOMAIN Steps(running) : i >= at /\ Steps(running)[i].change = "note"
    BY <1>1 DEF Due
  <2>2. ~Idle /\ ~stuck /\ at \in Nat /\ at' \in Nat
    BY DEF Pending, TypeOK
  <2>3. PICK j \in DOMAIN Steps(running) :
          /\ j \in Nat
          /\ Steps(running)[j].change = "incident" /\ ~Steps(running)[j].optional
          /\ \A f \in Faults : Steps(running)[j].on[f] \subseteq Endings
          /\ \A k \in DOMAIN Steps(running) :
               Steps(running)[k].change = "incident" => k = j
    BY <2>1, <2>2, StatusRequest
  <2>4. j >= at
    BY <1>3, <2>3 DEF Due
  <2>5. ~(j >= at')
    <3>1. ~Idle' /\ ~stuck' /\ ~Due("incident")'
      BY <2>2 DEF Paid, Idle
    <3>2. QED
      BY <2>3, <3>1 DEF Due
  <2>6. j = at
    BY <2>2, <2>3, <2>4, <2>5
  <2>7. QED
    BY <1>0, <1>1, <2>3, <2>6 DEF Change, Current
<1>4. QED
  BY <1>2, <1>3

(* A request, and where it leaves the tool.                                *)
LEMMA RequestsKeepNotesPaid ==
  ASSUME TypeOK, TypeOK', OneRequestPerChange, StatusBeforeNote, NotesArePaid, Pending,
         "note" \in Change => Notes' <= Notes + 1,
         "note" \notin Change => Notes' = Notes,
         done'["incident"] >= done["incident"],
         \/ running' = NoCall /\ at' = 1
         \/ running' = running /\ stuck'
         \/ /\ running' = running /\ stuck' = stuck
            /\ at' = at + 1 \/ (at' = at /\ Current.repeated)
            /\ ("incident" \in Change /\ ~Current.optional
                  /\ \A f \in Faults : Current.on[f] \subseteq Endings)
                 => done'["incident"] > done["incident"]
  PROVE  NotesArePaid'
<1>1. /\ Notes \in Nat /\ Notes' \in Nat
      /\ done["incident"] \in Nat /\ done'["incident"] \in Nat
  BY DEF TypeOK, Notes, Changes
<1>2. Notes' <= done'["incident"]
  BY <1>1, PostedIsPaid DEF NotesArePaid
<1>3. ASSUME Paid'
      PROVE  Notes' < done'["incident"]
  <2>1. running' # NoCall /\ ~stuck'
    BY <1>3 DEF Paid, Due, Idle
  <2>2. /\ running' = running /\ stuck' = stuck
        /\ at' = at + 1 \/ (at' = at /\ Current.repeated)
        /\ ("incident" \in Change /\ ~Current.optional
              /\ \A f \in Faults : Current.on[f] \subseteq Endings)
             => done'["incident"] > done["incident"]
    BY <2>1
  <2>3. /\ "note" \notin Change
        /\ \/ Paid
           \/ /\ "incident" \in Change /\ ~Current.optional
              /\ \A f \in Faults : Current.on[f] \subseteq Endings
    BY <1>3, <2>2, GoingOnToTheNote
  <2>4. Notes' = Notes
    BY <2>3
  <2>5. CASE Paid
    BY <1>1, <2>4, <2>5 DEF NotesArePaid
  <2>6. CASE ~Paid
    <3>1. done'["incident"] > done["incident"]
      BY <2>2, <2>3, <2>6
    <3>2. QED
      BY <1>1, <2>4, <3>1 DEF NotesArePaid
  <2>7. QED
    BY <2>5, <2>6
<1>4. Idle' => at' = 1
  BY DEF Pending, Idle
<1>5. QED
  BY <1>2, <1>3, <1>4 DEF NotesArePaid

LEMMA NotesArePaidStays ==
  ASSUME TypeOK, TypeOK', OneRequestPerChange, StatusBeforeNote, NotesArePaid, [Next]_vars
  PROVE  NotesArePaid'
<1>0. "note" \in Changes /\ "incident" \in Changes
  BY DEF Changes
<1>1. ASSUME NEW f \in Faults, Effect(f)
      PROVE  /\ "note" \in Change => Notes' <= Notes + 1
             /\ "note" \notin Change => Notes' = Notes
             /\ done'["incident"] >= done["incident"]
  BY <1>0, <1>1, EffectCounts DEF Notes
<1>2. ASSUME NEW t \in Tools, CallTool(t) PROVE NotesArePaid'
  <2>1. /\ Idle /\ running' = t /\ UNCHANGED <<at, stuck, done, late>> /\ at' = 1
    BY <1>2 DEF CallTool, NotesArePaid
  <2>2. ~Idle' /\ Steps(running') \in Seq(Step) /\ running' \in Tools
    BY <2>1, RunnerAssumption DEF Idle
  <2>3. ASSUME Paid' PROVE FALSE
    <3>1. PICK i \in DOMAIN Steps(running') : Steps(running')[i].change = "note"
      BY <2>3 DEF Paid, Due
    <3>2. PICK j \in DOMAIN Steps(running') : Steps(running')[j].change = "incident"
      BY <2>2, <3>1 DEF StatusBeforeNote
    <3>3. j >= at'
      BY <2>1, <2>2
    <3>4. Due("incident")'
      BY <2>2, <2>3, <3>2, <3>3 DEF Paid, Due
    <3>5. QED
      BY <2>3, <3>4 DEF Paid
  <2>4. QED
    BY <2>1, <2>2, <2>3 DEF NotesArePaid, Notes
<1>3. CASE Refuse \/ Return
  <2>1. UNCHANGED <<done, late>> /\ running' = NoCall /\ at' = 1
    BY <1>3 DEF Refuse, Return, Answer, EndCall
  <2>2. QED
    BY <2>1 DEF NotesArePaid, Notes, Paid, Due, Idle
<1>4. CASE SkipStep
  <2>1. /\ UNCHANGED <<done, late, running, stuck>> /\ at' = at + 1 /\ Pending
        /\ Current.optional
    BY <1>4 DEF SkipStep, world
  <2>2. Notes' = Notes /\ Notes \in Nat /\ done["incident"] \in Nat
    BY <1>0, <2>1 DEF Notes, TypeOK
  <2>3. QED
    BY <1>0, <2>1, <2>2, RequestsKeepNotesPaid
<1>5. CASE Succeed
  <2>1. Pending /\ UNCHANGED late
    BY <1>5 DEF Succeed
  <2>2. \A c \in Changes : done'[c] = IF c \in Change THEN done[c] + 1 ELSE done[c]
    BY <1>5, CountType DEF Succeed, TypeOK
  <2>3. \/ running' = NoCall /\ at' = 1
        \/ /\ running' = running /\ stuck' = stuck
           /\ at' = at + 1 \/ (at' = at /\ Current.repeated)
    BY <1>5 DEF Succeed, GoOn, Answer, EndCall
  <2>4. /\ done["note"] \in Nat /\ late["note"] \in Nat /\ done["incident"] \in Nat
    BY <1>0 DEF TypeOK
  <2>5. /\ "note" \in Change => Notes' <= Notes + 1
        /\ "note" \notin Change => Notes' = Notes
        /\ done'["incident"] >= done["incident"]
        /\ "incident" \in Change => done'["incident"] > done["incident"]
    BY <1>0, <2>1, <2>2, <2>4 DEF Notes
  <2>6. QED
    BY <2>1, <2>3, <2>5, RequestsKeepNotesPaid
<1>6. ASSUME NEW f \in Faults, NEW r, Fault(f, r) PROVE NotesArePaid'
  <2>1. Pending /\ Effect(f) /\ r \in Current.on[f]
    BY <1>6 DEF Fault
  <2>2. \/ running' = NoCall /\ at' = 1
        \/ /\ running' = running /\ stuck' = stuck
           /\ at' = at + 1 \/ (at' = at /\ Current.repeated)
           /\ r \in {"handled", "ignored"}
    BY <1>6 DEF Fault, GoOn, Answer, EndCall
  <2>3. {"handled", "ignored"} \cap Endings = {}
    BY DEF Endings
  <2>4. QED
    BY <1>1, <2>1, <2>2, <2>3, RequestsKeepNotesPaid
<1>7. CASE Hang
  <2>1. Pending /\ Effect("lost") /\ stuck' /\ running' = running
    BY <1>7 DEF Hang
  <2>2. "lost" \in Faults
    BY DEF Faults
  <2>3. QED
    BY <1>1, <2>1, <2>2, RequestsKeepNotesPaid
<1>8. CASE ProbeKill
  <2>1. running' = NoCall /\ at' = 1
    BY <1>8 DEF ProbeKill, EndCall
  <2>2. CASE Pending
    <3>1. Effect("lost") /\ "lost" \in Faults
      BY <1>8, <2>2 DEF ProbeKill, Faults
    <3>2. QED
      BY <1>1, <2>1, <2>2, <3>1, RequestsKeepNotesPaid
  <2>3. CASE ~Pending
    BY <1>8, <2>1, <2>3 DEF ProbeKill, Unserved, NotesArePaid, Notes, Paid, Due, Idle
  <2>4. QED
    BY <2>2, <2>3
<1>9. ASSUME NEW c \in Changes, Land(c) PROVE NotesArePaid'
  <2>1. /\ done["note"] \in Nat /\ late["note"] \in Nat /\ done["incident"] \in Nat
    BY <1>0 DEF TypeOK
  <2>2. Notes' = Notes /\ done'["incident"] >= done["incident"]
    BY <1>0, <1>9, <2>1 DEF Land, Notes, TypeOK
  <2>3. UNCHANGED <<running, at, stuck>>
    BY <1>9 DEF Land, call
  <2>4. Notes' \in Nat /\ done'["incident"] \in Nat
    BY <1>0 DEF TypeOK, Notes
  <2>5. (Paid' <=> Paid) /\ (Idle' <=> Idle)
    BY <2>3 DEF Paid, Due, Idle
  <2>6. QED
    BY <2>1, <2>2, <2>3, <2>4, <2>5 DEF NotesArePaid
<1>10. CASE ChangeMode \/ UNCHANGED vars
  BY <1>10 DEF ChangeMode, vars, call, world, NotesArePaid, Notes, Paid, Due, Idle
<1>11. QED
  BY <1>2, <1>3, <1>4, <1>5, <1>6, <1>7, <1>8, <1>9, <1>10 DEF Next, Advance

(* No note stands at an incident whose status was not accepted, not even   *)
(* one that is served late, for every catalogue whose tools ask for the    *)
(* status first and stop when that fails.                                  *)
THEOREM NotesComeSecond ==
  ASSUME OneRequestPerChange, StatusBeforeNote
  PROVE  Spec => []NotesFollowStatus
<1>1. Init => NotesArePaid
  BY DEF Init, NotesArePaid, Notes, Paid, Due, Idle, Changes
<1>2. TypeOK /\ TypeOK' /\ NotesArePaid /\ [Next]_vars => NotesArePaid'
  BY NotesArePaidStays
<1>3. NotesArePaid => NotesFollowStatus
  BY DEF NotesArePaid, NotesFollowStatus, Notes
<1>4. QED
  BY <1>1, <1>2, <1>3, RunnerTypes, PTL DEF Spec
=============================================================================
