------------------------- MODULE AgentServiceProofs -------------------------
(***************************************************************************)
(* The agent process keeps its types, runs no query whose answer is cached,*)
(* lets no query outlive the permissions it ran tools under, and starts no *)
(* tool before its line is in the audit log, for every set of tools,       *)
(* sessions and requests and every bound.                                  *)
(***************************************************************************)
EXTENDS AgentService, TLAPS

(* The rest of TypeOK by the actions that change it.  A tool runs within   *)
(* an iteration that the executor had left, which TypeOK does not say.     *)
QueryOK ==
  /\ turns \in 0..MaxIterations
  /\ phase \in {"idle", "judged", "audited", "running"}
  /\ tool \in (IF phase = "idle" THEN {NoTool} ELSE Tools)
  /\ phase # "idle" => turns < MaxIterations /\ ~LoopIsFree
  /\ verdict \in BOOLEAN /\ missed \in BOOLEAN
  /\ ran \in Seq(Tools) /\ log \in Seq(Tools)

StoreOK ==
  /\ cached \in [Keys -> {Answer, Miss}]
  /\ found \in {Answer, Miss}

MemoryOK == memory \in Seq(Keys) /\ Len(memory) <= MemoryWindow

RestOK ==
  /\ PermissionTypes
  /\ {setting, posted} \subseteq Settings
  /\ diskOK \in BOOLEAN

(* The steps by which a query goes on.                                     *)
CallStep ==
  \/ \E t \in Tools : CallTool(t)
  \/ Audit
  \/ StartTool
  \/ RefuseTool
  \/ MisunderstandReply
  \/ ToolReturns

(* They concern that query alone.                                          *)
LEMMA CallStepsAreTheQuerys ==
  ASSUME CallStep
  PROVE  UNCHANGED <<permissions, requests, serving, store, memory, config, diskOK>>
BY DEF CallStep, CallTool, Audit, StartTool, RefuseTool, MisunderstandReply, ToolReturns

(* Taking the first request off the queue.                                 *)
LEMMA TailOfQueue ==
  ASSUME NEW S, NEW q \in Seq(S), q # <<>>
  PROVE  /\ Head(q) = q[1] /\ Head(q) \in S /\ 1 \in DOMAIN q
         /\ Tail(q) \in Seq(S)
         /\ DOMAIN Tail(q) = 1..(Len(q) - 1)
         /\ DOMAIN q = 1..Len(q)
         /\ \A i \in DOMAIN Tail(q) : i + 1 \in DOMAIN q /\ Tail(q)[i] = q[i + 1]
         /\ \A i \in DOMAIN q : i # 1 => i - 1 \in DOMAIN Tail(q)
                                        /\ Tail(q)[i - 1] = q[i]
OBVIOUS

LEMMA ArriveKeepsRequests ==
  ASSUME ServiceAssumption, RequestsOK, NEW r \in Requests, NEW key \in Keys,
         Arrive(r, key)
  PROVE  RequestsOK'
<1>1. r # serving /\ ~Queued(r)
  BY DEF ServiceAssumption, RequestsOK, Arrive, Queued
<1>2. \A x : Queued(x)' <=> Queued(x) \/ x = r
  BY DEF RequestsOK, Arrive, Queued
<1>3. /\ waiting' \in Seq(Requests)
      /\ \A i, j \in DOMAIN waiting' : waiting'[i] = waiting'[j] => i = j
  BY <1>1 DEF RequestsOK, Arrive, Queued
<1>4. QED
  BY <1>1, <1>2, <1>3 DEF ServiceAssumption, RequestsOK, Arrive

(* The queue without its head holds the other requests, each once.         *)
LEMMA PopKeepsOthers ==
  ASSUME RequestsOK, waiting # <<>>, waiting' = Tail(waiting)
  PROVE  /\ waiting' \in Seq(Requests)
         /\ \A i, j \in DOMAIN waiting' : waiting'[i] = waiting'[j] => i = j
         /\ Head(waiting) \in Requests /\ Queued(Head(waiting))
         /\ \A r \in Requests : Queued(r)' <=> r # Head(waiting) /\ Queued(r)
<1> DEFINE tail == Tail(waiting)
<1>1. /\ Head(waiting) = waiting[1] /\ Head(waiting) \in Requests
      /\ 1 \in DOMAIN waiting
      /\ tail \in Seq(Requests)
      /\ DOMAIN tail = 1..(Len(waiting) - 1)
      /\ DOMAIN waiting = 1..Len(waiting)
      /\ \A i \in DOMAIN tail : i + 1 \in DOMAIN waiting /\ tail[i] = waiting[i + 1]
      /\ \A i \in DOMAIN waiting : i # 1 => i - 1 \in DOMAIN tail
                                            /\ tail[i - 1] = waiting[i]
  BY TailOfQueue DEF RequestsOK
<1> HIDE DEF tail
<1>2. waiting' = tail
  BY DEF tail
<1>3. \A i, j \in DOMAIN tail : tail[i] = tail[j] => i = j
  <2> SUFFICES ASSUME NEW i \in DOMAIN tail, NEW j \in DOMAIN tail, tail[i] = tail[j]
               PROVE  i = j
    OBVIOUS
  <2>1. i + 1 = j + 1
    BY <1>1 DEF RequestsOK
  <2>2. QED
    BY <1>1, <2>1
<1>4. ASSUME NEW r \in Requests
      PROVE  (\E i \in DOMAIN tail : tail[i] = r)
             <=> r # Head(waiting) /\ \E i \in DOMAIN waiting : waiting[i] = r
  <2>1. ASSUME NEW i \in DOMAIN tail, tail[i] = r
        PROVE  r # Head(waiting) /\ \E j \in DOMAIN waiting : waiting[j] = r
    <3>1. i + 1 \in DOMAIN waiting /\ waiting[i + 1] = r /\ i + 1 # 1
      BY <1>1, <2>1
    <3>2. waiting[i + 1] # waiting[1]
      BY <1>1, <3>1 DEF RequestsOK
    <3>3. QED
      BY <1>1, <3>1, <3>2
  <2>2. ASSUME NEW i \in DOMAIN waiting, waiting[i] = r, r # Head(waiting)
        PROVE  \E j \in DOMAIN tail : tail[j] = r
    BY <1>1, <2>2
  <2>3. QED
    BY <2>1, <2>2
<1>5. QED
  BY <1>1, <1>2, <1>3, <1>4 DEF Queued

(* The head of the queue, once its request is answered, is out of the queue*)
(* and of asked; once its query starts, it is served instead of waiting.   *)
LEMMA TakeKeepsRequests ==
  ASSUME ServiceAssumption, RequestsOK, AnswerFromCache \/ StartQuery
  PROVE  RequestsOK'
<1>1. /\ serving = Nobody /\ Nobody \notin Requests /\ NoKey \notin Keys
      /\ waiting # <<>> /\ waiting' = Tail(waiting)
  BY DEF ServiceAssumption, AnswerFromCache, StartQuery, LoopIsFree
<1>2. /\ waiting' \in Seq(Requests)
      /\ \A i, j \in DOMAIN waiting' : waiting'[i] = waiting'[j] => i = j
      /\ Head(waiting) \in Requests /\ Queued(Head(waiting))
      /\ \A r \in Requests : Queued(r)' <=> r # Head(waiting) /\ Queued(r)
  BY <1>1, PopKeepsOthers
<1>3. \A r \in Requests : asked[r] # NoKey <=> Queued(r)
  BY <1>1 DEF RequestsOK, Queued
<1>4. \/ asked' = [asked EXCEPT ![Head(waiting)] = NoKey] /\ serving' = serving
      \/ asked' = asked /\ serving' = Head(waiting)
  BY DEF AnswerFromCache, StartQuery
<1>5. asked' \in [Requests -> Keys \cup {NoKey}] /\ serving' \in Requests \cup {Nobody}
  BY <1>2, <1>4 DEF RequestsOK
<1>6. \A r \in Requests : asked'[r] # NoKey <=> r = serving' \/ Queued(r)'
  BY <1>1, <1>2, <1>3, <1>4 DEF RequestsOK
<1>7. ~Queued(serving)'
  <2>1. CASE serving' = Nobody
    BY <1>1, <1>2, <2>1 DEF Queued
  <2>2. CASE serving' = Head(waiting)
    BY <1>2, <2>2 DEF Queued
  <2>3. QED
    BY <1>1, <1>4, <2>1, <2>2
<1>8. QED
  BY <1>2, <1>5, <1>6, <1>7 DEF RequestsOK, Queued

LEMMA RespondKeepsRequests ==
  ASSUME ServiceAssumption, RequestsOK, ~LoopIsFree, Respond
  PROVE  RequestsOK'
<1>1. /\ ~Queued(serving) /\ \A x : Queued(x)' <=> Queued(x)
      /\ asked' = [asked EXCEPT ![serving] = NoKey]
      /\ serving' = Nobody /\ Nobody \notin Requests
      /\ waiting' = waiting
  BY DEF ServiceAssumption, RequestsOK, Respond, Queued
<1>2. ~Queued(Nobody)
  BY <1>1 DEF RequestsOK, Queued
<1>3. QED
  BY <1>1, <1>2 DEF RequestsOK, LoopIsFree, Queued

LEMMA RequestsStayOK == RequestsOK /\ QueryOK /\ [Next]_vars => RequestsOK'
<1> SUFFICES ASSUME RequestsOK, QueryOK, [Next]_vars
             PROVE  RequestsOK'
  OBVIOUS
<1>1. ASSUME NEW r \in Requests, NEW key \in Keys, Arrive(r, key)
      PROVE  RequestsOK'
  BY <1>1, ArriveKeepsRequests, ServiceAssumption
<1>2. CASE AnswerFromCache \/ StartQuery
  BY <1>2, TakeKeepsRequests, ServiceAssumption
<1>3. CASE Finish \/ Fail
  <2>1. ~LoopIsFree /\ Respond
    BY <1>3 DEF Finish, Fail, Thinking, LoopIsFree, QueryOK
  <2>2. QED
    BY <2>1, RespondKeepsRequests, ServiceAssumption
<1>4. CASE Restart
  BY <1>4, ServiceAssumption DEF Restart, RequestsOK, Queued
<1>5. CASE UNCHANGED <<requests, serving>>
  BY <1>5 DEF requests, RequestsOK, Queued
<1>6. CASE CallStep \/ Administer \/ (\E v \in Settings : UpdateConfig(v))
           \/ CacheLoses \/ DiskChanges \/ UNCHANGED vars
  <2>1. UNCHANGED <<requests, serving>>
    BY <1>6, CallStepsAreTheQuerys
       DEF Administer, UpdateConfig, CacheLoses, DiskChanges, vars
  <2>2. QED
    BY <2>1, <1>5
<1>7. QED
  BY <1>1, <1>2, <1>3, <1>4, <1>6 DEF Next, Step, CallStep

LEMMA QueryStaysOK == QueryOK /\ [Next]_vars => QueryOK'
<1> SUFFICES ASSUME QueryOK, [Next]_vars
             PROVE  QueryOK'
  OBVIOUS
<1> USE ServiceAssumption DEF ServiceAssumption
<1>1. CASE StartQuery
  <2>1. verdict' \in BOOLEAN /\ missed' \in BOOLEAN
    BY <1>1 DEF StartQuery, call, QueryOK
  <2>2. /\ phase' = phase /\ tool' = tool /\ turns' = 0 /\ phase = "idle"
        /\ ran' = <<>> /\ log' = <<>>
    BY <1>1 DEF StartQuery, call, QueryOK
  <2>3. QED
    BY <2>1, <2>2 DEF QueryOK
<1>2. ASSUME NEW t \in Tools, CallTool(t)
      PROVE  QueryOK'
  <2>1. verdict' \in BOOLEAN
    BY <1>2 DEF CallTool, IsAllowed
  <2>2. QED
    BY <1>2, <2>1 DEF CallTool, trail, Thinking, QueryOK, LoopIsFree
<1>3. CASE Audit
  BY <1>3 DEF Audit, QueryOK, LoopIsFree
<1>4. CASE StartTool
  BY <1>4 DEF StartTool, QueryOK, LoopIsFree
<1>5. CASE RefuseTool \/ ToolReturns
  <2>1. CallEnds /\ turns' = turns + 1 /\ turns < MaxIterations /\ UNCHANGED trail
    BY <1>5 DEF RefuseTool, ToolReturns, QueryOK
  <2>2. verdict' \in BOOLEAN /\ missed' \in BOOLEAN
    BY <2>1 DEF CallEnds, trail, QueryOK
  <2>3. phase' = "idle" /\ tool' = NoTool /\ ran' = ran /\ log' = log
    BY <2>1 DEF CallEnds, trail
  <2>4. QED
    BY <2>1, <2>2, <2>3 DEF QueryOK
<1>6. CASE MisunderstandReply
  BY <1>6 DEF MisunderstandReply, Thinking, call, trail, QueryOK
<1>7. CASE Finish \/ Fail \/ Restart
  <2>1. CallEnds /\ UNCHANGED trail /\ (turns' = turns \/ turns' = 0)
    BY <1>7 DEF Finish, Fail, Respond, Restart
  <2>2. verdict' \in BOOLEAN /\ missed' \in BOOLEAN
    BY <2>1 DEF CallEnds, trail, QueryOK
  <2>3. phase' = "idle" /\ tool' = NoTool /\ ran' = ran /\ log' = log
    BY <2>1 DEF CallEnds, trail
  <2>4. QED
    BY <2>1, <2>2, <2>3 DEF QueryOK
<1>8. CASE \/ \E r \in Requests, key \in Keys : Arrive(r, key)
           \/ AnswerFromCache \/ Administer
           \/ \E v \in Settings : UpdateConfig(v)
           \/ CacheLoses \/ DiskChanges \/ UNCHANGED vars
  BY <1>8 DEF Arrive, AnswerFromCache, Administer, UpdateConfig, CacheLoses,
              DiskChanges, vars, query, call, trail, QueryOK, LoopIsFree
<1>9. QED
  BY <1>1, <1>2, <1>3, <1>4, <1>5, <1>6, <1>7, <1>8 DEF Next, Step

(* What is looked up, stored and forgotten is an answer or Miss.           *)
LEMMA StoreStaysOK == RequestsOK /\ StoreOK /\ [Next]_vars => StoreOK'
<1> SUFFICES ASSUME RequestsOK, StoreOK, [Next]_vars
             PROVE  StoreOK'
  OBVIOUS
<1>1. CASE AnswerFromCache \/ StartQuery
  <2>1. PICK r \in Requests : asked[r] \in Keys /\ QueryCache!Lookup(asked[r])
    BY <1>1, TailOfQueue DEF AnswerFromCache, StartQuery, RequestsOK, Queued
  <2>2. QED
    BY <2>1 DEF QueryCache!Lookup, StoreOK
<1>2. CASE Finish
  <2>1. PICK key \in Keys, lost \in SUBSET Keys : QueryCache!Put(key, Answer, lost)
    BY <1>2 DEF Finish, LoopIsFree, RequestsOK
  <2>2. QED
    BY <2>1 DEF QueryCache!Put, QueryCache!Forget, StoreOK
<1>3. CASE CacheLoses
  BY <1>3 DEF CacheLoses, QueryCache!Lose, QueryCache!Forget, StoreOK
<1>4. CASE Restart
  BY <1>4 DEF Restart, StoreOK
<1>5. CASE \/ \E r \in Requests, key \in Keys : Arrive(r, key)
           \/ CallStep \/ Fail \/ Administer
           \/ \E v \in Settings : UpdateConfig(v)
           \/ DiskChanges \/ UNCHANGED vars
  <2>1. UNCHANGED store
    BY <1>5, CallStepsAreTheQuerys
       DEF Arrive, Fail, Administer, UpdateConfig, DiskChanges, vars
  <2>2. QED
    BY <2>1 DEF store, StoreOK
<1>6. QED
  BY <1>1, <1>2, <1>3, <1>4, <1>5 DEF Next, Step, CallStep

LEMMA MemoryStaysOK == RequestsOK /\ MemoryOK /\ [Next]_vars => MemoryOK'
<1> SUFFICES ASSUME RequestsOK, MemoryOK, [Next]_vars
             PROVE  MemoryOK'
  OBVIOUS
<1>1. ASSUME NEW key \in Keys, Remember(key)
      PROVE  MemoryOK'
  <2>1. CASE Len(memory) < MemoryWindow
    BY <1>1, <2>1, ServiceAssumption DEF Remember, MemoryOK, ServiceAssumption
  <2>2. CASE ~(Len(memory) < MemoryWindow)
    <3>1. Len(memory) = MemoryWindow /\ memory # <<>>
      BY <2>2, ServiceAssumption DEF MemoryOK, ServiceAssumption
    <3>2. Tail(memory) \in Seq(Keys) /\ Len(Tail(memory)) = Len(memory) - 1
      BY <3>1 DEF MemoryOK
    <3>3. QED
      BY <1>1, <2>2, <3>1, <3>2, ServiceAssumption
         DEF Remember, MemoryOK, ServiceAssumption
  <2>3. QED
    BY <2>1, <2>2
<1>2. CASE Finish
  <2>1. asked[serving] \in Keys
    BY <1>2 DEF Finish, LoopIsFree, RequestsOK
  <2>2. QED
    BY <1>1, <1>2, <2>1 DEF Finish
<1>3. CASE Restart
  BY <1>3, ServiceAssumption DEF Restart, MemoryOK, ServiceAssumption
<1>4. CASE \/ \E r \in Requests, key \in Keys : Arrive(r, key)
           \/ AnswerFromCache \/ StartQuery \/ CallStep \/ Fail \/ Administer
           \/ \E v \in Settings : UpdateConfig(v)
           \/ CacheLoses \/ DiskChanges \/ UNCHANGED vars
  <2>1. UNCHANGED memory
    BY <1>4, CallStepsAreTheQuerys
       DEF Arrive, AnswerFromCache, StartQuery, Fail, Administer, UpdateConfig,
           CacheLoses, DiskChanges, vars
  <2>2. QED
    BY <2>1 DEF MemoryOK
<1>5. QED
  BY <1>2, <1>3, <1>4 DEF Next, Step, CallStep

LEMMA RestStaysOK == RestOK /\ [Next]_vars => RestOK'
<1> SUFFICES ASSUME RestOK, [Next]_vars
             PROVE  RestOK'
  OBVIOUS
<1>1. CASE Administer
  BY <1>1, ServiceAssumption
     DEF Administer, SetMode, AddDenyTool, RemoveDenyTool, SetAllowedTools, config,
         RestOK, PermissionTypes, ServiceAssumption
<1>2. CASE Restart
  BY <1>2, ServiceAssumption
     DEF Restart, ResetPermissions, FreshPermissions, Reload, RestOK,
         PermissionTypes, Modes, ServiceAssumption
<1>3. ASSUME NEW v \in Settings, UpdateConfig(v)
      PROVE  RestOK'
  BY <1>3, ServiceAssumption
     DEF UpdateConfig, Reload, permissions, RestOK, PermissionTypes, ServiceAssumption
<1>4. CASE DiskChanges
  BY <1>4 DEF DiskChanges, permissions, config, RestOK, PermissionTypes
<1>5. CASE \/ \E r \in Requests, key \in Keys : Arrive(r, key)
           \/ AnswerFromCache \/ StartQuery \/ CallStep \/ Finish \/ Fail
           \/ CacheLoses \/ UNCHANGED vars
  <2>1. UNCHANGED <<permissions, config, diskOK>>
    BY <1>5, CallStepsAreTheQuerys
       DEF Arrive, AnswerFromCache, StartQuery, Finish, Fail, CacheLoses, vars
  <2>2. QED
    BY <2>1 DEF permissions, config, RestOK, PermissionTypes
<1>6. QED
  BY <1>1, <1>2, <1>3, <1>4, <1>5 DEF Next, Step, CallStep

Typed == RequestsOK /\ QueryOK /\ StoreOK /\ MemoryOK /\ RestOK

LEMMA TypedInit == Init => Typed
<1> SUFFICES ASSUME Init
             PROVE  Typed
  OBVIOUS
<1> USE ServiceAssumption DEF Init, ServiceAssumption
<1>1. RequestsOK
  BY DEF RequestsOK, Queued
<1>2. QueryOK /\ MemoryOK
  <2>1. verdict \in BOOLEAN /\ missed \in BOOLEAN
    OBVIOUS
  <2>2. ran \in Seq(Tools) /\ log \in Seq(Tools) /\ memory \in Seq(Keys)
    OBVIOUS
  <2>3. QED
    BY <2>1, <2>2 DEF QueryOK, MemoryOK
<1>3. StoreOK
  BY DEF StoreOK, QueryCache!Init
<1>4. RestOK
  BY DEF RestOK, InitPermissions, FreshPermissions, PermissionTypes, Modes
<1>5. QED
  BY <1>1, <1>2, <1>3, <1>4 DEF Typed

LEMMA TypedNext == Typed /\ [Next]_vars => Typed'
BY RequestsStayOK, QueryStaysOK, StoreStaysOK, MemoryStaysOK, RestStaysOK DEF Typed

LEMMA TypedInvariant == Spec => []Typed
BY TypedInit, TypedNext, PTL DEF Spec

(* The service keeps its types, whatever the interleaving of requests,     *)
(* administrators, failures and restarts: in particular every request in   *)
(* hand is in exactly one place, so that none is answered twice.           *)
THEOREM ServiceTypes == Spec => []TypeOK
<1>1. Typed => TypeOK
  BY DEF Typed, TypeOK, RequestsOK, QueryOK, StoreOK, MemoryOK, RestOK
<1>2. QED
  BY <1>1, TypedInvariant, PTL
-----------------------------------------------------------------------------
(* A query in progress only has tools behind it that are permitted now:    *)
(* the permissions never change under it.                                  *)
THEOREM QueriesKeepToThePermissions == Spec => []RunsStayPermitted
<1> DEFINE Inv == /\ RunsStayPermitted
                  /\ phase # "idle" => (verdict <=> IsAllowed(tool))
<1>1. Init => Inv
  BY DEF Init, RunsStayPermitted, LoopIsFree
<1>2. Typed /\ Inv /\ [Next]_vars => Inv'
  <2> SUFFICES ASSUME Typed, Inv, [Next]_vars
               PROVE  Inv'
    OBVIOUS
  <2>1. ASSUME UNCHANGED permissions
        PROVE  \A t : IsAllowed(t)' <=> IsAllowed(t)
    BY <2>1 DEF permissions, IsAllowed
  <2>2. ran \in Seq(Tools) /\ (LoopIsFree => phase = "idle")
    BY DEF Typed, QueryOK
  <2>3. ASSUME NEW t \in Tools, CallTool(t)
        PROVE  Inv'
    BY <2>1, <2>3 DEF CallTool, trail, RunsStayPermitted, LoopIsFree
  <2>4. CASE Audit
    BY <2>1, <2>4 DEF Audit, RunsStayPermitted, LoopIsFree
  <2>5. CASE StartTool
    <3>1. /\ \A t : IsAllowed(t)' <=> IsAllowed(t)
          /\ phase = "audited" /\ verdict /\ phase' = "running"
          /\ ran' = Append(ran, tool) /\ UNCHANGED <<serving, tool, verdict>>
      BY <2>1, <2>5 DEF StartTool
    <3>2. IsAllowed(tool) /\ (verdict' <=> IsAllowed(tool)')
      BY <3>1
    <3>3. \A i \in DOMAIN ran' : (i \in DOMAIN ran /\ ran'[i] = ran[i]) \/ ran'[i] = tool
      BY <2>2, <3>1
    <3>4. RunsStayPermitted'
      BY <3>1, <3>2, <3>3 DEF RunsStayPermitted, LoopIsFree
    <3>5. QED
      BY <3>1, <3>2, <3>4
  <2>6. CASE RefuseTool \/ MisunderstandReply \/ ToolReturns
    BY <2>1, <2>6
       DEF RefuseTool, MisunderstandReply, Thinking, ToolReturns, CallEnds, call, trail,
           RunsStayPermitted, LoopIsFree
  <2>7. CASE StartQuery
    BY <2>2, <2>7 DEF StartQuery, call, RunsStayPermitted
  <2>8. CASE Administer
    BY <2>2, <2>8 DEF Administer, query, call, RunsStayPermitted, LoopIsFree
  <2>9. CASE Finish \/ Fail \/ Restart
    BY <2>9 DEF Finish, Fail, Respond, Restart, CallEnds, RunsStayPermitted, LoopIsFree
  <2>10. CASE \/ \E r \in Requests, key \in Keys : Arrive(r, key)
              \/ AnswerFromCache
              \/ \E v \in Settings : UpdateConfig(v)
              \/ CacheLoses \/ DiskChanges \/ UNCHANGED vars
    <3>1. UNCHANGED <<permissions, serving, query>>
      BY <2>10 DEF Arrive, AnswerFromCache, UpdateConfig, CacheLoses, DiskChanges, vars
    <3>2. QED
      BY <3>1, <2>1 DEF query, call, trail, RunsStayPermitted, LoopIsFree
  <2>11. QED
    BY <2>3, <2>4, <2>5, <2>6, <2>7, <2>8, <2>9, <2>10 DEF Next, Step
<1>3. QED
  BY <1>1, <1>2, TypedInvariant, PTL DEF Spec

(* While the executor works on a question, nobody else can have cached an  *)
(* answer to it: the lookup and the store are one step of the event loop.  *)
THEOREM QuestionsRunOnce == Spec => []NoDuplicateRun
<1>1. Init => NoDuplicateRun
  BY DEF Init, NoDuplicateRun, LoopIsFree
<1>2. Typed /\ NoDuplicateRun /\ [Next]_vars => NoDuplicateRun'
  <2> SUFFICES ASSUME Typed, NoDuplicateRun, [Next]_vars
               PROVE  NoDuplicateRun'
    OBVIOUS
  <2>1. ASSUME NEW r \in Requests, NEW key \in Keys, Arrive(r, key)
        PROVE  NoDuplicateRun'
    BY <2>1, ServiceAssumption
       DEF Arrive, Typed, RequestsOK, NoDuplicateRun, LoopIsFree, store,
           ServiceAssumption
  <2>2. CASE StartQuery
    BY <2>2 DEF StartQuery, QueryCache!Lookup, NoDuplicateRun
  <2>3. CASE AnswerFromCache \/ Finish \/ Fail \/ Restart
    BY <2>3 DEF AnswerFromCache, Finish, Fail, Respond, Restart, NoDuplicateRun,
                LoopIsFree
  <2>4. CASE CacheLoses
    <3>1. /\ UNCHANGED <<asked, serving>>
          /\ \A k \in Keys : cached[k] = Miss => cached'[k] = Miss
      BY <2>4 DEF CacheLoses, requests, QueryCache!Lose, QueryCache!Forget
    <3>2. ~LoopIsFree => asked[serving] \in Keys
      BY DEF Typed, RequestsOK, LoopIsFree
    <3>3. QED
      BY <3>1, <3>2 DEF NoDuplicateRun, LoopIsFree
  <2>5. CASE CallStep \/ Administer \/ (\E v \in Settings : UpdateConfig(v))
             \/ DiskChanges \/ UNCHANGED vars
    <3>1. UNCHANGED <<requests, serving, store>>
      BY <2>5, CallStepsAreTheQuerys DEF Administer, UpdateConfig, DiskChanges, vars
    <3>2. QED
      BY <3>1 DEF requests, store, NoDuplicateRun, LoopIsFree
  <2>6. QED
    BY <2>1, <2>2, <2>3, <2>4, <2>5 DEF Next, Step, CallStep
<1>3. QED
  BY <1>1, <1>2, TypedInvariant, PTL DEF Spec

(* The line of the call in progress, from its writing to the tool's start, *)
(* is the only one the log can be ahead by while its query goes on.        *)
LogKeepsPace ==
  ~missed =>
    IF phase = "audited" /\ verdict THEN log = Append(ran, tool)
    ELSE log = ran \/ (LoopIsFree /\ \E t \in Tools : log = Append(ran, t))

LEMMA LogKeepsPaceNext == Typed /\ LogKeepsPace /\ [Next]_vars => LogKeepsPace'
<1> SUFFICES ASSUME Typed, LogKeepsPace, [Next]_vars
             PROVE  LogKeepsPace'
  OBVIOUS
<1>1. QueryOK
  BY DEF Typed
<1>2. ASSUME NEW t \in Tools, CallTool(t)
      PROVE  LogKeepsPace'
  BY <1>2 DEF CallTool, Thinking, trail, LogKeepsPace, LoopIsFree
<1>3. CASE Audit
  <2>1. ~LoopIsFree /\ verdict \in BOOLEAN /\ missed \in BOOLEAN /\ phase = "judged"
    BY <1>1, <1>3 DEF Audit, QueryOK
  <2>2. ~missed => log = ran
    BY <2>1 DEF LogKeepsPace
  <2>3. QED
    BY <1>3, <2>1, <2>2 DEF Audit, LogKeepsPace
(* The tool that starts is the one of the last line.                       *)
<1>4. CASE StartTool
  BY <1>4 DEF StartTool, LogKeepsPace
<1>5. CASE RefuseTool \/ MisunderstandReply \/ ToolReturns
  <2>1. /\ ~LoopIsFree /\ ~(phase = "audited" /\ verdict) /\ phase' = "idle"
        /\ UNCHANGED trail
    BY <1>1, <1>5
       DEF RefuseTool, MisunderstandReply, Thinking, ToolReturns, CallEnds, call, QueryOK
  <2>2. ~missed' => log' = ran'
    BY <2>1 DEF trail, LogKeepsPace
  <2>3. QED
    BY <2>1, <2>2 DEF LogKeepsPace
<1>6. CASE StartQuery
  BY <1>1, <1>6 DEF StartQuery, call, LogKeepsPace, QueryOK
<1>7. CASE Finish \/ Fail
  BY <1>7 DEF Finish, Fail, Thinking, Respond, CallEnds, trail, LogKeepsPace, LoopIsFree
(* A kill in between leaves the line of a tool that will not start.        *)
<1>8. CASE Restart
  <2>1. serving' = Nobody /\ phase' = "idle" /\ UNCHANGED trail
    BY <1>8 DEF Restart, CallEnds
  <2>2. phase = "audited" => tool \in Tools
    BY <1>1 DEF QueryOK
  <2>3. QED
    BY <2>1, <2>2 DEF trail, LogKeepsPace, LoopIsFree
<1>9. CASE \/ \E r \in Requests, key \in Keys : Arrive(r, key)
           \/ AnswerFromCache \/ Administer
           \/ \E v \in Settings : UpdateConfig(v)
           \/ CacheLoses \/ DiskChanges \/ UNCHANGED vars
  <2>1. UNCHANGED <<serving, query>>
    BY <1>9 DEF Arrive, AnswerFromCache, Administer, UpdateConfig, CacheLoses,
                DiskChanges, vars
  <2>2. QED
    BY <2>1 DEF query, call, trail, LogKeepsPace, LoopIsFree
<1>10. QED
  BY <1>2, <1>3, <1>4, <1>5, <1>6, <1>7, <1>8, <1>9 DEF Next, Step

(* Every start of a tool has its own line, written before it: wherever a   *)
(* kill comes, what the query has started is what its lines say, but for   *)
(* one line whose tool was about to start.                                 *)
THEOREM StartsHaveTheirLines == Spec => []RunsAreLogged
<1>1. Init => LogKeepsPace
  BY DEF Init, LogKeepsPace
<1>2. Typed /\ LogKeepsPace => RunsAreLogged
  BY DEF Typed, QueryOK, LogKeepsPace, RunsAreLogged
<1>3. QED
  BY <1>1, <1>2, LogKeepsPaceNext, TypedInvariant, PTL DEF Spec
=============================================================================
