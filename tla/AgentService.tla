---------------------------- MODULE AgentService ----------------------------
(***************************************************************************)
(* One agent process: agent/main.py and agent/orchestrator.py over the     *)
(* permissions and the query cache.                                        *)
(*                                                                         *)
(* The handlers are coroutines that never await, so the event loop runs    *)
(* them one at a time, in the order in which the middleware let their      *)
(* requests in.  A query holds the loop while the ReAct executor alternates*)
(* LLM calls and tool runs; the process may be killed at any point of it.  *)
(* The permission and configuration endpoints run between queries.  The    *)
(* rate limiter, the LLM client and the cache's own rules are in modules   *)
(* of their own: here the first two are choices, and the cache is the lossy*)
(* map that TTLCache implements.                                           *)
(***************************************************************************)
EXTENDS Permissions, Integers, Sequences

CONSTANTS
  Requests,        \* requests the process can have in hand at once
  Nobody,          \* no request
  Sessions,        \* session ids
  Questions,       \* normalised question texts
  NoKey,           \* a request not in use
  Miss,            \* None: nothing cached
  NoTool,          \* no tool is being called
  MaxIterations,   \* max_iterations of the executor (8)
  MemoryWindow,    \* k of the conversation memory (10)
  AllowedLists,    \* the lists administrators post to allowed-tools
  Settings,        \* values of a setting that POST /config can change
  EnvSetting       \* the value of its environment variable

Keys == Sessions \X Questions    \* cache keys: _question_cache_key

Answer == "answer"   \* every answer of an executor run: only its presence matters

ASSUME ServiceAssumption ==
  /\ Nobody \notin Requests
  /\ NoKey \notin Keys
  /\ NoTool \notin Tools
  /\ Miss # Answer
  /\ MaxIterations \in Nat \ {0}
  /\ MemoryWindow \in Nat \ {0}
  /\ AllowedLists \subseteq SUBSET Tools
  /\ EnvSetting \in Settings

VARIABLES
  asked,      \* the cache key of each request in hand, or NoKey
  waiting,    \* requests let in whose handler has not started, in order
  serving,    \* the request whose query holds the event loop, or Nobody
  turns,      \* ReAct iterations the query has used
  phase,      \* how far permitted_run has come, "idle" outside it
  tool,       \* the tool it was called for, or NoTool
  verdict,    \* the verdict it was given
  ran,        \* history: the tools that were started, since a query began
  log,        \* audit log: the lines since then that say a tool was allowed
  missed,     \* history: such a line could not be written
  cached,     \* QUERY_CACHE
  found,      \* result of the latest QUERY_CACHE.get
  memory,     \* what the one conversation memory shows: the last keys answered
  setting,    \* the live config
  posted,     \* history: the setting's value as clients were told it is
  diskOK      \* whether the audit log can be written

requests == <<asked, waiting>>
call == <<phase, tool, verdict>>
trail == <<ran, log, missed>>
query == <<turns, call, trail>>
store == <<cached, found>>
config == <<setting, posted>>
vars == <<permissions, requests, serving, query, store, memory, config, diskOK>>

QueryCache ==
  INSTANCE LossyCache WITH Values <- {Answer}, live <- cached, answer <- found

Queued(r) == \E i \in DOMAIN waiting : waiting[i] = r

(* A request in hand is either served or waits, in one place of the queue. *)
RequestsOK ==
  /\ asked \in [Requests -> Keys \cup {NoKey}]
  /\ waiting \in Seq(Requests)
  /\ \A i, j \in DOMAIN waiting : waiting[i] = waiting[j] => i = j
  /\ serving \in Requests \cup {Nobody}
  /\ ~Queued(serving)
  /\ \A r \in Requests : asked[r] # NoKey <=> r = serving \/ Queued(r)

TypeOK ==
  /\ PermissionTypes
  /\ RequestsOK
  /\ turns \in 0..MaxIterations
  /\ phase \in {"idle", "judged", "audited", "running"}
  /\ tool \in (IF phase = "idle" THEN {NoTool} ELSE Tools)
  /\ {verdict, missed} \subseteq BOOLEAN
  /\ {ran, log} \subseteq Seq(Tools)
  /\ cached \in [Keys -> {Answer, Miss}]
  /\ found \in {Answer, Miss}
  /\ memory \in Seq(Keys) /\ Len(memory) <= MemoryWindow
  /\ {setting, posted} \subseteq Settings
  /\ diskOK \in BOOLEAN

Init ==
  /\ InitPermissions
  /\ asked = [r \in Requests |-> NoKey]
  /\ waiting = <<>>
  /\ serving = Nobody
  /\ turns = 0
  /\ phase = "idle" /\ tool = NoTool /\ verdict = FALSE
  /\ ran = <<>> /\ log = <<>> /\ missed = FALSE
  /\ QueryCache!Init
  /\ memory = <<>>
  /\ setting = EnvSetting /\ posted = EnvSetting
  /\ diskOK = TRUE
-----------------------------------------------------------------------------
(* Requests.  The middleware lets a request in; its handler runs later.    *)
Arrive(r, key) ==
  /\ asked[r] = NoKey
  /\ asked' = [asked EXCEPT ![r] = key]
  /\ waiting' = Append(waiting, r)
  /\ UNCHANGED <<permissions, serving, query, store, memory, config, diskOK>>

LoopIsFree == serving = Nobody

(* run with the answer in the cache: the executor is not asked, and the    *)
(* conversation memory does not learn of it.                               *)
AnswerFromCache ==
  /\ LoopIsFree /\ waiting # <<>>
  /\ QueryCache!Lookup(asked[Head(waiting)])
  /\ found' # Miss
  /\ asked' = [asked EXCEPT ![Head(waiting)] = NoKey]
  /\ waiting' = Tail(waiting)
  /\ UNCHANGED <<permissions, serving, query, memory, config, diskOK>>

StartQueryUnasked ==   \* mutant: the executor is asked even on a hit
  /\ LoopIsFree /\ waiting # <<>>
  /\ QueryCache!Lookup(asked[Head(waiting)])
  /\ serving' = Head(waiting)
  /\ waiting' = Tail(waiting)
  /\ turns' = 0 /\ ran' = <<>> /\ log' = <<>> /\ missed' = FALSE
  /\ UNCHANGED <<permissions, asked, call, memory, config, diskOK>>

(* run up to the executor's invoke.                                        *)
StartQuery ==
  /\ LoopIsFree /\ waiting # <<>>
  /\ QueryCache!Lookup(asked[Head(waiting)])
  /\ found' = Miss
  /\ serving' = Head(waiting)
  /\ waiting' = Tail(waiting)
  /\ turns' = 0 /\ ran' = <<>> /\ log' = <<>> /\ missed' = FALSE
  /\ UNCHANGED <<permissions, asked, call, memory, config, diskOK>>

Thinking == ~LoopIsFree /\ phase = "idle" /\ turns < MaxIterations

(* permitted_run, in the order of its calls: a kill can come between any   *)
(* two.  First the verdict is asked for,                                   *)
CallTool(t) ==
  /\ Thinking
  /\ phase' = "judged" /\ tool' = t /\ verdict' = IsAllowed(t)
  /\ UNCHANGED <<permissions, requests, serving, turns, trail, store, memory,
                 config, diskOK>>

AuditOnce ==   \* mutant: a tool that has its line in the log gets no other
  /\ phase = "judged"
  /\ phase' = "audited"
  /\ IF verdict /\ diskOK /\ \A i \in DOMAIN log : log[i] # tool
       THEN log' = Append(log, tool) ELSE UNCHANGED log
  /\ missed' = (missed \/ (verdict /\ ~diskOK))
  /\ UNCHANGED <<permissions, requests, serving, turns, tool, verdict, ran, store,
                 memory, config, diskOK>>

(* then it is written to the audit log, if that can be written,            *)
Audit ==
  /\ phase = "judged"
  /\ phase' = "audited"
  /\ log' = IF verdict /\ diskOK THEN Append(log, tool) ELSE log
  /\ missed' = (missed \/ (verdict /\ ~diskOK))
  /\ UNCHANGED <<permissions, requests, serving, turns, tool, verdict, ran, store,
                 memory, config, diskOK>>

(* then the tool is started,                                               *)
StartTool ==
  /\ phase = "audited" /\ verdict
  /\ phase' = "running"
  /\ ran' = Append(ran, tool)
  /\ UNCHANGED <<permissions, requests, serving, turns, tool, verdict, log, missed,
                 store, memory, config, diskOK>>

CallEnds == phase' = "idle" /\ tool' = NoTool /\ verdict' = FALSE

RefuseToolFree ==   \* mutant: a refusal does not count as an iteration
  /\ phase = "audited" /\ ~verdict
  /\ CallEnds
  /\ UNCHANGED <<permissions, requests, serving, turns, trail, store, memory, config,
                 diskOK>>

(* or the refusal is what the executor hears.                              *)
RefuseTool ==
  /\ phase = "audited" /\ ~verdict
  /\ CallEnds
  /\ turns' = turns + 1
  /\ UNCHANGED <<permissions, requests, serving, trail, store, memory, config, diskOK>>

(* A reply the executor cannot parse, or that names no tool, costs a turn. *)
MisunderstandReply ==
  /\ Thinking
  /\ turns' = turns + 1
  /\ UNCHANGED <<permissions, requests, serving, call, trail, store, memory,
                 config, diskOK>>

ToolReturns ==
  /\ phase = "running"
  /\ CallEnds
  /\ turns' = turns + 1
  /\ UNCHANGED <<permissions, requests, serving, trail, store, memory, config, diskOK>>

Respond ==
  /\ asked' = [asked EXCEPT ![serving] = NoKey]
  /\ serving' = Nobody
  /\ CallEnds
  /\ UNCHANGED <<waiting, turns, trail>>

RememberAll(key) == memory' = Append(memory, key)   \* mutant: no window

(* save_context of a window memory: the oldest exchange makes room.        *)
Remember(key) ==
  memory' = IF Len(memory) < MemoryWindow THEN Append(memory, key)
            ELSE Append(Tail(memory), key)

(* The LLM's final answer, or the executor's own at the iteration limit,   *)
(* is remembered, cached and sent.                                         *)
Finish ==
  /\ ~LoopIsFree /\ phase = "idle"
  /\ Remember(asked[serving])
  /\ \E lost \in SUBSET Keys : QueryCache!Put(asked[serving], Answer, lost)
  /\ Respond
  /\ UNCHANGED <<permissions, config, diskOK>>

(* An exception of the LLM client or of a tool: run reports sources None,  *)
(* which QueryResponse rejects, so the client gets a 500.                  *)
Fail ==
  /\ Thinking \/ phase = "running"
  /\ Respond
  /\ UNCHANGED <<permissions, store, memory, config, diskOK>>

Step ==
  \/ \E t \in Tools : CallTool(t)
  \/ Audit
  \/ StartTool
  \/ RefuseTool
  \/ MisunderstandReply
  \/ ToolReturns
  \/ Finish
  \/ Fail
-----------------------------------------------------------------------------
(* The permission and configuration endpoints.                             *)
AdministerAnytime ==   \* mutant: the endpoints run in a thread of their own
  /\ \/ \E m \in Modes : SetMode(m)
     \/ \E t \in Tools : AddDenyTool(t) \/ RemoveDenyTool(t)
     \/ \E m \in Modes, allowed \in AllowedLists : SetAllowedTools(m, allowed)
  /\ UNCHANGED <<requests, serving, query, store, memory, config, diskOK>>

Administer ==
  /\ LoopIsFree
  /\ \/ \E m \in Modes : SetMode(m)
     \/ \E t \in Tools : AddDenyTool(t) \/ RemoveDenyTool(t)
     \/ \E m \in Modes, allowed \in AllowedLists : SetAllowedTools(m, allowed)
  /\ UNCHANGED <<requests, serving, query, store, memory, config, diskOK>>

(* Config.reload reads the environment again.                              *)
Reload == setting' = EnvSetting

(* update_config assigns the value and then reloads, which assigns the     *)
(* environment's value to the same object; the executor is built from that.*)
(* Its configure_cache changes the cache's settings but none of its entries*)
(* (TTLCache), and no entry is flushed.                                    *)
UpdateConfig(v) ==
  /\ LoopIsFree
  /\ Reload
  /\ posted' = v
  /\ UNCHANGED <<permissions, requests, serving, query, store, memory, diskOK>>

(* invalidate_caches, or an entry that expires.                            *)
CacheLoses ==
  /\ \E lost \in SUBSET Keys : QueryCache!Lose(lost)
  /\ UNCHANGED <<permissions, requests, serving, query, memory, config, diskOK>>

DiskChanges ==
  /\ diskOK' = ~diskOK
  /\ UNCHANGED <<permissions, requests, serving, query, store, memory, config>>

(* The process is killed and started again: nothing it held survives, only *)
(* what it has run and what is in the log.                                 *)
Restart ==
  /\ ResetPermissions
  /\ asked' = [r \in Requests |-> NoKey]
  /\ waiting' = <<>>
  /\ serving' = Nobody
  /\ turns' = 0 /\ CallEnds
  /\ cached' = [k \in Keys |-> Miss] /\ found' = Miss
  /\ memory' = <<>>
  /\ Reload /\ posted' = EnvSetting
  /\ UNCHANGED <<trail, diskOK>>

Next ==
  \/ \E r \in Requests, key \in Keys : Arrive(r, key)
  \/ AnswerFromCache
  \/ StartQuery
  \/ Step
  \/ Administer
  \/ \E v \in Settings : UpdateConfig(v)
  \/ CacheLoses
  \/ DiskChanges
  \/ Restart

Spec == Init /\ [][Next]_vars

(* The event loop takes the next request, LLM calls end (LLMClient) and so *)
(* do the calls of tools, by an answer, a timeout or the liveness probe    *)
(* (ToolRunner's CallsEnd).                                                *)
FairSpec == Spec /\ WF_vars(AnswerFromCache \/ StartQuery) /\ WF_vars(Step)
-----------------------------------------------------------------------------
(* A tool that a running query has used is one the administrators permit   *)
(* now: once a mode change or a denial is acknowledged, no query in        *)
(* progress goes on under the rules before it.                             *)
RunsStayPermitted == ~LoopIsFree => \A i \in DOMAIN ran : IsAllowed(ran[i])

(* While its lines can be written, the audit log names the tools a query   *)
(* has started, each as often as it was started and in that order; at most *)
(* one line is ahead, of the tool that is about to start or that a kill    *)
(* kept from starting.  No kill leaves a run without its line.             *)
RunsAreLogged ==
  ~missed =>
    \/ log = ran
    \/ /\ phase = "audited" \/ LoopIsFree
       /\ \E t \in Tools : log = Append(ran, t)

(* No question is put to the executor while its answer is cached: of two   *)
(* requests with the same question, the second (a client's retry) does not *)
(* run the tools again before the answer to the first has expired.         *)
NoDuplicateRun == ~LoopIsFree => cached[asked[serving]] = Miss

(* Every request is answered, or lost with the process that took it: a     *)
(* query ends, and then the next one is taken.                             *)
RequestsAnswered == \A r \in Requests : asked[r] # NoKey ~> asked[r] = NoKey

(* main.py: "Apply non-cache config to the live config object (hot-reload  *)
(* without restart)".                                                      *)
UpdateTakesEffect == setting = posted
=============================================================================
