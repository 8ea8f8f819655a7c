# DevOps AI Copilot: a TLA+ model of its agent

The DevOps AI Copilot answers operators' questions by letting an LLM call
infrastructure tools. This directory holds TLA+ modules that model the parts of
it whose correctness depends on order, time, failure or shared state, the TLC
configurations that check them, and theorems about them checked by TLAPS.
`PROJECT.json` is the index: components, runs, the source lines behind every
definition, hazards, findings, theorems. Paths below are relative to the
repository.

    tlc -workers 2 -config LLMClient.cfg LLMClient      # one run
    tlapm LLMClientProofs.tla                           # one proof module

## 1. The system

| part | state it keeps | operations | interacts with |
|---|---|---|---|
| LLM client (`agent/llm_client.py`) | a circuit breaker per provider: state, failure count, time of the last failure, half-open count; a 5 s health cache | `chat` (through `_retry`: up to 3 attempts, back-off 1, 2, .. 8 s), `chat_stream`, `health` | called by the executor's LLM wrapper; calls Ollama, Vertex AI or Bedrock |
| Query cache (`agent/cache.py`) | dict of entries with expiry, default TTL, size limit | `get`, `set`, `delete`, `clear`, `cleanup_expired`, `configure_cache`, `invalidate_caches` | read and written by `Orchestrator.run`; configured and cleared by two endpoints |
| Rate limiter (`agent/main.py`) | a bucket per client address | `is_allowed` | HTTP middleware, before every request but health, metrics and docs |
| Permissions (`agent/permissions.py`) | mode, deny list, two allow lists | set mode, deny, allow, set allowed tools, `is_allowed` | changed by `/permissions/*`, consulted by every wrapped tool |
| Tool audit log (`agent/permissions.py`) | an append-only file | `audit_log`; `GET /permissions/audit-log` | written before every tool run or refusal |
| Orchestrator and API (`agent/orchestrator.py`, `agent/main.py`) | the executor, one conversation memory, the query in progress | `POST /query`, `/config`, `/cache/invalidate`, startup | everything above |
| Configuration (`agent/config.py`) | values read from the environment | `reload`, assignments by `POST /config` | read when the executor is built |
| Knowledge base (`agent/knowledge_base.py`) | ChromaDB collections, lazily opened | add, search, list, get, update, delete, count, each as a tool and most as a `/kb` endpoint | Ollama for embeddings, ChromaDB for storage |
| Audit trail (`agent/observability.py`) | a file kept open, with its buffer | `log_query`, `log_auth` | the query handler and the middleware |
| Metrics (`agent/metrics.py`) | counters and a buffer of 100 hits | `record_*` | all handlers; read by `/metrics` |
| Secrets cache (`agent/secrets.py`), OIDC (`agent/auth.py`) | per-process caches with a TTL | fetch, invalidate | credentials of a few tools; OIDC is not wired in |
| GUI (`gui/app.py`) | Streamlit session state per tab and one shared history file | ask, load, save, clear, switch session | the agent's API |
| Tools (`agent/tools/`) | none in the process; they change builds, incidents, notes and infrastructure outside | 104 functions in 18 modules | outside systems |
| Tool loading (`agent/tools/__init__.py`, `agent/orchestrator.py`) | Python's `sys.modules`, the list of tools | the registry's imports, `_load_tools` | once, when the executor is built |
| Log ingestion (`scripts/ingest_logs.py`) | a JSON-lines file | collect, append, sleep | outside systems |
| Deployment (`deploy/`) | two agent replicas, probes on `/health` | start, kill | everything in memory is per replica |

How one query goes: the middleware asks the rate limiter; the handler calls
`Orchestrator.run`, which looks in the query cache; on a miss the ReAct executor
alternates LLM calls (through retry and breaker) and tool runs (each checked
against the permissions and audited) for at most 8 iterations; the answer is
saved in the conversation memory and in the cache and is returned.

### What is hard about it

* **Concurrency.** The agent is one uvicorn process whose handlers are all
  `async def` and contain no `await`. A handler is therefore atomic on the event
  loop, a query holds the loop for all of its LLM calls, back-off sleeps and
  tools, and everything else, `/health` included, waits. That is what keeps
  permissions from changing under a query and questions from running twice; the
  classes themselves have locks as if threads called them, and the models of the
  breaker, the limiter and the cache take several callers.
* **Time.** Back-off, recovery windows, TTLs and rate windows all compare
  `time.time()` with stored instants.
* **Failure.** Providers go down in the middle of retries, streams are dropped
  half way, requests to outside systems are refused, answered late or never, a
  disk fills up between two lines or within one, Ollama disappears between two
  embeddings, and the process is killed during a tool call and loses permissions,
  cache and memory.
* **Order.** Eviction order of a dict, assignment then reload of the
  configuration, two import orders of the same modules, which of two tabs read the
  history file last, what a failed flush leaves for the next.

### What makes each part correct

* breaker: trips at its threshold whatever counted towards it, lets nobody send
  during the lockout, and never locks a client out of a healthy provider for good;
* retry: every call ends;
* limiter: refuses a client only when it has had its rate, and serves it again;
* cache: never returns anything but the latest unexpired value, stays within its
  limit, and drops live entries only if it must;
* service: a query only has effects that are permitted now, each start of a tool has
  its own line in the audit log, a cached question is not run again, every request is
  answered;
* tools: what the LLM is told was changed was changed, nothing is changed more
  often than it asked for, a note on an incident follows its change, and every call
  ends;
* tool loading: the agent has the tools of every module that can be imported;
* knowledge base: an entry is found by its present content, a search leaves nothing
  out without saying so, and callers are told the truth about adding and deleting;
* history file: overlapping saves are the only thing that loses messages, and what
  cannot be read is not written over;
* audit logs: every event at most once, in order, and lost only when the disk has
  been full for longer than the buffer lasts; a torn line costs one other at most.

## 2. Modules

| module | models | theorems |
|---|---|---|
| `CircuitBreaker` | the three methods of `CircuitBreaker`, one action per outcome | |
| `LLMClient` (extends it) | `chat` and `_retry` for any number of callers, `_ollama_stream`, the provider, time | `LLMClientProofs` |
| `RateLimiter` | `RateLimiter.is_allowed` | `RateLimiterProofs` |
| `LossyCache` | abstract: a map that may forget | |
| `TTLCache` | `TTLCache` and `configure_cache`; implements `LossyCache` | `TTLCacheProofs` |
| `Permissions` | the permission object and its operations | |
| `AgentService` (extends it, uses `LossyCache`) | one agent process: event loop, queries, endpoints, restarts | `AgentServiceProofs` |
| `ToolSteps` | the vocabulary of tools: requests, faults, what the code makes of a fault | |
| `ToolScripts` (extends it) | every tool of `agent/tools/`, as data | |
| `ToolRunner` (extends `ToolSteps`, `Permissions`) | the interpreter of such scripts against outside systems, with kills and mode changes | `ToolRunnerProofs` |
| `ToolLoading` | the imports that decide which tools the agent has | |
| `KnowledgeBase` | `agent/knowledge_base.py` with its tools and endpoints, ChromaDB and Ollama | `KnowledgeBaseProofs` |
| `ChatHistory` | the chat page of the GUI, its tabs and their shared file | `ChatHistoryProofs` |
| `AuditTrail` | the two audit logs, the disk under them and the endpoint that reads one | `AuditTrailProofs` |
| `MCTTLCache`, `MCAgentService`, `MCTools`, `MCKnowledgeBase` | symmetry sets, constant values and assumptions for TLC | |

### State and code

**LLMClient.** `state`, `failureCount`, `halfOpenCalls` are the breaker's fields.
The code compares `time.time() - _last_failure_time` only with
`recovery_timeout`, so `sinceFailure` is that age, saturated there; the failure
count is only compared with its threshold and saturates likewise. `pc[c]` is where
a caller is in `_retry`: `gate` before `can_execute`, `calling` inside `fn()`,
`sleeping` in `time.sleep`, `exhausted` before `record_failure`, `rejected` with
the `RuntimeError` of an open breaker. Each lock-protected method is one action
and calls are not atomic, so others act while a call is out. `healthy` is the
provider, which may flip at any time.

**RateLimiter.** `age` is `now - last_refill`, saturated at the window; a client
without a bucket passes the same test as one with an old bucket, so both are
`age = Per`. `granted` and `recent` are history: `recent[k][a]` is what the client was
granted in the last `a + 1` units of time, so that no sum has to be taken.

**TTLCache.** `left` is an entry's `expires_at - now`, -1 once expired; `older` is
the dict's insertion order, which assignment to a present key keeps; `Ordered`, a part
of `TypeOK`, says that it is a total order of the entries. The values a
setting may take are those the API's validation accepts: positive TTLs and limits.

**AgentService.** `asked` and `waiting` are requests the middleware has let in, in
order; `serving` holds the loop. The executor's steps are those of a tool call,
`MisunderstandReply`, `Finish` and `Fail`, with LLM calls inside them: what the LLM
replies is a free choice, and so is failure. A tool call is what `permitted_run`
does, step by step (`phase`): `CallTool` takes the verdict, `Audit` writes the line,
then `StartTool` starts the tool, which `ToolReturns` ends, or `RefuseTool` ends the
call. `Restart` may come between any two steps. `Administer` and `UpdateConfig` need
the loop free, as handlers do. The cache is the abstract `LossyCache`, which is
sound because `TTLCache` implements it; `found` is the latest lookup's result.
`memory` is the window that the prompt is built from. `setting` stands for any field
that `POST /config` assigns, `posted` for what the client was told. `log` is the
audit log's lines of the latest query that say allowed and `ran` the tools it has
started, in order; as both lie outside the process they outlive a kill. `diskOK`,
which changes at any time, says whether writing a line succeeds, and `missed` that
one could not be written. `AUDIT_ENABLED` is taken as it defaults, true. LangChain's
executor and memory are outside the repository and are modelled from how
`Orchestrator` uses them.

**ToolScripts, ToolRunner.** A tool is a record: the ways in which it refuses to
start, and a sequence of steps, each a request or a command. A step says which
change it makes outside, if any, what the code makes of each of four faults (the
system is not reached, no answer comes, an error status, a body that cannot be
parsed or is an object without the keys the tool looks for), whether it has a
timeout, whether it may be left out or repeated, and whether a failed command may
have done its work in part. The operators of `ToolScripts` bear the names of the
functions, and those that share their shape in the code (one `GET` inside one `try`)
share an operator. Many tools read such an object as one without entries, by
`.get(key, default)`, and report that there is nothing: `Defaulted`. A few do not
look at the status of a second request: `Unchecked`. `ToolRunner` interprets:
`CallTool` is the wrapper's permission test, `Succeed`, `Fault`, `SkipStep`,
`Refuse` and `Return` are the tool's own steps. `Effect` is what a fault leaves
behind in the system: of a request without an answer it may have been served
(`done`), be served later (`late`, then `Land`), or never. `Hang` is a request
without a timeout whose answer does not come, and `ProbeKill` the end that the
liveness probe makes of it, or of any call that is slow enough, since `/health`
waits behind it. `acked` counts what the LLM was told. `OneRequestPerChange`,
`NoFailureHidden`, `ReadersChangeNothing` and `StatusBeforeNote` are conditions on
scripts that the theorems assume and `MCTools` evaluates on the repository's.

**ToolLoading.** `modules` and `package` are what `sys.modules` holds, `entry`
the import of `__init__.py` that is next, `group` that of `_load_tools`. The
orders of both lists are the files'. A failed package import removes the
package and keeps its submodules, as Python does.

**KnowledgeBase.** An entry is its collection, content, title and vector; a vector
is the text it was made of and who made it, Ollama's model or the local fallback,
whose 256 numbers a collection of the other length does not take. `dims` is the
length that a collection has settled on. Each tool and each endpoint that differs
from its tool is an action of its own. `added` and `deleted` are what callers were
told. Tags, authors, dates, ranking and result limits are left out. ChromaDB is in
no requirements file of the repository: as it is built, every call answers as the
model does with `diskOK` false, and the registry that would load the tools fails
before it gets to them (`ToolLoading`), so that the endpoints are the way in.

**ChatHistory.** `shown` and `session` are a tab's `st.session_state`, `pc` where
its script is: waiting for the agent (`asking`), about to save (`reading`), holding
the list it will write (`read`, `draft`), or between truncation and write
(`truncated`). A widget that is used ends a run before its next call of Streamlit;
once the save has filtered what it read there is none, so that it is not broken off
any more. Two writers of one file overwrite each other from its start, which is why
`Write` may leave a file that does not parse. `dropped`, `stale` are history. `Kept` is the
list comprehension that filters messages by session, written as a recursive function
over the positions, which TLAPS can unfold. The
session field is taken as the code has it: after a change of it the next save
writes the old session's messages again, beside those in the file.

**AuditTrail.** Lines are numbers of events. `handle` is the logger's `_file`,
which is `os.devnull` for good once an open has failed. A Python text file keeps in
its buffer what a failed flush could not write and goes on from there at the next
one; a line for which the buffer has no room is lost. A file that ends in a piece
of a line joins the next line to it, and what comes of it is `Garbled`. The tool
log is opened and closed for each line; that path and the trail's differ, so one
file's torn end does not touch the other. `openable` and `room` change at any time.

## 3. Runs

| run | instance | shows |
|---|---|---|
| `llm_client` | 2 callers, 1 streamer, threshold 2, recovery 3, 3 attempts | types, `ClosedBelowThreshold`, `LockoutOnlyDrains`, and under fairness `CallsEnd`, `RejectionsCease` |
| `rate_limiter` | 2 clients, rate 2, window 3 | `RefusedOnlyAtTheRate`, and under fairness `NoLockout` |
| `ttl_cache` | 4 keys, 2 answers, TTLs 1 and 2, limits 1 and 3, eviction batch 2 | refinement of `LossyCache`, `GrowsOnlyToLimit`, `InsertionSparesTheLiving` |
| `agent_service` | 2 requests, 2 sessions, 1 question, 2 tools (one unclassified), 2 iterations, window 1, a disk that fails and recovers | `RunsStayPermitted`, `RunsAreLogged`, `NoDuplicateRun`, and under fairness `RequestsAnswered` |
| `tools` | one tool of each of the 46 kinds of scripts and classes, 2 changes asked for | `AcksAreReal`, `NoUnaskedRepeats`, `NotesFollowStatus`, `ReadOnlyHolds`, and under fairness `CallsEnd` |
| `knowledge_base` | 2 collections, 2 entries, 2 texts and the empty one | `VectorsMatch`, `TellsTheTruth`, `ReadsAreComplete` |
| `chat_history` | 2 tabs, 2 sessions, 3 questions, a limit of 3 messages, 1 crash or failed write | `ExchangesStayWhole`, `SavesCatchUp`, `OthersSurvive`, `UnreadableIsSpared`, and under fairness `SavesEnd` |
| `audit_trail` | 4 events, 4 tool calls, a buffer of 2 lines, the last 2 lines read back | `TrailInOrder`, `TrailComplete`, `LossesAreBounded`, `AnswersAreTheLatest` |

Each run also has its module's `TypeOK`. What these properties leave out on purpose:
`LockoutOnlyDrains` is about chat callers, since a stream never asks the breaker;
`TellsTheTruth` is about what the tools acknowledge and about additions, since the
endpoint says that an entry is deleted when it is not (section "Where the code and its
documentation disagree"); `ReadOnlyHolds` is about classified tools.

Why the bounds suffice. Threshold 2 distinguishes the first from the last failure
before the trip; recovery 3 is longer than the first back-off and than the second,
so a sleeper can wake both inside and after a lockout; two callers and a streamer
are enough for one to open the breaker under another. Two tokens and a window of
three time units let a window be partly used, used up and straddled. Four keys
against limits 3 and 1 overfill the cache, shrink its limit under its size and
leave both expired and live entries at an eviction; a batch of 2 is smaller than
the three entries that can have expired. Two requests with the same key and with
different keys meet in the service, a query can run two tools or one twice, and two
tools cover a classified one, which deletes, and an unclassified one.

Tools of one script and one class behave alike, so `MCTools` takes one of each
kind and has TLC evaluate that every tool is like one of them
(`EveryToolIsRepresented`). Two changes are enough for a request that is late from
one call to meet the next call. Two collections stand for the five: one operation
touches one collection or all of them, and a search that leaves one out needs a
second. Two entries are one to change and one that must not change with it. Two
tabs make all overlaps of two saves, three questions and a limit of three messages
cut the history within an exchange, and one fault is enough to break the file, after
which nothing is written any more. A buffer of two lines can hold, overflow and
split; four events go past it and leave one to be joined to a torn end. The theorems
below hold for every size.

Fairness. `LLMClient`: a call that has begun goes on (its HTTP request has a
timeout) and time passes; nobody has to call and the provider may stay down, and
`RejectionsCease` speaks only of runs in which it comes back for good.
`RateLimiter`: time passes. `AgentService`: the loop takes the next request, and
the executor's step is taken, because every LLM call ends (`LLMClient`) and so does
every tool (`ToolRunner`). `ToolRunner`: a request with a timeout ends, and the
kubelet does not give up probing a process that does not answer; a request without
one need never end by itself. `ChatHistory`: the GUI's request has a timeout of
300 s and file operations end. No strong fairness is assumed anywhere.

No passing run disables the deadlock check.

Every property of a passing run is paired with a bug: a definition marked `mutant`
in the module is the code with a plausible slip (a dropped guard, an off-by-one, a
missing reset), and with it in place TLC finds that property violated.
`PROJECT.json` pairs them up under `mutants`.

### Where the code and its documentation disagree

Each of these is a run that TLC ends with a counterexample; `PROJECT.json`
quotes the sentence and the line.

| run | the claim | what happens |
|---|---|---|
| `update_takes_effect` | the posted configuration is applied | the reload that follows reads the environment again |
| `read_only_changes_nothing` | only read operations in `read_only` | a tool missing from the table is a read, and `trigger_jenkins_build` is in the table under another name |
| `every_sound_group_loads` | the registry imports all tools for the orchestrator | it imports a name that `kubernetes_tool` does not bind, and 13 of 17 groups are left out |
| `rate_per_minute` | 60 requests per minute and address, in a sliding window | the request that opens a window takes no token, so 61; and as windows are fixed, the end of one and the beginning of the next admit up to 121 within a minute |

Met on the way and visible in the models without a run of their own:

* an update of an entry that leaves the title out, which the docstring of `kb_update_entry`
  offers as a way to skip it, overwrites the title with `""`;
* the tools of `nginx_tool.py` mean to answer "unable to read access log", but their
  reader has caught the error before, and three of them report a log without entries
  (`ReadLastLines`);
* half-open probes are never counted, so `half_open_max_calls` limits nothing
  (`AdmitWhenHalf`), and chat successes are never recorded, so that failures need not
  be consecutive to open the breaker (`CallSucceeds`);
* the cache described as "LRU-like" evicts by insertion, not by use (`Victims`, and
  `GetHit` leaves `older` alone);
* `read_only` mode ignores the allow list that can be set for it (`IsAllowed` reads
  `safeAllowed` only), and `DEFAULT_OPERATION_MODE` is stored and read by nobody
  (`InitPermissions`);
* one conversation memory serves all sessions (`memory`);
* an embedding of an empty text is an empty vector, which ChromaDB refuses, so that
  while Ollama is up an entry's title or tags cannot be changed without its content;
* the `/kb` endpoints acknowledge updates and deletions that have failed (`kb_update`,
  `kb_delete`), and a collection that cannot be opened is listed as empty
  (`list_entries`);
* one failed open silences the audit trail for the life of the process, and one torn
  line makes `GET /permissions/audit-log` raise until 100 others follow it
  (`Entries`);
* tools that add the answer of a second request to that of a first do not look at its
  status, or leave it out when it fails (`Unchecked`, `docker_system_info`,
  `pd_get_incident_details`), and an object without the expected keys is reported as an
  empty list (`Defaulted`);
* a history file that does not parse ends the saving of all chats until somebody
  removes it (`ReadFile`).

## 4. Proofs

All theorems hold for every value of the constants that satisfies the `ASSUME`s
of the modelling module; TLC evaluates those on every run.

* `LLMClientProofs`. `TypeOK` is inductive: the one interesting case is that a
  caller goes to sleep only with an attempt left, so that waking up keeps
  `attempt` in range. `ClosedBelowThreshold` is inductive with the breaker's
  types: only `RecordFailure` raises the count, and it trips at the threshold.
  `LockoutOnlyDrains` follows for each step, since `Admit` is disabled in OPEN
  before the recovery time.
* `RateLimiterProofs`. `TokensConserved`, that a window's grants and its tokens add up
  to `Rate + 1`, is not inductive alone: a client with
  no grant may have no window open, or its first spend would break the sum
  (`UnseenHasNoWindow`). With it and the types each action preserves the sum.
  `LimiterTypes` and `WindowBound` come from that invariant. `TwoWindows` relates it to
  the last `Per` units: of what is recent, the part since the open window began is what
  that window has granted, and the rest is one earlier window's; once no window is open,
  the last one has granted all of it. `RecentRises` (further back is more) lets a tick,
  which shifts the history by one, keep that. `RefusalsAreDeserved` follows: a window
  without tokens has granted `Rate + 1`, all of it recent. `WindowBound` and
  `SlidingIntervalBound` say by how much the documented rate, which
  `rate_per_minute` refutes, can be exceeded at most.
* `TTLCacheProofs`. Refinement of `LossyCache` through the mapping that shows an
  expired entry as absent. The invariant is `Shape`: absent entries look expired
  and lives are at least -1. A set is a `Put` that loses the evicted entries, and
  a clean-up, a deletion and a tick are `Lose` steps, of the entries removed or
  expiring. `CacheTypes` adds that `older` stays a total order: a removal restricts
  it and an insertion puts one key last. `SizeStaysLimited` counts: a set into a full
  cache evicts at least one entry (`SomethingIsEvicted`, from the order's first
  element, which a finite set has by `OneIsFirst`). `LivingAreSpared` is that first
  element being the only one lost (`FirstIsOne`).
* `AgentServiceProofs`. `Typed` is the inductive form of `TypeOK`, in five parts,
  proved part by part. `RunsStayPermitted` is inductive because no action that
  touches the permissions is enabled while a query holds the loop, except a
  restart, which ends the query. `NoDuplicateRun` needs the queue's shape: the
  request served was looked up in the step that took it, and nothing stores
  answers until it finishes. `StartsHaveTheirLines` needs `LogKeepsPace`: the lines
  are the starts, and one more exactly between `Audit` and `StartTool` of an allowed
  call; a kill there leaves that one line ahead and ends the query, so that it is never
  two.
* `ToolRunnerProofs`. The theorems speak of any set of tools whose scripts qualify:
  `NoFailureHidden` (no error of a step that changes something is passed over),
  `OneRequestPerChange`, `ReadersChangeNothing` and `StatusBeforeNote` (a note is posted
  after a request for the status that is neither left out nor passed over when it
  fails). `MCTools` has TLC evaluate that the repository's scripts do. `ReportsAreReal` strengthens `AcksAreReal`: what a
  running call has claimed so far is done beyond what has been reported before.
  `NothingUnasked` does the same for `NoUnaskedRepeats`: as long as a call is before
  its step that makes a change, that change is asked for once more than it is
  made. `ReadOnlyModeHolds` needs that the tool that runs was allowed in the mode in
  force, which holds because the mode changes only when nothing runs.
  `NotesComeSecond` counts notes sent, served or late, against statuses changed
  (`NotesArePaid`): while a call is past the one and before the other, there is one
  status more.
* `KnowledgeBaseProofs`. `KnowledgeInv` adds to `VectorsMatch` and `TellsTheTruth` the
  types of the data and `NamesAreDrawn`: an id that was said to be deleted has been
  drawn, without which a new entry could bear it again. `ReadersLeaveNothingOut` is
  inductive: a reader looks at what is there in the same step, and whatever changes
  the entries or the disk replaces the reply. `KnowledgeTypes` adds to `KnowledgeInv`
  the types of what was told and replied (`TalkTypes`), one lemma per kind of reader.
* `AuditTrailProofs`. `TrailInv` adds to `TrailComplete` that the buffer of a handle
  that is not the file is empty, and `AllPending`: as long as the file ends in what a
  former process left unfinished, this process has all of its events in the buffer, in
  order, so that the line that is joined to that piece is its first. The lemmas say
  that extending a file keeps its lines, and that a failed flush splits its lines
  between file and buffer.
  `TrailKeepsOrder` follows from an invariant about the file's lines with the buffer
  behind them (`Whole`): they rise and end at the number of events. Whatever a write
  does, it leaves a beginning of the same lines, some of them spoilt (`Spoils`).
  `ToolLogLossesAreBounded` needs the piece that a torn line leaves at the file's end
  on the account: lines missing, with 1 for the piece, are at most `2 * torn`
  (`LossInv`), since the call that the piece spoils is charged when it is torn. For
  `LatestCallsAreAnswered` the invariant is that a log without a failure is exactly
  the calls, one after another (`Unbroken`). `AuditTypes` puts the pieces together.
* `ChatHistoryProofs`. `UnreadableIsSpared` needs `BrokenByOthers`: between a save's
  read, which a broken file would have ended, and its truncation only another writer
  can break the file, and every writer makes the saves in between stale.
  `HistoryTypes` needs what is on a page when its script waits: the last message is
  the question, and it is of the tab's session (`Questions`). `ExchangesAreNeverTorn`
  carries wholeness from pages through drafts to the file (`WholeHistory`): every page
  that does not wait and every draft is whole, a page that waits is whole but for its
  last message; a filter by session keeps a list whole because an answer bears its
  question's session (`KeptStaysWhole`), and so does the cut, because it only drops
  from the front (`LatestStaysWhole`). `DraftInv` says that what is about to be written
  has all that the tab shows, and, unless the save is stale, all of the others'
  messages, unless it is at the limit; the two action properties follow at the step
  that writes and at the one that truncates.

Some of these are inductions over data, which the provers have no rule for. They are
reduced to the well-foundedness of strict inclusion on finite sets, which the library
states without an operator as a parameter: `LeastNat` (a non-empty set of naturals has
a least element, the initial segments being finite sets) and from it `Climb` (what
holds at 0 and climbs by one holds everywhere) in `ChatHistoryProofs`, where they
yield what `Kept` returns, and `OneIsFirst` in `TTLCacheProofs`.

Only model-checked: the liveness properties `CallsEnd` (twice), `RejectionsCease`,
`NoLockout`, `RequestsAnswered` and `SavesEnd` (fairness and `ENABLED` are out of the
prover's reach), and the four runs that end with a counterexample. What is data stays
with TLC as well: that the repository's scripts qualify, an assumption of `MCTools`.
Every other property of a run is a theorem.

## 5. Not modelled

* Texts and payloads: prompts, answers, log lines, the wording of tools. API key
  checks and read-only endpoints, which keep no state. The hit counters of the cache
  and `TOOL_CACHE`, which nothing reads.
* Several replicas behind the service: they share no state, so that a module of two
  would be two copies of `AgentService`; what follows is that a mode change reaches
  the one that took the request.
* `agent/secrets.py`: a dict with expiry that is read and filled within one call of a
  tool and flushed by `reload`, under the rules of `TTLCache` without its limit. A
  credential that cannot be fetched is a refusal in `ToolScripts`.
* `agent/metrics.py`: counters that are rendered as text and that no decision reads.
* `agent/auth.py` and `agent/ollama_client.py`: called by nobody in the agent; so are
  the trail's `log_tool_invoked`, `log_config_change`, `log_mode_change` and
  `trace_tool_call`, and the permission decorator.
* The GUI's other pages, which show what the endpoints answer.
* `scripts/`: `ingest_logs.py` collects, appends and sleeps in a process of its own,
  and nothing in the repository reads its file; the others format reports in CI.

## 6. What could follow

The health cache of the LLM client and the secrets cache as further instances of
`LossyCache`; two services and a load balancer, if replicas come to share a store; a
proof that retry and breaker end every call, once fairness is within the prover's
reach.
