----------------------------- MODULE ToolRunner -----------------------------
(***************************************************************************)
(* The tools at work: the agent's process runs one tool at a time, from the*)
(* permission test of orchestrator.py's wrapper to the answer that the LLM *)
(* reads, against systems that refuse, fail, answer late or never.  What   *)
(* the tools do is in Scripts (ToolScripts); this module interprets them.  *)
(* A call without a timeout holds the event loop, so /health is not served *)
(* and the liveness probe has the process killed.                          *)
(***************************************************************************)
EXTENDS ToolSteps, Permissions, Integers, Sequences

LOCAL INSTANCE FiniteSetsExt

CONSTANTS
  Scripts,      \* what each tool does
  NoCall,       \* no tool is running
  MaxAsked      \* bound: changes that are asked for in all

Steps(t) == Scripts[t].steps
Makes(t) == {Steps(t)[i].change : i \in DOMAIN Steps(t)} \cap Changes

ASSUME RunnerAssumption ==
  /\ Tools \subseteq DOMAIN Scripts
  /\ \A t \in Tools : /\ Steps(t) \in Seq(Step)
                      /\ Scripts[t].refusals \subseteq Endings
  /\ NoCall \notin Tools
  /\ MaxAsked \in Nat

(* What the proofs ask of the scripts, and MCTools finds true of the tools:*)
(* no tool makes a change in two of its steps or repeats it, no error of a *)
(* step that changes something is passed over, and what is classified as a *)
(* reader changes nothing.                                                 *)
OneRequestPerChange ==
  \A t \in Tools : \A i \in DOMAIN Steps(t) :
    Steps(t)[i].change \in Changes =>
      /\ ~Steps(t)[i].repeated
      /\ \A j \in DOMAIN Steps(t) : Steps(t)[j].change = Steps(t)[i].change => i = j

NoFailureHidden ==
  \A t \in Tools : \A i \in DOMAIN Steps(t) :
    Steps(t)[i].change \in Changes =>
      \A f \in Faults : Steps(t)[i].on[f] \cap {"ignored", "report"} = {}

ReadersChangeNothing ==
  \A t \in DOMAIN Class : Class[t] = "READ" => Makes(t) = {}

(* ... and a note is never posted but after a request for the status of the*)
(* incident that is not left out and whose failure ends the tool.          *)
StatusBeforeNote ==
  \A t \in Tools : \A i \in DOMAIN Steps(t) :
    Steps(t)[i].change = "note" =>
      \E j \in DOMAIN Steps(t) :
        /\ j < i /\ Steps(t)[j].change = "incident"
        /\ ~Steps(t)[j].optional
        /\ \A f \in Faults : Steps(t)[j].on[f] \subseteq Endings

VARIABLES
  running,   \* the tool that runs, or NoCall
  at,        \* the next step of its script
  stuck,     \* whether that step waits for an answer that never comes
  claimed,   \* the changes that this call takes for made
  asked,     \* per change: calls of tools that make it
  done,      \* per change: how often it has taken effect
  late,      \* per change: requests without an answer that may yet take effect
  acked      \* per change: reports that it has been made

call == <<running, at, stuck, claimed>>
world == <<asked, done, late, acked>>
vars == <<permissions, call, world>>

TypeOK ==
  /\ PermissionTypes
  /\ running \in Tools \cup {NoCall}
  /\ at \in Nat \ {0}
  /\ stuck \in BOOLEAN
  /\ claimed \subseteq Changes
  /\ asked \in [Changes -> Nat] /\ done \in [Changes -> Nat]
  /\ late \in [Changes -> Nat] /\ acked \in [Changes -> Nat]

Init ==
  /\ InitPermissions
  /\ running = NoCall /\ at = 1 /\ stuck = FALSE /\ claimed = {}
  /\ asked = [c \in Changes |-> 0] /\ done = [c \in Changes |-> 0]
  /\ late = [c \in Changes |-> 0] /\ acked = [c \in Changes |-> 0]
-----------------------------------------------------------------------------
Idle == running = NoCall
Current == Steps(running)[at]
Pending == ~Idle /\ ~stuck /\ at \in DOMAIN Steps(running)

Count(counter, cs) ==
  [c \in Changes |-> IF c \in cs THEN counter[c] + 1 ELSE counter[c]]

SumOver(S, counter) == MapThenSumSet(LAMBDA c : counter[c], S)

(* permitted_run passes on a tool that is allowed.                         *)
CallTool(t) ==
  /\ Idle /\ IsAllowed(t)
  /\ Cardinality(Makes(t)) + SumOver(Changes, asked) <= MaxAsked
  /\ running' = t
  /\ asked' = Count(asked, Makes(t))
  /\ UNCHANGED <<permissions, at, stuck, claimed, done, late, acked>>

EndCallAtZero ==   \* mutant: steps are counted from zero
  /\ running' = NoCall /\ at' = 0 /\ stuck' = FALSE /\ claimed' = {}

EndCall ==
  /\ running' = NoCall /\ at' = 1 /\ stuck' = FALSE /\ claimed' = {}

(* The LLM reads the tool's answer; only a report claims changes.          *)
Answer(ending, claims) ==
  /\ EndCall
  /\ acked' = IF ending = "report" THEN Count(acked, claims) ELSE acked

GoOn(claims) ==
  /\ at' = IF Current.repeated THEN at ELSE at + 1
  /\ claimed' = claims
  /\ UNCHANGED <<running, stuck, acked>>

(* A setting is missing, or an argument is wrong.                          *)
Refuse ==
  /\ Pending /\ at = 1
  /\ \E e \in Scripts[running].refusals : Answer(e, {})
  /\ UNCHANGED <<permissions, asked, done, late>>

SkipStep ==
  /\ Pending /\ Current.optional
  /\ at' = at + 1
  /\ UNCHANGED <<permissions, running, stuck, claimed, world>>

Change == {Current.change} \cap Changes
Claims == claimed \cup Change

Succeed ==
  /\ Pending
  /\ \/ Current.then \in {"more", "any"} /\ GoOn(Claims)
     \/ Current.then \in {"any", "done"} /\ Answer("report", Claims)
     \/ Current.then = "raised" /\ Answer("raised", {})
  /\ done' = Count(done, Change)
  /\ UNCHANGED <<permissions, asked, late>>

(* What a fault leaves behind: a request without an answer may have been   *)
(* served, be served later or never; a command has ended or been killed.   *)
Unserved == UNCHANGED <<done, late>>
Served == done' = Count(done, Change) /\ UNCHANGED late
ServedLate == ~Current.partial /\ late' = Count(late, Change) /\ UNCHANGED done

Effect(fault) ==
  \/ fault # "garbled" /\ Unserved
  \/ fault \in {"garbled", "lost"} /\ Served
  \/ fault = "status" /\ Current.partial /\ Served
  \/ fault = "lost" /\ ServedLate

FaultClaimed(fault, response) ==   \* mutant: what is handled counts as made
  /\ Pending
  /\ response \in Current.on[fault]
  /\ \/ response \in Endings /\ Answer(response, Claims)
     \/ response = "handled" /\ GoOn(Claims)
     \/ response = "ignored" /\ GoOn(Claims)
  /\ Effect(fault)
  /\ UNCHANGED <<permissions, asked>>

FaultRetried(fault, response) ==   \* mutant: a missed answer is asked for again
  /\ Pending
  /\ response \in Current.on[fault]
  /\ \/ fault = "lost" /\ UNCHANGED <<call, acked>>
     \/ fault # "lost" /\ response \in Endings /\ Answer(response, Claims)
     \/ fault # "lost" /\ response \notin Endings /\ GoOn(claimed)
  /\ Effect(fault)
  /\ UNCHANGED <<permissions, asked>>

FaultUnread(fault, response) ==   \* mutant: the status of an answer is not read
  /\ Pending
  /\ response \in Current.on[fault]
  /\ \/ fault = "status" /\ GoOn(claimed)
     \/ fault # "status" /\ response \in Endings /\ Answer(response, Claims)
     \/ fault # "status" /\ response \notin Endings /\ GoOn(claimed)
  /\ Effect(fault)
  /\ UNCHANGED <<permissions, asked>>

Fault(fault, response) ==
  /\ Pending
  /\ response \in Current.on[fault]
  /\ \/ response \in Endings /\ Answer(response, Claims)
     \/ response = "handled" /\ GoOn(claimed)
     \/ response = "ignored" /\ GoOn(Claims)
  /\ Effect(fault)
  /\ UNCHANGED <<permissions, asked>>

(* The tool's last step is behind it.                                      *)
Return ==
  /\ ~Idle /\ ~stuck /\ at \notin DOMAIN Steps(running)
  /\ Answer("report", claimed)
  /\ UNCHANGED <<permissions, asked, done, late>>

Advance ==
  \/ /\ Pending
     /\ \/ Refuse
        \/ SkipStep
        \/ Succeed
        \/ \E f \in Faults : \E r \in Current.on[f] : Fault(f, r)
  \/ Return

(* No answer comes and nothing gives up waiting for it.                    *)
Hang ==
  /\ Pending /\ ~Current.timed
  /\ Effect("lost")
  /\ stuck' = TRUE
  /\ UNCHANGED <<permissions, running, at, claimed, asked, acked>>

ProbeKillUnlessStuck ==   \* mutant: /health is served while a call waits
  /\ ~Idle /\ ~stuck
  /\ IF Pending THEN Effect("lost") ELSE Unserved
  /\ EndCall
  /\ ResetPermissions
  /\ UNCHANGED <<asked, acked>>

(* A call that holds the event loop for three probes of the deployment, as *)
(* terraform's two minutes do, ends with the process.                      *)
ProbeKill ==
  /\ ~Idle
  /\ IF Pending THEN Effect("lost") ELSE Unserved
  /\ EndCall
  /\ ResetPermissions
  /\ UNCHANGED <<asked, acked>>

(* A request whose caller has given up takes effect.                       *)
Land(c) ==
  /\ late[c] > 0
  /\ late' = [late EXCEPT ![c] = @ - 1]
  /\ done' = [done EXCEPT ![c] = @ + 1]
  /\ UNCHANGED <<permissions, call, asked, acked>>

ChangeModeAnytime ==   \* mutant: the endpoints run in a thread of their own
  /\ \E m \in Modes : SetMode(m)
  /\ UNCHANGED <<call, world>>

ChangeMode ==
  /\ Idle
  /\ \E m \in Modes : SetMode(m)
  /\ UNCHANGED <<call, world>>

Next ==
  \/ \E t \in Tools : CallTool(t)
  \/ Advance
  \/ Hang
  \/ ProbeKill
  \/ \E c \in Changes : Land(c)
  \/ ChangeMode

Spec == Init /\ [][Next]_vars

(* A request with a timeout ends; the kubelet does not give up probing.    *)
FairSpec == Spec /\ WF_vars(Advance \/ (stuck /\ ProbeKill))
-----------------------------------------------------------------------------
(* What the LLM is told has been changed has been changed, as often as it  *)
(* is told so.                                                             *)
AcksAreReal == \A c \in Changes : acked[c] <= done[c]

(* A system is changed no more often than the LLM has asked for it: no tool*)
(* sends a request again whose answer it has missed.                       *)
NoUnaskedRepeats == \A c \in Changes : done[c] + late[c] <= asked[c]

(* In read_only mode nothing changes by a tool that TOOL_CLASSIFICATIONS   *)
(* knows to change something, but for requests of an earlier mode that are *)
(* served late: the mode is not switched under a tool that runs.           *)
ReadOnlyHolds ==
  [][mode = "read_only" /\ done' # done
       => late' # late \/ running \notin DOMAIN Class]_vars

(* A note is added to an incident only after PagerDuty has accepted its new*)
(* status: it never stands at an incident that is still untouched.         *)
NotesFollowStatus == done["note"] + late["note"] <= done["incident"]

(* Every call ends, if only with the process.                              *)
CallsEnd == ~Idle ~> Idle

(* SETUP.md: in read_only mode there are "Only read operations".           *)
ReadOnlyChangesNothing == [][mode = "read_only" => asked' = asked]_vars
=============================================================================
